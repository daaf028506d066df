-------------------------- MODULE MeasurementMode --------------------------
(***************************************************************************)
(* scripts/env/bench_env.sh: `setup` saves the machine's settings and then *)
(* changes them, `restore` puts the saved ones back.  Both run as separate *)
(* processes on behalf of a caller, change one thing at a time, and may    *)
(* end after any step: a write the kernel refuses ends the script          *)
(* (set -e), and so does a signal.                                         *)
(***************************************************************************)
EXTENDS Machine

CONSTANTS Callers,      \* those who run the scripts
          NoFile,
          MaxFaults     \* bound: refused writes, signals and kills

VARIABLES stateFile,    \* $STATE_FILE: what setup found, and what it took offline
          irqFile,      \* $IRQ_FILE
          script,       \* each caller's setup or restore
          faults        \* how many so far

modeVars == <<stateFile, irqFile, script>>

Unknown == "?"          \* a setting the state file has no line for

\* The state file opened and not yet written.
EmptyState == [power |-> Unknown, paranoid |-> Unknown, offlined |-> {}]

SavedState == [power : {Unknown, "usual", "measuring"},
               paranoid : {Unknown, "usual", "measuring", "strict"},
               offlined : SUBSET CPU]

ASSUME NoFileAssumption ==
  /\ NoFile \notin SavedState /\ NoFile \notin {"usual", "measuring", "broken"}
  /\ MaxFaults \in Nat

SetupSteps == {"setup", "open", "save", "saveIrqs", "tune", "offline",
               "paranoid", "steer", "append", "verify"}
RestoreSteps == {"restore", "online", "irqs", "limits", "permit", "remove"}
Running == SetupSteps \cup RestoreSteps

\* What a script has in its variables: setup the siblings it will take
\* offline, restore what it has loaded.
Plan == [power : {Unknown, "usual", "measuring"},
         paranoid : {Unknown, "usual", "measuring", "strict"},
         irq : {NoFile, "usual", "measuring", "broken"},
         offlined : SUBSET CPU]
NoPlan == [power |-> Unknown, paranoid |-> Unknown, irq |-> NoFile, offlined |-> {}]

IdleScript == [at |-> "idle", plan |-> NoPlan]

Scripts == [at : Running \cup {"idle", "done", "failed"}, plan : Plan]

ModeTypeOK ==
  /\ stateFile \in SavedState \cup {NoFile}
  /\ irqFile \in {NoFile, "usual", "measuring", "broken"}
  /\ script \in [Callers -> Scripts]
  /\ faults \in 0 .. MaxFaults

ModeInit ==
  /\ stateFile = NoFile
  /\ irqFile = NoFile
  /\ script = [c \in Callers |-> IdleScript]
  /\ faults = 0

At(c, step) == script[c].at = step
Goto(c, step) == script' = [script EXCEPT ![c].at = step]
Finish(c, result) == script' = [script EXCEPT ![c] = [at |-> result, plan |-> NoPlan]]

\* The caller starts a script, and later takes its exit status.
Start(c, command) ==
  /\ ~At(c, "done") /\ ~At(c, "failed") /\ script[c].at \notin Running
  /\ Goto(c, command)
Collect(c) == Finish(c, "idle")

Tuned == [knob EXCEPT !.power = "measuring"]
Permitted == [knob EXCEPT !.paranoid = "measuring"]

------------------------------------------------------------------------------
(* setup *)

\* Refuse when the state file is there; else note which siblings are online.
SetupBegin(c) ==
  /\ At(c, "setup")
  /\ IF stateFile # NoFile
       THEN Finish(c, "failed")
       ELSE script' = [script EXCEPT ![c].at = "open",
                                     ![c].plan.offlined = online \cap Siblings]
  /\ UNCHANGED <<machine, stateFile, irqFile>>

SetupOpen(c) ==
  /\ At(c, "open")
  /\ stateFile' = EmptyState
  /\ Goto(c, "save")
  /\ UNCHANGED <<machine, irqFile>>

\* The lines go to the opened file, which may have been removed meanwhile.
SetupSave(c) ==
  /\ At(c, "save")
  /\ stateFile' = IF stateFile = NoFile THEN NoFile
                  ELSE [power |-> knob.power, paranoid |-> knob.paranoid,
                        offlined |-> script[c].plan.offlined]
  /\ Goto(c, "saveIrqs")
  /\ UNCHANGED <<machine, irqFile>>

SetupSaveIrqs(c) ==
  /\ At(c, "saveIrqs")
  /\ irqFile' = knob.irq
  /\ Goto(c, "tune")
  /\ UNCHANGED <<machine, stateFile>>

\* Governors, turbo and the minimum performance.
SetupTune(c) ==
  /\ At(c, "tune")
  /\ knob' = Tuned
  /\ Goto(c, "offline")
  /\ UNCHANGED <<online, task, births, stateFile, irqFile>>

SetupOffline(c) ==
  /\ At(c, "offline")
  /\ Offline(script[c].plan.offlined)
  /\ Goto(c, "paranoid")
  /\ UNCHANGED <<births, stateFile, irqFile>>

SetupParanoid(c) ==
  /\ At(c, "paranoid")
  /\ knob' = Permitted
  /\ Goto(c, "steer")
  /\ UNCHANGED <<online, task, births, stateFile, irqFile>>

\* Interrupts the kernel manages itself refuse to move; they are counted.
SetupSteer(c) ==
  /\ At(c, "steer")
  /\ knob' \in {knob, [knob EXCEPT !.irq = "measuring"]}
  /\ Goto(c, "append")
  /\ UNCHANGED <<online, task, births, stateFile, irqFile>>

\* What could not be moved is appended, to a new file if there is none.
SetupAppend(c) ==
  /\ At(c, "append")
  /\ stateFile' = IF stateFile = NoFile THEN EmptyState ELSE stateFile
  /\ Goto(c, "verify")
  /\ UNCHANGED <<machine, irqFile>>

Verified == knob.power = "measuring" /\ knob.paranoid = "measuring" /\ online \cap Siblings = {}

SetupVerify(c) ==
  /\ At(c, "verify")
  /\ Finish(c, IF Verified THEN "done" ELSE "failed")
  /\ UNCHANGED <<machine, stateFile, irqFile>>

Setup(c) ==
  \/ SetupBegin(c) \/ SetupOpen(c) \/ SetupSave(c) \/ SetupSaveIrqs(c)
  \/ SetupTune(c) \/ SetupOffline(c) \/ SetupParanoid(c) \/ SetupSteer(c)
  \/ SetupAppend(c) \/ SetupVerify(c)

------------------------------------------------------------------------------
(* restore *)

LoadSavedStateNoCpus ==
  [power |-> stateFile.power,
   paranoid |-> IF stateFile.paranoid = Unknown THEN "strict" ELSE stateFile.paranoid,
   irq |-> irqFile,
   offlined |-> {}]

\* What load_saved_state keeps: a missing line is dropped, except that
\* perf_event_paranoid then gets its most restrictive value.
LoadSavedState ==
  [power |-> stateFile.power,
   paranoid |-> IF stateFile.paranoid = Unknown THEN "strict" ELSE stateFile.paranoid,
   irq |-> irqFile,
   offlined |-> stateFile.offlined]

RestoreBegin(c) ==
  /\ At(c, "restore")
  /\ IF stateFile = NoFile
       THEN Finish(c, "failed")
       ELSE script' = [script EXCEPT ![c] = [at |-> "online", plan |-> LoadSavedState]]
  /\ UNCHANGED <<machine, stateFile, irqFile>>

RestoreOnline(c) ==
  /\ At(c, "online")
  /\ online' = online \cup script[c].plan.offlined
  /\ Goto(c, "irqs")
  /\ UNCHANGED <<knob, task, births, stateFile, irqFile>>

\* A refused mask is counted and restore goes on.
RestoreIrqs(c) ==
  /\ At(c, "irqs")
  /\ LET saved == script[c].plan.irq IN
     knob' = IF saved # NoFile /\ IrqAccepted(saved)
               THEN [knob EXCEPT !.irq = saved] ELSE knob
  /\ Goto(c, "limits")
  /\ UNCHANGED <<online, task, births, stateFile, irqFile>>

\* Limits, turbo and governors.
RestoreLimits(c) ==
  /\ At(c, "limits")
  /\ LET saved == script[c].plan.power IN
     knob' = IF saved = Unknown THEN knob ELSE [knob EXCEPT !.power = saved]
  /\ Goto(c, "permit")
  /\ UNCHANGED <<online, task, births, stateFile, irqFile>>

RestoreParanoid(c) ==
  /\ At(c, "permit")
  /\ knob' = [knob EXCEPT !.paranoid = script[c].plan.paranoid]
  /\ Goto(c, "remove")
  /\ UNCHANGED <<online, task, births, stateFile, irqFile>>

RestoreRemove(c) ==
  /\ At(c, "remove")
  /\ stateFile' = NoFile
  /\ irqFile' = NoFile
  /\ Finish(c, "done")
  /\ UNCHANGED machine

Restore(c) ==
  \/ RestoreBegin(c) \/ RestoreOnline(c) \/ RestoreIrqs(c)
  \/ RestoreLimits(c) \/ RestoreParanoid(c) \/ RestoreRemove(c)

------------------------------------------------------------------------------
Fault == faults < MaxFaults /\ faults' = faults + 1

\* A refused write or a signal ends a script between two of its steps.
Abort(c) ==
  /\ script[c].at \in Running
  /\ Fault
  /\ Finish(c, "failed")
  /\ UNCHANGED <<machine, stateFile, irqFile>>

ScriptStep(c) ==
  \/ (Setup(c) \/ Restore(c)) /\ UNCHANGED faults
  \/ Abort(c)

NoScriptRuns == \A c \in Callers : script[c].at \notin Running

Measuring == Verified

(***************************************************************************)
(* Whatever setup has changed and restore has not put back, the two files  *)
(* say how to put back, at every moment: a script that dies anywhere       *)
(* leaves a machine that `restore` can repair.  (A state file that was not *)
(* written to its end costs the old perf_event_paranoid, by design.)       *)
(***************************************************************************)
RestorableMachine ==
  /\ knob.power = "measuring" => stateFile # NoFile /\ stateFile.power = "usual"
  /\ knob.paranoid = "measuring" =>
       stateFile # NoFile /\ stateFile.paranoid \in {"usual", "strict"}
  /\ knob.irq # "usual" => stateFile # NoFile /\ irqFile = "usual"
  /\ online # CPU => stateFile # NoFile /\ CPU \ online \subseteq stateFile.offlined
=============================================================================
