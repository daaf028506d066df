------------------------------- MODULE Studies ------------------------------
(***************************************************************************)
(* The measurement scripts on one machine: a run of bench_record.py, a run *)
(* of bench_diagnose.py, the setup and restore they have bench_env.sh do,  *)
(* the user's tasks that come and go meanwhile, and the recovery by hand   *)
(* that the documentation prescribes after a kill.                         *)
(***************************************************************************)
EXTENDS MeasurementMode, TaskAffinity, DiagnoseReport

CONSTANT MaxStudies     \* bound: studies started

ASSUME CallersAssumption ==
  /\ Callers = {"record", "diagnose", "hand"} /\ Clients = Callers
  /\ MaxStudies \in Nat /\ ~IsBaseline(NoRecovery)

VARIABLES recorder, recorderDir,        \* bench_record.py and its directory
          diagnosis, diagnosisDir,      \* bench_diagnose.py and its directory
          hand,                         \* what the user does by hand
          started                       \* how many so far

Recording == INSTANCE RecordingSession
  WITH Me <- "record", study <- recorder, dir <- recorderDir
Diagnosing == INSTANCE DiagnosticSession
  WITH Me <- "diagnose", study <- diagnosis, dir <- diagnosisDir

vars == <<machine, modeVars, faults, scan, recorder, recorderDir, diagnosis, diagnosisDir,
          hand, started>>

TypeOK ==
  /\ MachineTypeOK /\ ModeTypeOK /\ AffinityTypeOK
  /\ Recording!StudyTypeOK /\ Diagnosing!StudyTypeOK
  /\ hand \in {"idle", "restoring", "record", "diagnose"}
  /\ started \in 0 .. MaxStudies

Init ==
  /\ MachineInit /\ ModeInit /\ AffinityInit
  /\ Recording!StudyInit /\ Diagnosing!StudyInit
  /\ hand = "idle" /\ started = 0

\* One study at a time, and none while something is done by hand.
Runs(study) == study.at \notin {"idle", "ended"}
Quiet == NoScriptRuns /\ ~Runs(recorder) /\ ~Runs(diagnosis) /\ hand = "idle"

Starts(study, prepare) ==
  /\ study.at = "idle" /\ started < MaxStudies
  /\ Quiet
  /\ started' = started + 1
  /\ prepare /\ UNCHANGED faults

RecorderStep ==
  /\ \/ Starts(recorder, Recording!Prepare)
     \/ Runs(recorder) /\ Recording!StudyStep /\ UNCHANGED started
  /\ UNCHANGED <<diagnosis, diagnosisDir, hand>>

DiagnosisStep ==
  /\ \/ Starts(diagnosis, Diagnosing!Prepare)
     \/ Runs(diagnosis) /\ Diagnosing!StudyStep /\ UNCHANGED started
  /\ UNCHANGED <<recorder, recorderDir, hand>>

ScriptMoves ==
  /\ \E c \in Callers : ScriptStep(c)
  /\ UNCHANGED <<scan, recorder, recorderDir, diagnosis, diagnosisDir, hand, started>>

\* What tasks do while nobody keeps a list of them makes no difference later.
Listed == {recorderDir.recovery, diagnosisDir.recovery} # {NoRecovery}

TasksComeAndGo ==
  /\ Listed
  /\ Fork \/ Exit
  /\ UNCHANGED <<modeVars, faults, scan, recorder, recorderDir, diagnosis, diagnosisDir, hand, started>>

------------------------------------------------------------------------------
(* After a kill: `restore` by hand, then bench_record.py --restore-affinity  *)
(* with the file that was left.                                              *)

\* The file a study has left, by the client that ran it.
LeftBy == [record |-> recorderDir.recovery, diagnose |-> diagnosisDir.recovery]

RestoreByHand ==
  /\ \/ /\ Quiet /\ stateFile # NoFile
        /\ hand' = "restoring" /\ Start("hand", "restore")
     \/ /\ hand = "restoring" /\ script["hand"].at \notin Running
        /\ hand' = "idle" /\ Collect("hand")
  /\ UNCHANGED <<machine, stateFile, irqFile, scan>>

AffinityByHand ==
  \E who \in DOMAIN LeftBy :
    /\ LeftBy[who] # NoRecovery
    /\ \/ /\ Quiet /\ stateFile = NoFile
          /\ hand' = who /\ ApplyBegin("hand")
          /\ UNCHANGED <<machine, modeVars>>
       \/ /\ hand = who /\ ApplyStep("hand", LeftBy[who], {})
          /\ UNCHANGED <<modeVars, hand>>
       \/ /\ hand = who /\ ApplyDone("hand")
          /\ hand' = "idle" /\ scan' = [scan EXCEPT !["hand"] = NoScan]
          /\ UNCHANGED <<machine, modeVars>>

HandStep ==
  /\ RestoreByHand \/ AffinityByHand
  /\ UNCHANGED <<faults, recorder, recorderDir, diagnosis, diagnosisDir, started>>

Next == RecorderStep \/ DiagnosisStep \/ ScriptMoves \/ TasksComeAndGo \/ HandStep

Spec == Init /\ [][Next]_vars

------------------------------------------------------------------------------
(* Properties.  RestorableMachine, of MeasurementMode, is checked here too. *)

\* A binary is measured only while the machine is in measurement mode: no way
\* through setup, its failure or a signal during it leads to a launch without.
LaunchesInMeasurementMode ==
  recorder.at = "launching" \/ diagnosis.at = "launching" => Measuring

\* While a binary runs in the cleared condition, no task of the baseline that
\* lets itself be moved may run on the measurement cores, whatever was pinned
\* there, was born or has ended while apply_affinity went through the tasks.
OffTheCores(base) ==
  \A t \in DOMAIN base :
    Matches(base, t) /\ ~task[t].fixed => Effective(t) \cap MeasureCPU = {}
ClearedTasksAreOff ==
  /\ recorder.at = "launching" /\ Recording!Cleared => OffTheCores(recorder.base)
  /\ diagnosis.at = "launching" /\ diagnosis.clears => OffTheCores(diagnosis.base)

\* bench_record.py says more of the cleared condition: every task of the user,
\* those born since the baseline too.
ClearedMeansEveryTask ==
  recorder.at = "launching" /\ Recording!Cleared =>
    \A t \in Live : ~task[t].fixed => Effective(t) \cap MeasureCPU = {}

\* The recovery file, the only way back after a kill, goes no earlier than the
\* tasks have the CPUs they had before setup.  bench_record.py has tried to leave
\* measurement mode by then, if it had entered it, and promises those CPUs when
\* the mode was left and its second pass had nothing left to change;
\* bench_diagnose.py always, and it keeps the file otherwise; recovery by hand
\* ends with the tasks where the file says when it had nothing to change.  A pass
\* that changes something may leave a task elsewhere: one that it looked up under
\* a number that was a process's when it was listed and another one's thread's
\* since has all CPUs.  As long as no task was born, one pass is enough.
Dropped(dir, newDir) == dir.recovery # NoRecovery /\ newDir.recovery = NoRecovery
Settled(c) == ~scan[c].changed \/ births = 0
BaselineGivenBack ==
  [][/\ Dropped(recorderDir, recorderDir') => ~recorder.entered
     /\ Dropped(recorderDir, recorderDir') /\ stateFile = NoFile /\ Settled("record") =>
          AtBaseline(recorderDir.recovery)
     /\ Dropped(diagnosisDir, diagnosisDir') =>
          stateFile = NoFile /\ AtBaseline(diagnosisDir.recovery)
     /\ hand \in DOMAIN LeftBy /\ hand' = "idle" /\ Settled("hand") => AtBaseline(LeftBy[hand])]_vars

\* However a diagnostic study ends, killed or not: without a recovery file left
\* behind a machine found at rest is at rest again, but for perf_event_paranoid,
\* which a state file not written to its end makes stricter.  (A machine that
\* bench_record.py has left in measurement mode is refused, and stays in it.)
Resting == /\ stateFile = NoFile /\ online = CPU
           /\ knob.power = "usual" /\ knob.irq = "usual" /\ knob.paranoid # "measuring"
DiagnosisLeavesNoTrace ==
  /\ diagnosis.at = "ended" /\ diagnosisDir.recovery = NoRecovery
  /\ recorder.at = "idle"
  => Resting

\* A run of bench_record.py that entered a session, was not killed and went
\* through leave() to the end, with the tasks returned and the recovery file
\* removed, has left measurement mode, or has said that it could not.
RecordingLeavesMode ==
  recorder.at = "ended" /\ recorder.session > 0 /\ ~recorder.killed
  /\ recorderDir.recovery = NoRecovery
  => ~Measuring \/ recorder.told

\* diagnose_report.py summarizes a directory only when it has every launch of
\* the design with every repetition and the recorder is done with the tasks,
\* whichever recorder wrote it, wherever it failed, was stopped or killed.
ReportAcceptsOnlyWhole ==
  \A dir \in {recorderDir, diagnosisDir} :
     Accepts(dir) => Whole(dir) /\ dir.recovery = NoRecovery

\* The log of a launch that has a row in the tables is in raw/ or in the archive,
\* also when the end comes between packing and removing, or while files are
\* removed; and of a diagnostic study that is summarized every log is read and
\* joined to its launch.
RawFilesKept ==
  /\ \A dir \in {recorderDir, diagnosisDir} :
       {row.key : row \in dir.launches} \subseteq LayoutLaunches(dir)
  /\ Accepts(diagnosisDir) =>
       LayoutsJoin(diagnosisDir) /\ LayoutLaunches(diagnosisDir) = Keys
=============================================================================
