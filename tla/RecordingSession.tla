-------------------------- MODULE RecordingSession --------------------------
(***************************************************************************)
(* scripts/record/bench_record.py, one run of it: sessions of measurement  *)
(* mode, in each some rounds of launches under a condition, and the return *)
(* of the machine and of the user's tasks on every way out.  A failure, a  *)
(* signal (raised as SystemExit wherever the program is) and a kill may    *)
(* come between any two steps.                                             *)
(***************************************************************************)
EXTENDS MeasurementMode, TaskAffinity, StudyDirectory

CONSTANT Me             \* this program among Callers and Clients

VARIABLES study,        \* the program: where it is, and its Study object
          dir           \* its output directory

session == <<study, dir>>

Points == {"idle", "session", "setup", "cores", "next", "clearing", "launching",
           "returning", "leave", "restore", "first", "second", "reaping", "dying",
           "samples", "launches", "env", "pack", "purge", "ended"}

StudyTypeOK ==
  /\ study.at \in Points
  /\ study.session \in 0 .. Sessions /\ study.round \in 0 .. Rounds
  /\ study.position \in 0 .. Programs
  /\ {study.entered, study.raising, study.final, study.killed, study.told} \subseteq BOOLEAN
  /\ study.base # NoRecovery => IsBaseline(study.base)
  /\ study.rows \subseteq Rows

StudyInit ==
  /\ study = [at |-> "idle", session |-> 0, round |-> 0, position |-> 0,
              entered |-> FALSE,        \* this process entered measurement mode
              base |-> NoRecovery,      \* the baseline of the session in progress
              final |-> FALSE,          \* in the leave() of main
              raising |-> FALSE, killed |-> FALSE,
              told |-> FALSE,           \* "RESTORE FAILED" was logged
              rows |-> {}]
  /\ dir = EmptyDirectory

InStudy(point) == study.at = point
GoTo(point) == study' = [study EXCEPT !.at = point]

\* The process is gone, and what it had in memory with it.
Gone == [study EXCEPT !.at = "ended", !.base = NoRecovery, !.rows = {}, !.round = 0, !.position = 0]

\* An exception leaves session(), and main goes on in its own leave().
Raising == [study EXCEPT !.at = "leave", !.raising = TRUE, !.final = TRUE]

\* conditions[(r - 1 + s - 1) % 2] of shared,cleared.
Cleared == (study.round - 1 + study.session - 1) % 2 = 1

\* The launch that `position` comes to next.
Key == <<study.session, study.round,
         ProgramAt(study.session, study.round, study.position + 1)>>

------------------------------------------------------------------------------
(* prepare(), session(), one() *)

\* Refuse a machine that is in measurement mode; else make the directory.
Prepare ==
  /\ InStudy("idle")
  /\ study' = IF stateFile # NoFile THEN Gone ELSE [study EXCEPT !.at = "session"]
  /\ UNCHANGED <<machine, modeVars, scan, dir>>

\* Note every task's CPUs, also in a file, and run setup.
BeginSession ==
  /\ InStudy("session")
  /\ study' = [study EXCEPT !.at = "setup", !.session = @ + 1, !.round = 0, !.base = Baseline]
  /\ dir' = [dir EXCEPT !.recovery = Baseline]
  /\ Start(Me, "setup")
  /\ UNCHANGED <<machine, stateFile, irqFile, scan>>

SetupEnds ==
  /\ InStudy("setup")
  /\ \/ At(Me, "done") /\ study' = [study EXCEPT !.at = "cores", !.entered = TRUE]
     \/ At(Me, "failed") /\ study' = Raising
  /\ Collect(Me)
  /\ UNCHANGED <<machine, stateFile, irqFile, scan, dir>>

\* The measurement cores, the environment, and a warm-up: any may fail.
Confine ==
  /\ InStudy("cores")
  /\ study' \in {[study EXCEPT !.at = "next", !.round = 1, !.position = 0], Raising}
  /\ UNCHANGED <<machine, modeVars, scan, dir>>

\* A round is over: the next one, or leave().
NextRound == IF study.round < Rounds
               THEN [study EXCEPT !.at = "next", !.round = @ + 1, !.position = 0]
               ELSE [study EXCEPT !.at = "leave"]

\* Each launch of a round follows a clearing of the tasks when the condition
\* asks for it; after the last one the tasks are given their CPUs back.
NextLaunch ==
  /\ InStudy("next")
  /\ LET more == study.position < Programs IN
     \/ more /\ Cleared /\ GoTo("clearing") /\ ApplyBegin(Me)
     \/ more /\ ~Cleared /\ GoTo("launching") /\ UNCHANGED scan
     \/ ~more /\ Cleared /\ GoTo("returning") /\ ApplyBegin(Me)
     \/ ~more /\ ~Cleared /\ study' = NextRound /\ UNCHANGED scan
  /\ UNCHANGED <<machine, modeVars, dir>>

\* apply_affinity in one of the three places the program calls it.
Moving ==
  /\ study.at \in {"clearing", "returning", "first", "second"}
  /\ ApplyStep(Me, study.base, IF InStudy("clearing") THEN MeasureCPU ELSE {})
  /\ UNCHANGED <<modeVars, session>>

TasksCleared ==
  /\ InStudy("clearing") /\ ApplyDone(Me)
  /\ GoTo("launching")
  /\ scan' = [scan EXCEPT ![Me] = NoScan]
  /\ UNCHANGED <<machine, modeVars, dir>>

\* Unwinding through the round's `finally`.
AfterLaunchFails ==
  IF Cleared THEN /\ study' = [study EXCEPT !.at = "returning", !.raising = TRUE]
                  /\ ApplyBegin(Me)
             ELSE study' = Raising /\ UNCHANGED scan

\* The output is written, then the exit status is looked at.
Finished(reps) ==
  /\ InStudy("launching")
  /\ study' = [study EXCEPT !.at = "next", !.position = @ + 1,
                 !.rows = @ \cup {[key |-> Key, exit |-> 0, reps |-> reps]}]
  /\ dir' = [dir EXCEPT !.raw = @ \cup {Log(Key)}]
  /\ UNCHANGED <<machine, modeVars, scan>>

LaunchEnds ==
  \/ Finished(AllReps)
  \/ /\ InStudy("launching") /\ AfterLaunchFails
     /\ dir' \in {dir, [dir EXCEPT !.raw = @ \cup {Log(Key)}]}
     /\ UNCHANGED <<machine, modeVars>>

\* Repetitions that a benchmark did not run are not missed here.
LaunchEndsShort == Fault /\ Finished(AllReps \ {Repetitions - 1})

TasksReturned ==
  /\ InStudy("returning") /\ ApplyDone(Me)
  /\ study' = IF study.raising THEN Raising ELSE NextRound
  /\ scan' = [scan EXCEPT ![Me] = NoScan]
  /\ UNCHANGED <<machine, modeVars, dir>>

------------------------------------------------------------------------------
(* leave(), of a session and of main *)

LeavePassesFirst ==
  /\ InStudy("leave")
  /\ \/ study.entered /\ study.base = NoRecovery /\ GoTo("restore") /\ Start(Me, "restore") /\ UNCHANGED scan
     \/ /\ study.base # NoRecovery
        /\ GoTo("first") /\ ApplyBegin(Me) /\ UNCHANGED script
     \/ /\ ~study.entered /\ study.base = NoRecovery
        /\ study' = CASE study.final /\ study.raising -> Gone
                      [] study.final /\ ~study.raising -> [study EXCEPT !.at = "samples"]
                      [] ~study.final /\ study.session < Sessions -> [study EXCEPT !.at = "session"]
                      [] OTHER -> [study EXCEPT !.final = TRUE]
        /\ UNCHANGED <<scan, script>>
  /\ UNCHANGED <<machine, stateFile, irqFile, dir>>

Leave ==
  /\ InStudy("leave")
  /\ \/ study.entered /\ GoTo("restore") /\ Start(Me, "restore") /\ UNCHANGED scan
     \/ /\ ~study.entered /\ study.base # NoRecovery
        /\ GoTo("first") /\ ApplyBegin(Me) /\ UNCHANGED script
     \/ /\ ~study.entered /\ study.base = NoRecovery
        /\ study' = CASE study.final /\ study.raising -> Gone
                      [] study.final /\ ~study.raising -> [study EXCEPT !.at = "samples"]
                      [] ~study.final /\ study.session < Sessions -> [study EXCEPT !.at = "session"]
                      [] OTHER -> [study EXCEPT !.final = TRUE]
        /\ UNCHANGED <<scan, script>>
  /\ UNCHANGED <<machine, stateFile, irqFile, dir>>

\* A restore that failed is only logged.
RestoreEnds ==
  /\ InStudy("restore") /\ (At(Me, "done") \/ At(Me, "failed"))
  /\ study' = [study EXCEPT !.at = "leave", !.entered = FALSE,
                               !.told = @ \/ At(Me, "failed")]
  /\ Collect(Me)
  /\ UNCHANGED <<machine, stateFile, irqFile, scan, dir>>

\* The second pass counts what the first left; either way the file goes.
PassEnds ==
  /\ ApplyDone(Me)
  /\ \/ InStudy("first") /\ GoTo("second") /\ ApplyBegin(Me) /\ UNCHANGED dir
     \/ /\ InStudy("second")
        /\ study' = [study EXCEPT !.at = "leave", !.base = NoRecovery]
        /\ scan' = [scan EXCEPT ![Me] = NoScan]
        /\ dir' = [dir EXCEPT !.recovery = NoRecovery]
  /\ UNCHANGED <<machine, modeVars>>

------------------------------------------------------------------------------
(* write() *)

Write ==
  /\ \/ InStudy("samples") /\ GoTo("launches") /\ dir' = [dir EXCEPT !.samples = SampleTable(study.rows)]
     \/ InStudy("launches") /\ GoTo("env") /\ dir' = [dir EXCEPT !.launches = LaunchTable(study.rows)]
     \/ InStudy("env") /\ GoTo("pack") /\ dir' = [dir EXCEPT !.env = "plain"]
     \/ InStudy("pack") /\ GoTo("purge") /\ dir' = [dir EXCEPT !.archive = dir.raw]
     \/ InStudy("purge") /\ dir.raw # {} /\ UNCHANGED study /\ dir' = Removed(dir)
     \/ InStudy("purge") /\ dir.raw = {} /\ study' = Gone /\ UNCHANGED dir
  /\ UNCHANGED <<machine, modeVars, scan>>

------------------------------------------------------------------------------
(* Signals and the kill *)

\* While a script runs, SystemExit waits for it to end before it unwinds.
Interrupt ==
  /\ study.at \notin {"idle", "ended", "reaping", "dying"} /\ Fault
  /\ LET inRound == study.at \in {"next", "clearing", "launching"} /\ Cleared
         next == CASE study.at \in {"setup", "restore"} ->
                        [study EXCEPT !.at = IF study.final THEN "dying" ELSE "reaping"]
                   [] inRound -> [study EXCEPT !.at = "returning", !.raising = TRUE]
                   [] study.final -> Gone
                   [] OTHER -> Raising
     IN  /\ study' = next
         /\ scan' = [scan EXCEPT ![Me] = IF inRound THEN Listing ELSE NoScan]
  /\ UNCHANGED <<machine, modeVars, dir>>

Reap ==
  /\ study.at \in {"reaping", "dying"} /\ (At(Me, "done") \/ At(Me, "failed"))
  /\ study' = IF InStudy("dying") THEN Gone ELSE Raising
  /\ Collect(Me)
  /\ UNCHANGED <<machine, stateFile, irqFile, scan, dir>>

\* A kill leaves a script that is running to itself.
Kill ==
  /\ study.at \notin {"idle", "ended"} /\ Fault
  /\ study' = [Gone EXCEPT !.killed = TRUE]
  /\ scan' = [scan EXCEPT ![Me] = NoScan]
  /\ UNCHANGED <<machine, modeVars, dir>>

Normal ==
  \/ Prepare \/ BeginSession \/ SetupEnds \/ Confine \/ NextLaunch
  \/ Moving \/ TasksCleared \/ LaunchEnds \/ TasksReturned
  \/ Leave \/ RestoreEnds \/ PassEnds \/ Write \/ Reap
StudyStep == (Normal /\ UNCHANGED faults) \/ LaunchEndsShort \/ Interrupt \/ Kill
=============================================================================
