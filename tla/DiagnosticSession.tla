-------------------------- MODULE DiagnosticSession -------------------------
(***************************************************************************)
(* scripts/record/bench_diagnose.py, one run of it: like bench_record.py,  *)
(* but a signal waits while setup or restore runs, every problem of the    *)
(* cleanup is an error that keeps the recovery file, tables are written as *)
(* the study goes on, and env.json says whether it is complete.            *)
(***************************************************************************)
EXTENDS MeasurementMode, TaskAffinity, StudyDirectory

CONSTANT Me             \* this program among Callers and Clients

VARIABLES study,        \* the program: where it is, and its DiagnosticStudy
          dir           \* its output directory

session == <<study, dir>>

Points == {"idle", "session", "noted", "setup", "cores", "warmup", "next",
           "clearing", "launching", "counting", "after", "leave", "restore", "first",
           "second", "left", "tables", "env", "pack", "purge", "ended"}

StudyTypeOK ==
  /\ study.at \in Points
  /\ study.session \in 0 .. Sessions /\ study.round \in 0 .. Rounds
  /\ study.position \in 0 .. Programs
  /\ {study.attempted, study.before, study.errors, study.pending, study.raising,
      study.complete, study.killed, study.clears, study.allows} \subseteq BOOLEAN
  /\ study.base # NoRecovery => IsBaseline(study.base)
  /\ study.rows \subseteq Rows

StudyInit ==
  /\ study = [at |-> "idle", session |-> 0, round |-> 0, position |-> 0,
              clears |-> FALSE,       \* --interference cleared
              allows |-> FALSE,       \* --allow-unmovable names those that refuse
              base |-> NoRecovery,    \* baseline
              attempted |-> FALSE,    \* setup_attempted
              before |-> FALSE,       \* the session's environment was captured
              pending |-> FALSE,      \* a signal came while a script ran
              errors |-> FALSE,       \* errors of leave()
              raising |-> FALSE, complete |-> FALSE, killed |-> FALSE,
              rows |-> {}]
  /\ dir = EmptyDirectory

InStudy(point) == study.at = point
GoTo(point) == study' = [study EXCEPT !.at = point]

\* The process is gone, and what it had in memory with it.
Gone == [study EXCEPT !.at = "ended", !.base = NoRecovery, !.rows = {}, !.round = 0, !.position = 0]

\* An exception in a session goes to its `finally`, one outside of it to main's.
Raising == [study EXCEPT !.at = "after", !.raising = TRUE]
Archiving == [study EXCEPT !.at = "tables", !.raising = TRUE]

\* checkpoint(): the tables as they are in memory.
Tables(rows) == [dir EXCEPT !.launches = LaunchTable(rows), !.samples = SampleTable(rows)]

\* The launch that `position` comes to next.
Key == <<study.session, study.round,
         ProgramAt(study.session, study.round, study.position + 1)>>

------------------------------------------------------------------------------
(* prepare(), session(), clear() *)

\* The options; then refuse a machine that is in measurement mode, or else
\* make the directory.
Prepare ==
  /\ InStudy("idle")
  /\ IF stateFile # NoFile
       THEN study' = Gone /\ UNCHANGED dir
       ELSE /\ \E clears \in BOOLEAN, allows \in BOOLEAN :
                 /\ allows => clears
                 /\ study' = [study EXCEPT !.at = "session", !.clears = clears, !.allows = allows]
            /\ dir' = [dir EXCEPT !.env = "incomplete"]
  /\ UNCHANGED <<machine, modeVars, scan>>

\* Look again, before every session; then note every task's CPUs.
BeginSession ==
  /\ InStudy("session")
  /\ IF stateFile # NoFile
       THEN study' = Archiving /\ UNCHANGED dir
       ELSE /\ study' = [study EXCEPT !.at = "noted", !.session = @ + 1, !.round = 0,
                                      !.before = FALSE, !.base = Baseline]
            /\ dir' = [dir EXCEPT !.recovery = Baseline]
  /\ UNCHANGED <<machine, modeVars, scan>>

RunSetupUnnoted ==
  /\ InStudy("noted")
  /\ GoTo("setup")
  /\ Start(Me, "setup")
  /\ UNCHANGED <<machine, stateFile, irqFile, scan, dir>>

RunSetup ==
  /\ InStudy("noted")
  /\ study' = [study EXCEPT !.at = "setup", !.attempted = TRUE]
  /\ Start(Me, "setup")
  /\ UNCHANGED <<machine, stateFile, irqFile, scan, dir>>

SetupEndsUnchecked ==
  /\ InStudy("setup") /\ (At(Me, "done") \/ At(Me, "failed"))
  /\ study' = IF study.pending THEN [Raising EXCEPT !.pending = FALSE]
              ELSE [study EXCEPT !.at = "cores"]
  /\ Collect(Me)
  /\ UNCHANGED <<machine, stateFile, irqFile, scan, dir>>

SetupEnds ==
  /\ InStudy("setup")
  /\ \/ /\ At(Me, "done") /\ ~study.pending
        /\ GoTo("cores")
     \/ /\ At(Me, "failed") \/ (At(Me, "done") /\ study.pending)
        /\ study' = [Raising EXCEPT !.pending = FALSE]
  /\ Collect(Me)
  /\ UNCHANGED <<machine, stateFile, irqFile, scan, dir>>

\* The measurement cores and the environment before, then a warm-up.
Confine ==
  /\ \/ InStudy("cores") /\ study' \in {Raising, [study EXCEPT !.at = "warmup", !.before = TRUE]}
     \/ InStudy("warmup") /\ study' \in {Raising, [study EXCEPT !.at = "next", !.round = 1,
                                                                !.position = 0]}
  /\ UNCHANGED <<machine, modeVars, scan, dir>>

\* one() notes what it is about to launch.
Launching == [dir EXCEPT !.raw = @ \cup {Command(Key, "started")}]

NextLaunch ==
  /\ InStudy("next")
  /\ LET more == study.position < Programs IN
     \/ /\ ~more
        /\ study' = IF study.round < Rounds
                      THEN [study EXCEPT !.round = @ + 1, !.position = 0]
                      ELSE [study EXCEPT !.at = "after"]
        /\ UNCHANGED <<scan, dir>>
     \/ more /\ study.clears /\ GoTo("clearing") /\ ApplyBegin(Me) /\ UNCHANGED dir
     \/ more /\ ~study.clears /\ GoTo("launching") /\ dir' = Launching /\ UNCHANGED scan
  /\ UNCHANGED <<machine, modeVars>>

\* apply_affinity in one of the three places the program calls it.
Moving ==
  /\ study.at \in {"clearing", "first", "second"}
  /\ ApplyStep(Me, study.base, IF InStudy("clearing") THEN MeasureCPU ELSE {})
  /\ UNCHANGED <<modeVars, session>>

\* Only tasks named with --allow-unmovable may have refused.
TasksCleared ==
  /\ InStudy("clearing") /\ ApplyDone(Me)
  /\ IF scan[Me].refused = {} \/ study.allows
       THEN study' = [study EXCEPT !.at = "launching"] /\ dir' = Launching
       ELSE study' = Raising /\ UNCHANGED dir
  /\ scan' = [scan EXCEPT ![Me] = NoScan]
  /\ UNCHANGED <<machine, modeVars>>

------------------------------------------------------------------------------
(* one() *)

\* The log, in any case; of a launch that ended by itself also its record, with
\* a checkpoint.
LaunchEnds ==
  /\ InStudy("launching")
  /\ \/ study' = Raising /\ dir' = [dir EXCEPT !.raw = @ \cup {Log(Key)}]
     \/ \E exit \in {0, 1} :
          LET rows == study.rows \cup {[key |-> Key, exit |-> exit, reps |-> {}]} IN
          /\ study' = [study EXCEPT !.at = "counting", !.rows = rows]
          /\ dir' = [Tables(rows) EXCEPT
                       !.raw = (@ \ {Command(Key, "started")}) \cup {Log(Key), Command(Key, "complete")}]
  /\ UNCHANGED <<machine, modeVars, scan>>

\* A failed launch, and one without any sample or without all repetitions asked
\* for, ends the study; its rows are in memory, for main's checkpoint to write.
LaunchCounted ==
  /\ InStudy("counting")
  /\ \E row \in study.rows, reps \in {{}, AllReps, AllReps \ {Repetitions - 1}} :
       /\ row.key = Key
       /\ row.exit = 1 => reps = {}
       /\ LET rows == (study.rows \ {row}) \cup {[row EXCEPT !.reps = reps]} IN
          IF reps = AllReps
            THEN /\ study' = [study EXCEPT !.at = "next", !.position = @ + 1, !.rows = rows]
                 /\ dir' = Tables(rows)
            ELSE study' = [Raising EXCEPT !.rows = rows] /\ UNCHANGED dir
  /\ UNCHANGED <<machine, modeVars, scan>>

------------------------------------------------------------------------------
(* The `finally` of a session, and leave() *)

\* The environment after is captured when there is one from before.
After ==
  /\ InStudy("after")
  /\ \/ study' = [study EXCEPT !.at = "leave"]
     \/ study.before /\ study' = [study EXCEPT !.at = "leave", !.raising = TRUE]
  /\ UNCHANGED <<machine, modeVars, scan, dir>>

Leave ==
  /\ InStudy("leave")
  /\ IF study.attempted
       THEN GoTo("restore") /\ Start(Me, "restore") /\ UNCHANGED scan
       ELSE GoTo("first") /\ ApplyBegin(Me) /\ UNCHANGED script
  /\ UNCHANGED <<machine, stateFile, irqFile, dir>>

\* With or without an error, the tasks are given their CPUs back next.
RestoreEnds ==
  /\ InStudy("restore")
  /\ \/ At(Me, "done") /\ study' = [study EXCEPT !.at = "first", !.attempted = FALSE]
     \/ At(Me, "failed") /\ study' = [study EXCEPT !.at = "first", !.errors = TRUE]
  /\ Collect(Me)
  /\ ApplyBegin(Me)
  /\ UNCHANGED <<machine, stateFile, irqFile, dir>>

PassEndsForgetful ==
  /\ ApplyDone(Me)
  /\ \/ InStudy("first") /\ GoTo("second") /\ ApplyBegin(Me) /\ UNCHANGED dir
     \/ /\ InStudy("second")
        /\ scan' = [scan EXCEPT ![Me] = NoScan]
        /\ study' = [study EXCEPT !.at = "left", !.base = NoRecovery]
        /\ dir' = [dir EXCEPT !.recovery = NoRecovery]
  /\ UNCHANGED <<machine, modeVars>>

\* What the second pass still had to change, or could not, is an error; the
\* recovery file goes when there is none.
PassEnds ==
  /\ ApplyDone(Me)
  /\ \/ InStudy("first") /\ GoTo("second") /\ ApplyBegin(Me) /\ UNCHANGED dir
     \/ /\ InStudy("second")
        /\ scan' = [scan EXCEPT ![Me] = NoScan]
        /\ LET errors == study.errors \/ scan[Me].changed \/ scan[Me].refused # {} IN
           IF errors
             THEN study' = [study EXCEPT !.at = "left", !.errors = TRUE] /\ UNCHANGED dir
             ELSE /\ study' = [study EXCEPT !.at = "left", !.base = NoRecovery]
                  /\ dir' = [dir EXCEPT !.recovery = NoRecovery]
  /\ UNCHANGED <<machine, modeVars>>

LeftOneSessionMore ==
  /\ InStudy("left")
  /\ \/ /\ study.pending \/ study.errors \/ study.raising
        /\ study' = Archiving
     \/ /\ ~study.pending /\ ~study.errors /\ ~study.raising
        /\ study' = IF study.session <= Sessions THEN [study EXCEPT !.at = "session"]
                    ELSE [study EXCEPT !.at = "tables", !.complete = TRUE]
  /\ UNCHANGED <<machine, modeVars, scan, dir>>

\* A signal that waited, an error, or what was raised before ends the study.
Left ==
  /\ InStudy("left")
  /\ \/ /\ study.pending \/ study.errors \/ study.raising
        /\ study' = Archiving
     \/ /\ ~study.pending /\ ~study.errors /\ ~study.raising
        /\ study' = IF study.session < Sessions THEN [study EXCEPT !.at = "session"]
                    ELSE [study EXCEPT !.at = "tables", !.complete = TRUE]
  /\ UNCHANGED <<machine, modeVars, scan, dir>>

------------------------------------------------------------------------------
(* archive() *)

ArchivePurgedFirst ==
  /\ \/ InStudy("tables") /\ GoTo("env") /\ dir' = Tables(study.rows)
     \/ /\ InStudy("env") /\ GoTo("pack")
        /\ dir' = [dir EXCEPT !.env = IF study.complete THEN "complete" ELSE "incomplete"]
     \/ InStudy("pack") /\ dir.raw # {} /\ UNCHANGED study /\ dir' = Removed(dir)
     \/ InStudy("pack") /\ dir.raw = {} /\ GoTo("purge") /\ UNCHANGED dir
     \/ InStudy("purge") /\ study' = Gone /\ UNCHANGED dir
  /\ UNCHANGED <<machine, modeVars, scan>>

\* raw/ is kept until the finished archive has its name.
Archive ==
  /\ \/ InStudy("tables") /\ GoTo("env") /\ dir' = Tables(study.rows)
     \/ /\ InStudy("env") /\ GoTo("pack")
        /\ dir' = [dir EXCEPT !.env = IF study.complete THEN "complete" ELSE "incomplete"]
     \/ InStudy("pack") /\ GoTo("purge") /\ dir' = [dir EXCEPT !.archive = dir.raw]
     \/ InStudy("purge") /\ dir.raw # {} /\ UNCHANGED study /\ dir' = Removed(dir)
     \/ InStudy("purge") /\ dir.raw = {} /\ study' = Gone /\ UNCHANGED dir
  /\ UNCHANGED <<machine, modeVars, scan>>

------------------------------------------------------------------------------
(* Signals and the kill *)

\* A signal waits while a script runs, and is an error of a cleanup it
\* interrupts; elsewhere it is an exception.
Interrupt ==
  /\ study.at \notin {"idle", "ended"} /\ Fault
  /\ LET next == CASE study.at \in {"setup", "restore"} -> [study EXCEPT !.pending = TRUE]
                   [] study.at \in {"first", "second"} ->
                        [study EXCEPT !.at = "left", !.errors = TRUE]
                   [] study.at \in {"session", "noted", "left"} -> Archiving
                   [] study.at = "after" -> [study EXCEPT !.at = "leave", !.raising = TRUE]
                   [] study.at = "leave" -> Archiving
                   [] study.at \in {"tables", "env", "pack", "purge"} ->
                        Gone
                   [] OTHER -> Raising
     IN  study' = next
  /\ dir' = IF InStudy("launching") THEN [dir EXCEPT !.raw = @ \cup {Log(Key)}] ELSE dir
  /\ scan' = [scan EXCEPT ![Me] = NoScan]
  /\ UNCHANGED <<machine, modeVars>>

\* A kill leaves a script that is running to itself.
Kill ==
  /\ study.at \notin {"idle", "ended"} /\ Fault
  /\ study' = [Gone EXCEPT !.killed = TRUE]
  /\ scan' = [scan EXCEPT ![Me] = NoScan]
  /\ UNCHANGED <<machine, modeVars, dir>>

Normal ==
  \/ Prepare \/ BeginSession \/ RunSetup \/ SetupEnds \/ Confine \/ NextLaunch
  \/ Moving \/ TasksCleared \/ LaunchEnds \/ LaunchCounted \/ After \/ Leave
  \/ RestoreEnds \/ PassEnds \/ Left \/ Archive
StudyStep == (Normal /\ UNCHANGED faults) \/ Interrupt \/ Kill
=============================================================================
