---------------------------- MODULE StudiesProofs ----------------------------
(***************************************************************************)
(* However studies end and whoever acts on the machine, it can be restored *)
(* at every moment, binaries run in measurement mode only and, when tasks  *)
(* were to be cleared, with these off the measurement cores; no report is  *)
(* made of part of a study, no log of a study is lost, and no recovery     *)
(* file goes before the tasks have their CPUs back: for any CPUs, tasks    *)
(* and designs, and any number of faults.                                  *)
(***************************************************************************)
EXTENDS Studies, MeasurementModeProofs

\* The scripts take turns: one that runs belongs to the study that runs, to
\* what is done by hand, or to a study that was killed.
Alone ==
  /\ \A c, d \in Callers : script[c].at \in Running /\ script[d].at \in Running => c = d
  /\ Runs(recorder) => /\ ~Runs(diagnosis) /\ hand = "idle"
                       /\ script["diagnose"].at \notin Running /\ script["hand"].at \notin Running
  /\ Runs(diagnosis) => /\ hand = "idle"
                        /\ script["record"].at \notin Running /\ script["hand"].at \notin Running
  /\ hand # "idle" => script["record"].at \notin Running /\ script["diagnose"].at \notin Running

\* From the end of a setup that succeeded to the restore nothing changes the mode.
InMode(c, at, points) ==
  /\ at \in points => Verified /\ script[c].at \notin Running
  /\ at = "setup" => script[c].at \in SetupSteps \cup {"done", "failed"}
  /\ at = "setup" /\ script[c].at = "done" => Verified

\* From the end of setup to leave().
RecordingPoints == {"cores", "next", "clearing", "launching", "returning"}
DiagnosisPoints == {"cores", "warmup", "next", "clearing", "launching", "counting"}

\* The study of each recorder.
RecorderInMode == "at" \in DOMAIN recorder /\ InMode("record", recorder.at, RecordingPoints)
DiagnosisInMode == "at" \in DOMAIN diagnosis /\ InMode("diagnose", diagnosis.at, DiagnosisPoints)

\* What makes RestorableMachine and LaunchesInMeasurementMode inductive.
IInv == ModeInv /\ Alone /\ RecorderInMode /\ DiagnosisInMode

------------------------------------------------------------------------------
(* bench_record.py: what each of its steps does to the scripts and to the mode. *)

\* A step that leaves the scripts alone.
LEMMA QuietCalls ==
  ASSUME ModeInv, NEW c \in Callers, UNCHANGED <<online, knob, stateFile, irqFile, script>>
  PROVE  Calls(c)
BY DEF Calls, ModeInv, ModeTypeOK

\* main: the study begins, or is refused.
LEMMA RecordingPrepare ==
  ASSUME ModeInv, RecorderInMode, Recording!Prepare
  PROVE  Calls("record") /\ RecorderInMode'
<1>1. UNCHANGED <<online, knob, stateFile, irqFile, script>>
  BY DEF Recording!Prepare, Recording!InStudy, Recording!Gone, machine, modeVars,
       Recording!machine, Recording!modeVars
<1>2. Calls("record")
  BY <1>1, QuietCalls, CallersAssumption
<1>3. RecorderInMode'
  BY <1>1 DEF RecorderInMode, InMode, Verified, Running, SetupSteps, RestoreSteps,
       RecordingPoints, Recording!Prepare, Recording!InStudy, Recording!Gone
<1> QED BY <1>2, <1>3

\* setup is started.
LEMMA RecordingBeginSession ==
  ASSUME ModeInv, RecorderInMode, Recording!BeginSession
  PROVE  Calls("record") /\ RecorderInMode'
<1>1. UNCHANGED <<online, knob, stateFile, irqFile>>
  BY DEF Recording!BeginSession, Recording!InStudy, machine, Recording!machine
<1>2. Start("record", "setup")
  BY DEF Recording!BeginSession, Recording!InStudy, At, Recording!At, Start, Goto,
       Recording!Start, Recording!Goto, Recording!NoPlan, Recording!Unknown, Recording!Running,
       Recording!SetupSteps, Recording!RestoreSteps, Running, SetupSteps, RestoreSteps
<1>3. Calls("record") /\ script'["record"].at = "setup"
  BY <1>1, <1>2, StartCalls, CallersAssumption DEF ModeInv
<1>4. RecorderInMode'
  BY <1>1, <1>3 DEF RecorderInMode, InMode, Verified, Running, SetupSteps, RestoreSteps,
       RecordingPoints, Recording!BeginSession, Recording!InStudy
<1> QED BY <1>3, <1>4

\* A setup that succeeded left the machine in measurement mode.
LEMMA RecordingSetupEnds ==
  ASSUME ModeInv, RecorderInMode, Recording!SetupEnds
  PROVE  Calls("record") /\ RecorderInMode'
<1>1. UNCHANGED <<online, knob, stateFile, irqFile>>
  BY DEF Recording!SetupEnds, Recording!InStudy, Recording!Raising, Recording!At, machine,
       Recording!machine
<1>2. Collect("record")
  BY DEF Recording!SetupEnds, Recording!InStudy, Recording!Raising, At, Recording!At, Collect,
       Finish, NoPlan, Unknown, Recording!Collect, Recording!Finish, Recording!NoPlan,
       Recording!Unknown, Recording!Running, Recording!SetupSteps, Recording!RestoreSteps,
     Running,
       SetupSteps, RestoreSteps
<1>3. Calls("record") /\ script'["record"].at = "idle"
  BY <1>1, <1>2, CollectCalls, CallersAssumption DEF ModeInv
<1>4. RecorderInMode'
  BY <1>1, <1>3 DEF RecorderInMode, InMode, Verified, Running, SetupSteps, RestoreSteps,
       RecordingPoints, Recording!SetupEnds, Recording!InStudy, Recording!Raising, Recording!At
<1> QED BY <1>3, <1>4

\* The recorder confines itself.
LEMMA RecordingConfine ==
  ASSUME ModeInv, RecorderInMode, Recording!Confine
  PROVE  Calls("record") /\ RecorderInMode'
<1>1. UNCHANGED <<online, knob, stateFile, irqFile, script>>
  BY DEF Recording!Confine, Recording!InStudy, Recording!Raising, machine, modeVars,
       Recording!machine, Recording!modeVars
<1>2. Calls("record")
  BY <1>1, QuietCalls, CallersAssumption
<1>3. RecorderInMode'
  BY <1>1 DEF RecorderInMode, InMode, Verified, Running, SetupSteps, RestoreSteps,
       RecordingPoints, Recording!Confine, Recording!InStudy, Recording!Raising
<1> QED BY <1>2, <1>3

\* The next launch of the round, or the end of the session.
LEMMA RecordingNextLaunch ==
  ASSUME ModeInv, RecorderInMode, Recording!NextLaunch
  PROVE  Calls("record") /\ RecorderInMode'
<1>1. UNCHANGED <<online, knob, stateFile, irqFile, script>>
  BY DEF Recording!NextLaunch, Recording!InStudy, Recording!GoTo, Recording!NextRound, machine,
       modeVars, Recording!machine, Recording!modeVars
<1>2. Calls("record")
  BY <1>1, QuietCalls, CallersAssumption
<1>3. RecorderInMode'
  BY <1>1 DEF RecorderInMode, InMode, Verified, Running, SetupSteps, RestoreSteps,
       RecordingPoints, Recording!NextLaunch, Recording!InStudy, Recording!GoTo,
     Recording!NextRound
<1> QED BY <1>2, <1>3

\* A task is moved.
LEMMA RecordingMoving ==
  ASSUME ModeInv, RecorderInMode, Recording!Moving
  PROVE  Calls("record") /\ RecorderInMode'
<1>1. UNCHANGED <<online, knob, stateFile, irqFile, script>>
  BY DEF Recording!Moving, Recording!InStudy, Recording!ApplyStep, Recording!ApplyProcess,
       Recording!ApplyTask, Recording!session, machine, modeVars, Recording!machine,
       Recording!modeVars
<1>2. Calls("record")
  BY <1>1, QuietCalls, CallersAssumption
<1>3. RecorderInMode'
  BY <1>1 DEF RecorderInMode, InMode, Verified, Running, SetupSteps, RestoreSteps,
       RecordingPoints, Recording!Moving, Recording!InStudy, Recording!ApplyStep,
       Recording!ApplyProcess, Recording!ApplyTask, Recording!session
<1> QED BY <1>2, <1>3

\* The measured CPUs are cleared.
LEMMA RecordingTasksCleared ==
  ASSUME ModeInv, RecorderInMode, Recording!TasksCleared
  PROVE  Calls("record") /\ RecorderInMode'
<1>1. UNCHANGED <<online, knob, stateFile, irqFile, script>>
  BY DEF Recording!TasksCleared, Recording!InStudy, Recording!GoTo, machine, modeVars,
       Recording!machine, Recording!modeVars
<1>2. Calls("record")
  BY <1>1, QuietCalls, CallersAssumption
<1>3. RecorderInMode'
  BY <1>1 DEF RecorderInMode, InMode, Verified, Running, SetupSteps, RestoreSteps,
       RecordingPoints, Recording!TasksCleared, Recording!InStudy, Recording!GoTo
<1> QED BY <1>2, <1>3

\* A launch ends.
LEMMA RecordingLaunchEnds ==
  ASSUME ModeInv, RecorderInMode, Recording!LaunchEnds
  PROVE  Calls("record") /\ RecorderInMode'
<1>1. UNCHANGED <<online, knob, stateFile, irqFile, script>>
  BY DEF Recording!LaunchEnds, Recording!InStudy, Recording!Finished,
       Recording!AfterLaunchFails, Recording!Raising, machine, modeVars, Recording!machine,
       Recording!modeVars
<1>2. Calls("record")
  BY <1>1, QuietCalls, CallersAssumption
<1>3. RecorderInMode'
  BY <1>1 DEF RecorderInMode, InMode, Verified, Running, SetupSteps, RestoreSteps,
       RecordingPoints, Recording!LaunchEnds, Recording!InStudy, Recording!Finished,
       Recording!AfterLaunchFails, Recording!Raising
<1> QED BY <1>2, <1>3

\* The tasks are given back.
LEMMA RecordingTasksReturned ==
  ASSUME ModeInv, RecorderInMode, Recording!TasksReturned
  PROVE  Calls("record") /\ RecorderInMode'
<1>1. UNCHANGED <<online, knob, stateFile, irqFile, script>>
  BY DEF Recording!TasksReturned, Recording!InStudy, Recording!Raising, Recording!NextRound,
       machine, modeVars, Recording!machine, Recording!modeVars
<1>2. Calls("record")
  BY <1>1, QuietCalls, CallersAssumption
<1>3. RecorderInMode'
  BY <1>1 DEF RecorderInMode, InMode, Verified, Running, SetupSteps, RestoreSteps,
       RecordingPoints, Recording!TasksReturned, Recording!InStudy, Recording!Raising,
       Recording!NextRound
<1> QED BY <1>2, <1>3

\* restore has ended.
LEMMA RecordingRestoreEnds ==
  ASSUME ModeInv, RecorderInMode, Recording!RestoreEnds
  PROVE  Calls("record") /\ RecorderInMode'
<1>1. UNCHANGED <<online, knob, stateFile, irqFile>>
  BY DEF Recording!RestoreEnds, Recording!InStudy, Recording!At, machine, Recording!machine
<1>2. Collect("record")
  BY DEF Recording!RestoreEnds, Recording!InStudy, At, Recording!At, Collect, Finish, NoPlan,
       Unknown, Recording!Collect, Recording!Finish, Recording!NoPlan, Recording!Unknown,
       Recording!Running, Recording!SetupSteps, Recording!RestoreSteps, Running, SetupSteps,
       RestoreSteps
<1>3. Calls("record") /\ script'["record"].at = "idle"
  BY <1>1, <1>2, CollectCalls, CallersAssumption DEF ModeInv
<1>4. RecorderInMode'
  BY <1>1, <1>3 DEF RecorderInMode, InMode, Verified, Running, SetupSteps, RestoreSteps,
       RecordingPoints, Recording!RestoreEnds, Recording!InStudy, Recording!At
<1> QED BY <1>3, <1>4

\* One pass of giving affinities back has ended.
LEMMA RecordingPassEnds ==
  ASSUME ModeInv, RecorderInMode, Recording!PassEnds
  PROVE  Calls("record") /\ RecorderInMode'
<1>1. UNCHANGED <<online, knob, stateFile, irqFile, script>>
  BY DEF Recording!PassEnds, Recording!InStudy, Recording!GoTo, machine, modeVars,
       Recording!machine, Recording!modeVars
<1>2. Calls("record")
  BY <1>1, QuietCalls, CallersAssumption
<1>3. RecorderInMode'
  BY <1>1 DEF RecorderInMode, InMode, Verified, Running, SetupSteps, RestoreSteps,
       RecordingPoints, Recording!PassEnds, Recording!InStudy, Recording!GoTo
<1> QED BY <1>2, <1>3

\* The samples are written.
LEMMA RecordingWrite ==
  ASSUME ModeInv, RecorderInMode, Recording!Write
  PROVE  Calls("record") /\ RecorderInMode'
<1>1. UNCHANGED <<online, knob, stateFile, irqFile, script>>
  BY DEF Recording!Write, Recording!InStudy, Recording!GoTo, Recording!Gone, machine, modeVars,
       Recording!machine, Recording!modeVars
<1>2. Calls("record")
  BY <1>1, QuietCalls, CallersAssumption
<1>3. RecorderInMode'
  BY <1>1 DEF RecorderInMode, InMode, Verified, Running, SetupSteps, RestoreSteps,
       RecordingPoints, Recording!Write, Recording!InStudy, Recording!GoTo, Recording!Gone
<1> QED BY <1>2, <1>3

\* An interrupted recorder takes the exit status of its script.
LEMMA RecordingReap ==
  ASSUME ModeInv, RecorderInMode, Recording!Reap
  PROVE  Calls("record") /\ RecorderInMode'
<1>1. UNCHANGED <<online, knob, stateFile, irqFile>>
  BY DEF Recording!Reap, Recording!InStudy, Recording!Gone, Recording!Raising, Recording!At,
       machine, Recording!machine
<1>2. Collect("record")
  BY DEF Recording!Reap, Recording!InStudy, Recording!Gone, Recording!Raising, At,
     Recording!At,
       Collect, Finish, NoPlan, Unknown, Recording!Collect, Recording!Finish, Recording!NoPlan,
       Recording!Unknown, Recording!Running, Recording!SetupSteps, Recording!RestoreSteps,
     Running,
       SetupSteps, RestoreSteps
<1>3. Calls("record") /\ script'["record"].at = "idle"
  BY <1>1, <1>2, CollectCalls, CallersAssumption DEF ModeInv
<1>4. RecorderInMode'
  BY <1>1, <1>3 DEF RecorderInMode, InMode, Verified, Running, SetupSteps, RestoreSteps,
       RecordingPoints, Recording!Reap, Recording!InStudy, Recording!Gone, Recording!Raising,
       Recording!At
<1> QED BY <1>3, <1>4

\* leave(): restore is started, or only affinities are given back, or neither.
LEMMA RecordingLeave ==
  ASSUME ModeInv, RecorderInMode, Recording!Leave
  PROVE  Calls("record") /\ RecorderInMode'
<1>1. UNCHANGED <<online, knob, stateFile, irqFile>> /\ recorder.at = "leave"
  BY DEF Recording!Leave, Recording!machine, Recording!InStudy
<1>2. CASE Recording!GoTo("restore") /\ Recording!Start("record", "restore")
  <2>1. Start("record", "restore")
    BY <1>2 DEF Start, At, Goto, Running, SetupSteps, RestoreSteps, Recording!Start,
         Recording!At,
       Recording!Goto, Recording!Running, Recording!SetupSteps, Recording!RestoreSteps
  <2>2. Calls("record") /\ script'["record"].at = "restore"
    BY <1>1, <2>1, StartCalls, CallersAssumption DEF ModeInv
  <2> QED BY <1>1, <1>2, <2>2 DEF RecorderInMode, InMode, Verified, RecordingPoints,
       Recording!GoTo
<1>3. CASE UNCHANGED script /\ Recording!GoTo("first")
  <2>1. Calls("record")
    BY <1>1, <1>3, QuietCalls, CallersAssumption
  <2> QED BY <1>1, <1>3, <2>1 DEF RecorderInMode, InMode, RecordingPoints, Recording!GoTo
<1>4. CASE /\ UNCHANGED script
           /\ recorder' = CASE recorder.final /\ recorder.raising -> Recording!Gone
                [] recorder.final /\ ~recorder.raising -> [recorder EXCEPT !.at = "samples"]
                [] ~recorder.final /\ recorder.session < Sessions -> [recorder EXCEPT !.at = "session"]
                [] OTHER -> [recorder EXCEPT !.final = TRUE]
  <2>1. Calls("record")
    BY <1>1, <1>4, QuietCalls, CallersAssumption
  <2>2. "at" \in DOMAIN recorder' /\ recorder'.at \in {"ended", "samples", "session", "leave"}
    BY <1>1, <1>4 DEF RecorderInMode, Recording!Gone
  <2> QED BY <2>1, <2>2 DEF RecorderInMode, InMode, RecordingPoints
<1> QED BY <1>2, <1>3, <1>4 DEF Recording!Leave

\* An interrupt arrives.
LEMMA RecordingInterrupt ==
  ASSUME ModeInv, RecorderInMode, Recording!Interrupt
  PROVE  Calls("record") /\ faults' \in 0 .. MaxFaults /\ RecorderInMode'
<1>1. UNCHANGED <<online, knob, stateFile, irqFile, script>>
  BY DEF Recording!Interrupt, Recording!machine, Recording!modeVars
<1>2. Calls("record")
  BY <1>1, QuietCalls, CallersAssumption
<1>3. faults' \in 0 .. MaxFaults
  BY NoFileAssumption DEF ModeInv, ModeTypeOK, Recording!Interrupt, Recording!Fault
<1>4. RecorderInMode'
  BY <1>1 DEF RecorderInMode, InMode, Verified, Running, SetupSteps, RestoreSteps,
       RecordingPoints, Recording!Interrupt, Recording!Gone, Recording!Raising
<1> QED BY <1>2, <1>3, <1>4

\* The recorder is killed.
LEMMA RecordingKill ==
  ASSUME ModeInv, RecorderInMode, Recording!Kill
  PROVE  Calls("record") /\ faults' \in 0 .. MaxFaults /\ RecorderInMode'
<1>1. UNCHANGED <<online, knob, stateFile, irqFile, script>>
  BY DEF Recording!Kill, Recording!machine, Recording!modeVars
<1>2. Calls("record")
  BY <1>1, QuietCalls, CallersAssumption
<1>3. faults' \in 0 .. MaxFaults
  BY NoFileAssumption DEF ModeInv, ModeTypeOK, Recording!Kill, Recording!Fault
<1>4. RecorderInMode'
  BY <1>1 DEF RecorderInMode, InMode, Verified, Running, SetupSteps, RestoreSteps,
       RecordingPoints, Recording!Kill, Recording!Gone, Recording!Raising
<1> QED BY <1>2, <1>3, <1>4

\* A launch ends before it recorded everything.
LEMMA RecordingShort ==
  ASSUME ModeInv, RecorderInMode, Recording!LaunchEndsShort
  PROVE  Calls("record") /\ faults' \in 0 .. MaxFaults /\ RecorderInMode'
<1>1. UNCHANGED <<online, knob, stateFile, irqFile, script>>
  BY DEF Recording!LaunchEndsShort, Recording!Finished, Recording!machine, Recording!modeVars
<1>2. Calls("record")
  BY <1>1, QuietCalls, CallersAssumption
<1>3. faults' \in 0 .. MaxFaults
  BY NoFileAssumption DEF ModeInv, ModeTypeOK, Recording!LaunchEndsShort, Recording!Fault
<1>4. RecorderInMode'
  BY <1>1 DEF RecorderInMode, InMode, Verified, RecordingPoints, Recording!LaunchEndsShort,
     Recording!Finished, Recording!InStudy
<1> QED BY <1>2, <1>3, <1>4

\* Every step of the recorder.
LEMMA RecordingStep ==
  ASSUME ModeInv, RecorderInMode, Recording!StudyStep
  PROVE  Calls("record") /\ faults' \in 0 .. MaxFaults /\ RecorderInMode'
<1>1. CASE Recording!Normal /\ UNCHANGED faults
  <2>1. faults' \in 0 .. MaxFaults
    BY <1>1 DEF ModeInv, ModeTypeOK
  <2> QED BY <1>1, <2>1, RecordingPrepare, RecordingBeginSession, RecordingSetupEnds,
       RecordingConfine, RecordingNextLaunch, RecordingMoving, RecordingTasksCleared,
       RecordingLaunchEnds, RecordingTasksReturned, RecordingLeave, RecordingRestoreEnds,
       RecordingPassEnds, RecordingWrite, RecordingReap
     DEF Recording!Normal
<1>2. CASE Recording!LaunchEndsShort \/ Recording!Interrupt \/ Recording!Kill
  BY <1>2, RecordingShort, RecordingInterrupt, RecordingKill
<1> QED BY <1>1, <1>2 DEF Recording!StudyStep

------------------------------------------------------------------------------
(* bench_diagnose.py, in the same way. *)

\* main: the diagnosis begins, or is refused.
LEMMA DiagnosingPrepare ==
  ASSUME ModeInv, DiagnosisInMode, Diagnosing!Prepare
  PROVE  Calls("diagnose") /\ DiagnosisInMode'
<1>1. UNCHANGED <<online, knob, stateFile, irqFile, script>>
  BY DEF Diagnosing!Prepare, Diagnosing!InStudy, Diagnosing!Gone, machine, modeVars,
       Diagnosing!machine, Diagnosing!modeVars
<1>2. Calls("diagnose")
  BY <1>1, QuietCalls, CallersAssumption
<1>3. DiagnosisInMode'
  BY <1>1 DEF DiagnosisInMode, InMode, Verified, Running, SetupSteps, RestoreSteps,
       DiagnosisPoints, Diagnosing!Prepare, Diagnosing!InStudy, Diagnosing!Gone
<1> QED BY <1>2, <1>3

\* What is to be left is noted.
LEMMA DiagnosingBeginSession ==
  ASSUME ModeInv, DiagnosisInMode, Diagnosing!BeginSession
  PROVE  Calls("diagnose") /\ DiagnosisInMode'
<1>1. UNCHANGED <<online, knob, stateFile, irqFile, script>>
  BY DEF Diagnosing!BeginSession, Diagnosing!InStudy, Diagnosing!Archiving, machine, modeVars,
       Diagnosing!machine, Diagnosing!modeVars
<1>2. Calls("diagnose")
  BY <1>1, QuietCalls, CallersAssumption
<1>3. DiagnosisInMode'
  BY <1>1 DEF DiagnosisInMode, InMode, Verified, Running, SetupSteps, RestoreSteps,
       DiagnosisPoints, Diagnosing!BeginSession, Diagnosing!InStudy, Diagnosing!Archiving
<1> QED BY <1>2, <1>3

\* setup is started.
LEMMA DiagnosingRunSetup ==
  ASSUME ModeInv, DiagnosisInMode, Diagnosing!RunSetup
  PROVE  Calls("diagnose") /\ DiagnosisInMode'
<1>1. UNCHANGED <<online, knob, stateFile, irqFile>>
  BY DEF Diagnosing!RunSetup, Diagnosing!InStudy, Diagnosing!GoTo, machine, Diagnosing!machine
<1>2. Start("diagnose", "setup")
  BY DEF Diagnosing!RunSetup, Diagnosing!InStudy, Diagnosing!GoTo, At, Diagnosing!At, Start,
       Goto, Diagnosing!Start, Diagnosing!Goto, Diagnosing!NoPlan, Diagnosing!Unknown,
       Diagnosing!Running, Diagnosing!SetupSteps, Diagnosing!RestoreSteps, Running, SetupSteps,
       RestoreSteps
<1>3. Calls("diagnose") /\ script'["diagnose"].at = "setup"
  BY <1>1, <1>2, StartCalls, CallersAssumption DEF ModeInv
<1>4. DiagnosisInMode'
  BY <1>1, <1>3 DEF DiagnosisInMode, InMode, Verified, Running, SetupSteps, RestoreSteps,
       DiagnosisPoints, Diagnosing!RunSetup, Diagnosing!InStudy, Diagnosing!GoTo
<1> QED BY <1>3, <1>4

\* A setup that succeeded left the machine in measurement mode.
LEMMA DiagnosingSetupEnds ==
  ASSUME ModeInv, DiagnosisInMode, Diagnosing!SetupEnds
  PROVE  Calls("diagnose") /\ DiagnosisInMode'
<1>1. UNCHANGED <<online, knob, stateFile, irqFile>>
  BY DEF Diagnosing!SetupEnds, Diagnosing!InStudy, Diagnosing!GoTo, Diagnosing!Raising,
       Diagnosing!At, machine, Diagnosing!machine
<1>2. Collect("diagnose")
  BY DEF Diagnosing!SetupEnds, Diagnosing!InStudy, Diagnosing!GoTo, Diagnosing!Raising, At,
       Diagnosing!At, Collect, Finish, NoPlan, Unknown, Diagnosing!Collect, Diagnosing!Finish,
       Diagnosing!NoPlan, Diagnosing!Unknown, Diagnosing!Running, Diagnosing!SetupSteps,
       Diagnosing!RestoreSteps, Running, SetupSteps, RestoreSteps
<1>3. Calls("diagnose") /\ script'["diagnose"].at = "idle"
  BY <1>1, <1>2, CollectCalls, CallersAssumption DEF ModeInv
<1>4. DiagnosisInMode'
  BY <1>1, <1>3 DEF DiagnosisInMode, InMode, Verified, Running, SetupSteps, RestoreSteps,
       DiagnosisPoints, Diagnosing!SetupEnds, Diagnosing!InStudy, Diagnosing!GoTo,
       Diagnosing!Raising, Diagnosing!At
<1> QED BY <1>3, <1>4

\* The recorder confines itself.
LEMMA DiagnosingConfine ==
  ASSUME ModeInv, DiagnosisInMode, Diagnosing!Confine
  PROVE  Calls("diagnose") /\ DiagnosisInMode'
<1>1. UNCHANGED <<online, knob, stateFile, irqFile, script>>
  BY DEF Diagnosing!Confine, Diagnosing!InStudy, Diagnosing!Raising, machine, modeVars,
       Diagnosing!machine, Diagnosing!modeVars
<1>2. Calls("diagnose")
  BY <1>1, QuietCalls, CallersAssumption
<1>3. DiagnosisInMode'
  BY <1>1 DEF DiagnosisInMode, InMode, Verified, Running, SetupSteps, RestoreSteps,
       DiagnosisPoints, Diagnosing!Confine, Diagnosing!InStudy, Diagnosing!Raising
<1> QED BY <1>2, <1>3

\* The next launch, or the end of the diagnosis.
LEMMA DiagnosingNextLaunch ==
  ASSUME ModeInv, DiagnosisInMode, Diagnosing!NextLaunch
  PROVE  Calls("diagnose") /\ DiagnosisInMode'
<1>1. UNCHANGED <<online, knob, stateFile, irqFile, script>>
  BY DEF Diagnosing!NextLaunch, Diagnosing!InStudy, Diagnosing!GoTo, machine, modeVars,
       Diagnosing!machine, Diagnosing!modeVars
<1>2. Calls("diagnose")
  BY <1>1, QuietCalls, CallersAssumption
<1>3. DiagnosisInMode'
  BY <1>1 DEF DiagnosisInMode, InMode, Verified, Running, SetupSteps, RestoreSteps,
       DiagnosisPoints, Diagnosing!NextLaunch, Diagnosing!InStudy, Diagnosing!GoTo
<1> QED BY <1>2, <1>3

\* A task is moved.
LEMMA DiagnosingMoving ==
  ASSUME ModeInv, DiagnosisInMode, Diagnosing!Moving
  PROVE  Calls("diagnose") /\ DiagnosisInMode'
<1>1. UNCHANGED <<online, knob, stateFile, irqFile, script>>
  BY DEF Diagnosing!Moving, Diagnosing!InStudy, Diagnosing!ApplyStep, Diagnosing!ApplyProcess,
       Diagnosing!ApplyTask, Diagnosing!session, machine, modeVars, Diagnosing!machine,
       Diagnosing!modeVars
<1>2. Calls("diagnose")
  BY <1>1, QuietCalls, CallersAssumption
<1>3. DiagnosisInMode'
  BY <1>1 DEF DiagnosisInMode, InMode, Verified, Running, SetupSteps, RestoreSteps,
       DiagnosisPoints, Diagnosing!Moving, Diagnosing!InStudy, Diagnosing!ApplyStep,
       Diagnosing!ApplyProcess, Diagnosing!ApplyTask, Diagnosing!session
<1> QED BY <1>2, <1>3

\* The measured CPUs are cleared.
LEMMA DiagnosingTasksCleared ==
  ASSUME ModeInv, DiagnosisInMode, Diagnosing!TasksCleared
  PROVE  Calls("diagnose") /\ DiagnosisInMode'
<1>1. UNCHANGED <<online, knob, stateFile, irqFile, script>>
  BY DEF Diagnosing!TasksCleared, Diagnosing!InStudy, Diagnosing!Raising, machine, modeVars,
       Diagnosing!machine, Diagnosing!modeVars
<1>2. Calls("diagnose")
  BY <1>1, QuietCalls, CallersAssumption
<1>3. DiagnosisInMode'
  BY <1>1 DEF DiagnosisInMode, InMode, Verified, Running, SetupSteps, RestoreSteps,
       DiagnosisPoints, Diagnosing!TasksCleared, Diagnosing!InStudy, Diagnosing!Raising
<1> QED BY <1>2, <1>3

\* A launch ends.
LEMMA DiagnosingLaunchEnds ==
  ASSUME ModeInv, DiagnosisInMode, Diagnosing!LaunchEnds
  PROVE  Calls("diagnose") /\ DiagnosisInMode'
<1>1. UNCHANGED <<online, knob, stateFile, irqFile, script>>
  BY DEF Diagnosing!LaunchEnds, Diagnosing!InStudy, Diagnosing!Raising, machine, modeVars,
       Diagnosing!machine, Diagnosing!modeVars
<1>2. Calls("diagnose")
  BY <1>1, QuietCalls, CallersAssumption
<1>3. DiagnosisInMode'
  BY <1>1 DEF DiagnosisInMode, InMode, Verified, Running, SetupSteps, RestoreSteps,
       DiagnosisPoints, Diagnosing!LaunchEnds, Diagnosing!InStudy, Diagnosing!Raising
<1> QED BY <1>2, <1>3

\* A launch is counted.
LEMMA DiagnosingLaunchCounted ==
  ASSUME ModeInv, DiagnosisInMode, Diagnosing!LaunchCounted
  PROVE  Calls("diagnose") /\ DiagnosisInMode'
<1>1. UNCHANGED <<online, knob, stateFile, irqFile, script>>
  BY DEF Diagnosing!LaunchCounted, Diagnosing!InStudy, Diagnosing!Raising, machine, modeVars,
       Diagnosing!machine, Diagnosing!modeVars
<1>2. Calls("diagnose")
  BY <1>1, QuietCalls, CallersAssumption
<1>3. DiagnosisInMode'
  BY <1>1 DEF DiagnosisInMode, InMode, Verified, Running, SetupSteps, RestoreSteps,
       DiagnosisPoints, Diagnosing!LaunchCounted, Diagnosing!InStudy, Diagnosing!Raising
<1> QED BY <1>2, <1>3

\* What follows a launch.
LEMMA DiagnosingAfter ==
  ASSUME ModeInv, DiagnosisInMode, Diagnosing!After
  PROVE  Calls("diagnose") /\ DiagnosisInMode'
<1>1. UNCHANGED <<online, knob, stateFile, irqFile, script>>
  BY DEF Diagnosing!After, Diagnosing!InStudy, machine, modeVars, Diagnosing!machine,
       Diagnosing!modeVars
<1>2. Calls("diagnose")
  BY <1>1, QuietCalls, CallersAssumption
<1>3. DiagnosisInMode'
  BY <1>1 DEF DiagnosisInMode, InMode, Verified, Running, SetupSteps, RestoreSteps,
       DiagnosisPoints, Diagnosing!After, Diagnosing!InStudy
<1> QED BY <1>2, <1>3

\* restore has ended.
LEMMA DiagnosingRestoreEnds ==
  ASSUME ModeInv, DiagnosisInMode, Diagnosing!RestoreEnds
  PROVE  Calls("diagnose") /\ DiagnosisInMode'
<1>1. UNCHANGED <<online, knob, stateFile, irqFile>>
  BY DEF Diagnosing!RestoreEnds, Diagnosing!InStudy, Diagnosing!At, machine, Diagnosing!machine
<1>2. Collect("diagnose")
  BY DEF Diagnosing!RestoreEnds, Diagnosing!InStudy, At, Diagnosing!At, Collect, Finish,
     NoPlan,
       Unknown, Diagnosing!Collect, Diagnosing!Finish, Diagnosing!NoPlan, Diagnosing!Unknown,
       Diagnosing!Running, Diagnosing!SetupSteps, Diagnosing!RestoreSteps, Running, SetupSteps,
       RestoreSteps
<1>3. Calls("diagnose") /\ script'["diagnose"].at = "idle"
  BY <1>1, <1>2, CollectCalls, CallersAssumption DEF ModeInv
<1>4. DiagnosisInMode'
  BY <1>1, <1>3 DEF DiagnosisInMode, InMode, Verified, Running, SetupSteps, RestoreSteps,
       DiagnosisPoints, Diagnosing!RestoreEnds, Diagnosing!InStudy, Diagnosing!At
<1> QED BY <1>3, <1>4

\* One pass of giving affinities back has ended.
LEMMA DiagnosingPassEnds ==
  ASSUME ModeInv, DiagnosisInMode, Diagnosing!PassEnds
  PROVE  Calls("diagnose") /\ DiagnosisInMode'
<1>1. UNCHANGED <<online, knob, stateFile, irqFile, script>>
  BY DEF Diagnosing!PassEnds, Diagnosing!InStudy, Diagnosing!GoTo, machine, modeVars,
       Diagnosing!machine, Diagnosing!modeVars
<1>2. Calls("diagnose")
  BY <1>1, QuietCalls, CallersAssumption
<1>3. DiagnosisInMode'
  BY <1>1 DEF DiagnosisInMode, InMode, Verified, Running, SetupSteps, RestoreSteps,
       DiagnosisPoints, Diagnosing!PassEnds, Diagnosing!InStudy, Diagnosing!GoTo
<1> QED BY <1>2, <1>3

\* The mode is left.
LEMMA DiagnosingLeft ==
  ASSUME ModeInv, DiagnosisInMode, Diagnosing!Left
  PROVE  Calls("diagnose") /\ DiagnosisInMode'
<1>1. UNCHANGED <<online, knob, stateFile, irqFile, script>>
  BY DEF Diagnosing!Left, Diagnosing!InStudy, Diagnosing!Archiving, machine, modeVars,
       Diagnosing!machine, Diagnosing!modeVars
<1>2. Calls("diagnose")
  BY <1>1, QuietCalls, CallersAssumption
<1>3. DiagnosisInMode'
  BY <1>1 DEF DiagnosisInMode, InMode, Verified, Running, SetupSteps, RestoreSteps,
       DiagnosisPoints, Diagnosing!Left, Diagnosing!InStudy, Diagnosing!Archiving
<1> QED BY <1>2, <1>3

\* The files are archived.
LEMMA DiagnosingArchive ==
  ASSUME ModeInv, DiagnosisInMode, Diagnosing!Archive
  PROVE  Calls("diagnose") /\ DiagnosisInMode'
<1>1. UNCHANGED <<online, knob, stateFile, irqFile, script>>
  BY DEF Diagnosing!Archive, Diagnosing!InStudy, Diagnosing!GoTo, Diagnosing!Gone, machine,
       modeVars, Diagnosing!machine, Diagnosing!modeVars
<1>2. Calls("diagnose")
  BY <1>1, QuietCalls, CallersAssumption
<1>3. DiagnosisInMode'
  BY <1>1 DEF DiagnosisInMode, InMode, Verified, Running, SetupSteps, RestoreSteps,
       DiagnosisPoints, Diagnosing!Archive, Diagnosing!InStudy, Diagnosing!GoTo,
     Diagnosing!Gone
<1> QED BY <1>2, <1>3

\* leave(): restore is started, or only affinities are given back.
LEMMA DiagnosingLeave ==
  ASSUME ModeInv, DiagnosisInMode, Diagnosing!Leave
  PROVE  Calls("diagnose") /\ DiagnosisInMode'
<1>1. UNCHANGED <<online, knob, stateFile, irqFile>> /\ diagnosis.at = "leave"
  BY DEF Diagnosing!Leave, Diagnosing!machine, Diagnosing!InStudy
<1>2. CASE Diagnosing!GoTo("restore") /\ Diagnosing!Start("diagnose", "restore")
  <2>1. Start("diagnose", "restore")
    BY <1>2 DEF Start, At, Goto, Running, SetupSteps, RestoreSteps, Diagnosing!Start,
         Diagnosing!At,
       Diagnosing!Goto, Diagnosing!Running, Diagnosing!SetupSteps, Diagnosing!RestoreSteps
  <2>2. Calls("diagnose") /\ script'["diagnose"].at = "restore"
    BY <1>1, <2>1, StartCalls, CallersAssumption DEF ModeInv
  <2> QED BY <1>1, <1>2, <2>2 DEF DiagnosisInMode, InMode, Verified, DiagnosisPoints,
       Diagnosing!GoTo
<1>3. CASE UNCHANGED script /\ Diagnosing!GoTo("first")
  <2>1. Calls("diagnose")
    BY <1>1, <1>3, QuietCalls, CallersAssumption
  <2> QED BY <1>1, <1>3, <2>1 DEF DiagnosisInMode, InMode, DiagnosisPoints, Diagnosing!GoTo
<1> QED BY <1>2, <1>3 DEF Diagnosing!Leave

\* An interrupt arrives.
LEMMA DiagnosingInterrupt ==
  ASSUME ModeInv, DiagnosisInMode, Diagnosing!Interrupt
  PROVE  Calls("diagnose") /\ faults' \in 0 .. MaxFaults /\ DiagnosisInMode'
<1>1. UNCHANGED <<online, knob, stateFile, irqFile, script>>
  BY DEF Diagnosing!Interrupt, Diagnosing!machine, Diagnosing!modeVars
<1>2. Calls("diagnose")
  BY <1>1, QuietCalls, CallersAssumption
<1>3. faults' \in 0 .. MaxFaults
  BY NoFileAssumption DEF ModeInv, ModeTypeOK, Diagnosing!Interrupt, Diagnosing!Fault
<1>4. DiagnosisInMode'
  BY <1>1 DEF DiagnosisInMode, InMode, Verified, Running, SetupSteps, RestoreSteps,
       DiagnosisPoints, Diagnosing!Interrupt, Diagnosing!Gone, Diagnosing!Raising,
       Diagnosing!Archiving
<1> QED BY <1>2, <1>3, <1>4

\* The recorder is killed.
LEMMA DiagnosingKill ==
  ASSUME ModeInv, DiagnosisInMode, Diagnosing!Kill
  PROVE  Calls("diagnose") /\ faults' \in 0 .. MaxFaults /\ DiagnosisInMode'
<1>1. UNCHANGED <<online, knob, stateFile, irqFile, script>>
  BY DEF Diagnosing!Kill, Diagnosing!machine, Diagnosing!modeVars
<1>2. Calls("diagnose")
  BY <1>1, QuietCalls, CallersAssumption
<1>3. faults' \in 0 .. MaxFaults
  BY NoFileAssumption DEF ModeInv, ModeTypeOK, Diagnosing!Kill, Diagnosing!Fault
<1>4. DiagnosisInMode'
  BY <1>1 DEF DiagnosisInMode, InMode, Verified, Running, SetupSteps, RestoreSteps,
       DiagnosisPoints, Diagnosing!Kill, Diagnosing!Gone, Diagnosing!Raising,
     Diagnosing!Archiving
<1> QED BY <1>2, <1>3, <1>4

\* Every step of the recorder.
LEMMA DiagnosingStep ==
  ASSUME ModeInv, DiagnosisInMode, Diagnosing!StudyStep
  PROVE  Calls("diagnose") /\ faults' \in 0 .. MaxFaults /\ DiagnosisInMode'
<1>1. CASE Diagnosing!Normal /\ UNCHANGED faults
  <2>1. faults' \in 0 .. MaxFaults
    BY <1>1 DEF ModeInv, ModeTypeOK
  <2> QED BY <1>1, <2>1, DiagnosingPrepare, DiagnosingBeginSession, DiagnosingRunSetup,
       DiagnosingSetupEnds, DiagnosingConfine, DiagnosingNextLaunch, DiagnosingMoving,
       DiagnosingTasksCleared, DiagnosingLaunchEnds, DiagnosingLaunchCounted, DiagnosingAfter,
       DiagnosingLeave, DiagnosingRestoreEnds, DiagnosingPassEnds, DiagnosingLeft,
       DiagnosingArchive
     DEF Diagnosing!Normal
<1>2. CASE Diagnosing!Interrupt \/ Diagnosing!Kill
  BY <1>2, DiagnosingInterrupt, DiagnosingKill
<1> QED BY <1>1, <1>2 DEF Diagnosing!StudyStep

------------------------------------------------------------------------------
(* The system: whoever moves, the others' scripts do not run. *)

\* Before anything is started.
LEMMA InitInvariant == Init => IInv
<1> SUFFICES ASSUME Init PROVE IInv
  OBVIOUS
<1>1. \A c \in Callers : script[c] = IdleScript
  BY DEF Init, ModeInit
<1>2. ModeInv
  <2>1. IdleScript \in Scripts
    BY DEF IdleScript, NoPlan, Plan, Scripts, Unknown
  <2>2. ModeTypeOK /\ online \subseteq CPU /\ knob \in KnobValues
    BY <2>1, NoFileAssumption DEF Init, MachineInit, ModeInit, ModeTypeOK, KnobValues
  <2>3. RestorableMachine /\ FilesSound
    BY DEF Init, MachineInit, ModeInit, RestorableMachine, FilesSound, Untouched
  <2>4. \A c \in Callers : SetupUnderWay(c) /\ RestoreUnderWay(c)
    BY <1>1 DEF SetupUnderWay, RestoreUnderWay, IdleScript, Saving, Changing, RestoreSteps
  <2> QED BY <2>2, <2>3, <2>4 DEF ModeInv
<1>3. Alone
  BY <1>1, CallersAssumption DEF Alone, Init, Runs, Recording!StudyInit, Diagnosing!StudyInit,
     IdleScript, Running, SetupSteps, RestoreSteps
<1>4. RecorderInMode /\ DiagnosisInMode
  BY DEF Init, Recording!StudyInit, Diagnosing!StudyInit, RecorderInMode, DiagnosisInMode,
       InMode,
     RecordingPoints, DiagnosisPoints
<1> QED BY <1>2, <1>3, <1>4 DEF IInv

\* bench_record.py acts when nobody else does.
LEMMA RecorderKeeps ==
  ASSUME IInv, RecorderStep
  PROVE  IInv'
<1>1. /\ Calls("record") /\ faults' \in 0 .. MaxFaults /\ RecorderInMode'
      /\ UNCHANGED <<diagnosis, hand>>
      /\ ~Runs(diagnosis) /\ hand = "idle"
      /\ script["diagnose"].at \notin Running /\ script["hand"].at \notin Running
  <2>1. CASE Starts(recorder, Recording!Prepare)
    BY <2>1, RecordingPrepare, CallersAssumption
       DEF RecorderStep, Starts, Quiet, NoScriptRuns, IInv, ModeInv, ModeTypeOK
  <2>2. CASE Runs(recorder) /\ Recording!StudyStep
    BY <2>2, RecordingStep DEF RecorderStep, IInv, Alone
  <2> QED BY <2>1, <2>2 DEF RecorderStep
<1>2. ModeInv'
  BY <1>1, CallsKeep, CallersAssumption DEF IInv
<1>3. script'["diagnose"] = script["diagnose"] /\ script'["hand"] = script["hand"]
  BY <1>1, CallersAssumption DEF Calls
<1>4. Alone'
  BY <1>1, <1>3, CallersAssumption DEF Alone, Runs
<1>5. DiagnosisInMode'
  BY <1>1, <1>3 DEF IInv, DiagnosisInMode, InMode, Verified, Calls
<1> QED BY <1>1, <1>2, <1>4, <1>5 DEF IInv

\* bench_diagnose.py acts when nobody else does.
LEMMA DiagnosisKeeps ==
  ASSUME IInv, DiagnosisStep
  PROVE  IInv'
<1>1. /\ Calls("diagnose") /\ faults' \in 0 .. MaxFaults /\ DiagnosisInMode'
      /\ UNCHANGED <<recorder, hand>>
      /\ ~Runs(recorder) /\ hand = "idle"
      /\ script["record"].at \notin Running /\ script["hand"].at \notin Running
  <2>1. CASE Starts(diagnosis, Diagnosing!Prepare)
    BY <2>1, DiagnosingPrepare, CallersAssumption
       DEF DiagnosisStep, Starts, Quiet, NoScriptRuns, IInv, ModeInv, ModeTypeOK
  <2>2. CASE Runs(diagnosis) /\ Diagnosing!StudyStep
    BY <2>2, DiagnosingStep DEF DiagnosisStep, IInv, Alone
  <2> QED BY <2>1, <2>2 DEF DiagnosisStep
<1>2. ModeInv'
  BY <1>1, CallsKeep, CallersAssumption DEF IInv
<1>3. script'["record"] = script["record"] /\ script'["hand"] = script["hand"]
  BY <1>1, CallersAssumption DEF Calls
<1>4. Alone'
  BY <1>1, <1>3, CallersAssumption DEF Alone, Runs
<1>5. RecorderInMode'
  BY <1>1, <1>3 DEF IInv, RecorderInMode, InMode, Verified, Calls
<1> QED BY <1>1, <1>2, <1>4, <1>5 DEF IInv

\* A step of a script is one of a script that runs, and setup ends well in
\* measurement mode only.
LEMMA ScriptMovesOn ==
  ASSUME ModeInv, NEW c \in Callers, ScriptStep(c)
  PROVE  /\ script[c].at \in Running
         /\ \A d \in Callers \ {c} : script'[d] = script[d]
         /\ script[c].at \in SetupSteps =>
              /\ script'[c].at \in SetupSteps \cup {"done", "failed"}
              /\ script'[c].at = "done" => Verified'
<1> USE DEF ModeInv, ModeTypeOK, Scripts, At
<1>1. CASE SetupVerify(c)
  <2>1. UNCHANGED <<online, knob>> /\ script[c].at = "verify"
    BY <1>1 DEF SetupVerify, machine
  <2>2. CASE Verified
    BY <1>1, <2>1, <2>2 DEF SetupVerify, Finish, Verified, Running, SetupSteps
  <2>3. CASE ~Verified
    BY <1>1, <2>1, <2>3 DEF SetupVerify, Finish, Verified, Running, SetupSteps
  <2> QED BY <2>2, <2>3
<1>2. CASE SetupBegin(c)
  BY <1>2 DEF SetupBegin, Finish, Running, SetupSteps
<1>3. CASE \/ SetupOpen(c) \/ SetupSave(c) \/ SetupSaveIrqs(c) \/ SetupTune(c) \/ SetupOffline(c)
           \/ SetupParanoid(c) \/ SetupSteer(c) \/ SetupAppend(c)
  BY <1>3 DEF SetupOpen, SetupSave, SetupSaveIrqs, SetupTune, SetupOffline, SetupParanoid,
     SetupSteer, SetupAppend, Goto, Running, SetupSteps
<1>4. CASE Restore(c)
  BY <1>4 DEF Restore, RestoreBegin, RestoreOnline, RestoreIrqs, RestoreLimits,
     RestoreParanoid,
     RestoreRemove, Goto, Finish, Running, SetupSteps, RestoreSteps
<1>5. CASE Abort(c)
  BY <1>5 DEF Abort, Finish, SetupSteps
<1> QED BY <1>1, <1>2, <1>3, <1>4, <1>5 DEF ScriptStep, Setup

\* A script that runs, runs alone, and the study that waits for it sees how it ended.
LEMMA ScriptKeeps ==
  ASSUME IInv, ScriptMoves
  PROVE  IInv'
<1>1. PICK c \in Callers : ScriptStep(c)
  BY DEF ScriptMoves
<1>2. /\ script[c].at \in Running
      /\ \A d \in Callers \ {c} : script'[d] = script[d]
      /\ script[c].at \in SetupSteps =>
           /\ script'[c].at \in SetupSteps \cup {"done", "failed"}
           /\ script'[c].at = "done" => Verified'
  BY <1>1, ScriptMovesOn DEF IInv
<1>3. Sole(c)
  BY <1>2 DEF Sole, IInv, Alone
<1>4. ModeInv'
  BY <1>1, <1>3, ScriptStepKeeps DEF IInv
<1>5. UNCHANGED <<recorder, diagnosis, hand>>
  BY DEF ScriptMoves
<1>6. Alone'
  BY <1>2, <1>3, <1>5, CallersAssumption DEF IInv, Alone, Sole, Runs
<1>7. RecorderInMode'
  <2>1. CASE c = "record"
    BY <1>2, <1>5, <2>1 DEF IInv, RecorderInMode, InMode, Running, SetupSteps, RestoreSteps
  <2>2. CASE c # "record"
    <3>1. ~Runs(recorder)
      BY <1>2, <2>2, CallersAssumption DEF IInv, Alone
    <3> QED BY <1>5, <3>1 DEF IInv, RecorderInMode, InMode, RecordingPoints, Runs
  <2> QED BY <2>1, <2>2
<1>8. DiagnosisInMode'
  <2>1. CASE c = "diagnose"
    BY <1>2, <1>5, <2>1 DEF IInv, DiagnosisInMode, InMode, Running, SetupSteps, RestoreSteps
  <2>2. CASE c # "diagnose"
    <3>1. ~Runs(diagnosis)
      BY <1>2, <2>2, CallersAssumption DEF IInv, Alone
    <3> QED BY <1>5, <3>1 DEF IInv, DiagnosisInMode, InMode, DiagnosisPoints, Runs
  <2> QED BY <2>1, <2>2
<1> QED BY <1>4, <1>6, <1>7, <1>8 DEF IInv

\* Tasks that come and go change neither settings nor CPUs.
LEMMA TasksKeep ==
  ASSUME IInv, TasksComeAndGo
  PROVE  IInv'
<1>1. UNCHANGED <<online, knob, stateFile, irqFile, script, faults, recorder, diagnosis, hand>>
  BY DEF TasksComeAndGo, Fork, Exit, modeVars
<1> QED BY <1>1 DEF IInv, ModeInv, ModeTypeOK, RestorableMachine, FilesSound, Untouched,
       SetupUnderWay, RestoreUnderWay, Alone, Runs, RecorderInMode, DiagnosisInMode, InMode,
     Verified

\* By hand nothing is begun beside a script or a study.
LEMMA HandKeeps ==
  ASSUME IInv, HandStep
  PROVE  IInv'
<1>1. UNCHANGED <<faults, recorder, diagnosis>>
  BY DEF HandStep
<1>2. /\ Calls("hand")
      /\ \/ hand = "idle" /\ Quiet
         \/ hand # "idle" /\ hand' \in {hand, "idle"} /\ script'["hand"].at \in {script["hand"].at, "idle"}
  <2>1. CASE Quiet /\ Start("hand", "restore") /\ UNCHANGED <<machine, stateFile, irqFile>>
    BY <2>1, StartCalls, CallersAssumption DEF machine, Quiet, IInv, ModeInv
  <2>2. CASE /\ hand = "restoring" /\ hand' = "idle" /\ Collect("hand")
             /\ UNCHANGED <<machine, stateFile, irqFile>>
    BY <2>2, CollectCalls, CallersAssumption DEF machine, IInv, ModeInv
  <2>3. CASE AffinityByHand
    <3>1. UNCHANGED <<online, knob, stateFile, irqFile, script>>
      BY <2>3 DEF AffinityByHand, ApplyStep, ApplyProcess, ApplyTask, machine, modeVars
    <3>2. Calls("hand")
      BY <3>1, QuietCalls, CallersAssumption DEF IInv
    <3>3. \/ hand = "idle" /\ Quiet
          \/ hand # "idle" /\ hand' \in {hand, "idle"}
      BY <2>3 DEF AffinityByHand, Quiet, LeftBy
    <3> QED BY <3>1, <3>2, <3>3
  <2> QED BY <2>1, <2>2, <2>3 DEF HandStep, RestoreByHand
<1>3. ModeInv'
  BY <1>1, <1>2, CallsKeep, CallersAssumption DEF IInv, ModeInv, ModeTypeOK
<1>4. script'["record"] = script["record"] /\ script'["diagnose"] = script["diagnose"]
  BY <1>2, CallersAssumption DEF Calls
<1>5. Alone'
  <2>1. CASE hand = "idle" /\ Quiet
    BY <1>1, <1>4, <2>1, CallersAssumption DEF Alone, Runs, Quiet, NoScriptRuns
  <2>2. CASE /\ hand # "idle" /\ hand' \in {hand, "idle"}
             /\ script'["hand"].at \in {script["hand"].at, "idle"}
    <3>1. "idle" \notin Running
      BY DEF Running, SetupSteps, RestoreSteps
    <3> QED BY <1>1, <1>4, <2>2, <3>1, CallersAssumption DEF IInv, Alone, Runs
  <2> QED BY <1>2, <2>1, <2>2
<1>6. RecorderInMode' /\ DiagnosisInMode'
  BY <1>1, <1>2, <1>4 DEF IInv, RecorderInMode, DiagnosisInMode, InMode, Verified, Calls
<1> QED BY <1>3, <1>5, <1>6 DEF IInv

\* Whoever moves.
LEMMA StepInvariant == IInv /\ [Next]_vars => IInv'
<1> SUFFICES ASSUME IInv, [Next]_vars PROVE IInv'
  OBVIOUS
<1>1. CASE Next
  BY <1>1, RecorderKeeps, DiagnosisKeeps, ScriptKeeps, TasksKeep, HandKeeps DEF Next
<1>2. CASE UNCHANGED vars
  BY <1>2 DEF vars, machine, modeVars, IInv, ModeInv, ModeTypeOK, RestorableMachine,
     FilesSound,
     Untouched, SetupUnderWay, RestoreUnderWay, Alone, Runs, RecorderInMode, DiagnosisInMode,
     InMode, Verified
<1> QED BY <1>1, <1>2

\* The invariant holds of every behaviour.
LEMMA Invariance == Spec => []IInv
<1>1. Init => IInv
  BY InitInvariant
<1>2. IInv /\ [Next]_vars => IInv'
  BY StepInvariant
<1> QED BY <1>1, <1>2, PTL DEF Spec

\* Whatever ends bench_env.sh, bench_record.py or bench_diagnose.py, and whenever,
\* the two files say how to put back what was changed.
THEOREM Restorable == Spec => []RestorableMachine
<1>1. IInv => RestorableMachine
  BY DEF IInv, ModeInv
<1> QED BY <1>1, Invariance, PTL

\* Neither recorder launches a binary on a machine that is not in measurement mode.
THEOREM MeasuredInMode == Spec => []LaunchesInMeasurementMode
<1>1. IInv => LaunchesInMeasurementMode
  BY DEF IInv, RecorderInMode, DiagnosisInMode, InMode, RecordingPoints, DiagnosisPoints,
     LaunchesInMeasurementMode, Measuring
<1> QED BY <1>1, Invariance, PTL

------------------------------------------------------------------------------
(* What a study has done so far: its launches, rows and files. *)

Baselines == {NoRecovery} \cup UNION {[listed -> Entry] : listed \in SUBSET Tid}

\* What can be in raw/: the log of a launch, its command noted or complete.
Files == [of : Keys, is : {"log", "started", "complete"}]

\* What a study can have written to its directory.
Directory == [recovery : Baselines,
              launches : SUBSET [key : Keys, exit : {0, 1}],
              samples : SUBSET [key : Keys, reps : SUBSET AllReps],
              env : {"none", "plain", "incomplete", "complete"},
              raw : SUBSET Files, archive : SUBSET Files]

\* The launches up to position p of round r of session s.
Prior(s, r, p) ==
  {k \in Keys : \/ k[1] < s
                \/ k[1] = s /\ k[2] < r
                \/ k[1] = s /\ k[2] = r /\ \E j \in 1 .. p : k[3] = ProgramAt(s, r, j)}

\* The launches that rows are of.
KeysOf(rows) == {row.key : row \in rows}

\* No launch has two rows.
OnePerKey(rows) == \A a, b \in rows : a.key = b.key => a = b

\* No session has begun, or the last one has had all its launches.
SessionOver(study) == study.session = 0 \/ (study.round = Rounds /\ study.position = Programs)

\* A launch that ended well but for its last repetition.
Short == AllReps \ {Repetitions - 1}

\* Every row has its log.
Logged(dir, rows) == \A row \in rows : Log(row.key) \in RawFiles(dir)

------------------------------------------------------------------------------
\* Every program has its turn in a round.
LEMMA Turns ==
  ASSUME NEW s \in 1 .. Sessions, NEW r \in 1 .. Rounds
  PROVE  /\ \A j \in Nat : ProgramAt(s, r, j) \in 1 .. Programs
         /\ \A q \in 1 .. Programs : \E j \in 1 .. Programs : ProgramAt(s, r, j) = q
         /\ \A j, k \in 1 .. Programs : j < k => ProgramAt(s, r, j) # ProgramAt(s, r, k)
<1> DEFINE i == RoundIndex(s, r)  P == Programs
<1>1. i \in Nat
  <2>1. (s - 1) * Rounds \in Nat
    BY DesignAssumption
  <2> QED BY <2>1 DEF RoundIndex
<1>2. P \in Nat /\ P > 0
  BY DesignAssumption
<1> HIDE DEF i, P
<1>3. ASSUME NEW j \in Nat PROVE ((i + j - 1) % P) + 1 \in 1 .. P
  BY <1>1, <1>2
<1>4. ASSUME NEW d \in Int PROVE \E b \in Int, a \in 0 .. P - 1 : d = P * b + a
  <2>1. d = P * (d \div P) + (d % P) /\ d \div P \in Int /\ d % P \in 0 .. P - 1
    BY <1>2, SMT
  <2> QED BY <2>1
<1>5. ASSUME NEW b \in Int, NEW a \in 0 .. P - 1 PROVE (P * b + a) % P = a
  BY <1>2, SMT
<1>6. ASSUME NEW q \in 1 .. P
      PROVE  \E j \in 1 .. P : ((i + j - 1) % P) + 1 = q
  <2>1. PICK d \in Int : d = q - 1 - i
    BY <1>1, <1>2
  <2>2. PICK b \in Int, a \in 0 .. P - 1 : d = P * b + a
    BY <1>4, <2>1
  <2>3. PICK n \in Int : n = 0 - b
    OBVIOUS
  <2>4. i + (a + 1) - 1 = P * n + (q - 1)
    BY <1>1, <1>2, <2>1, <2>2, <2>3
  <2>5. (i + (a + 1) - 1) % P = q - 1
    BY <1>2, <1>5, <2>4
  <2>6. a + 1 \in 1 .. P
    BY <1>2
  <2> QED BY <2>5, <2>6
<1>7. ASSUME NEW j \in 1 .. P, NEW k \in 1 .. P, j < k
      PROVE  (i + j - 1) % P # (i + k - 1) % P
  <2>1. PICK b \in Int, a \in 0 .. P - 1 : i + j - 1 = P * b + a
    <3>1. i + j - 1 \in Int
      BY <1>1, <1>2
    <3> QED BY <1>4, <3>1
  <2>2. (i + j - 1) % P = a
    BY <1>5, <2>1
  <2>3. CASE a + (k - j) < P
    <3>1. i + k - 1 = P * b + (a + (k - j)) /\ a + (k - j) \in 0 .. P - 1
      BY <1>1, <1>2, <1>7, <2>1, <2>3
    <3>2. (i + k - 1) % P = a + (k - j)
      BY <1>5, <3>1
    <3> QED BY <1>7, <2>2, <3>2
  <2>4. CASE a + (k - j) >= P
    <3>1. P * (b + 1) = P * b + P /\ P * b \in Int
      BY <1>2
    <3>2. i + k - 1 = P * (b + 1) + (a + (k - j) - P) /\ a + (k - j) - P \in 0 .. P - 1
      BY <1>1, <1>2, <1>7, <2>1, <2>4, <3>1
    <3>3. (i + k - 1) % P = a + (k - j) - P
      BY <1>5, <3>2
    <3> QED BY <1>2, <1>7, <2>2, <3>3
  <2> QED BY <1>2, <2>3, <2>4
<1>8. ASSUME NEW j \in 1 .. P, NEW k \in 1 .. P, j < k
      PROVE  ((i + j - 1) % P) + 1 # ((i + k - 1) % P) + 1
  <2>1. (i + j - 1) % P \in Int /\ (i + k - 1) % P \in Int
    BY <1>1, <1>2
  <2>2. (i + j - 1) % P # (i + k - 1) % P
    BY <1>7, <1>8
  <2> QED BY <2>1, <2>2
<1> QED BY <1>3, <1>6, <1>8 DEF ProgramAt, i, P

\* A launch adds one key to those done.
LEMMA PriorGrows ==
  ASSUME NEW s \in 1 .. Sessions, NEW r \in 1 .. Rounds, NEW p \in 0 .. Programs - 1
  PROVE  /\ <<s, r, ProgramAt(s, r, p + 1)>> \in Keys
         /\ Prior(s, r, p + 1) = Prior(s, r, p) \cup {<<s, r, ProgramAt(s, r, p + 1)>>}
<1>1. ProgramAt(s, r, p + 1) \in 1 .. Programs
  BY Turns, DesignAssumption
<1>2. 1 .. p + 1 = (1 .. p) \cup {p + 1}
  BY DesignAssumption
<1> QED BY <1>1, <1>2 DEF Prior, Keys

\* The launch in hand was not done before.
LEMMA NewInRound ==
  ASSUME NEW s \in 1 .. Sessions, NEW r \in 1 .. Rounds, NEW p \in 0 .. Programs - 1
  PROVE  <<s, r, ProgramAt(s, r, p + 1)>> \notin Prior(s, r, p)
<1>1. ASSUME NEW j \in 1 .. p PROVE ProgramAt(s, r, j) # ProgramAt(s, r, p + 1)
  <2>1. j \in 1 .. Programs /\ p + 1 \in 1 .. Programs /\ j < p + 1
    BY DesignAssumption
  <2> QED BY <2>1, Turns
<1> QED BY <1>1 DEF Prior

\* The triples themselves.
LEMMA KeyParts ==
  ASSUME NEW k \in Keys
  PROVE  k[1] \in 1 .. Sessions /\ k[2] \in 1 .. Rounds /\ k[3] \in 1 .. Programs
BY DEF Keys

\* After the last program of a round comes the first of the next.
LEMMA PriorOfRound ==
  ASSUME NEW s \in 1 .. Sessions, NEW r \in 1 .. Rounds
  PROVE  Prior(s, r, Programs) = Prior(s, r + 1, 0)
<1>1. ASSUME NEW k \in Keys PROVE \E j \in 1 .. Programs : k[3] = ProgramAt(s, r, j)
  <2>1. \A q \in 1 .. Programs : \E j \in 1 .. Programs : ProgramAt(s, r, j) = q
    BY Turns
  <2> QED BY <2>1, KeyParts
<1>2. Sessions \in Nat /\ Rounds \in Nat
  BY DesignAssumption
<1> QED BY <1>1, <1>2, KeyParts DEF Prior

\* After the last round of a session comes the first of the next.
LEMMA PriorOfSession ==
  ASSUME NEW s \in 0 .. Sessions, NEW p \in 0 .. Programs
  PROVE  /\ s > 0 => Prior(s, Rounds, Programs) = Prior(s + 1, 0, p)
         /\ Prior(s, 0, p) = Prior(s, 1, 0)
         /\ Prior(1, 0, p) = {}
         /\ \A r \in 0 .. Rounds : Prior(0, r, p) = {}
<1>1. Sessions \in Nat /\ Rounds \in Nat /\ Rounds > 0 /\ Programs \in Nat
  BY DesignAssumption
<1>2. ASSUME s > 0, NEW k \in Keys
      PROVE  k[1] = s /\ k[2] = Rounds => \E j \in 1 .. Programs : k[3] = ProgramAt(s, Rounds, j)
  <2>1. s \in 1 .. Sessions /\ Rounds \in 1 .. Rounds
    BY <1>1, <1>2
  <2>2. \A q \in 1 .. Programs : \E j \in 1 .. Programs : ProgramAt(s, Rounds, j) = q
    BY <2>1, Turns
  <2> QED BY <2>2, KeyParts
<1>3. s > 0 => Prior(s, Rounds, Programs) = Prior(s + 1, 0, p)
  BY <1>1, <1>2, KeyParts DEF Prior
<1>4. Prior(s, 0, p) = Prior(s, 1, 0)
  BY <1>1, KeyParts DEF Prior
<1>5. Prior(1, 0, p) = {} /\ \A r \in 0 .. Rounds : Prior(0, r, p) = {}
  BY <1>1, KeyParts DEF Prior
<1> QED BY <1>3, <1>4, <1>5

\* After the last session every launch has been done.
LEMMA PriorOfStudy == Prior(Sessions, Rounds, Programs) = Keys
<1>1. Sessions \in Nat /\ Sessions > 0 /\ Rounds \in Nat /\ Rounds > 0 /\ Programs \in Nat
  BY DesignAssumption
<1>2. ASSUME NEW k \in Keys
      PROVE  \E j \in 1 .. Programs : k[3] = ProgramAt(Sessions, Rounds, j)
  <2>1. \A q \in 1 .. Programs : \E j \in 1 .. Programs : ProgramAt(Sessions, Rounds, j) = q
    BY <1>1, Turns
  <2> QED BY <2>1, KeyParts
<1> QED BY <1>1, <1>2, KeyParts DEF Prior

\* The tables of a whole study.
LEMMA WholeTables ==
  /\ LaunchTable(WholeRows) = {[key |-> k, exit |-> 0] : k \in Keys}
  /\ SampleTable(WholeRows) = {[key |-> k, reps |-> AllReps] : k \in Keys}
<1>1. AllReps # {}
  BY DesignAssumption DEF AllReps
<1>2. ASSUME NEW k \in Keys PROVE \E row \in WholeRows : row.key = k
  <2>1. [key |-> k, exit |-> 0, reps |-> AllReps] \in WholeRows
    BY DEF WholeRows
  <2> QED BY <2>1
<1>3. \A row \in WholeRows : row.key \in Keys /\ row.exit = 0 /\ row.reps = AllReps
  BY DEF WholeRows
<1> HIDE DEF WholeRows
<1>4. LaunchTable(WholeRows) = {[key |-> k, exit |-> 0] : k \in Keys}
  <2>1. LaunchTable(WholeRows) \subseteq {[key |-> k, exit |-> 0] : k \in Keys}
    BY <1>3 DEF LaunchTable
  <2>2. ASSUME NEW k \in Keys PROVE [key |-> k, exit |-> 0] \in LaunchTable(WholeRows)
    BY <1>2, <1>3 DEF LaunchTable
  <2> QED BY <2>1, <2>2
<1>5. SampleTable(WholeRows) = {[key |-> k, reps |-> AllReps] : k \in Keys}
  <2>1. SampleTable(WholeRows) \subseteq {[key |-> k, reps |-> AllReps] : k \in Keys}
    BY <1>3 DEF SampleTable
  <2>2. ASSUME NEW k \in Keys PROVE [key |-> k, reps |-> AllReps] \in SampleTable(WholeRows)
    BY <1>1, <1>2, <1>3 DEF SampleTable
  <2> QED BY <2>1, <2>2
<1> QED BY <1>4, <1>5

\* Rows of all launches that ended well make the table of a whole study.
LEMMA AllLaunched ==
  ASSUME NEW rows, KeysOf(rows) = Keys, \A row \in rows : row.exit = 0
  PROVE  LaunchTable(rows) = LaunchTable(WholeRows)
<1>1. LaunchTable(rows) \subseteq {[key |-> k, exit |-> 0] : k \in Keys}
  BY DEF LaunchTable, KeysOf
<1>2. ASSUME NEW k \in Keys PROVE [key |-> k, exit |-> 0] \in LaunchTable(rows)
  <2>1. PICK row \in rows : row.key = k
    BY DEF KeysOf
  <2> QED BY <2>1 DEF LaunchTable
<1> QED BY <1>1, <1>2, WholeTables

------------------------------------------------------------------------------
(* bench_record.py: what is true of its rows and files at every point. *)

\* The values that the variables of bench_record.py take.
RecorderRecord ==
  [at : Recording!Points, session : 0 .. Sessions, round : 0 .. Rounds, position : 0 .. Programs,
   entered : BOOLEAN, base : Baselines, final : BOOLEAN, raising : BOOLEAN, killed : BOOLEAN,
   told : BOOLEAN, rows : SUBSET Rows]

\* They are such values, and so is what is in the directory.
RecorderTyped == recorder \in RecorderRecord /\ recorderDir \in Directory

\* Where the program is says how far it has come.
RecorderPlace ==
  /\ recorder.at \in {"next", "clearing", "launching", "returning"} =>
       recorder.session >= 1 /\ recorder.round >= 1
  /\ recorder.at \in {"clearing", "launching"} => recorder.position < Programs
  /\ recorder.at \in {"setup", "cores"} => recorder.session >= 1 /\ recorder.round = 0
  /\ recorder.at \in {"idle", "session"} => SessionOver(recorder) /\ recorder.session < Sessions
  /\ recorder.at = "returning" /\ ~recorder.raising => recorder.position = Programs
  /\ recorder.at \in {"leave", "restore", "first", "second"} /\ ~recorder.raising =>
       SessionOver(recorder) /\ recorder.session >= 1

\* What the program knows of the study's end, and of the recovery file.
RecorderFlags ==
  /\ recorder.at \in {"idle", "session", "setup", "cores", "next", "clearing", "launching"} =>
       ~recorder.raising /\ ~recorder.final
  /\ recorder.at = "returning" => ~recorder.final
  /\ recorder.at \in {"first", "second"} => ~recorder.entered
  /\ recorder.at \in {"leave", "restore", "first", "second"} /\ recorder.raising => recorder.final
  /\ recorder.at # "ended" /\ recorder.final /\ ~recorder.raising =>
       recorder.session = Sessions /\ SessionOver(recorder)
  /\ recorder.at \in {"samples", "launches", "env", "pack", "purge"} =>
       recorder.final /\ ~recorder.raising /\ recorder.base = NoRecovery
  /\ recorder.at # "ended" => recorderDir.recovery = recorder.base

\* There is one row for each launch done, and all exited with 0.
RecorderRows ==
  /\ recorder.at # "ended" =>
       KeysOf(recorder.rows) = Prior(recorder.session, recorder.round, recorder.position)
  /\ OnePerKey(recorder.rows)
  /\ \A row \in recorder.rows : row.exit = 0 /\ row.reps \in {AllReps, Short}

\* Every row has its log in raw/ or in the archive.
RecorderFiles ==
  /\ Logged(recorderDir, recorder.rows) /\ Logged(recorderDir, recorderDir.launches)
  /\ recorder.at \notin {"purge", "ended"} => recorderDir.archive = {}
  /\ recorder.at = "purge" => recorderDir.raw \subseteq recorderDir.archive

\* Samples are written when the study was whole and the tasks given back.
RecorderTables ==
  /\ recorderDir.env \in {"none", "plain"}
  /\ recorderDir.launches = {} \/ recorderDir.launches = LaunchTable(WholeRows)
  /\ recorderDir.samples # {} =>
       /\ recorder.at \in {"launches", "env", "pack", "purge", "ended"}
       /\ recorderDir.recovery = NoRecovery
  /\ OnePerKey(recorderDir.samples)
  /\ \A row \in recorderDir.samples : row.reps \in {AllReps, Short}

\* What is true of a recording, wherever it stands or has stopped.
RecorderInv == RecorderTyped /\ RecorderPlace /\ RecorderFlags /\ RecorderRows /\ RecorderFiles /\ RecorderTables

\* The numbers of a study.
LEMMA Design ==
  /\ Sessions \in Nat /\ Rounds \in Nat /\ Programs \in Nat /\ Repetitions \in Nat /\ Warmup \in Nat
  /\ Sessions >= 1 /\ Rounds >= 1 /\ Programs >= 1 /\ Warmup >= 1 /\ Warmup < Repetitions
BY DesignAssumption

\* Counting on stays within the design.
LEMMA Ranges == /\ 0 \in 0 .. Rounds /\ 1 \in 0 .. Rounds /\ 0 \in 0 .. Programs
                /\ \A r \in 0 .. Rounds : r < Rounds => r + 1 \in 0 .. Rounds
                /\ \A s \in 0 .. Sessions : s < Sessions => s + 1 \in 0 .. Sessions
                /\ \A p \in 0 .. Programs : p < Programs => p + 1 \in 0 .. Programs
BY Design

\* The points before write().
Ongoing == {"idle", "session", "setup", "cores", "next", "clearing", "launching", "returning",
            "leave", "restore", "first", "second", "reaping", "dying"}

\* The directory, but for new logs.
Kept(dir, newDir) ==
  /\ newDir.recovery = dir.recovery /\ newDir.launches = dir.launches
  /\ newDir.samples = dir.samples /\ newDir.env = dir.env
  /\ newDir.archive = dir.archive /\ dir.raw \subseteq newDir.raw

\* Steps that leave the rows and the tables.
LEMMA RecorderKeepsRows ==
  ASSUME RecorderInv, RecorderTyped', Kept(recorderDir, recorderDir'),
         recorder.at \in Ongoing, recorder'.at \in Ongoing \cup {"samples"},
         recorder'.rows = recorder.rows,
         Prior(recorder'.session, recorder'.round, recorder'.position)
           = Prior(recorder.session, recorder.round, recorder.position)
  PROVE  RecorderRows' /\ RecorderFiles' /\ RecorderTables'
<1>1. RecorderRows'
  BY DEF RecorderInv, RecorderRows, KeysOf, OnePerKey, Ongoing
<1>2. RecorderFiles'
  BY DEF RecorderInv, RecorderFiles, Ongoing, Logged, RawFiles, Kept
<1>3. RecorderTables'
  BY DEF RecorderInv, RecorderTables, Ongoing, OnePerKey, Kept
<1> QED BY <1>1, <1>2, <1>3

\* The program ends, or is killed.
LEMMA RecorderGoes ==
  ASSUME RecorderInv, recorder' \in {Recording!Gone, [Recording!Gone EXCEPT !.killed = TRUE]},
         recorderDir' = recorderDir
  PROVE  RecorderInv'
<1>1. RecorderTyped'
  <2>1. NoRecovery \in Baselines
    BY DEF Baselines
  <2>2. Recording!Gone \in RecorderRecord
    BY <2>1, Ranges DEF RecorderInv, RecorderTyped, RecorderRecord, Recording!Gone,
       Recording!Points
  <2>3. [Recording!Gone EXCEPT !.killed = TRUE] \in RecorderRecord
    BY <2>2 DEF RecorderRecord
  <2> QED BY <2>2, <2>3 DEF RecorderInv, RecorderTyped
<1>2. recorder'.at = "ended" /\ recorder'.rows = {}
  BY DEF RecorderInv, RecorderTyped, RecorderRecord, Recording!Gone
<1>3. RecorderPlace' /\ RecorderFlags' /\ RecorderRows'
  BY <1>2 DEF RecorderPlace, RecorderFlags, RecorderRows, OnePerKey
<1>4. RecorderFiles'
  BY <1>2 DEF RecorderInv, RecorderFiles, Logged, RawFiles
<1>5. RecorderTables'
  BY <1>2 DEF RecorderInv, RecorderTables, OnePerKey
<1> QED BY <1>1, <1>3, <1>4, <1>5 DEF RecorderInv

\* An exception: the program goes on to give the tasks back.
LEMMA RecorderRaises ==
  ASSUME RecorderInv, recorder' = Recording!Raising, recorder.at \in Ongoing,
         recorderDir' \in Directory, Kept(recorderDir, recorderDir')
  PROVE  RecorderInv'
<1>1. RecorderTyped'
  BY DEF RecorderInv, RecorderTyped, RecorderRecord, Recording!Raising, Recording!Points
<1>2. /\ recorder'.at = "leave" /\ recorder'.raising /\ recorder'.final
      /\ recorder'.rows = recorder.rows /\ recorder'.base = recorder.base
      /\ recorder'.session = recorder.session /\ recorder'.round = recorder.round
      /\ recorder'.position = recorder.position
  BY DEF RecorderInv, RecorderTyped, RecorderRecord, Recording!Raising
<1>3. RecorderPlace' /\ RecorderFlags'
  BY <1>2 DEF RecorderInv, RecorderPlace, RecorderFlags, Ongoing, Kept
<1>4. RecorderRows' /\ RecorderFiles' /\ RecorderTables'
  BY <1>1, <1>2, RecorderKeepsRows DEF Ongoing
<1> QED BY <1>1, <1>3, <1>4 DEF RecorderInv

\* A round is over: the next one begins, or the session ends.
LEMMA RecorderNextRound ==
  ASSUME RecorderInv, recorder' = Recording!NextRound, recorderDir' = recorderDir,
         recorder.at \in {"next", "returning"}, ~recorder.raising, recorder.position = Programs
  PROVE  RecorderInv'
<1>1. RecorderTyped'
  BY Ranges DEF RecorderInv, RecorderTyped, RecorderRecord, Recording!NextRound,
     Recording!Points
<1>2. /\ recorder'.rows = recorder.rows /\ recorder'.base = recorder.base
      /\ recorder'.session = recorder.session /\ recorder'.final = recorder.final
      /\ ~recorder'.raising
      /\ \/ /\ recorder.round < Rounds /\ recorder'.at = "next"
            /\ recorder'.round = recorder.round + 1 /\ recorder'.position = 0
         \/ /\ recorder.round = Rounds /\ recorder'.at = "leave"
            /\ recorder'.round = recorder.round /\ recorder'.position = recorder.position
  BY Design DEF RecorderInv, RecorderTyped, RecorderRecord, Recording!NextRound
<1>3. recorder.session >= 1 /\ recorder.round >= 1 /\ ~recorder.final
  BY DEF RecorderInv, RecorderPlace, RecorderFlags
<1>4. recorder.session \in 1 .. Sessions /\ recorder.round \in 1 .. Rounds
  BY <1>3, Design DEF RecorderInv, RecorderTyped, RecorderRecord
<1>5. RecorderPlace' /\ RecorderFlags'
  BY <1>2, <1>3, <1>4 DEF RecorderInv, RecorderPlace, RecorderFlags, SessionOver
<1>6. Prior(recorder'.session, recorder'.round, recorder'.position)
        = Prior(recorder.session, recorder.round, recorder.position)
  BY <1>2, <1>4, PriorOfRound
<1>7. RecorderRows' /\ RecorderFiles' /\ RecorderTables'
  BY <1>1, <1>2, <1>6, RecorderKeepsRows DEF Ongoing, Kept
<1> QED BY <1>1, <1>5, <1>7 DEF RecorderInv

(* The steps of the program. *)

\* main: the study begins, or is refused.
LEMMA RecorderPrepares ==
  ASSUME RecorderInv, Recording!Prepare
  PROVE  RecorderInv'
<1>1. recorderDir' = recorderDir /\ recorder.at = "idle"
  BY DEF Recording!Prepare, Recording!InStudy
<1>2. CASE recorder' = Recording!Gone
  BY <1>1, <1>2, RecorderGoes
<1>3. CASE recorder' = [recorder EXCEPT !.at = "session"]
  <2>1. RecorderTyped'
    BY <1>1, <1>3 DEF RecorderInv, RecorderTyped, RecorderRecord, Recording!Points
  <2>2. RecorderPlace' /\ RecorderFlags'
    BY <1>1, <1>3 DEF RecorderInv, RecorderTyped, RecorderRecord, RecorderPlace,
       RecorderFlags, SessionOver
  <2>3. RecorderRows' /\ RecorderFiles' /\ RecorderTables'
    BY <1>1, <1>3, <2>1, RecorderKeepsRows DEF RecorderInv, RecorderTyped, RecorderRecord,
       Ongoing, Kept
  <2> QED BY <2>1, <2>2, <2>3 DEF RecorderInv
<1> QED BY <1>2, <1>3 DEF Recording!Prepare

\* A session begins with a baseline and setup.
LEMMA RecorderBeginsSession ==
  ASSUME RecorderInv, Baseline \in Baselines, Recording!BeginSession
  PROVE  RecorderInv'
<1> DEFINE base == Recording!Baseline
<1>1. base \in Baselines
  BY DEF Baseline, Live, Effective, Recording!Baseline, Recording!Live, Recording!Effective
<1>2. /\ recorder' = [recorder EXCEPT !.at = "setup", !.session = recorder.session + 1, !.round = 0, !.base = base]
      /\ recorderDir' = [recorderDir EXCEPT !.recovery = base] /\ recorder.at = "session"
  BY DEF Recording!BeginSession, Recording!InStudy
<1> HIDE DEF base
<1>3. /\ SessionOver(recorder) /\ recorder.session < Sessions
      /\ recorder.session \in 0 .. Sessions /\ recorder.round \in 0 .. Rounds
      /\ recorder.position \in 0 .. Programs
  BY <1>2 DEF RecorderInv, RecorderTyped, RecorderRecord, RecorderPlace
<1>4. RecorderTyped'
  BY <1>1, <1>2, <1>3, Ranges DEF RecorderInv, RecorderTyped, RecorderRecord, Directory,
     Recording!Points
<1>5. /\ recorder'.at = "setup" /\ recorder'.session = recorder.session + 1 /\ recorder'.round = 0
      /\ recorder'.position = recorder.position /\ recorder'.rows = recorder.rows
      /\ recorder'.base = base /\ recorder'.raising = recorder.raising /\ recorder'.final = recorder.final
      /\ recorderDir'.recovery = base
      /\ recorderDir'.launches = recorderDir.launches /\ recorderDir'.samples = recorderDir.samples
      /\ recorderDir'.env = recorderDir.env /\ recorderDir'.raw = recorderDir.raw
      /\ recorderDir'.archive = recorderDir.archive
  BY <1>2 DEF RecorderInv, RecorderTyped, RecorderRecord, Directory
<1>6. RecorderPlace' /\ RecorderFlags'
  BY <1>2, <1>3, <1>5 DEF RecorderInv, RecorderPlace, RecorderFlags
<1>7. Prior(recorder'.session, recorder'.round, recorder'.position)
        = Prior(recorder.session, recorder.round, recorder.position)
  <2>1. CASE recorder.session = 0
    <3>1. Prior(recorder.session, recorder.round, recorder.position) = {}
      BY <1>3, <2>1, PriorOfSession
    <3>2. Prior(1, 0, recorder.position) = {}
      BY <1>3, <2>1, PriorOfSession
    <3> QED BY <1>5, <2>1, <3>1, <3>2
  <2>2. CASE recorder.session > 0 /\ recorder.round = Rounds /\ recorder.position = Programs
    BY <1>3, <1>5, <2>2, PriorOfSession
  <2> QED BY <1>3, <2>1, <2>2 DEF SessionOver
<1>8. RecorderRows'
  BY <1>2, <1>5, <1>7 DEF RecorderInv, RecorderRows
<1>9. RecorderFiles' /\ RecorderTables'
  BY <1>2, <1>5 DEF RecorderInv, RecorderFiles, RecorderTables, Logged, RawFiles
<1> QED BY <1>4, <1>6, <1>8, <1>9 DEF RecorderInv

\* setup has ended.
LEMMA RecorderSetupEnds ==
  ASSUME RecorderInv, Recording!SetupEnds
  PROVE  RecorderInv'
<1>1. recorderDir' = recorderDir /\ recorder.at = "setup"
  BY DEF Recording!SetupEnds, Recording!InStudy
<1>2. CASE recorder' = Recording!Raising
  BY <1>1, <1>2, RecorderRaises DEF RecorderInv, RecorderTyped, Ongoing, Kept
<1>3. CASE recorder' = [recorder EXCEPT !.at = "cores", !.entered = TRUE]
  <2>1. RecorderTyped'
    BY <1>1, <1>3 DEF RecorderInv, RecorderTyped, RecorderRecord, Recording!Points
  <2>2. RecorderPlace' /\ RecorderFlags'
    BY <1>1, <1>3 DEF RecorderInv, RecorderTyped, RecorderRecord, RecorderPlace,
       RecorderFlags, SessionOver
  <2>3. RecorderRows' /\ RecorderFiles' /\ RecorderTables'
    BY <1>1, <1>3, <2>1, RecorderKeepsRows DEF RecorderInv, RecorderTyped, RecorderRecord,
       Ongoing, Kept
  <2> QED BY <2>1, <2>2, <2>3 DEF RecorderInv
<1> QED BY <1>2, <1>3 DEF Recording!SetupEnds

\* The recorder leaves the measurement cores.
LEMMA RecorderConfines ==
  ASSUME RecorderInv, Recording!Confine
  PROVE  RecorderInv'
<1>1. recorderDir' = recorderDir /\ recorder.at = "cores"
  BY DEF Recording!Confine, Recording!InStudy
<1>2. CASE recorder' = Recording!Raising
  BY <1>1, <1>2, RecorderRaises DEF RecorderInv, RecorderTyped, Ongoing, Kept
<1>3. CASE recorder' = [recorder EXCEPT !.at = "next", !.round = 1, !.position = 0]
  <2>1. RecorderTyped'
    BY <1>1, <1>3, Ranges DEF RecorderInv, RecorderTyped, RecorderRecord, Recording!Points
  <2>2. RecorderPlace' /\ RecorderFlags'
    BY <1>1, <1>3 DEF RecorderInv, RecorderTyped, RecorderRecord, RecorderPlace,
       RecorderFlags, SessionOver
  <2>3. Prior(recorder'.session, recorder'.round, recorder'.position)
          = Prior(recorder.session, recorder.round, recorder.position)
    BY <1>1, <1>3, PriorOfSession DEF RecorderInv, RecorderTyped, RecorderRecord, RecorderPlace
  <2>4. RecorderRows' /\ RecorderFiles' /\ RecorderTables'
    BY <1>1, <1>3, <2>1, <2>3, RecorderKeepsRows DEF RecorderInv, RecorderTyped,
       RecorderRecord, Ongoing, Kept
  <2> QED BY <2>1, <2>2, <2>4 DEF RecorderInv
<1> QED BY <1>2, <1>3 DEF Recording!Confine

\* The next launch, or the next round.
LEMMA RecorderNextLaunches ==
  ASSUME RecorderInv, Recording!NextLaunch
  PROVE  RecorderInv'
<1>1. recorderDir' = recorderDir /\ recorder.at = "next"
  BY DEF Recording!NextLaunch, Recording!InStudy
<1>2. CASE recorder.position < Programs /\ recorder' = [recorder EXCEPT !.at = "clearing"]
  <2>1. RecorderTyped'
    BY <1>1, <1>2 DEF RecorderInv, RecorderTyped, RecorderRecord, Recording!Points
  <2>2. RecorderPlace' /\ RecorderFlags'
    BY <1>1, <1>2 DEF RecorderInv, RecorderTyped, RecorderRecord, RecorderPlace,
       RecorderFlags, SessionOver
  <2>3. RecorderRows' /\ RecorderFiles' /\ RecorderTables'
    BY <1>1, <1>2, <2>1, RecorderKeepsRows DEF RecorderInv, RecorderTyped, RecorderRecord,
       Ongoing, Kept
  <2> QED BY <2>1, <2>2, <2>3 DEF RecorderInv
<1>3. CASE recorder.position < Programs /\ recorder' = [recorder EXCEPT !.at = "launching"]
  <2>1. RecorderTyped'
    BY <1>1, <1>3 DEF RecorderInv, RecorderTyped, RecorderRecord, Recording!Points
  <2>2. RecorderPlace' /\ RecorderFlags'
    BY <1>1, <1>3 DEF RecorderInv, RecorderTyped, RecorderRecord, RecorderPlace,
       RecorderFlags, SessionOver
  <2>3. RecorderRows' /\ RecorderFiles' /\ RecorderTables'
    BY <1>1, <1>3, <2>1, RecorderKeepsRows DEF RecorderInv, RecorderTyped, RecorderRecord,
       Ongoing, Kept
  <2> QED BY <2>1, <2>2, <2>3 DEF RecorderInv
<1>4. CASE ~(recorder.position < Programs) /\ recorder' = [recorder EXCEPT !.at = "returning"]
  <2>0. recorder.position = Programs
    BY <1>4, Design DEF RecorderInv, RecorderTyped, RecorderRecord
  <2>1. RecorderTyped'
    BY <1>1, <1>4 DEF RecorderInv, RecorderTyped, RecorderRecord, Recording!Points
  <2>2. RecorderPlace' /\ RecorderFlags'
    BY <1>1, <1>4, <2>0 DEF RecorderInv, RecorderTyped, RecorderRecord, RecorderPlace,
       RecorderFlags, SessionOver
  <2>3. RecorderRows' /\ RecorderFiles' /\ RecorderTables'
    BY <1>1, <1>4, <2>1, RecorderKeepsRows DEF RecorderInv, RecorderTyped, RecorderRecord,
       Ongoing, Kept
  <2> QED BY <2>1, <2>2, <2>3 DEF RecorderInv
<1>5. CASE ~(recorder.position < Programs) /\ recorder' = Recording!NextRound
  <2>1. recorder.position = Programs /\ ~recorder.raising
    BY <1>1, <1>5, Design DEF RecorderInv, RecorderTyped, RecorderRecord, RecorderFlags
  <2> QED BY <1>1, <1>5, <2>1, RecorderNextRound
<1> QED BY <1>2, <1>3, <1>4, <1>5 DEF Recording!NextLaunch, Recording!GoTo

\* The tasks are off the measurement cores: the binary is run.
LEMMA RecorderClears ==
  ASSUME RecorderInv, Recording!TasksCleared
  PROVE  RecorderInv'
<1>1. /\ recorderDir' = recorderDir /\ recorder.at = "clearing"
      /\ recorder' = [recorder EXCEPT !.at = "launching"]
  BY DEF Recording!TasksCleared, Recording!InStudy, Recording!GoTo
<1> QED
  <2>1. RecorderTyped'
    BY <1>1 DEF RecorderInv, RecorderTyped, RecorderRecord, Recording!Points
  <2>2. RecorderPlace' /\ RecorderFlags'
    BY <1>1 DEF RecorderInv, RecorderTyped, RecorderRecord, RecorderPlace, RecorderFlags,
       SessionOver
  <2>3. RecorderRows' /\ RecorderFiles' /\ RecorderTables'
    BY <1>1, <2>1, RecorderKeepsRows DEF RecorderInv, RecorderTyped, RecorderRecord, Ongoing,
       Kept
  <2> QED BY <2>1, <2>2, <2>3 DEF RecorderInv

\* A launch that ended well adds its row and its log.
LEMMA RecorderFinishes ==
  ASSUME RecorderInv, NEW reps \in {AllReps, Short}, Recording!Finished(reps)
  PROVE  RecorderInv'
<1> DEFINE key == <<recorder.session, recorder.round,
                    ProgramAt(recorder.session, recorder.round, recorder.position + 1)>>
           row == [key |-> key, exit |-> 0, reps |-> reps]
<1>1. /\ recorder.at = "launching"
      /\ recorder' = [recorder EXCEPT !.at = "next", !.position = recorder.position + 1,
                        !.rows = recorder.rows \cup {row}]
      /\ recorderDir' = [recorderDir EXCEPT !.raw = recorderDir.raw \cup {Log(key)}]
  BY DEF Recording!Finished, Recording!InStudy, Recording!Key, Recording!ProgramAt,
     Recording!RoundIndex, Recording!Log, ProgramAt, RoundIndex, Log
<1>2. /\ recorder.session \in 1 .. Sessions /\ recorder.round \in 1 .. Rounds
      /\ recorder.position \in 0 .. Programs - 1 /\ recorder.position \in 0 .. Programs
      /\ ~recorder.raising /\ ~recorder.final /\ recorderDir.recovery = recorder.base
  BY <1>1, Design DEF RecorderInv, RecorderTyped, RecorderRecord, RecorderPlace, RecorderFlags
<1>3. /\ key \in Keys
      /\ Prior(recorder.session, recorder.round, recorder.position + 1)
           = Prior(recorder.session, recorder.round, recorder.position) \cup {key}
  BY <1>2, PriorGrows
<1> HIDE DEF key
<1>4. row \in Rows /\ Log(key) \in Files
  BY <1>3 DEF Rows, Short, AllReps, Files, Log
<1> HIDE DEF row
<1>5. RecorderTyped'
  <2>1. recorder' \in RecorderRecord
    <3>1. recorder.position + 1 \in 0 .. Programs
      BY <1>2, Design
    <3> QED BY <1>1, <1>4, <3>1 DEF RecorderInv, RecorderTyped, RecorderRecord,
         Recording!Points
  <2>2. recorderDir' \in Directory
    BY <1>1, <1>4 DEF RecorderInv, RecorderTyped, Directory
  <2> QED BY <2>1, <2>2 DEF RecorderTyped
<1>6. /\ recorder'.at = "next" /\ recorder'.position = recorder.position + 1
      /\ recorder'.session = recorder.session /\ recorder'.round = recorder.round
      /\ recorder'.raising = recorder.raising /\ recorder'.final = recorder.final
      /\ recorder'.base = recorder.base /\ recorder'.rows = recorder.rows \cup {row}
      /\ recorderDir'.raw = recorderDir.raw \cup {Log(key)}
      /\ Kept(recorderDir, recorderDir')
  BY <1>1 DEF RecorderInv, RecorderTyped, RecorderRecord, Directory, Kept
<1>7. RecorderPlace' /\ RecorderFlags'
  BY <1>2, <1>6 DEF RecorderPlace, RecorderFlags, Kept
<1>8. key \notin Prior(recorder.session, recorder.round, recorder.position)
  BY <1>2, NewInRound DEF key
<1>9. RecorderRows'
  <2>1. row.key = key /\ row.exit = 0 /\ row.reps \in {AllReps, Short}
    BY DEF row
  <2>2. KeysOf(recorder.rows) = Prior(recorder.session, recorder.round, recorder.position)
    BY <1>1 DEF RecorderInv, RecorderRows
  <2>3. OnePerKey(recorder'.rows)
    BY <1>6, <1>8, <2>1, <2>2 DEF RecorderInv, RecorderRows, KeysOf, OnePerKey
  <2>4. KeysOf(recorder'.rows) = KeysOf(recorder.rows) \cup {key}
    BY <1>6, <2>1 DEF KeysOf
  <2> QED BY <1>3, <1>6, <2>1, <2>2, <2>3, <2>4 DEF RecorderInv, RecorderRows
<1>10. RecorderFiles'
  <2>1. row.key = key
    BY DEF row
  <2> QED BY <1>1, <1>6, <2>1 DEF RecorderInv, RecorderFiles, Logged, RawFiles, Kept
<1>11. RecorderTables'
  BY <1>1, <1>6 DEF RecorderInv, RecorderTables, Kept
<1> QED BY <1>5, <1>7, <1>9, <1>10, <1>11 DEF RecorderInv

\* A launch that fails, with its log or without.
LEMMA RecorderLaunchFails ==
  ASSUME RecorderInv, recorder.at = "launching", Recording!AfterLaunchFails,
         recorderDir' \in {recorderDir, [recorderDir EXCEPT !.raw = @ \cup {Recording!Log(Recording!Key)}]}
  PROVE  RecorderInv'
<1>1. recorder.session \in 1 .. Sessions /\ recorder.round \in 1 .. Rounds
      /\ recorder.position \in 0 .. Programs - 1
  BY Design DEF RecorderInv, RecorderTyped, RecorderRecord, RecorderPlace
<1>2. Recording!Key \in Keys
  BY <1>1, PriorGrows DEF Recording!Key, Recording!ProgramAt, Recording!RoundIndex, ProgramAt,
     RoundIndex
<1>3. Recording!Log(Recording!Key) \in Files
  BY <1>2 DEF Recording!Log, Files
<1>4. recorderDir' \in Directory /\ Kept(recorderDir, recorderDir')
  BY <1>3 DEF RecorderInv, RecorderTyped, Directory, Kept
<1>5. CASE recorder' = [recorder EXCEPT !.at = "returning", !.raising = TRUE]
  <2>1. RecorderTyped'
    BY <1>4, <1>5 DEF RecorderInv, RecorderTyped, RecorderRecord, Recording!Points
  <2>2. RecorderPlace' /\ RecorderFlags'
    BY <1>4, <1>5 DEF RecorderInv, RecorderTyped, RecorderRecord, RecorderPlace,
       RecorderFlags, Kept
  <2>3. RecorderRows' /\ RecorderFiles' /\ RecorderTables'
    BY <1>4, <1>5, <2>1, RecorderKeepsRows DEF RecorderInv, RecorderTyped, RecorderRecord,
       Ongoing
  <2> QED BY <2>1, <2>2, <2>3 DEF RecorderInv
<1>6. CASE recorder' = Recording!Raising
  BY <1>4, <1>6, RecorderRaises DEF Ongoing
<1> QED BY <1>5, <1>6 DEF Recording!AfterLaunchFails

\* A launch ends, with all of its repetitions or without the last one.
LEMMA RecorderLaunchEnds ==
  ASSUME RecorderInv, Recording!LaunchEnds \/ Recording!LaunchEndsShort
  PROVE  RecorderInv'
<1>1. Recording!AllReps = AllReps /\ Recording!AllReps \ {Repetitions - 1} = Short
  BY DEF Recording!AllReps, AllReps, Short
<1>2. CASE \E reps \in {AllReps, Short} : Recording!Finished(reps)
  BY <1>2, RecorderFinishes
<1>3. CASE Recording!InStudy("launching") /\ Recording!AfterLaunchFails
           /\ recorderDir' \in {recorderDir, [recorderDir EXCEPT !.raw = @ \cup {Recording!Log(Recording!Key)}]}
  BY <1>3, RecorderLaunchFails DEF Recording!InStudy
<1> QED BY <1>1, <1>2, <1>3 DEF Recording!LaunchEnds, Recording!LaunchEndsShort

\* The tasks have their CPUs back after a round in the cleared condition.
LEMMA RecorderReturns ==
  ASSUME RecorderInv, Recording!TasksReturned
  PROVE  RecorderInv'
<1>1. recorderDir' = recorderDir /\ recorder.at = "returning"
  BY DEF Recording!TasksReturned, Recording!InStudy
<1>2. CASE recorder' = Recording!Raising
  BY <1>1, <1>2, RecorderRaises DEF RecorderInv, RecorderTyped, Ongoing, Kept
<1>3. CASE ~recorder.raising /\ recorder' = Recording!NextRound
  BY <1>1, <1>3, RecorderNextRound DEF RecorderInv, RecorderPlace
<1> QED BY <1>2, <1>3 DEF Recording!TasksReturned

\* leave(): restore is started.
LEMMA RecorderLeaves ==
  ASSUME RecorderInv, Recording!Leave
  PROVE  RecorderInv'
<1>1. recorderDir' = recorderDir /\ recorder.at = "leave"
  BY DEF Recording!Leave, Recording!InStudy
<1>2. CASE recorder' = [recorder EXCEPT !.at = "restore"]
  <2>1. RecorderTyped'
    BY <1>1, <1>2 DEF RecorderInv, RecorderTyped, RecorderRecord, Recording!Points
  <2>2. RecorderPlace' /\ RecorderFlags'
    BY <1>1, <1>2 DEF RecorderInv, RecorderTyped, RecorderRecord, RecorderPlace,
       RecorderFlags, SessionOver
  <2>3. RecorderRows' /\ RecorderFiles' /\ RecorderTables'
    BY <1>1, <1>2, <2>1, RecorderKeepsRows DEF RecorderInv, RecorderTyped, RecorderRecord,
       Ongoing, Kept
  <2> QED BY <2>1, <2>2, <2>3 DEF RecorderInv
<1>3. CASE ~recorder.entered /\ recorder' = [recorder EXCEPT !.at = "first"]
  <2>1. RecorderTyped'
    BY <1>1, <1>3 DEF RecorderInv, RecorderTyped, RecorderRecord, Recording!Points
  <2>2. RecorderPlace' /\ RecorderFlags'
    BY <1>1, <1>3 DEF RecorderInv, RecorderTyped, RecorderRecord, RecorderPlace,
       RecorderFlags, SessionOver
  <2>3. RecorderRows' /\ RecorderFiles' /\ RecorderTables'
    BY <1>1, <1>3, <2>1, RecorderKeepsRows DEF RecorderInv, RecorderTyped, RecorderRecord,
       Ongoing, Kept
  <2> QED BY <2>1, <2>2, <2>3 DEF RecorderInv
<1>4. CASE recorder' = Recording!Gone
  BY <1>1, <1>4, RecorderGoes
<1>5. CASE /\ recorder.final /\ ~recorder.raising /\ recorder.base = NoRecovery
           /\ recorder' = [recorder EXCEPT !.at = "samples"]
  <2>1. RecorderTyped'
    BY <1>1, <1>5 DEF RecorderInv, RecorderTyped, RecorderRecord, Recording!Points
  <2>2. RecorderPlace' /\ RecorderFlags'
    BY <1>1, <1>5 DEF RecorderInv, RecorderTyped, RecorderRecord, RecorderPlace,
       RecorderFlags, SessionOver
  <2>3. RecorderRows' /\ RecorderFiles' /\ RecorderTables'
    BY <1>1, <1>5, <2>1, RecorderKeepsRows DEF RecorderInv, RecorderTyped, RecorderRecord,
       Ongoing, Kept
  <2> QED BY <2>1, <2>2, <2>3 DEF RecorderInv
<1>6. CASE /\ ~recorder.final /\ recorder.session < Sessions
           /\ recorder' = [recorder EXCEPT !.at = "session"]
  <2>1. RecorderTyped'
    BY <1>1, <1>6 DEF RecorderInv, RecorderTyped, RecorderRecord, Recording!Points
  <2>2. RecorderPlace' /\ RecorderFlags'
    BY <1>1, <1>6 DEF RecorderInv, RecorderTyped, RecorderRecord, RecorderPlace,
       RecorderFlags, SessionOver
  <2>3. RecorderRows' /\ RecorderFiles' /\ RecorderTables'
    BY <1>1, <1>6, <2>1, RecorderKeepsRows DEF RecorderInv, RecorderTyped, RecorderRecord,
       Ongoing, Kept
  <2> QED BY <2>1, <2>2, <2>3 DEF RecorderInv
<1>7. CASE /\ ~recorder.final /\ ~(recorder.session < Sessions)
           /\ recorder' = [recorder EXCEPT !.final = TRUE]
  <2>0. recorder.session = Sessions /\ ~recorder.raising
    BY <1>1, <1>7, Design DEF RecorderInv, RecorderTyped, RecorderRecord, RecorderFlags
  <2>1. RecorderTyped'
    BY <1>1, <1>7 DEF RecorderInv, RecorderTyped, RecorderRecord, Recording!Points
  <2>2. RecorderPlace' /\ RecorderFlags'
    BY <1>1, <1>7, <2>0 DEF RecorderInv, RecorderTyped, RecorderRecord, RecorderPlace,
       RecorderFlags, SessionOver
  <2>3. RecorderRows' /\ RecorderFiles' /\ RecorderTables'
    BY <1>1, <1>7, <2>1, RecorderKeepsRows DEF RecorderInv, RecorderTyped, RecorderRecord,
       Ongoing, Kept
  <2> QED BY <2>1, <2>2, <2>3 DEF RecorderInv
<1>8. \/ recorder' = [recorder EXCEPT !.at = "restore"]
      \/ ~recorder.entered /\ recorder' = [recorder EXCEPT !.at = "first"]
      \/ /\ recorder.base = NoRecovery
         /\ recorder' = CASE recorder.final /\ recorder.raising -> Recording!Gone
                [] recorder.final /\ ~recorder.raising -> [recorder EXCEPT !.at = "samples"]
                [] ~recorder.final /\ recorder.session < Sessions -> [recorder EXCEPT !.at = "session"]
                [] OTHER -> [recorder EXCEPT !.final = TRUE]
  BY DEF Recording!Leave, Recording!GoTo
<1> HIDE DEF Recording!Gone
<1>9. recorder.final \in BOOLEAN /\ recorder.raising \in BOOLEAN
  BY DEF RecorderInv, RecorderTyped, RecorderRecord
<1> QED BY <1>2, <1>3, <1>4, <1>5, <1>6, <1>7, <1>8, <1>9

\* restore has ended.
LEMMA RecorderRestoreEnds ==
  ASSUME RecorderInv, Recording!RestoreEnds
  PROVE  RecorderInv'
<1>1. /\ recorderDir' = recorderDir /\ recorder.at = "restore"
      /\ \E told \in BOOLEAN :
           recorder' = [recorder EXCEPT !.at = "leave", !.entered = FALSE, !.told = told]
  BY DEF Recording!RestoreEnds, Recording!InStudy, RecorderInv, RecorderTyped, RecorderRecord
<1> QED
  <2>1. RecorderTyped'
    BY <1>1 DEF RecorderInv, RecorderTyped, RecorderRecord, Recording!Points
  <2>2. RecorderPlace' /\ RecorderFlags'
    BY <1>1 DEF RecorderInv, RecorderTyped, RecorderRecord, RecorderPlace, RecorderFlags,
       SessionOver
  <2>3. RecorderRows' /\ RecorderFiles' /\ RecorderTables'
    BY <1>1, <2>1, RecorderKeepsRows DEF RecorderInv, RecorderTyped, RecorderRecord, Ongoing,
       Kept
  <2> QED BY <2>1, <2>2, <2>3 DEF RecorderInv

\* A pass of leave() over the tasks has ended.
LEMMA RecorderPassEnds ==
  ASSUME RecorderInv, Recording!PassEnds
  PROVE  RecorderInv'
<1>1. CASE /\ recorder.at = "first" /\ recorder' = [recorder EXCEPT !.at = "second"]
           /\ recorderDir' = recorderDir
  <2>1. RecorderTyped'
    BY <1>1 DEF RecorderInv, RecorderTyped, RecorderRecord, Recording!Points
  <2>2. RecorderPlace' /\ RecorderFlags'
    BY <1>1 DEF RecorderInv, RecorderTyped, RecorderRecord, RecorderPlace, RecorderFlags,
       SessionOver
  <2>3. RecorderRows' /\ RecorderFiles' /\ RecorderTables'
    BY <1>1, <2>1, RecorderKeepsRows DEF RecorderInv, RecorderTyped, RecorderRecord, Ongoing,
       Kept
  <2> QED BY <2>1, <2>2, <2>3 DEF RecorderInv
<1>2. CASE /\ recorder.at = "second"
           /\ recorder' = [recorder EXCEPT !.at = "leave", !.base = NoRecovery]
           /\ recorderDir' = [recorderDir EXCEPT !.recovery = NoRecovery]
  <2>1. NoRecovery \in Baselines
    BY DEF Baselines
  <2>2. RecorderTyped'
    BY <1>2, <2>1 DEF RecorderInv, RecorderTyped, RecorderRecord, Directory, Recording!Points
  <2>3. RecorderPlace' /\ RecorderFlags'
    BY <1>2 DEF RecorderInv, RecorderTyped, RecorderRecord, Directory, RecorderPlace,
       RecorderFlags, SessionOver
  <2>4. RecorderRows'
    BY <1>2 DEF RecorderInv, RecorderTyped, RecorderRecord, RecorderRows
  <2>5. RecorderFiles' /\ RecorderTables'
    BY <1>2 DEF RecorderInv, RecorderTyped, RecorderRecord, Directory, RecorderFiles,
       RecorderTables, Logged, RawFiles
  <2> QED BY <2>2, <2>3, <2>4, <2>5 DEF RecorderInv
<1> QED BY <1>1, <1>2 DEF Recording!PassEnds, Recording!InStudy, Recording!GoTo

\* A script that was waited for is reaped.
LEMMA RecorderReaps ==
  ASSUME RecorderInv, Recording!Reap
  PROVE  RecorderInv'
<1>1. recorderDir' = recorderDir /\ recorder.at \in Ongoing
  BY DEF Recording!Reap, Ongoing
<1>2. recorder' = Recording!Gone \/ recorder' = Recording!Raising
  BY DEF Recording!Reap
<1> QED BY <1>1, <1>2, RecorderGoes, RecorderRaises DEF RecorderInv, RecorderTyped, Kept

\* The program is killed.
LEMMA RecorderKilled ==
  ASSUME RecorderInv, Recording!Kill
  PROVE  RecorderInv'
BY RecorderGoes DEF Recording!Kill

\* The program gets a signal.
LEMMA RecorderInterrupted ==
  ASSUME RecorderInv, Recording!Interrupt
  PROVE  RecorderInv'
<1>1. recorderDir' = recorderDir /\ recorder.at \notin {"idle", "ended", "reaping", "dying"}
  BY DEF Recording!Interrupt
<1>2. CASE recorder.at \in {"setup", "restore"}
           /\ \E at \in {"reaping", "dying"} : recorder' = [recorder EXCEPT !.at = at]
  <2>1. RecorderTyped'
    BY <1>1, <1>2 DEF RecorderInv, RecorderTyped, RecorderRecord, Recording!Points
  <2>2. RecorderPlace' /\ RecorderFlags'
    BY <1>1, <1>2 DEF RecorderInv, RecorderTyped, RecorderRecord, RecorderPlace,
       RecorderFlags, SessionOver
  <2>3. RecorderRows' /\ RecorderFiles' /\ RecorderTables'
    BY <1>1, <1>2, <2>1, RecorderKeepsRows DEF RecorderInv, RecorderTyped, RecorderRecord,
       Ongoing, Kept
  <2> QED BY <2>1, <2>2, <2>3 DEF RecorderInv
<1>3. CASE /\ recorder.at \in {"next", "clearing", "launching"}
           /\ recorder' = [recorder EXCEPT !.at = "returning", !.raising = TRUE]
  <2>1. RecorderTyped'
    BY <1>1, <1>3 DEF RecorderInv, RecorderTyped, RecorderRecord, Recording!Points
  <2>2. RecorderPlace' /\ RecorderFlags'
    BY <1>1, <1>3 DEF RecorderInv, RecorderTyped, RecorderRecord, RecorderPlace,
       RecorderFlags, SessionOver
  <2>3. RecorderRows' /\ RecorderFiles' /\ RecorderTables'
    BY <1>1, <1>3, <2>1, RecorderKeepsRows DEF RecorderInv, RecorderTyped, RecorderRecord,
       Ongoing, Kept
  <2> QED BY <2>1, <2>2, <2>3 DEF RecorderInv
<1>4. CASE recorder' = Recording!Gone
  BY <1>1, <1>4, RecorderGoes
<1>5. CASE ~recorder.final /\ recorder' = Recording!Raising
  <2>1. recorder.at \in Ongoing
    BY <1>1, <1>5 DEF RecorderInv, RecorderTyped, RecorderRecord, RecorderFlags,
       Recording!Points, Ongoing
  <2> QED BY <1>1, <1>5, <2>1, RecorderRaises DEF RecorderInv, RecorderTyped, Kept
<1>6. \/ recorder.at \in {"setup", "restore"}
         /\ \E at \in {"reaping", "dying"} : recorder' = [recorder EXCEPT !.at = at]
      \/ /\ recorder.at \in {"next", "clearing", "launching"}
         /\ recorder' = [recorder EXCEPT !.at = "returning", !.raising = TRUE]
      \/ recorder' = Recording!Gone
      \/ ~recorder.final /\ recorder' = Recording!Raising
  BY DEF Recording!Interrupt
<1> QED BY <1>2, <1>3, <1>4, <1>5, <1>6

(* write() *)

\* write(): the samples are written,
LEMMA RecorderWritesSamples ==
  ASSUME RecorderInv, recorder.at = "samples", recorder' = [recorder EXCEPT !.at = "launches"],
         recorderDir' = [recorderDir EXCEPT !.samples = SampleTable(recorder.rows)]
  PROVE  RecorderInv'
<1>1. /\ recorder.final /\ ~recorder.raising /\ recorder.base = NoRecovery
      /\ recorderDir.recovery = NoRecovery /\ recorder.rows \subseteq Rows
  BY DEF RecorderInv, RecorderTyped, RecorderRecord, RecorderFlags
<1>2. SampleTable(recorder.rows) \subseteq [key : Keys, reps : SUBSET AllReps]
  BY <1>1 DEF SampleTable, Rows, AllReps
<1>3. OnePerKey(SampleTable(recorder.rows))
  BY DEF RecorderInv, RecorderRows, OnePerKey, SampleTable
<1>4. \A row \in SampleTable(recorder.rows) : row.reps \in {AllReps, Short}
  BY DEF RecorderInv, RecorderRows, SampleTable
<1> HIDE DEF SampleTable
<1>5. RecorderTyped'
  BY <1>2 DEF RecorderInv, RecorderTyped, RecorderRecord, Directory, Recording!Points
<1>6. RecorderPlace' /\ RecorderFlags'
  BY DEF RecorderInv, RecorderTyped, RecorderRecord, Directory, RecorderPlace, RecorderFlags,
     SessionOver
<1>7. RecorderRows'
  BY DEF RecorderInv, RecorderTyped, RecorderRecord, RecorderRows
<1>8. RecorderFiles'
  BY DEF RecorderInv, RecorderTyped, RecorderRecord, Directory, RecorderFiles, Logged, RawFiles
<1>9. RecorderTables'
  BY <1>1, <1>3, <1>4 DEF RecorderInv, RecorderTyped, RecorderRecord, Directory, RecorderTables
<1> QED BY <1>5, <1>6, <1>7, <1>8, <1>9 DEF RecorderInv

\* then the launches,
LEMMA RecorderWritesLaunches ==
  ASSUME RecorderInv, recorder.at = "launches", recorder' = [recorder EXCEPT !.at = "env"],
         recorderDir' = [recorderDir EXCEPT !.launches = LaunchTable(recorder.rows)]
  PROVE  RecorderInv'
<1>1. /\ recorder.final /\ ~recorder.raising /\ recorder.base = NoRecovery
      /\ recorder.rows \subseteq Rows /\ recorder.session = Sessions
      /\ recorder.round = Rounds /\ recorder.position = Programs
  BY Design DEF RecorderInv, RecorderTyped, RecorderRecord, RecorderFlags, SessionOver
<1>2. KeysOf(recorder.rows) = Keys
  BY <1>1, PriorOfStudy DEF RecorderInv, RecorderRows
<1>3. LaunchTable(recorder.rows) = LaunchTable(WholeRows)
  BY <1>2, AllLaunched DEF RecorderInv, RecorderRows
<1>4. LaunchTable(recorder.rows) \subseteq [key : Keys, exit : {0, 1}]
  BY <1>1 DEF LaunchTable, Rows
<1>5. Logged(recorderDir, LaunchTable(recorder.rows))
  BY DEF RecorderInv, RecorderFiles, Logged, LaunchTable
<1> HIDE DEF LaunchTable
<1>6. RecorderTyped'
  BY <1>4 DEF RecorderInv, RecorderTyped, RecorderRecord, Directory, Recording!Points
<1>7. RecorderPlace' /\ RecorderFlags'
  BY DEF RecorderInv, RecorderTyped, RecorderRecord, Directory, RecorderPlace, RecorderFlags,
     SessionOver
<1>8. RecorderRows'
  BY DEF RecorderInv, RecorderTyped, RecorderRecord, RecorderRows
<1>9. RecorderFiles'
  BY <1>5 DEF RecorderInv, RecorderTyped, RecorderRecord, Directory, RecorderFiles, Logged,
     RawFiles
<1>10. RecorderTables'
  BY <1>1, <1>3 DEF RecorderInv, RecorderTyped, RecorderRecord, Directory, RecorderTables
<1> QED BY <1>6, <1>7, <1>8, <1>9, <1>10 DEF RecorderInv

\* then the environment,
LEMMA RecorderWritesEnv ==
  ASSUME RecorderInv, recorder.at = "env", recorder' = [recorder EXCEPT !.at = "pack"],
         recorderDir' = [recorderDir EXCEPT !.env = "plain"]
  PROVE  RecorderInv'
<1>1. RecorderTyped'
  BY DEF RecorderInv, RecorderTyped, RecorderRecord, Directory, Recording!Points
<1>2. RecorderPlace' /\ RecorderFlags'
  BY DEF RecorderInv, RecorderTyped, RecorderRecord, Directory, RecorderPlace, RecorderFlags,
     SessionOver
<1>3. RecorderRows'
  BY DEF RecorderInv, RecorderTyped, RecorderRecord, RecorderRows
<1>4. RecorderFiles'
  BY DEF RecorderInv, RecorderTyped, RecorderRecord, Directory, RecorderFiles, Logged, RawFiles
<1>5. RecorderTables'
  BY DEF RecorderInv, RecorderTyped, RecorderRecord, Directory, RecorderTables
<1> QED BY <1>1, <1>2, <1>3, <1>4, <1>5 DEF RecorderInv

\* then the logs are packed,
LEMMA RecorderPacks ==
  ASSUME RecorderInv, recorder.at = "pack", recorder' = [recorder EXCEPT !.at = "purge"],
         recorderDir' = [recorderDir EXCEPT !.archive = recorderDir.raw]
  PROVE  RecorderInv'
<1>1. RecorderTyped'
  BY DEF RecorderInv, RecorderTyped, RecorderRecord, Directory, Recording!Points
<1>2. RecorderPlace' /\ RecorderFlags'
  BY DEF RecorderInv, RecorderTyped, RecorderRecord, Directory, RecorderPlace, RecorderFlags,
     SessionOver
<1>3. RecorderRows'
  BY DEF RecorderInv, RecorderTyped, RecorderRecord, RecorderRows
<1>4. RecorderFiles'
  BY DEF RecorderInv, RecorderTyped, RecorderRecord, Directory, RecorderFiles, Logged, RawFiles
<1>5. RecorderTables'
  BY DEF RecorderInv, RecorderTyped, RecorderRecord, Directory, RecorderTables
<1> QED BY <1>1, <1>2, <1>3, <1>4, <1>5 DEF RecorderInv

\* and then removed from raw/, one at a time.
LEMMA RecorderPurges ==
  ASSUME RecorderInv, recorder.at = "purge", recorder' = recorder,
         NEW file, recorderDir' = [recorderDir EXCEPT !.raw = @ \ {file}]
  PROVE  RecorderInv'
<1>1. RecorderTyped'
  BY DEF RecorderInv, RecorderTyped, RecorderRecord, Directory
<1>2. RecorderPlace' /\ RecorderFlags'
  BY DEF RecorderInv, RecorderTyped, RecorderRecord, Directory, RecorderPlace, RecorderFlags,
     SessionOver
<1>3. RecorderRows'
  BY DEF RecorderInv, RecorderTyped, RecorderRecord, RecorderRows
<1>4. RecorderFiles'
  BY DEF RecorderInv, RecorderTyped, RecorderRecord, Directory, RecorderFiles, Logged, RawFiles
<1>5. RecorderTables'
  BY DEF RecorderInv, RecorderTyped, RecorderRecord, Directory, RecorderTables
<1> QED BY <1>1, <1>2, <1>3, <1>4, <1>5 DEF RecorderInv

\* write() as a whole.
LEMMA RecorderWrites ==
  ASSUME RecorderInv, Recording!Write
  PROVE  RecorderInv'
<1>1. /\ Recording!SampleTable(recorder.rows) = SampleTable(recorder.rows)
      /\ Recording!LaunchTable(recorder.rows) = LaunchTable(recorder.rows)
  BY DEF Recording!SampleTable, Recording!LaunchTable, SampleTable, LaunchTable
<1>2. CASE Recording!InStudy("samples") /\ Recording!GoTo("launches")
           /\ recorderDir' = [recorderDir EXCEPT !.samples = Recording!SampleTable(recorder.rows)]
  BY <1>1, <1>2, RecorderWritesSamples DEF Recording!InStudy, Recording!GoTo
<1>3. CASE Recording!InStudy("launches") /\ Recording!GoTo("env")
           /\ recorderDir' = [recorderDir EXCEPT !.launches = Recording!LaunchTable(recorder.rows)]
  BY <1>1, <1>3, RecorderWritesLaunches DEF Recording!InStudy, Recording!GoTo
<1>4. CASE Recording!InStudy("env") /\ Recording!GoTo("pack")
           /\ recorderDir' = [recorderDir EXCEPT !.env = "plain"]
  BY <1>4, RecorderWritesEnv DEF Recording!InStudy, Recording!GoTo
<1>5. CASE Recording!InStudy("pack") /\ Recording!GoTo("purge")
           /\ recorderDir' = [recorderDir EXCEPT !.archive = recorderDir.raw]
  BY <1>5, RecorderPacks DEF Recording!InStudy, Recording!GoTo
<1>6. CASE Recording!InStudy("purge") /\ UNCHANGED recorder
           /\ recorderDir' = Recording!Removed(recorderDir)
  BY <1>6, RecorderPurges DEF Recording!InStudy, Recording!Removed
<1>7. CASE recorder' = Recording!Gone /\ UNCHANGED recorderDir
  BY <1>7, RecorderGoes
<1> QED BY <1>2, <1>3, <1>4, <1>5, <1>6, <1>7 DEF Recording!Write

\* A step that moves a task is none of the study's.
LEMMA RecorderStays ==
  ASSUME RecorderInv, UNCHANGED <<recorder, recorderDir>>
  PROVE  RecorderInv'
BY DEF RecorderInv, RecorderTyped, RecorderPlace, RecorderFlags, RecorderRows, RecorderFiles,
   RecorderTables, SessionOver, KeysOf, OnePerKey, Logged, RawFiles

\* Every step of bench_record.py keeps what is true of its study.
LEMMA RecorderInvariant ==
  ASSUME RecorderInv, Baseline \in Baselines, RecorderStep
  PROVE  RecorderInv'
<1>1. CASE Recording!Prepare
  BY <1>1, RecorderPrepares
<1>2. CASE Recording!BeginSession \/ Recording!SetupEnds \/ Recording!Confine
  BY <1>2, RecorderBeginsSession, RecorderSetupEnds, RecorderConfines
<1>3. CASE Recording!NextLaunch \/ Recording!TasksCleared \/ Recording!LaunchEnds \/ Recording!LaunchEndsShort
           \/ Recording!TasksReturned
  BY <1>3, RecorderNextLaunches, RecorderClears, RecorderLaunchEnds, RecorderReturns
<1>4. CASE Recording!Moving
  BY <1>4, RecorderStays DEF Recording!Moving, Recording!session
<1>5. CASE Recording!Leave \/ Recording!RestoreEnds \/ Recording!PassEnds \/ Recording!Write
  BY <1>5, RecorderLeaves, RecorderRestoreEnds, RecorderPassEnds, RecorderWrites
<1>6. CASE Recording!Reap \/ Recording!Interrupt \/ Recording!Kill
  BY <1>6, RecorderReaps, RecorderInterrupted, RecorderKilled
<1> QED BY <1>1, <1>2, <1>3, <1>4, <1>5, <1>6
     DEF RecorderStep, Starts, Recording!StudyStep, Recording!Normal

\* Nobody else has a hand in the study.
LEMMA RecorderBegins ==
  ASSUME Recording!StudyInit
  PROVE  RecorderInv
<1>1. NoRecovery \in Baselines
  BY DEF Baselines
<1>2. RecorderTyped
  BY <1>1, Ranges, Design DEF Recording!StudyInit, Recording!EmptyDirectory, RecorderTyped,
     RecorderRecord, Directory,
     Recording!Points
<1>3. RecorderPlace /\ RecorderFlags
  BY Design DEF Recording!StudyInit, Recording!EmptyDirectory, RecorderPlace, RecorderFlags,
     SessionOver
<1>4. Prior(0, 0, 0) = {}
  BY PriorOfSession, Design, Ranges
<1>5. RecorderRows /\ RecorderFiles /\ RecorderTables
  BY <1>4 DEF Recording!StudyInit, Recording!EmptyDirectory, RecorderRows, RecorderFiles,
     RecorderTables, KeysOf,
     OnePerKey, Logged
<1> QED BY <1>2, <1>3, <1>5 DEF RecorderInv

------------------------------------------------------------------------------
(* bench_diagnose.py: what is true of its rows and files at every point. *)

\* The values that the variables of bench_diagnose.py take.
DiagnosisRecord ==
  [at : Diagnosing!Points, session : 0 .. Sessions, round : 0 .. Rounds, position : 0 .. Programs,
   clears : BOOLEAN, allows : BOOLEAN, base : Baselines, attempted : BOOLEAN, before : BOOLEAN,
   pending : BOOLEAN, errors : BOOLEAN, raising : BOOLEAN, complete : BOOLEAN, killed : BOOLEAN,
   rows : SUBSET Rows]

\* They are such values, and so is what is in the directory.
DiagnosisTyped == diagnosis \in DiagnosisRecord /\ diagnosisDir \in Directory

\* The points of archive().
Archives == {"tables", "env", "pack", "purge"}

\* Where the program is says how far it has come.
DiagnosisPlace ==
  /\ diagnosis.at \in {"next", "clearing", "launching", "counting"} =>
       diagnosis.session >= 1 /\ diagnosis.round >= 1
  /\ diagnosis.at \in {"clearing", "launching", "counting"} => diagnosis.position < Programs
  /\ diagnosis.at \in {"noted", "setup", "cores", "warmup"} =>
       diagnosis.session >= 1 /\ diagnosis.round = 0
  /\ diagnosis.at \in {"idle", "session"} =>
       SessionOver(diagnosis) /\ diagnosis.session < Sessions /\ diagnosis.base = NoRecovery
  /\ diagnosis.at \in {"after", "leave", "restore", "first", "second", "left"} /\ ~diagnosis.raising =>
       SessionOver(diagnosis) /\ diagnosis.session >= 1
  /\ diagnosis.at = "left" /\ ~diagnosis.errors => diagnosis.base = NoRecovery

\* What the program knows of the study's end, and of the recovery file.
DiagnosisFlags ==
  /\ diagnosis.at \in {"idle", "session", "noted", "setup", "cores", "warmup", "next", "clearing",
                       "launching", "counting"} => ~diagnosis.raising
  /\ diagnosis.at \in Archives => diagnosis.raising = ~diagnosis.complete
  /\ diagnosis.at \notin Archives \cup {"ended"} => ~diagnosis.complete
  /\ diagnosis.at # "ended" /\ diagnosis.complete =>
       /\ diagnosis.session = Sessions /\ diagnosis.round = Rounds /\ diagnosis.position = Programs
       /\ diagnosis.base = NoRecovery
  /\ diagnosis.at # "ended" => diagnosisDir.recovery = diagnosis.base

\* The rows of launches that were whole.
FullRows(keys) == {[key |-> k, exit |-> 0, reps |-> AllReps] : k \in keys}

\* The files of launches that were whole.
FullFiles(keys) == {Log(k) : k \in keys} \cup {Command(k, "complete") : k \in keys}

\* The launches before the one in hand.
Done == Prior(diagnosis.session, diagnosis.round, diagnosis.position)

\* The launch in hand.
Current == <<diagnosis.session, diagnosis.round,
             ProgramAt(diagnosis.session, diagnosis.round, diagnosis.position + 1)>>

\* The files of the launch in hand.
InWork ==
  CASE diagnosis.at = "launching" -> {Command(Current, "started")}
    [] diagnosis.at = "counting" -> FullFiles({Current})
    [] OTHER -> {}

\* Until something fails, all rows are of whole launches.
DiagnosisRows ==
  /\ ~diagnosis.raising /\ diagnosis.at \notin {"ended", "counting"} => diagnosis.rows = FullRows(Done)
  /\ diagnosis.at = "counting" =>
       \E exit \in {0, 1} :
         diagnosis.rows = FullRows(Done) \cup {[key |-> Current, exit |-> exit, reps |-> {}]}

\* Until something fails, the files are those of the launches done.
DiagnosisFiles ==
  /\ ~diagnosis.raising /\ diagnosis.at \notin {"ended", "purge"} =>
       diagnosisDir.raw = FullFiles(Done) \cup InWork
  /\ ~diagnosis.raising /\ diagnosis.at = "purge" => diagnosisDir.archive = FullFiles(Done)
  /\ Logged(diagnosisDir, diagnosis.rows) /\ Logged(diagnosisDir, diagnosisDir.launches)
  /\ diagnosis.at \notin {"purge", "ended"} => diagnosisDir.archive = {}
  /\ diagnosis.at = "purge" => diagnosisDir.raw \subseteq diagnosisDir.archive

\* The environment says complete only beside the tables of a whole study.
DiagnosisTables ==
  /\ diagnosisDir.env \in {"none", "incomplete", "complete"}
  /\ diagnosisDir.env = "none" => diagnosisDir.launches = {}
  /\ diagnosis.at # "idle" => diagnosisDir.env # "none" \/ diagnosis.at = "ended"
  /\ diagnosis.at = "env" /\ diagnosis.complete => Whole(diagnosisDir)
  /\ diagnosisDir.env = "complete" =>
       /\ diagnosis.at \in {"pack", "purge", "ended"} /\ Whole(diagnosisDir)
       /\ diagnosisDir.recovery = NoRecovery /\ RawFiles(diagnosisDir) = FullFiles(Keys)

\* What is true of a diagnosis, wherever it stands or has stopped.
DiagnosisInv == DiagnosisTyped /\ DiagnosisPlace /\ DiagnosisFlags /\ DiagnosisRows /\ DiagnosisFiles /\ DiagnosisTables

\* The points before archive().
Diagnoses == {"idle", "session", "noted", "setup", "cores", "warmup", "next", "clearing", "launching",
              "counting", "after", "leave", "restore", "first", "second", "left"}

\* The points at which a launch is in hand.
InLaunch == {"launching", "counting"}

\* A step that leaves rows and files alone, or raises an exception.
LEMMA DiagnosisKeepsRows ==
  ASSUME DiagnosisInv, DiagnosisTyped', Kept(diagnosisDir, diagnosisDir'),
         diagnosis.at \in Diagnoses, diagnosis'.at \in (Diagnoses \ {"idle"}) \cup {"tables"},
         diagnosisDir'.env # "none",
         diagnosis'.rows = diagnosis.rows,
         \/ diagnosis'.raising /\ diagnosis'.at \notin InLaunch
         \/ /\ ~diagnosis.raising /\ diagnosisDir'.raw = diagnosisDir.raw /\ Done' = Done
            /\ diagnosis.at \notin InLaunch /\ diagnosis'.at \notin InLaunch
  PROVE  DiagnosisRows' /\ DiagnosisFiles' /\ DiagnosisTables'
<1>1. DiagnosisRows'
  BY DEF DiagnosisInv, DiagnosisRows, Diagnoses, InLaunch
<1>2. DiagnosisFiles'
  <2>1. ~diagnosis'.raising => diagnosisDir'.raw = FullFiles(Done') \cup InWork'
    BY DEF DiagnosisInv, DiagnosisFiles, Diagnoses, InLaunch, InWork
  <2> QED BY <2>1 DEF DiagnosisInv, DiagnosisFiles, Diagnoses, Logged, RawFiles, Kept
<1>3. DiagnosisTables'
  BY DEF DiagnosisInv, DiagnosisTables, Diagnoses, Kept
<1> QED BY <1>1, <1>2, <1>3

\* The program ends, or is killed.
LEMMA DiagnosisGoes ==
  ASSUME DiagnosisInv, diagnosis' \in {Diagnosing!Gone, [Diagnosing!Gone EXCEPT !.killed = TRUE]},
         diagnosisDir' \in Directory, Kept(diagnosisDir, diagnosisDir'),
         \/ diagnosisDir' = diagnosisDir
         \/ diagnosis.at \in Diagnoses
  PROVE  DiagnosisInv'
<1>1. DiagnosisTyped'
  <2>1. NoRecovery \in Baselines
    BY DEF Baselines
  <2>2. Diagnosing!Gone \in DiagnosisRecord
    BY <2>1, Ranges DEF DiagnosisInv, DiagnosisTyped, DiagnosisRecord, Diagnosing!Gone,
       Diagnosing!Points
  <2>3. [Diagnosing!Gone EXCEPT !.killed = TRUE] \in DiagnosisRecord
    BY <2>2 DEF DiagnosisRecord
  <2> QED BY <2>2, <2>3 DEF DiagnosisInv, DiagnosisTyped
<1>2. diagnosis'.at = "ended" /\ diagnosis'.rows = {}
  BY DEF DiagnosisInv, DiagnosisTyped, DiagnosisRecord, Diagnosing!Gone
<1>3. DiagnosisPlace' /\ DiagnosisFlags' /\ DiagnosisRows'
  BY <1>2 DEF DiagnosisPlace, DiagnosisFlags, DiagnosisRows, Archives
<1>4. DiagnosisFiles'
  BY <1>2 DEF DiagnosisInv, DiagnosisFiles, Logged, RawFiles, Kept
<1>5. DiagnosisTables'
  BY <1>2 DEF DiagnosisInv, DiagnosisTables, Diagnoses, Kept, Whole
<1> QED BY <1>1, <1>3, <1>4, <1>5 DEF DiagnosisInv

\* An exception.
LEMMA DiagnosisRaises ==
  ASSUME DiagnosisInv, diagnosis.at \in Diagnoses \ {"idle"}, DiagnosisTyped',
         Kept(diagnosisDir, diagnosisDir'),
         diagnosis'.raising, ~diagnosis'.complete,
         diagnosis'.at \in {"after", "leave", "tables"}, diagnosis'.base = diagnosis.base,
         diagnosis'.rows = diagnosis.rows
  PROVE  DiagnosisInv'
<1>1. DiagnosisPlace'
  BY DEF DiagnosisInv, DiagnosisPlace
<1>2. DiagnosisFlags'
  BY DEF DiagnosisInv, DiagnosisFlags, Diagnoses, Archives, Kept
<1>3. DiagnosisRows' /\ DiagnosisFiles' /\ DiagnosisTables'
  <2>1. diagnosisDir'.env # "none"
    BY DEF DiagnosisInv, DiagnosisTables, Diagnoses, Kept
  <2> QED BY <2>1, DiagnosisKeepsRows DEF Diagnoses, InLaunch
<1> QED BY <1>1, <1>2, <1>3 DEF DiagnosisInv

(* The steps of the program. *)

\* main: the study begins, or is refused.
LEMMA DiagnosisPrepares ==
  ASSUME DiagnosisInv, Diagnosing!Prepare
  PROVE  DiagnosisInv'
<1>1. diagnosis.at = "idle"
  BY DEF Diagnosing!Prepare, Diagnosing!InStudy
<1>2. CASE diagnosis' = Diagnosing!Gone /\ diagnosisDir' = diagnosisDir
  BY <1>1, <1>2, DiagnosisGoes DEF DiagnosisInv, DiagnosisTyped, Kept
<1>3. CASE /\ \E clears \in BOOLEAN, allows \in BOOLEAN :
                diagnosis' = [diagnosis EXCEPT !.at = "session", !.clears = clears, !.allows = allows]
           /\ diagnosisDir' = [diagnosisDir EXCEPT !.env = "incomplete"]
  <2>1. DiagnosisTyped'
    <3> PICK clears \in BOOLEAN, allows \in BOOLEAN :
           diagnosis' = [diagnosis EXCEPT !.at = "session", !.clears = clears, !.allows = allows]
      BY <1>3
    <3>1. diagnosis' \in DiagnosisRecord
      BY DEF DiagnosisInv, DiagnosisTyped, DiagnosisRecord, Diagnosing!Points
    <3>2. diagnosisDir' \in Directory
      BY <1>3 DEF DiagnosisInv, DiagnosisTyped, Directory
    <3> QED BY <3>1, <3>2 DEF DiagnosisTyped
  <2>2. DiagnosisPlace' /\ DiagnosisFlags'
    BY <1>1, <1>3 DEF DiagnosisInv, DiagnosisTyped, DiagnosisRecord, Directory, DiagnosisPlace,
       DiagnosisFlags, Archives, SessionOver
  <2>3. DiagnosisRows'
    BY <1>1, <1>3 DEF DiagnosisInv, DiagnosisTyped, DiagnosisRecord, DiagnosisRows, Done
  <2>4. DiagnosisFiles'
    BY <1>1, <1>3 DEF DiagnosisInv, DiagnosisTyped, DiagnosisRecord, Directory,
       DiagnosisFiles, Done, InWork,
       Logged, RawFiles
  <2>5. DiagnosisTables'
    BY <1>1, <1>3 DEF DiagnosisInv, DiagnosisTyped, DiagnosisRecord, Directory, DiagnosisTables
  <2> QED BY <2>1, <2>2, <2>3, <2>4, <2>5 DEF DiagnosisInv
<1> QED BY <1>2, <1>3 DEF Diagnosing!Prepare

\* A session begins with a baseline.
LEMMA DiagnosisBeginsSession ==
  ASSUME DiagnosisInv, Baseline \in Baselines, Diagnosing!BeginSession
  PROVE  DiagnosisInv'
<1> DEFINE base == Diagnosing!Baseline
<1>1. base \in Baselines /\ diagnosis.at = "session"
  BY DEF Baseline, Live, Effective, Diagnosing!Baseline, Diagnosing!Live, Diagnosing!Effective,
     Diagnosing!BeginSession, Diagnosing!InStudy
<1>2. CASE diagnosis' = Diagnosing!Archiving /\ UNCHANGED diagnosisDir
  <2>1. DiagnosisTyped'
    BY <1>1, <1>2 DEF DiagnosisInv, DiagnosisTyped, DiagnosisRecord, Diagnosing!Points,
       Diagnosing!Raising, Diagnosing!Archiving
  <2> QED BY <1>1, <1>2, <2>1, DiagnosisRaises DEF DiagnosisInv, DiagnosisTyped,
       DiagnosisRecord, DiagnosisFlags,
     Diagnoses, Archives, Kept, Diagnosing!Raising, Diagnosing!Archiving
<1>3. CASE /\ diagnosis' = [diagnosis EXCEPT !.at = "noted", !.session = diagnosis.session + 1, !.round = 0,
                                        !.before = FALSE, !.base = base]
           /\ diagnosisDir' = [diagnosisDir EXCEPT !.recovery = base]
  <2> HIDE DEF base
  <2>1. /\ SessionOver(diagnosis) /\ diagnosis.session < Sessions /\ ~diagnosis.raising
        /\ diagnosis.session \in 0 .. Sessions /\ diagnosis.round \in 0 .. Rounds
        /\ diagnosis.position \in 0 .. Programs
    BY <1>1 DEF DiagnosisInv, DiagnosisTyped, DiagnosisRecord, DiagnosisPlace, DiagnosisFlags
  <2>2. DiagnosisTyped'
    BY <1>1, <1>3, <2>1, Ranges DEF DiagnosisInv, DiagnosisTyped, DiagnosisRecord, Directory,
       Diagnosing!Points
  <2>3. /\ diagnosis'.at = "noted" /\ diagnosis'.session = diagnosis.session + 1 /\ diagnosis'.round = 0
        /\ diagnosis'.position = diagnosis.position /\ diagnosis'.rows = diagnosis.rows
        /\ diagnosis'.base = base /\ diagnosis'.raising = diagnosis.raising
        /\ diagnosis'.complete = diagnosis.complete /\ diagnosisDir'.recovery = base
        /\ diagnosisDir'.launches = diagnosisDir.launches /\ diagnosisDir'.samples = diagnosisDir.samples
        /\ diagnosisDir'.env = diagnosisDir.env /\ diagnosisDir'.raw = diagnosisDir.raw
        /\ diagnosisDir'.archive = diagnosisDir.archive
    BY <1>3 DEF DiagnosisInv, DiagnosisTyped, DiagnosisRecord, Directory
  <2>4. DiagnosisPlace' /\ DiagnosisFlags'
    BY <1>1, <2>1, <2>3 DEF DiagnosisInv, DiagnosisPlace, DiagnosisFlags, Archives
  <2>5. Done' = Done
    <3>1. CASE diagnosis.session = 0
      <4>1. Done = {}
        BY <2>1, <3>1, PriorOfSession DEF Done
      <4>2. Prior(1, 0, diagnosis.position) = {}
        BY <2>1, <3>1, PriorOfSession
      <4> QED BY <2>3, <3>1, <4>1, <4>2 DEF Done
    <3>2. CASE diagnosis.session > 0 /\ diagnosis.round = Rounds /\ diagnosis.position = Programs
      BY <2>1, <2>3, <3>2, PriorOfSession DEF Done
    <3> QED BY <2>1, <3>1, <3>2 DEF SessionOver
  <2>6. DiagnosisRows'
    BY <1>1, <2>1, <2>3, <2>5 DEF DiagnosisInv, DiagnosisRows
  <2>7. DiagnosisFiles'
    BY <1>1, <2>1, <2>3, <2>5 DEF DiagnosisInv, DiagnosisFiles, InWork, Logged, RawFiles
  <2>8. DiagnosisTables'
    BY <1>1, <2>3 DEF DiagnosisInv, DiagnosisTables
  <2> QED BY <2>2, <2>4, <2>6, <2>7, <2>8 DEF DiagnosisInv
<1> QED BY <1>2, <1>3 DEF Diagnosing!BeginSession

\* setup is started.
LEMMA DiagnosisRunsSetup ==
  ASSUME DiagnosisInv, Diagnosing!RunSetup
  PROVE  DiagnosisInv'
<1>1. /\ diagnosis.at = "noted" /\ diagnosis' = [diagnosis EXCEPT !.at = "setup", !.attempted = TRUE]
      /\ diagnosisDir' = diagnosisDir
  BY DEF Diagnosing!RunSetup, Diagnosing!InStudy
<1> QED
  <2>1. DiagnosisTyped'
    BY <1>1 DEF DiagnosisInv, DiagnosisTyped, DiagnosisRecord, Diagnosing!Points
  <2>2. DiagnosisPlace' /\ DiagnosisFlags'
    BY <1>1 DEF DiagnosisInv, DiagnosisTyped, DiagnosisRecord, DiagnosisPlace, DiagnosisFlags,
       Archives, SessionOver
  <2>3. DiagnosisRows' /\ DiagnosisFiles' /\ DiagnosisTables'
    BY <1>1, <2>1, DiagnosisKeepsRows DEF DiagnosisInv, DiagnosisTyped, DiagnosisRecord,
       DiagnosisFlags,
       DiagnosisTables, Diagnoses, InLaunch, Done, Kept
  <2> QED BY <2>1, <2>2, <2>3 DEF DiagnosisInv

\* setup has ended.
LEMMA DiagnosisSetupEnds ==
  ASSUME DiagnosisInv, Diagnosing!SetupEnds
  PROVE  DiagnosisInv'
<1>1. diagnosisDir' = diagnosisDir /\ diagnosis.at = "setup"
  BY DEF Diagnosing!SetupEnds, Diagnosing!InStudy
<1>2. CASE diagnosis' = [Diagnosing!Raising EXCEPT !.pending = FALSE]
  <2>1. DiagnosisTyped'
    BY <1>1, <1>2 DEF DiagnosisInv, DiagnosisTyped, DiagnosisRecord, Diagnosing!Points,
       Diagnosing!Raising, Diagnosing!Archiving
  <2> QED BY <1>1, <1>2, <2>1, DiagnosisRaises DEF DiagnosisInv, DiagnosisTyped,
       DiagnosisRecord, DiagnosisFlags,
     Diagnoses, Archives, Kept, Diagnosing!Raising, Diagnosing!Archiving
<1>3. CASE diagnosis' = [diagnosis EXCEPT !.at = "cores"]
  <2>1. DiagnosisTyped'
    BY <1>1, <1>3 DEF DiagnosisInv, DiagnosisTyped, DiagnosisRecord, Diagnosing!Points
  <2>2. DiagnosisPlace' /\ DiagnosisFlags'
    BY <1>1, <1>3 DEF DiagnosisInv, DiagnosisTyped, DiagnosisRecord, DiagnosisPlace,
       DiagnosisFlags, Archives, SessionOver
  <2>3. DiagnosisRows' /\ DiagnosisFiles' /\ DiagnosisTables'
    BY <1>1, <1>3, <2>1, DiagnosisKeepsRows DEF DiagnosisInv, DiagnosisTyped, DiagnosisRecord,
       DiagnosisFlags,
       DiagnosisTables, Diagnoses, InLaunch, Done, Kept
  <2> QED BY <2>1, <2>2, <2>3 DEF DiagnosisInv
<1> QED BY <1>2, <1>3 DEF Diagnosing!SetupEnds, Diagnosing!GoTo

\* The recorder leaves the measurement cores.
LEMMA DiagnosisConfines ==
  ASSUME DiagnosisInv, Diagnosing!Confine
  PROVE  DiagnosisInv'
<1>1. diagnosisDir' = diagnosisDir /\ diagnosis.at \in {"cores", "warmup"}
  BY DEF Diagnosing!Confine, Diagnosing!InStudy
<1>2. CASE diagnosis' = Diagnosing!Raising
  <2>1. DiagnosisTyped'
    BY <1>1, <1>2 DEF DiagnosisInv, DiagnosisTyped, DiagnosisRecord, Diagnosing!Points,
       Diagnosing!Raising, Diagnosing!Archiving
  <2> QED BY <1>1, <1>2, <2>1, DiagnosisRaises DEF DiagnosisInv, DiagnosisTyped,
       DiagnosisRecord, DiagnosisFlags,
     Diagnoses, Archives, Kept, Diagnosing!Raising, Diagnosing!Archiving
<1>3. CASE diagnosis.at = "cores" /\ diagnosis' = [diagnosis EXCEPT !.at = "warmup", !.before = TRUE]
  <2>1. DiagnosisTyped'
    BY <1>1, <1>3 DEF DiagnosisInv, DiagnosisTyped, DiagnosisRecord, Diagnosing!Points
  <2>2. DiagnosisPlace' /\ DiagnosisFlags'
    BY <1>1, <1>3 DEF DiagnosisInv, DiagnosisTyped, DiagnosisRecord, DiagnosisPlace,
       DiagnosisFlags, Archives, SessionOver
  <2>3. DiagnosisRows' /\ DiagnosisFiles' /\ DiagnosisTables'
    BY <1>1, <1>3, <2>1, DiagnosisKeepsRows DEF DiagnosisInv, DiagnosisTyped, DiagnosisRecord,
       DiagnosisFlags,
       DiagnosisTables, Diagnoses, InLaunch, Done, Kept
  <2> QED BY <2>1, <2>2, <2>3 DEF DiagnosisInv
<1>4. CASE /\ diagnosis.at = "warmup"
           /\ diagnosis' = [diagnosis EXCEPT !.at = "next", !.round = 1, !.position = 0]
  <2>1. DiagnosisTyped'
    BY <1>1, <1>4, Ranges DEF DiagnosisInv, DiagnosisTyped, DiagnosisRecord, Diagnosing!Points
  <2>2. DiagnosisPlace' /\ DiagnosisFlags'
    BY <1>1, <1>4 DEF DiagnosisInv, DiagnosisTyped, DiagnosisRecord, DiagnosisPlace,
       DiagnosisFlags, Archives
  <2>3. Done' = Done
    BY <1>4, PriorOfSession DEF DiagnosisInv, DiagnosisTyped, DiagnosisRecord, DiagnosisPlace,
       Done
  <2>4. DiagnosisRows' /\ DiagnosisFiles' /\ DiagnosisTables'
    BY <1>1, <1>4, <2>1, <2>3, DiagnosisKeepsRows DEF DiagnosisInv, DiagnosisTyped,
       DiagnosisRecord,
       DiagnosisFlags, DiagnosisTables, Diagnoses, InLaunch, Kept
  <2> QED BY <2>1, <2>2, <2>4 DEF DiagnosisInv
<1> QED BY <1>2, <1>3, <1>4 DEF Diagnosing!Confine, Diagnosing!InStudy

(* A launch: noted, run, counted. *)

\* The launch in hand is a new one of the design.
LEMMA CurrentKey ==
  ASSUME DiagnosisInv, diagnosis.at \in {"next", "clearing", "launching", "counting"}, diagnosis.position < Programs
  PROVE  /\ Diagnosing!Key = Current /\ Current \in Keys /\ Current \notin Done
         /\ Prior(diagnosis.session, diagnosis.round, diagnosis.position + 1) = Done \cup {Current}
         /\ \A is \in {"log", "started", "complete"} : Command(Current, is) \in Files
<1>1. /\ diagnosis.session \in 1 .. Sessions /\ diagnosis.round \in 1 .. Rounds
      /\ diagnosis.position \in 0 .. Programs - 1
  BY Design DEF DiagnosisInv, DiagnosisTyped, DiagnosisRecord, DiagnosisPlace
<1>2. Diagnosing!Key = Current
  BY DEF Diagnosing!Key, Diagnosing!ProgramAt, Diagnosing!RoundIndex, Current, ProgramAt,
     RoundIndex
<1>3. Current \in Keys /\ Current \notin Done
      /\ Prior(diagnosis.session, diagnosis.round, diagnosis.position + 1) = Done \cup {Current}
  BY <1>1, PriorGrows, NewInRound DEF Current, Done
<1> QED BY <1>2, <1>3 DEF Files, Command

\* The files of the two recorders have the same names.
LEMMA SameFiles ==
  /\ \A key : Diagnosing!Log(key) = Log(key)
  /\ \A key, is : Diagnosing!Command(key, is) = Command(key, is)
BY DEF Diagnosing!Log, Log, Diagnosing!Command, Command

\* The command is noted before the binary is run.
LEMMA DiagnosisLaunches ==
  ASSUME DiagnosisInv, diagnosis.at \in {"next", "clearing"}, diagnosis.position < Programs,
         diagnosis' = [diagnosis EXCEPT !.at = "launching"], diagnosisDir' = Diagnosing!Launching
  PROVE  DiagnosisInv'
<1>1. diagnosisDir' = [diagnosisDir EXCEPT !.raw = diagnosisDir.raw \cup {Command(Current, "started")}]
  BY CurrentKey, SameFiles DEF Diagnosing!Launching
<1>2. DiagnosisTyped'
  BY <1>1, CurrentKey DEF DiagnosisInv, DiagnosisTyped, DiagnosisRecord, Directory,
     Diagnosing!Points
<1>3. /\ diagnosis'.at = "launching" /\ diagnosis'.session = diagnosis.session
      /\ diagnosis'.round = diagnosis.round /\ diagnosis'.position = diagnosis.position
      /\ diagnosis'.rows = diagnosis.rows /\ diagnosis'.base = diagnosis.base
      /\ diagnosis'.raising = diagnosis.raising /\ diagnosis'.complete = diagnosis.complete
      /\ diagnosisDir'.recovery = diagnosisDir.recovery /\ diagnosisDir'.launches = diagnosisDir.launches
      /\ diagnosisDir'.env = diagnosisDir.env /\ diagnosisDir'.archive = diagnosisDir.archive
      /\ diagnosisDir'.raw = diagnosisDir.raw \cup {Command(Current, "started")}
  BY <1>1 DEF DiagnosisInv, DiagnosisTyped, DiagnosisRecord, Directory
<1>4. DiagnosisPlace' /\ DiagnosisFlags'
  BY <1>3 DEF DiagnosisInv, DiagnosisPlace, DiagnosisFlags, Archives
<1>5. Done' = Done /\ Current' = Current
  BY <1>3 DEF Done, Current
<1>6. DiagnosisRows'
  BY <1>3, <1>5 DEF DiagnosisInv, DiagnosisRows
<1>7. DiagnosisFiles'
  <2>1. diagnosisDir'.raw = FullFiles(Done') \cup InWork'
    BY <1>3, <1>5 DEF DiagnosisInv, DiagnosisFlags, DiagnosisFiles, InWork
  <2> QED BY <1>3, <2>1 DEF DiagnosisInv, DiagnosisFiles, Logged, RawFiles
<1>8. DiagnosisTables'
  BY <1>3 DEF DiagnosisInv, DiagnosisTables
<1> QED BY <1>2, <1>4, <1>6, <1>7, <1>8 DEF DiagnosisInv

\* The next launch, round or session.
LEMMA DiagnosisNextLaunches ==
  ASSUME DiagnosisInv, Diagnosing!NextLaunch
  PROVE  DiagnosisInv'
<1>1. diagnosis.at = "next"
  BY DEF Diagnosing!NextLaunch, Diagnosing!InStudy
<1>2. /\ diagnosis.session \in 1 .. Sessions /\ diagnosis.round \in 1 .. Rounds /\ ~diagnosis.raising
      /\ ~(diagnosis.position < Programs) => diagnosis.position = Programs
      /\ ~(diagnosis.round < Rounds) => diagnosis.round = Rounds
  BY <1>1, Design DEF DiagnosisInv, DiagnosisTyped, DiagnosisRecord, DiagnosisPlace,
     DiagnosisFlags
<1>3. CASE /\ ~(diagnosis.position < Programs) /\ diagnosis.round < Rounds /\ diagnosisDir' = diagnosisDir
           /\ diagnosis' = [diagnosis EXCEPT !.round = diagnosis.round + 1, !.position = 0]
  <2>1. DiagnosisTyped'
    BY <1>2, <1>3, Ranges DEF DiagnosisInv, DiagnosisTyped, DiagnosisRecord, Diagnosing!Points
  <2>2. DiagnosisPlace' /\ DiagnosisFlags'
    BY <1>1, <1>2, <1>3 DEF DiagnosisInv, DiagnosisTyped, DiagnosisRecord, DiagnosisPlace,
       DiagnosisFlags, Archives
  <2>3. Done' = Done
    <3>1. Prior(diagnosis.session, diagnosis.round + 1, 0) = Prior(diagnosis.session, diagnosis.round, Programs)
      BY <1>2, PriorOfRound
    <3> QED BY <1>2, <1>3, <3>1 DEF DiagnosisInv, DiagnosisTyped, DiagnosisRecord, Done
  <2>4. DiagnosisRows' /\ DiagnosisFiles' /\ DiagnosisTables'
    BY <1>1, <1>2, <1>3, <2>1, <2>3, DiagnosisKeepsRows DEF DiagnosisInv, DiagnosisTyped,
       DiagnosisRecord,
       DiagnosisTables, Diagnoses, InLaunch, Kept
  <2> QED BY <2>1, <2>2, <2>4 DEF DiagnosisInv
<1>4. CASE /\ ~(diagnosis.position < Programs) /\ ~(diagnosis.round < Rounds) /\ diagnosisDir' = diagnosisDir
           /\ diagnosis' = [diagnosis EXCEPT !.at = "after"]
  <2>1. DiagnosisTyped'
    BY <1>1, <1>2, <1>4 DEF DiagnosisInv, DiagnosisTyped, DiagnosisRecord, Diagnosing!Points
  <2>2. DiagnosisPlace' /\ DiagnosisFlags'
    BY <1>1, <1>2, <1>4 DEF DiagnosisInv, DiagnosisTyped, DiagnosisRecord, DiagnosisPlace,
       DiagnosisFlags, Archives, SessionOver
  <2>3. DiagnosisRows' /\ DiagnosisFiles' /\ DiagnosisTables'
    BY <1>1, <1>2, <1>4, <2>1, DiagnosisKeepsRows DEF DiagnosisInv, DiagnosisTyped,
       DiagnosisRecord, DiagnosisFlags,
       DiagnosisTables, Diagnoses, InLaunch, Done, Kept
  <2> QED BY <2>1, <2>2, <2>3 DEF DiagnosisInv
<1>5. CASE /\ diagnosis.position < Programs /\ diagnosisDir' = diagnosisDir
           /\ diagnosis' = [diagnosis EXCEPT !.at = "clearing"]
  <2>1. DiagnosisTyped'
    BY <1>1, <1>2, <1>5 DEF DiagnosisInv, DiagnosisTyped, DiagnosisRecord, Diagnosing!Points
  <2>2. DiagnosisPlace' /\ DiagnosisFlags'
    BY <1>1, <1>2, <1>5 DEF DiagnosisInv, DiagnosisTyped, DiagnosisRecord, DiagnosisPlace,
       DiagnosisFlags, Archives, SessionOver
  <2>3. DiagnosisRows' /\ DiagnosisFiles' /\ DiagnosisTables'
    BY <1>1, <1>2, <1>5, <2>1, DiagnosisKeepsRows DEF DiagnosisInv, DiagnosisTyped,
       DiagnosisRecord, DiagnosisFlags,
       DiagnosisTables, Diagnoses, InLaunch, Done, Kept
  <2> QED BY <2>1, <2>2, <2>3 DEF DiagnosisInv
<1>6. CASE /\ diagnosis.position < Programs /\ diagnosisDir' = Diagnosing!Launching
           /\ diagnosis' = [diagnosis EXCEPT !.at = "launching"]
  BY <1>1, <1>6, DiagnosisLaunches
<1> QED BY <1>3, <1>4, <1>5, <1>6 DEF Diagnosing!NextLaunch, Diagnosing!GoTo

\* The tasks are off the measurement cores: the binary is run.
LEMMA DiagnosisClears ==
  ASSUME DiagnosisInv, Diagnosing!TasksCleared
  PROVE  DiagnosisInv'
<1>1. diagnosis.at = "clearing" /\ diagnosis.position < Programs
  BY DEF Diagnosing!TasksCleared, Diagnosing!InStudy, DiagnosisInv, DiagnosisPlace
<1>2. CASE diagnosis' = [diagnosis EXCEPT !.at = "launching"] /\ diagnosisDir' = Diagnosing!Launching
  BY <1>1, <1>2, DiagnosisLaunches
<1>3. CASE diagnosis' = Diagnosing!Raising /\ UNCHANGED diagnosisDir
  <2>1. DiagnosisTyped'
    BY <1>1, <1>3 DEF DiagnosisInv, DiagnosisTyped, DiagnosisRecord, Diagnosing!Points,
       Diagnosing!Raising, Diagnosing!Archiving
  <2> QED BY <1>1, <1>3, <2>1, DiagnosisRaises DEF DiagnosisInv, DiagnosisTyped,
       DiagnosisRecord, DiagnosisFlags,
     Diagnoses, Archives, Kept, Diagnosing!Raising, Diagnosing!Archiving
<1> QED BY <1>2, <1>3 DEF Diagnosing!TasksCleared

\* What one more launch adds to rows and files.
LEMMA FilesOfRows ==
  ASSUME NEW done, NEW key
  PROVE  /\ FullFiles(done \cup {key}) = FullFiles(done) \cup FullFiles({key})
         /\ FullFiles({key}) = {Log(key), Command(key, "complete")}
         /\ Command(key, "started") \notin FullFiles(done)
         /\ FullRows(done \cup {key}) = FullRows(done) \cup {[key |-> key, exit |-> 0, reps |-> AllReps]}
BY DEF FullFiles, FullRows, Log, Command

\* Tables of rows of the design are tables of the design.
LEMMA TablesOfRows ==
  ASSUME NEW rows \in SUBSET Rows
  PROVE  /\ LaunchTable(rows) \subseteq [key : Keys, exit : {0, 1}]
         /\ SampleTable(rows) \subseteq [key : Keys, reps : SUBSET AllReps]
         /\ Diagnosing!LaunchTable(rows) = LaunchTable(rows)
         /\ Diagnosing!SampleTable(rows) = SampleTable(rows)
BY DEF LaunchTable, SampleTable, Rows, AllReps, Diagnosing!LaunchTable, Diagnosing!SampleTable

\* A binary has ended: its command is complete and its log written.
LEMMA DiagnosisLaunchEnds ==
  ASSUME DiagnosisInv, Diagnosing!LaunchEnds
  PROVE  DiagnosisInv'
<1>1. diagnosis.at = "launching" /\ diagnosis.position < Programs /\ ~diagnosis.raising
  BY DEF Diagnosing!LaunchEnds, Diagnosing!InStudy, DiagnosisInv, DiagnosisPlace,
     DiagnosisFlags
<1>2. /\ Diagnosing!Key = Current /\ Current \in Keys
      /\ \A is \in {"log", "started", "complete"} : Command(Current, is) \in Files
      /\ Log(Current) \in Files
  BY <1>1, CurrentKey DEF Log, Command
<1>3. CASE /\ diagnosis' = Diagnosing!Raising
           /\ diagnosisDir' = [diagnosisDir EXCEPT !.raw = @ \cup {Log(Current)}]
  <2>1. diagnosisDir' \in Directory /\ Kept(diagnosisDir, diagnosisDir')
    BY <1>2, <1>3 DEF DiagnosisInv, DiagnosisTyped, Directory, Kept
  <2>2. DiagnosisTyped'
    BY <1>3, <2>1 DEF DiagnosisInv, DiagnosisTyped, DiagnosisRecord, Diagnosing!Points,
       Diagnosing!Raising
  <2> QED BY <1>1, <1>3, <2>1, <2>2, DiagnosisRaises DEF DiagnosisInv, DiagnosisTyped,
       DiagnosisRecord,
       DiagnosisFlags, Diagnoses, Archives, Diagnosing!Raising
<1>4. ASSUME NEW exit \in {0, 1}, NEW rows,
             rows = diagnosis.rows \cup {[key |-> Current, exit |-> exit, reps |-> {}]},
             diagnosis' = [diagnosis EXCEPT !.at = "counting", !.rows = rows],
             diagnosisDir' = [Diagnosing!Tables(rows) EXCEPT
               !.raw = (@ \ {Command(Current, "started")}) \cup {Log(Current), Command(Current, "complete")}]
      PROVE  DiagnosisInv'
  <2>1. rows \in SUBSET Rows
    BY <1>2, <1>4 DEF DiagnosisInv, DiagnosisTyped, DiagnosisRecord, Rows
  <2>2. diagnosisDir' = [diagnosisDir EXCEPT !.launches = LaunchTable(rows), !.samples = SampleTable(rows),
           !.raw = (diagnosisDir.raw \ {Command(Current, "started")}) \cup {Log(Current), Command(Current, "complete")}]
    BY <1>4, <2>1, TablesOfRows DEF DiagnosisInv, DiagnosisTyped, Directory, Diagnosing!Tables
  <2>3. DiagnosisTyped'
    <3>1. diagnosis' \in DiagnosisRecord
      BY <1>4, <2>1 DEF DiagnosisInv, DiagnosisTyped, DiagnosisRecord, Diagnosing!Points
    <3>2. diagnosisDir' \in Directory
      BY <1>2, <2>1, <2>2, TablesOfRows DEF DiagnosisInv, DiagnosisTyped, Directory
    <3> QED BY <3>1, <3>2 DEF DiagnosisTyped
  <2>4. /\ diagnosis'.at = "counting" /\ diagnosis'.session = diagnosis.session
        /\ diagnosis'.round = diagnosis.round /\ diagnosis'.position = diagnosis.position
        /\ diagnosis'.rows = rows /\ diagnosis'.base = diagnosis.base
        /\ diagnosis'.raising = diagnosis.raising /\ diagnosis'.complete = diagnosis.complete
        /\ diagnosisDir'.recovery = diagnosisDir.recovery /\ diagnosisDir'.launches = LaunchTable(rows)
        /\ diagnosisDir'.env = diagnosisDir.env /\ diagnosisDir'.archive = diagnosisDir.archive
        /\ diagnosisDir'.raw = (diagnosisDir.raw \ {Command(Current, "started")})
                                 \cup {Log(Current), Command(Current, "complete")}
    BY <1>4, <2>2 DEF DiagnosisInv, DiagnosisTyped, DiagnosisRecord, Directory
  <2>5. DiagnosisPlace' /\ DiagnosisFlags'
    BY <1>1, <2>4 DEF DiagnosisInv, DiagnosisPlace, DiagnosisFlags, Archives
  <2>6. Done' = Done /\ Current' = Current
    BY <2>4 DEF Done, Current
  <2>7. DiagnosisRows'
    BY <1>1, <1>4, <2>4, <2>6 DEF DiagnosisInv, DiagnosisRows
  <2>8. DiagnosisFiles'
    <3>1. diagnosisDir.raw = FullFiles(Done) \cup {Command(Current, "started")}
      BY <1>1 DEF DiagnosisInv, DiagnosisFiles, InWork
    <3>2. diagnosisDir'.raw = FullFiles(Done') \cup InWork'
      <4>1. InWork' = {Log(Current), Command(Current, "complete")}
        BY <2>4, <2>6, FilesOfRows DEF InWork
      <4>2. Command(Current, "started") \notin FullFiles(Done)
        BY FilesOfRows
      <4> QED BY <2>4, <2>6, <3>1, <4>1, <4>2
    <3>3. Logged(diagnosisDir', rows)
      <4>1. \A row \in diagnosis.rows : Log(row.key) \in diagnosisDir.raw
        BY <1>1 DEF DiagnosisInv, DiagnosisFiles, Logged, RawFiles
      <4>2. \A key : Log(key) # Command(Current, "started")
        BY DEF Log, Command
      <4>3. Log(Current) \in diagnosisDir'.raw
        BY <2>4
      <4>4. \A row \in diagnosis.rows : Log(row.key) \in diagnosisDir'.raw
        BY <2>4, <4>1, <4>2
      <4>5. \A row \in rows : row \in diagnosis.rows \/ row.key = Current
        BY <1>4
      <4> QED BY <4>3, <4>4, <4>5 DEF Logged, RawFiles
    <3>4. Logged(diagnosisDir', LaunchTable(rows))
      BY <3>3 DEF Logged, LaunchTable
    <3>5. diagnosisDir.archive = {}
      BY <1>1 DEF DiagnosisInv, DiagnosisFiles
    <3> QED BY <2>4, <3>2, <3>3, <3>4, <3>5 DEF DiagnosisFiles
  <2>9. DiagnosisTables'
    BY <1>1, <2>4 DEF DiagnosisInv, DiagnosisTables
  <2> QED BY <2>3, <2>5, <2>7, <2>8, <2>9 DEF DiagnosisInv
<1> QED BY <1>2, <1>3, <1>4, SameFiles DEF Diagnosing!LaunchEnds

\* The repetitions in the log are counted.
LEMMA DiagnosisLaunchCounted ==
  ASSUME DiagnosisInv, Diagnosing!LaunchCounted
  PROVE  DiagnosisInv'
<1>1. diagnosis.at = "counting" /\ diagnosis.position < Programs /\ ~diagnosis.raising
  BY DEF Diagnosing!LaunchCounted, Diagnosing!InStudy, DiagnosisInv, DiagnosisPlace,
     DiagnosisFlags
<1>2. /\ Diagnosing!Key = Current /\ Current \in Keys /\ Current \notin Done
      /\ Prior(diagnosis.session, diagnosis.round, diagnosis.position + 1) = Done \cup {Current}
  BY <1>1, CurrentKey
<1>3. Diagnosing!AllReps = AllReps
  BY DEF Diagnosing!AllReps, AllReps
<1>4. PICK exit \in {0, 1} :
        diagnosis.rows = FullRows(Done) \cup {[key |-> Current, exit |-> exit, reps |-> {}]}
  BY <1>1 DEF DiagnosisInv, DiagnosisRows
<1>5. PICK row \in diagnosis.rows, reps \in {{}, AllReps, Short} :
        /\ row.key = Current
        /\ row.exit = 1 => reps = {}
        /\ LET rows == (diagnosis.rows \ {row}) \cup {[row EXCEPT !.reps = reps]} IN
           IF reps = AllReps
             THEN /\ diagnosis' = [diagnosis EXCEPT !.at = "next", !.position = @ + 1, !.rows = rows]
                  /\ diagnosisDir' = Diagnosing!Tables(rows)
             ELSE /\ diagnosis' = [Diagnosing!Raising EXCEPT !.rows = rows] /\ UNCHANGED diagnosisDir
  BY <1>2, <1>3 DEF Diagnosing!LaunchCounted, Short
<1>6. row = [key |-> Current, exit |-> exit, reps |-> {}]
  BY <1>2, <1>4, <1>5 DEF FullRows
<1>7. [key |-> Current, exit |-> exit, reps |-> {}] \notin FullRows(Done)
  BY <1>2 DEF FullRows
<1> DEFINE new == [key |-> Current, exit |-> exit, reps |-> reps]
           rows == FullRows(Done) \cup {new}
<1>8. (diagnosis.rows \ {row}) \cup {[row EXCEPT !.reps = reps]} = rows
  <2>1. [row EXCEPT !.reps = reps] = new
    BY <1>6
  <2> QED BY <1>4, <1>6, <1>7, <2>1
<1>9. rows \in SUBSET Rows
  <2>1. new \in Rows
    BY <1>2, <1>5 DEF Rows, AllReps, Short
  <2>2. FullRows(Done) \subseteq Rows
    <3>1. Done \subseteq Keys
      BY DEF Done, Prior
    <3>2. \A k \in Keys : [key |-> k, exit |-> 0, reps |-> AllReps] \in Rows
      BY DEF Rows, AllReps
    <3> QED BY <3>1, <3>2 DEF FullRows
  <2> QED BY <2>1, <2>2
<1>10. Logged(diagnosisDir, rows)
  <2>1. diagnosis.rows = FullRows(Done) \cup {row} /\ new.key = row.key
    BY <1>4, <1>5, <1>6
  <2> HIDE DEF new
  <2> QED BY <2>1 DEF DiagnosisInv, DiagnosisFiles, Logged
<1>11. CASE reps # AllReps
  <2>1. diagnosis' = [Diagnosing!Raising EXCEPT !.rows = rows] /\ UNCHANGED diagnosisDir
    BY <1>5, <1>8, <1>11
  <2> HIDE DEF rows
  <2>2. /\ diagnosis'.at = "after" /\ diagnosis'.raising /\ diagnosis'.rows = rows
        /\ diagnosis'.complete = diagnosis.complete /\ diagnosis'.base = diagnosis.base
        /\ diagnosis' \in DiagnosisRecord
    BY <1>9, <2>1 DEF DiagnosisInv, DiagnosisTyped, DiagnosisRecord, Diagnosing!Raising,
       Diagnosing!Points
  <2>3. DiagnosisTyped' /\ DiagnosisPlace' /\ DiagnosisFlags'
    BY <1>1, <2>1, <2>2 DEF DiagnosisInv, DiagnosisTyped, DiagnosisPlace, DiagnosisFlags,
       Archives
  <2>4. DiagnosisRows' /\ DiagnosisFiles' /\ DiagnosisTables'
    BY <1>1, <1>10, <2>1, <2>2 DEF DiagnosisInv, DiagnosisRows, DiagnosisFiles,
       DiagnosisTables, Logged, RawFiles
  <2> QED BY <2>3, <2>4 DEF DiagnosisInv
<1>12. CASE reps = AllReps
  <2>1. /\ diagnosis' = [diagnosis EXCEPT !.at = "next", !.position = diagnosis.position + 1, !.rows = rows]
        /\ diagnosisDir' = [diagnosisDir EXCEPT !.launches = LaunchTable(rows), !.samples = SampleTable(rows)]
    BY <1>5, <1>8, <1>9, <1>12, TablesOfRows DEF Diagnosing!Tables
  <2>2. rows = FullRows(Done \cup {Current})
    <3>1. AllReps # {}
      BY DesignAssumption DEF AllReps
    <3>2. exit = 0
      BY <1>5, <1>6, <1>12, <3>1
    <3> QED BY <1>12, <3>2, FilesOfRows
  <2>3. LaunchTable(rows) \subseteq [key : Keys, exit : {0, 1}] /\ SampleTable(rows) \subseteq [key : Keys, reps : SUBSET AllReps]
    BY <1>9, TablesOfRows
  <2>4. Logged(diagnosisDir, LaunchTable(rows))
    BY <1>10 DEF Logged, LaunchTable
  <2> HIDE DEF rows
  <2>5. diagnosis.position + 1 \in 0 .. Programs
    BY <1>1, Ranges DEF DiagnosisInv, DiagnosisTyped, DiagnosisRecord
  <2>6. DiagnosisTyped'
    BY <1>9, <2>1, <2>3, <2>5 DEF DiagnosisInv, DiagnosisTyped, DiagnosisRecord, Directory,
       Diagnosing!Points
  <2>7. /\ diagnosis'.at = "next" /\ diagnosis'.session = diagnosis.session
        /\ diagnosis'.round = diagnosis.round /\ diagnosis'.position = diagnosis.position + 1
        /\ diagnosis'.rows = rows /\ diagnosis'.base = diagnosis.base
        /\ diagnosis'.raising = diagnosis.raising /\ diagnosis'.complete = diagnosis.complete
        /\ diagnosisDir'.recovery = diagnosisDir.recovery /\ diagnosisDir'.launches = LaunchTable(rows)
        /\ diagnosisDir'.env = diagnosisDir.env /\ diagnosisDir'.archive = diagnosisDir.archive
        /\ diagnosisDir'.raw = diagnosisDir.raw
    BY <2>1 DEF DiagnosisInv, DiagnosisTyped, DiagnosisRecord, Directory
  <2>8. DiagnosisPlace' /\ DiagnosisFlags'
    BY <1>1, <2>7 DEF DiagnosisInv, DiagnosisPlace, DiagnosisFlags, Archives
  <2>9. Done' = Done \cup {Current}
    BY <1>2, <2>7 DEF Done
  <2>10. DiagnosisRows'
    BY <2>2, <2>7, <2>9 DEF DiagnosisRows
  <2>11. DiagnosisFiles'
    <3>1. diagnosisDir.raw = FullFiles(Done) \cup FullFiles({Current})
      BY <1>1 DEF DiagnosisInv, DiagnosisFiles, InWork
    <3>2. diagnosisDir'.raw = FullFiles(Done') \cup InWork'
      <4>1. InWork' = {}
        BY <2>7 DEF InWork
      <4>2. FullFiles(Done \cup {Current}) = FullFiles(Done) \cup FullFiles({Current})
        BY FilesOfRows
      <4> QED BY <2>7, <2>9, <3>1, <4>1, <4>2
    <3> QED BY <1>1, <1>10, <2>4, <2>7, <3>2 DEF DiagnosisInv, DiagnosisFiles, Logged, RawFiles
  <2>12. DiagnosisTables'
    BY <1>1, <2>7 DEF DiagnosisInv, DiagnosisTables
  <2> QED BY <2>6, <2>8, <2>10, <2>11, <2>12 DEF DiagnosisInv
<1> QED BY <1>11, <1>12

\* The environment after the launches is read.
LEMMA DiagnosisGoesAfter ==
  ASSUME DiagnosisInv, Diagnosing!After
  PROVE  DiagnosisInv'
<1>1. diagnosisDir' = diagnosisDir /\ diagnosis.at = "after"
  BY DEF Diagnosing!After, Diagnosing!InStudy
<1>2. CASE diagnosis' = [diagnosis EXCEPT !.at = "leave", !.raising = TRUE]
  <2>1. DiagnosisTyped'
    BY <1>1, <1>2 DEF DiagnosisInv, DiagnosisTyped, DiagnosisRecord, Diagnosing!Points,
       Diagnosing!Raising, Diagnosing!Archiving
  <2> QED BY <1>1, <1>2, <2>1, DiagnosisRaises DEF DiagnosisInv, DiagnosisTyped,
       DiagnosisRecord, DiagnosisFlags,
     Diagnoses, Archives, Kept, Diagnosing!Raising, Diagnosing!Archiving
<1>3. CASE diagnosis' = [diagnosis EXCEPT !.at = "leave"]
  <2>1. DiagnosisTyped'
    BY <1>1, <1>3 DEF DiagnosisInv, DiagnosisTyped, DiagnosisRecord, Diagnosing!Points
  <2>2. DiagnosisPlace' /\ DiagnosisFlags'
    BY <1>1, <1>3 DEF DiagnosisInv, DiagnosisTyped, DiagnosisRecord, DiagnosisPlace,
       DiagnosisFlags, Archives, SessionOver
  <2>3. DiagnosisRows' /\ DiagnosisFiles' /\ DiagnosisTables'
    BY <1>1, <1>3, <2>1, DiagnosisKeepsRows DEF DiagnosisInv, DiagnosisTyped, DiagnosisRecord,
       DiagnosisFlags,
       DiagnosisTables, Diagnoses, InLaunch, Done, Kept
  <2> QED BY <2>1, <2>2, <2>3 DEF DiagnosisInv
<1> QED BY <1>2, <1>3 DEF Diagnosing!After

\* leave(): restore is started.
LEMMA DiagnosisLeaves ==
  ASSUME DiagnosisInv, Diagnosing!Leave
  PROVE  DiagnosisInv'
<1>1. /\ diagnosisDir' = diagnosisDir /\ diagnosis.at = "leave"
      /\ \E at \in {"restore", "first"} : diagnosis' = [diagnosis EXCEPT !.at = at]
  BY DEF Diagnosing!Leave, Diagnosing!InStudy, Diagnosing!GoTo
<1> QED
  <2>1. DiagnosisTyped'
    BY <1>1 DEF DiagnosisInv, DiagnosisTyped, DiagnosisRecord, Diagnosing!Points
  <2>2. DiagnosisPlace' /\ DiagnosisFlags'
    BY <1>1 DEF DiagnosisInv, DiagnosisTyped, DiagnosisRecord, DiagnosisPlace, DiagnosisFlags,
       Archives, SessionOver
  <2>3. DiagnosisRows' /\ DiagnosisFiles' /\ DiagnosisTables'
    BY <1>1, <2>1, DiagnosisKeepsRows DEF DiagnosisInv, DiagnosisTyped, DiagnosisRecord,
       DiagnosisFlags,
       DiagnosisTables, Diagnoses, InLaunch, Done, Kept
  <2> QED BY <2>1, <2>2, <2>3 DEF DiagnosisInv

\* restore has ended.
LEMMA DiagnosisRestoreEnds ==
  ASSUME DiagnosisInv, Diagnosing!RestoreEnds
  PROVE  DiagnosisInv'
<1>1. diagnosisDir' = diagnosisDir /\ diagnosis.at = "restore"
  BY DEF Diagnosing!RestoreEnds, Diagnosing!InStudy
<1>2. CASE diagnosis' = [diagnosis EXCEPT !.at = "first", !.attempted = FALSE]
  <2>1. DiagnosisTyped'
    BY <1>1, <1>2 DEF DiagnosisInv, DiagnosisTyped, DiagnosisRecord, Diagnosing!Points
  <2>2. DiagnosisPlace' /\ DiagnosisFlags'
    BY <1>1, <1>2 DEF DiagnosisInv, DiagnosisTyped, DiagnosisRecord, DiagnosisPlace,
       DiagnosisFlags, Archives, SessionOver
  <2>3. DiagnosisRows' /\ DiagnosisFiles' /\ DiagnosisTables'
    BY <1>1, <1>2, <2>1, DiagnosisKeepsRows DEF DiagnosisInv, DiagnosisTyped, DiagnosisRecord,
       DiagnosisFlags,
       DiagnosisTables, Diagnoses, InLaunch, Done, Kept
  <2> QED BY <2>1, <2>2, <2>3 DEF DiagnosisInv
<1>3. CASE diagnosis' = [diagnosis EXCEPT !.at = "first", !.errors = TRUE]
  <2>1. DiagnosisTyped'
    BY <1>1, <1>3 DEF DiagnosisInv, DiagnosisTyped, DiagnosisRecord, Diagnosing!Points
  <2>2. DiagnosisPlace' /\ DiagnosisFlags'
    BY <1>1, <1>3 DEF DiagnosisInv, DiagnosisTyped, DiagnosisRecord, DiagnosisPlace,
       DiagnosisFlags, Archives, SessionOver
  <2>3. DiagnosisRows' /\ DiagnosisFiles' /\ DiagnosisTables'
    BY <1>1, <1>3, <2>1, DiagnosisKeepsRows DEF DiagnosisInv, DiagnosisTyped, DiagnosisRecord,
       DiagnosisFlags,
       DiagnosisTables, Diagnoses, InLaunch, Done, Kept
  <2> QED BY <2>1, <2>2, <2>3 DEF DiagnosisInv
<1> QED BY <1>2, <1>3 DEF Diagnosing!RestoreEnds

\* A pass of leave() over the tasks has ended.
LEMMA DiagnosisPassEnds ==
  ASSUME DiagnosisInv, Diagnosing!PassEnds
  PROVE  DiagnosisInv'
<1>1. CASE /\ diagnosis.at = "first" /\ diagnosis' = [diagnosis EXCEPT !.at = "second"]
           /\ diagnosisDir' = diagnosisDir
  <2>1. DiagnosisTyped'
    BY <1>1 DEF DiagnosisInv, DiagnosisTyped, DiagnosisRecord, Diagnosing!Points
  <2>2. DiagnosisPlace' /\ DiagnosisFlags'
    BY <1>1 DEF DiagnosisInv, DiagnosisTyped, DiagnosisRecord, DiagnosisPlace, DiagnosisFlags,
       Archives, SessionOver
  <2>3. DiagnosisRows' /\ DiagnosisFiles' /\ DiagnosisTables'
    BY <1>1, <2>1, DiagnosisKeepsRows DEF DiagnosisInv, DiagnosisTyped, DiagnosisRecord,
       DiagnosisFlags,
       DiagnosisTables, Diagnoses, InLaunch, Done, Kept
  <2> QED BY <2>1, <2>2, <2>3 DEF DiagnosisInv
<1>2. CASE /\ diagnosis.at = "second" /\ diagnosisDir' = diagnosisDir
           /\ diagnosis' = [diagnosis EXCEPT !.at = "left", !.errors = TRUE]
  <2>1. DiagnosisTyped'
    BY <1>2 DEF DiagnosisInv, DiagnosisTyped, DiagnosisRecord, Diagnosing!Points
  <2>2. DiagnosisPlace' /\ DiagnosisFlags'
    BY <1>2 DEF DiagnosisInv, DiagnosisTyped, DiagnosisRecord, DiagnosisPlace, DiagnosisFlags,
       Archives, SessionOver
  <2>3. DiagnosisRows' /\ DiagnosisFiles' /\ DiagnosisTables'
    BY <1>2, <2>1, DiagnosisKeepsRows DEF DiagnosisInv, DiagnosisTyped, DiagnosisRecord,
       DiagnosisFlags,
       DiagnosisTables, Diagnoses, InLaunch, Done, Kept
  <2> QED BY <2>1, <2>2, <2>3 DEF DiagnosisInv
<1>3. CASE /\ diagnosis.at = "second" /\ diagnosis' = [diagnosis EXCEPT !.at = "left", !.base = NoRecovery]
           /\ diagnosisDir' = [diagnosisDir EXCEPT !.recovery = NoRecovery]
  <2>1. NoRecovery \in Baselines
    BY DEF Baselines
  <2>2. DiagnosisTyped'
    BY <1>3, <2>1 DEF DiagnosisInv, DiagnosisTyped, DiagnosisRecord, Directory,
       Diagnosing!Points
  <2>3. DiagnosisPlace' /\ DiagnosisFlags'
    BY <1>3 DEF DiagnosisInv, DiagnosisTyped, DiagnosisRecord, Directory, DiagnosisPlace,
       DiagnosisFlags,
       Archives, SessionOver
  <2>4. diagnosisDir'.raw = diagnosisDir.raw /\ Done' = Done /\ diagnosis'.rows = diagnosis.rows
        /\ diagnosis'.raising = diagnosis.raising /\ diagnosis'.at = "left"
        /\ diagnosisDir'.launches = diagnosisDir.launches /\ diagnosisDir'.env = diagnosisDir.env
        /\ diagnosisDir'.archive = diagnosisDir.archive
    BY <1>3 DEF DiagnosisInv, DiagnosisTyped, DiagnosisRecord, Directory, Done
  <2>5. DiagnosisRows'
    BY <1>3, <2>4 DEF DiagnosisInv, DiagnosisRows
  <2>6. DiagnosisFiles'
    BY <1>3, <2>4 DEF DiagnosisInv, DiagnosisFiles, InWork, Logged, RawFiles
  <2>7. DiagnosisTables'
    BY <1>3, <2>4 DEF DiagnosisInv, DiagnosisTables
  <2> QED BY <2>2, <2>3, <2>5, <2>6, <2>7 DEF DiagnosisInv
<1> QED BY <1>1, <1>2, <1>3 DEF Diagnosing!PassEnds, Diagnosing!InStudy, Diagnosing!GoTo

\* leave() has ended: the next session, or archive().
LEMMA DiagnosisLeft ==
  ASSUME DiagnosisInv, Diagnosing!Left
  PROVE  DiagnosisInv'
<1>1. diagnosisDir' = diagnosisDir /\ diagnosis.at = "left"
  BY DEF Diagnosing!Left, Diagnosing!InStudy
<1>2. CASE diagnosis' = Diagnosing!Archiving
  <2>1. DiagnosisTyped'
    BY <1>1, <1>2 DEF DiagnosisInv, DiagnosisTyped, DiagnosisRecord, Diagnosing!Points,
       Diagnosing!Raising, Diagnosing!Archiving
  <2> QED BY <1>1, <1>2, <2>1, DiagnosisRaises DEF DiagnosisInv, DiagnosisTyped,
       DiagnosisRecord, DiagnosisFlags,
     Diagnoses, Archives, Kept, Diagnosing!Raising, Diagnosing!Archiving
<1>3. CASE /\ ~diagnosis.errors /\ ~diagnosis.raising /\ diagnosis.session < Sessions
           /\ diagnosis' = [diagnosis EXCEPT !.at = "session"]
  <2>1. DiagnosisTyped'
    BY <1>1, <1>3 DEF DiagnosisInv, DiagnosisTyped, DiagnosisRecord, Diagnosing!Points
  <2>2. DiagnosisPlace' /\ DiagnosisFlags'
    BY <1>1, <1>3 DEF DiagnosisInv, DiagnosisTyped, DiagnosisRecord, DiagnosisPlace,
       DiagnosisFlags, Archives, SessionOver
  <2>3. DiagnosisRows' /\ DiagnosisFiles' /\ DiagnosisTables'
    BY <1>1, <1>3, <2>1, DiagnosisKeepsRows DEF DiagnosisInv, DiagnosisTyped, DiagnosisRecord,
       DiagnosisFlags,
       DiagnosisTables, Diagnoses, InLaunch, Done, Kept
  <2> QED BY <2>1, <2>2, <2>3 DEF DiagnosisInv
<1>4. CASE /\ ~diagnosis.errors /\ ~diagnosis.raising /\ ~(diagnosis.session < Sessions)
           /\ diagnosis' = [diagnosis EXCEPT !.at = "tables", !.complete = TRUE]
  <2>0. diagnosis.session = Sessions /\ diagnosis.round = Rounds /\ diagnosis.position = Programs
    BY <1>1, <1>4, Design DEF DiagnosisInv, DiagnosisTyped, DiagnosisRecord, DiagnosisPlace,
       SessionOver
  <2>1. DiagnosisTyped'
    BY <1>1, <1>4, <2>0 DEF DiagnosisInv, DiagnosisTyped, DiagnosisRecord, Diagnosing!Points
  <2>2. DiagnosisPlace' /\ DiagnosisFlags'
    BY <1>1, <1>4, <2>0 DEF DiagnosisInv, DiagnosisTyped, DiagnosisRecord, DiagnosisPlace,
       DiagnosisFlags, Archives, SessionOver
  <2>3. DiagnosisRows' /\ DiagnosisFiles' /\ DiagnosisTables'
    BY <1>1, <1>4, <2>0, <2>1, DiagnosisKeepsRows DEF DiagnosisInv, DiagnosisTyped,
       DiagnosisRecord, DiagnosisFlags,
       DiagnosisTables, Diagnoses, InLaunch, Done, Kept
  <2> QED BY <2>1, <2>2, <2>3 DEF DiagnosisInv
<1> QED BY <1>2, <1>3, <1>4 DEF Diagnosing!Left

(* archive() *)

\* A study that archive() takes for complete is whole.
LEMMA WholeStudy ==
  ASSUME DiagnosisInv, diagnosis.at \in Archives, diagnosis.complete
  PROVE  /\ Done = Keys /\ diagnosis.rows = WholeRows /\ ~diagnosis.raising
         /\ diagnosisDir.recovery = NoRecovery
<1>1. Done = Keys
  BY PriorOfStudy DEF DiagnosisInv, DiagnosisFlags, Done, Archives
<1>2. ~diagnosis.raising /\ diagnosisDir.recovery = NoRecovery
  BY DEF DiagnosisInv, DiagnosisFlags, Archives, DiagnosisTyped, DiagnosisRecord
<1>3. diagnosis.rows = FullRows(Keys)
  BY <1>1, <1>2 DEF DiagnosisInv, DiagnosisRows, Archives
<1> QED BY <1>1, <1>2, <1>3 DEF FullRows, WholeRows

\* archive(): the tables are written,
LEMMA DiagnosisWritesTables ==
  ASSUME DiagnosisInv, diagnosis.at = "tables", diagnosis' = [diagnosis EXCEPT !.at = "env"],
         diagnosisDir' = Diagnosing!Tables(diagnosis.rows)
  PROVE  DiagnosisInv'
<1>1. diagnosis.rows \in SUBSET Rows
  BY DEF DiagnosisInv, DiagnosisTyped, DiagnosisRecord
<1>2. diagnosisDir' = [diagnosisDir EXCEPT !.launches = LaunchTable(diagnosis.rows),
                                            !.samples = SampleTable(diagnosis.rows)]
  BY <1>1, TablesOfRows DEF Diagnosing!Tables
<1>3. DiagnosisTyped'
  <2>1. diagnosis' \in DiagnosisRecord
    BY DEF DiagnosisInv, DiagnosisTyped, DiagnosisRecord, Diagnosing!Points
  <2>2. diagnosisDir' \in Directory
    BY <1>1, <1>2, TablesOfRows DEF DiagnosisInv, DiagnosisTyped, Directory
  <2> QED BY <2>1, <2>2 DEF DiagnosisTyped
<1>4. /\ diagnosis'.at = "env" /\ Done' = Done /\ diagnosis'.rows = diagnosis.rows
      /\ diagnosis'.raising = diagnosis.raising /\ diagnosis'.complete = diagnosis.complete
      /\ diagnosisDir'.raw = diagnosisDir.raw /\ diagnosisDir'.archive = diagnosisDir.archive
      /\ diagnosisDir'.launches = LaunchTable(diagnosis.rows)
      /\ diagnosisDir'.samples = SampleTable(diagnosis.rows)
      /\ diagnosisDir'.env = diagnosisDir.env
  BY <1>2 DEF DiagnosisInv, DiagnosisTyped, DiagnosisRecord, Directory, Done
<1>5. DiagnosisPlace' /\ DiagnosisFlags'
  BY <1>2 DEF DiagnosisInv, DiagnosisTyped, DiagnosisRecord, Directory, DiagnosisPlace,
     DiagnosisFlags,
     Archives, SessionOver
<1>6. DiagnosisRows'
  BY <1>4 DEF DiagnosisInv, DiagnosisRows
<1>7. DiagnosisFiles'
  <2>1. Logged(diagnosisDir', LaunchTable(diagnosis.rows))
    BY <1>4 DEF DiagnosisInv, DiagnosisFiles, Logged, RawFiles, LaunchTable
  <2> QED BY <1>4, <2>1 DEF DiagnosisInv, DiagnosisFiles, InWork, Logged, RawFiles
<1>8. DiagnosisTables'
  <2>1. diagnosis.complete => diagnosis.rows = WholeRows
    BY WholeStudy DEF Archives
  <2> QED BY <1>4, <2>1 DEF DiagnosisInv, DiagnosisTables, Whole
<1> QED BY <1>3, <1>5, <1>6, <1>7, <1>8 DEF DiagnosisInv

\* then the environment, which says whether the study is complete,
LEMMA DiagnosisWritesEnv ==
  ASSUME DiagnosisInv, diagnosis.at = "env", diagnosis' = [diagnosis EXCEPT !.at = "pack"],
         diagnosisDir' = [diagnosisDir EXCEPT !.env = IF diagnosis.complete THEN "complete" ELSE "incomplete"]
  PROVE  DiagnosisInv'
<1>1. DiagnosisTyped'
  BY DEF DiagnosisInv, DiagnosisTyped, DiagnosisRecord, Directory, Diagnosing!Points
<1>2. /\ diagnosis'.at = "pack" /\ Done' = Done /\ diagnosis'.rows = diagnosis.rows
      /\ diagnosis'.raising = diagnosis.raising /\ diagnosis'.complete = diagnosis.complete
      /\ diagnosisDir'.raw = diagnosisDir.raw /\ diagnosisDir'.archive = diagnosisDir.archive
      /\ diagnosisDir'.launches = diagnosisDir.launches
      /\ diagnosisDir'.samples = diagnosisDir.samples
      /\ diagnosisDir'.recovery = diagnosisDir.recovery
      /\ diagnosisDir'.env = IF diagnosis.complete THEN "complete" ELSE "incomplete"
  BY DEF DiagnosisInv, DiagnosisTyped, DiagnosisRecord, Directory, Done
<1>3. DiagnosisPlace' /\ DiagnosisFlags'
  BY DEF DiagnosisInv, DiagnosisTyped, DiagnosisRecord, Directory, DiagnosisPlace,
     DiagnosisFlags,
     Archives, SessionOver
<1>4. DiagnosisRows'
  BY <1>2 DEF DiagnosisInv, DiagnosisRows
<1>5. DiagnosisFiles'
  BY <1>2 DEF DiagnosisInv, DiagnosisFiles, InWork, Logged, RawFiles
<1>6. DiagnosisTables'
  <2>1. CASE diagnosis.complete
    <3>1. /\ diagnosisDir.recovery = NoRecovery /\ ~diagnosis.raising /\ Done = Keys
      BY <2>1, WholeStudy DEF Archives
    <3>2. RawFiles(diagnosisDir) = FullFiles(Keys)
      BY <3>1 DEF DiagnosisInv, DiagnosisFiles, InWork, RawFiles
    <3> QED BY <1>2, <2>1, <3>1, <3>2 DEF DiagnosisInv, DiagnosisTables, Whole, RawFiles
  <2>2. CASE ~diagnosis.complete
    BY <1>2, <2>2 DEF DiagnosisInv, DiagnosisTables
  <2> QED BY <2>1, <2>2
<1> QED BY <1>1, <1>3, <1>4, <1>5, <1>6 DEF DiagnosisInv

\* then the files are packed,
LEMMA DiagnosisPacks ==
  ASSUME DiagnosisInv, diagnosis.at = "pack", diagnosis' = [diagnosis EXCEPT !.at = "purge"],
         diagnosisDir' = [diagnosisDir EXCEPT !.archive = diagnosisDir.raw]
  PROVE  DiagnosisInv'
<1>1. DiagnosisTyped'
  BY DEF DiagnosisInv, DiagnosisTyped, DiagnosisRecord, Directory, Diagnosing!Points
<1>2. /\ diagnosis'.at = "purge" /\ Done' = Done /\ diagnosis'.rows = diagnosis.rows
      /\ diagnosis'.raising = diagnosis.raising /\ diagnosis'.complete = diagnosis.complete
      /\ diagnosisDir'.raw = diagnosisDir.raw /\ diagnosisDir'.archive = diagnosisDir.raw
      /\ diagnosisDir'.launches = diagnosisDir.launches
      /\ diagnosisDir'.samples = diagnosisDir.samples
      /\ diagnosisDir'.recovery = diagnosisDir.recovery /\ diagnosisDir'.env = diagnosisDir.env
  BY DEF DiagnosisInv, DiagnosisTyped, DiagnosisRecord, Directory, Done
<1>3. DiagnosisPlace' /\ DiagnosisFlags'
  BY DEF DiagnosisInv, DiagnosisTyped, DiagnosisRecord, Directory, DiagnosisPlace,
     DiagnosisFlags,
     Archives, SessionOver
<1>4. DiagnosisRows'
  BY <1>2 DEF DiagnosisInv, DiagnosisRows
<1>5. RawFiles(diagnosisDir') = RawFiles(diagnosisDir)
  BY <1>2 DEF DiagnosisInv, DiagnosisFiles, RawFiles
<1>6. DiagnosisFiles'
  BY <1>2, <1>5 DEF DiagnosisInv, DiagnosisFiles, InWork, Logged
<1>7. DiagnosisTables'
  BY <1>2, <1>5 DEF DiagnosisInv, DiagnosisTables, Whole
<1> QED BY <1>1, <1>3, <1>4, <1>6, <1>7 DEF DiagnosisInv

\* and then removed from raw/, one at a time.
LEMMA DiagnosisPurges ==
  ASSUME DiagnosisInv, diagnosis.at = "purge", diagnosis' = diagnosis,
         NEW file, diagnosisDir' = [diagnosisDir EXCEPT !.raw = @ \ {file}]
  PROVE  DiagnosisInv'
<1>1. DiagnosisTyped'
  BY DEF DiagnosisInv, DiagnosisTyped, DiagnosisRecord, Directory
<1>2. /\ Done' = Done /\ diagnosisDir'.raw = diagnosisDir.raw \ {file}
      /\ diagnosisDir'.archive = diagnosisDir.archive
      /\ diagnosisDir'.launches = diagnosisDir.launches
      /\ diagnosisDir'.samples = diagnosisDir.samples
      /\ diagnosisDir'.recovery = diagnosisDir.recovery /\ diagnosisDir'.env = diagnosisDir.env
  BY DEF DiagnosisInv, DiagnosisTyped, Directory, Done
<1>3. DiagnosisPlace' /\ DiagnosisFlags' /\ DiagnosisRows'
  BY <1>2 DEF DiagnosisInv, DiagnosisPlace, DiagnosisFlags, DiagnosisRows, Archives,
     SessionOver
<1>4. RawFiles(diagnosisDir') = RawFiles(diagnosisDir)
  BY <1>2 DEF DiagnosisInv, DiagnosisFiles, RawFiles
<1>5. DiagnosisFiles'
  BY <1>2, <1>4 DEF DiagnosisInv, DiagnosisFiles, Logged
<1>6. DiagnosisTables'
  BY <1>2, <1>4 DEF DiagnosisInv, DiagnosisTables, Whole
<1> QED BY <1>1, <1>3, <1>5, <1>6 DEF DiagnosisInv

\* archive() as a whole.
LEMMA DiagnosisArchives ==
  ASSUME DiagnosisInv, Diagnosing!Archive
  PROVE  DiagnosisInv'
<1>1. CASE Diagnosing!InStudy("tables") /\ Diagnosing!GoTo("env")
           /\ diagnosisDir' = Diagnosing!Tables(diagnosis.rows)
  BY <1>1, DiagnosisWritesTables DEF Diagnosing!InStudy, Diagnosing!GoTo
<1>2. CASE Diagnosing!InStudy("env") /\ Diagnosing!GoTo("pack")
           /\ diagnosisDir' = [diagnosisDir EXCEPT !.env = IF diagnosis.complete THEN "complete" ELSE "incomplete"]
  BY <1>2, DiagnosisWritesEnv DEF Diagnosing!InStudy, Diagnosing!GoTo
<1>3. CASE Diagnosing!InStudy("pack") /\ Diagnosing!GoTo("purge")
           /\ diagnosisDir' = [diagnosisDir EXCEPT !.archive = diagnosisDir.raw]
  BY <1>3, DiagnosisPacks DEF Diagnosing!InStudy, Diagnosing!GoTo
<1>4. CASE Diagnosing!InStudy("purge") /\ UNCHANGED diagnosis
           /\ diagnosisDir' = Diagnosing!Removed(diagnosisDir)
  BY <1>4, DiagnosisPurges DEF Diagnosing!InStudy, Diagnosing!Removed
<1>5. CASE diagnosis' = Diagnosing!Gone /\ UNCHANGED diagnosisDir
  BY <1>5, DiagnosisGoes DEF DiagnosisInv, DiagnosisTyped, Kept
<1> QED BY <1>1, <1>2, <1>3, <1>4, <1>5 DEF Diagnosing!Archive

(* A kill, and a signal. *)

\* The program is killed.
LEMMA DiagnosisKilled ==
  ASSUME DiagnosisInv, Diagnosing!Kill
  PROVE  DiagnosisInv'
BY DiagnosisGoes DEF DiagnosisInv, DiagnosisTyped, Kept, Diagnosing!Kill

\* The program gets a signal.
LEMMA DiagnosisInterrupted ==
  ASSUME DiagnosisInv, Diagnosing!Interrupt
  PROVE  DiagnosisInv'
<1>1. diagnosis.at \notin {"idle", "ended"} /\ diagnosis.at \in Diagnosing!Points
  BY DEF Diagnosing!Interrupt, DiagnosisInv, DiagnosisTyped, DiagnosisRecord
<1>2. /\ diagnosisDir' \in Directory /\ Kept(diagnosisDir, diagnosisDir')
      /\ diagnosis.at # "launching" => diagnosisDir' = diagnosisDir
  <2>1. diagnosis.at = "launching" => Diagnosing!Log(Diagnosing!Key) \in Files
    BY CurrentKey, SameFiles DEF DiagnosisInv, DiagnosisPlace, Log, Command
  <2> QED BY <2>1 DEF Diagnosing!Interrupt, Diagnosing!InStudy, DiagnosisInv, DiagnosisTyped,
       Directory, Kept
<1>3. CASE diagnosis.at \in {"setup", "restore"} /\ diagnosis' = [diagnosis EXCEPT !.pending = TRUE]
  <2>1. diagnosisDir' = diagnosisDir
    BY <1>2, <1>3
  <2>2. DiagnosisTyped'
    BY <1>1, <1>3, <2>1 DEF DiagnosisInv, DiagnosisTyped, DiagnosisRecord, Diagnosing!Points
  <2>3. DiagnosisPlace' /\ DiagnosisFlags'
    BY <1>1, <1>3, <2>1 DEF DiagnosisInv, DiagnosisTyped, DiagnosisRecord, DiagnosisPlace,
       DiagnosisFlags, Archives, SessionOver
  <2>4. DiagnosisRows' /\ DiagnosisFiles' /\ DiagnosisTables'
    BY <1>1, <1>3, <2>1, <2>1, <2>2, DiagnosisKeepsRows DEF DiagnosisInv, DiagnosisTyped,
       DiagnosisRecord, DiagnosisFlags,
       DiagnosisTables, Diagnoses, InLaunch, Done, Kept
  <2> QED BY <2>2, <2>3, <2>4 DEF DiagnosisInv
<1>4. CASE diagnosis.at \in {"first", "second"}
           /\ diagnosis' = [diagnosis EXCEPT !.at = "left", !.errors = TRUE]
  <2>1. diagnosisDir' = diagnosisDir
    BY <1>2, <1>4
  <2>2. DiagnosisTyped'
    BY <1>1, <1>4, <2>1 DEF DiagnosisInv, DiagnosisTyped, DiagnosisRecord, Diagnosing!Points
  <2>3. DiagnosisPlace' /\ DiagnosisFlags'
    BY <1>1, <1>4, <2>1 DEF DiagnosisInv, DiagnosisTyped, DiagnosisRecord, DiagnosisPlace,
       DiagnosisFlags, Archives, SessionOver
  <2>4. DiagnosisRows' /\ DiagnosisFiles' /\ DiagnosisTables'
    BY <1>1, <1>4, <2>1, <2>1, <2>2, DiagnosisKeepsRows DEF DiagnosisInv, DiagnosisTyped,
       DiagnosisRecord, DiagnosisFlags,
       DiagnosisTables, Diagnoses, InLaunch, Done, Kept
  <2> QED BY <2>2, <2>3, <2>4 DEF DiagnosisInv
<1>5. CASE diagnosis.at \in Archives /\ diagnosis' = Diagnosing!Gone
  BY <1>2, <1>5, DiagnosisGoes DEF Archives
<1>6. CASE /\ diagnosis.at \notin Archives
           /\ diagnosis' \in {Diagnosing!Raising, Diagnosing!Archiving,
                               [diagnosis EXCEPT !.at = "leave", !.raising = TRUE]}
  <2>1. DiagnosisTyped'
    <3>1. Diagnosing!Raising \in DiagnosisRecord
      BY DEF DiagnosisInv, DiagnosisTyped, DiagnosisRecord, Diagnosing!Points,
         Diagnosing!Raising
    <3>2. Diagnosing!Archiving \in DiagnosisRecord
      BY DEF DiagnosisInv, DiagnosisTyped, DiagnosisRecord, Diagnosing!Points,
         Diagnosing!Archiving
    <3>3. [diagnosis EXCEPT !.at = "leave", !.raising = TRUE] \in DiagnosisRecord
      BY DEF DiagnosisInv, DiagnosisTyped, DiagnosisRecord, Diagnosing!Points
    <3> QED BY <1>2, <1>6, <3>1, <3>2, <3>3 DEF DiagnosisTyped
  <2>2. /\ diagnosis'.raising /\ diagnosis'.at \in {"after", "leave", "tables"}
        /\ diagnosis'.complete = diagnosis.complete /\ diagnosis'.base = diagnosis.base
        /\ diagnosis'.rows = diagnosis.rows
    BY <1>6 DEF DiagnosisInv, DiagnosisTyped, DiagnosisRecord, Diagnosing!Raising,
       Diagnosing!Archiving
  <2>3. diagnosis.at \in Diagnoses \ {"idle"} /\ ~diagnosis.complete
    BY <1>1, <1>6 DEF DiagnosisInv, DiagnosisFlags, Archives, Diagnoses, Diagnosing!Points
  <2> QED BY <1>2, <2>1, <2>2, <2>3, DiagnosisRaises
<1> QED BY <1>1, <1>3, <1>4, <1>5, <1>6 DEF Diagnosing!Interrupt, Archives

\* A step that moves a task, or somebody else's.
LEMMA DiagnosisStays ==
  ASSUME DiagnosisInv, UNCHANGED <<diagnosis, diagnosisDir>>
  PROVE  DiagnosisInv'
<1>1. DiagnosisTyped' /\ DiagnosisPlace' /\ DiagnosisFlags'
  BY DEF DiagnosisInv, DiagnosisTyped, DiagnosisPlace, DiagnosisFlags, SessionOver
<1>2. Done' = Done /\ Current' = Current /\ InWork' = InWork
  BY DEF Done, Current, InWork
<1>3. DiagnosisRows' /\ DiagnosisFiles' /\ DiagnosisTables'
  BY <1>2 DEF DiagnosisInv, DiagnosisRows, DiagnosisFiles, DiagnosisTables, Logged, RawFiles,
     Whole
<1> QED BY <1>1, <1>3 DEF DiagnosisInv

\* Every step of bench_diagnose.py keeps what is true of its study.
LEMMA DiagnosisInvariant ==
  ASSUME DiagnosisInv, Baseline \in Baselines, DiagnosisStep
  PROVE  DiagnosisInv'
<1>1. CASE Diagnosing!Prepare
  BY <1>1, DiagnosisPrepares
<1>2. CASE Diagnosing!BeginSession \/ Diagnosing!RunSetup \/ Diagnosing!SetupEnds \/ Diagnosing!Confine
  BY <1>2, DiagnosisBeginsSession, DiagnosisRunsSetup, DiagnosisSetupEnds, DiagnosisConfines
<1>3. CASE Diagnosing!NextLaunch \/ Diagnosing!TasksCleared \/ Diagnosing!LaunchEnds \/ Diagnosing!LaunchCounted
  BY <1>3, DiagnosisNextLaunches, DiagnosisClears, DiagnosisLaunchEnds, DiagnosisLaunchCounted
<1>4. CASE Diagnosing!Moving
  BY <1>4, DiagnosisStays DEF Diagnosing!Moving, Diagnosing!session
<1>5. CASE Diagnosing!After \/ Diagnosing!Leave \/ Diagnosing!RestoreEnds \/ Diagnosing!PassEnds \/ Diagnosing!Left
  BY <1>5, DiagnosisGoesAfter, DiagnosisLeaves, DiagnosisRestoreEnds, DiagnosisPassEnds,
     DiagnosisLeft
<1>6. CASE Diagnosing!Archive \/ Diagnosing!Interrupt \/ Diagnosing!Kill
  BY <1>6, DiagnosisArchives, DiagnosisInterrupted, DiagnosisKilled
<1> QED BY <1>1, <1>2, <1>3, <1>4, <1>5, <1>6
     DEF DiagnosisStep, Starts, Diagnosing!StudyStep, Diagnosing!Normal

\* Before the program is started.
LEMMA DiagnosisBegins ==
  ASSUME Diagnosing!StudyInit
  PROVE  DiagnosisInv
<1>1. NoRecovery \in Baselines
  BY DEF Baselines
<1>2. DiagnosisTyped
  BY <1>1, Ranges, Design DEF Diagnosing!StudyInit, Diagnosing!EmptyDirectory, DiagnosisTyped,
     DiagnosisRecord,
     Directory, Diagnosing!Points
<1>3. DiagnosisPlace /\ DiagnosisFlags
  BY Design DEF Diagnosing!StudyInit, Diagnosing!EmptyDirectory, DiagnosisPlace,
     DiagnosisFlags, SessionOver, Archives
<1>4. Done = {}
  BY PriorOfSession, Design, Ranges DEF Diagnosing!StudyInit, Done
<1>5. DiagnosisRows /\ DiagnosisFiles /\ DiagnosisTables
  BY <1>4 DEF Diagnosing!StudyInit, Diagnosing!EmptyDirectory, DiagnosisRows, DiagnosisFiles,
     DiagnosisTables,
     FullRows, FullFiles, InWork, Logged
<1> QED BY <1>2, <1>3, <1>5 DEF DiagnosisInv

------------------------------------------------------------------------------
(* diagnose_report.py: what summarize() makes of a directory. *)

\* A group that passes has all repetitions.
LEMMA GroupsWhole ==
  ASSUME NEW dir, Accepts(dir), NEW row \in Groups(dir), row.reps \in {AllReps, Short}
  PROVE  row.reps = AllReps
<1>1. /\ Counted(row) = DesignWarmup(dir) .. DesignRepetitions(dir) - 1 /\ Counted(row) # {}
  BY DEF Accepts, Groups
<1>2. 0 \notin Counted(row)
  BY Design DEF Counted
<1>3. dir.env # "none"
  BY <1>1, <1>2 DEF DesignWarmup, DesignRepetitions
<1>4. Repetitions - 1 \in Counted(row)
  BY <1>1, <1>3, Design DEF DesignWarmup, DesignRepetitions
<1>5. Repetitions - 1 \in row.reps
  BY <1>4 DEF Counted
<1> QED BY <1>5 DEF Short

\* The launches of a table of all launches are all keys.
LEMMA WholeRecords ==
  ASSUME NEW dir, dir.launches = LaunchTable(WholeRows)
  PROVE  LaunchRecords(dir) = Keys
<1>1. dir.launches = {[key |-> k, exit |-> 0] : k \in Keys}
  BY WholeTables
<1>2. \A row \in dir.launches : row.key \in Keys
  BY <1>1
<1>3. ASSUME NEW k \in Keys PROVE k \in LaunchRecords(dir)
  <2>1. [key |-> k, exit |-> 0] \in dir.launches
    BY <1>1
  <2> QED BY <2>1 DEF LaunchRecords
<1> QED BY <1>2, <1>3 DEF LaunchRecords

\* What bench_record.py wrote passes only when it is whole.
LEMMA RecorderReported ==
  ASSUME RecorderInv, Accepts(recorderDir)
  PROVE  Whole(recorderDir) /\ recorderDir.recovery = NoRecovery
<1>1. /\ recorderDir.launches # {} /\ recorderDir.samples # {}
      /\ LaunchRecords(recorderDir) \subseteq {row.key : row \in Groups(recorderDir)}
  BY DEF Accepts
<1>2. /\ recorderDir.recovery = NoRecovery /\ recorderDir.launches = LaunchTable(WholeRows)
      /\ OnePerKey(recorderDir.samples)
      /\ \A row \in recorderDir.samples : row.reps \in {AllReps, Short}
      /\ recorderDir.samples \subseteq [key : Keys, reps : SUBSET AllReps]
  BY <1>1 DEF RecorderInv, RecorderTyped, Directory, RecorderTables
<1>3. LaunchRecords(recorderDir) = Keys
  BY <1>2, WholeRecords
<1>4. ASSUME NEW k \in Keys PROVE [key |-> k, reps |-> AllReps] \in recorderDir.samples
  <2>1. PICK row \in Groups(recorderDir) : row.key = k
    BY <1>1, <1>3
  <2>2. row \in recorderDir.samples /\ row.reps = AllReps
    BY <1>2, GroupsWhole DEF Groups
  <2> QED BY <1>2, <2>1, <2>2
<1>5. ASSUME NEW row \in recorderDir.samples
      PROVE  row \in {[key |-> k, reps |-> AllReps] : k \in Keys}
  <2>1. row.key \in Keys /\ [key |-> row.key, reps |-> AllReps] \in recorderDir.samples
    BY <1>2, <1>4
  <2>2. row = [key |-> row.key, reps |-> AllReps]
    BY <1>2, <2>1 DEF OnePerKey
  <2> QED BY <2>1, <2>2
<1>6. recorderDir.samples = SampleTable(WholeRows)
  BY <1>4, <1>5, WholeTables
<1> QED BY <1>2, <1>6 DEF Whole

\* What bench_diagnose.py wrote passes only when it is whole.
LEMMA DiagnosisReported ==
  ASSUME DiagnosisInv, Accepts(diagnosisDir)
  PROVE  /\ Whole(diagnosisDir) /\ diagnosisDir.recovery = NoRecovery
         /\ LayoutsJoin(diagnosisDir) /\ LayoutLaunches(diagnosisDir) = Keys
<1>1. diagnosisDir.env = "complete"
  BY DEF Accepts, SaysIncomplete, DiagnosisInv, DiagnosisTables
<1>2. /\ Whole(diagnosisDir) /\ diagnosisDir.recovery = NoRecovery
      /\ RawFiles(diagnosisDir) = FullFiles(Keys)
  BY <1>1 DEF DiagnosisInv, DiagnosisTables
<1>3. LaunchRecords(diagnosisDir) = Keys
  BY <1>2, WholeRecords DEF Whole
<1>4. \A k \in Keys : /\ Log(k) \in FullFiles(Keys) /\ Log(k).is = "log" /\ Log(k).of = k
                      /\ Command(k, "complete") \in FullFiles(Keys)
                      /\ Command(k, "started") \notin FullFiles(Keys)
  BY DEF FullFiles, Log, Command
<1>5. LayoutLaunches(diagnosisDir) = Keys
  <2>1. \A file \in FullFiles(Keys) : file.of \in Keys
    BY DEF FullFiles, Log, Command
  <2>2. LayoutLaunches(diagnosisDir) \subseteq Keys
    BY <1>2, <2>1 DEF LayoutLaunches
  <2>3. ASSUME NEW k \in Keys PROVE k \in LayoutLaunches(diagnosisDir)
    BY <1>2, <1>4 DEF LayoutLaunches
  <2> QED BY <2>2, <2>3
<1>6. LayoutsJoin(diagnosisDir)
  BY <1>2, <1>3, <1>4, <1>5 DEF LayoutsJoin, Conflict
<1> QED BY <1>2, <1>5, <1>6

\* A log that is there gives its launch.
LEMMA LogsKept ==
  ASSUME NEW dir, Logged(dir, dir.launches)
  PROVE  {row.key : row \in dir.launches} \subseteq LayoutLaunches(dir)
<1>1. ASSUME NEW row \in dir.launches PROVE row.key \in LayoutLaunches(dir)
  <2>1. Log(row.key) \in RawFiles(dir)
    BY DEF Logged
  <2>2. Log(row.key).is = "log" /\ Log(row.key).of = row.key
    BY DEF Log
  <2> QED BY <2>1, <2>2 DEF LayoutLaunches
<1> QED BY <1>1

\* summarize() accepts nothing but whole studies.
LEMMA Reported == RecorderInv /\ DiagnosisInv => ReportAcceptsOnlyWhole
BY RecorderReported, DiagnosisReported DEF ReportAcceptsOnlyWhole

\* Every launch of a table has its log.
LEMMA LogsAreKept == RecorderInv /\ DiagnosisInv => RawFilesKept
<1>1. RecorderInv /\ DiagnosisInv => Logged(recorderDir, recorderDir.launches) /\ Logged(diagnosisDir, diagnosisDir.launches)
  BY DEF RecorderInv, RecorderFiles, DiagnosisInv, DiagnosisFiles
<1> QED BY <1>1, LogsKept, DiagnosisReported DEF RawFilesKept

------------------------------------------------------------------------------
(* The tasks, and the walks of apply_affinity through them. *)

(* The user's tasks: no task is older than the model's clock says, and every *)
(* thread has its leader.                                                    *)
Living ==
  \A t \in Tid : task[t] # NoTask =>
    /\ task[t].start <= births
    /\ task[task[t].leader] # NoTask /\ task[task[t].leader].leader = task[t].leader

\* What a walk that clears the measurement cores has done, or still comes to.
Handled(c, t) ==
  task[t].leader \in scan[c].procs \/ t \in scan[c].tids \/ Effective(t) \cap MeasureCPU = {}

\* No task of the baseline that can be moved is both passed over and on them.
Clearing(c, base) ==
  \A t \in DOMAIN base : Matches(base, t) /\ ~task[t].fixed => Handled(c, t)

\* A baseline of tasks that were there: those born later do not match it.
Timely(base) == \A t \in DOMAIN base : t \in Tid /\ base[t].start \in 0 .. births

\* What bench_record.py can rely on as to the tasks.
RecorderTasks ==
  /\ recorder.at \in {"setup", "cores", "next", "clearing", "launching", "returning"} =>
       Timely(recorder.base)
  /\ recorder.at = "clearing" => Clearing("record", recorder.base)
  /\ recorder.at = "launching" /\ Recording!Cleared => OffTheCores(recorder.base)

\* What bench_diagnose.py can rely on as to the tasks.
DiagnosisTasks ==
  /\ diagnosis.at \in {"noted", "setup", "cores", "warmup", "next", "clearing", "launching", "counting"} =>
       Timely(diagnosis.base)
  /\ diagnosis.at = "clearing" => Clearing("diagnose", diagnosis.base)
  /\ diagnosis.at = "launching" /\ diagnosis.clears => OffTheCores(diagnosis.base)

\* The tasks, and how far apply_affinity has come with them.
Tasks == MachineTypeOK /\ AffinityTypeOK /\ Living

\* What is true of tasks and studies.
TasksInv == Tasks /\ RecorderTasks /\ DiagnosisTasks

\* A task a step does not touch, or to which it gives other CPUs.
SameTask(t) ==
  /\ task'[t] = NoTask <=> task[t] = NoTask
  /\ task[t] # NoTask => /\ task'[t].start = task[t].start /\ task'[t].leader = task[t].leader
                         /\ task'[t].fixed = task[t].fixed

\* The type of a walk through /proc not begun,
LEMMA NoScans == NoScan \in Scan
BY DEF NoScan, Scan

\* and of one that has just listed it.
LEMMA Listings ==
  ASSUME MachineTypeOK
  PROVE  Listing \in Scan
<1>1. \A t \in Live : task[t] \in Task
  BY DEF MachineTypeOK, Live
<1>2. {task[t].leader : t \in Live} \subseteq Tid
  BY <1>1 DEF Task
<1> QED BY <1>2 DEF Listing, NoScan, Scan, MachineTypeOK

\* Steps that give some tasks other CPUs.
LEMMA LivingStays ==
  ASSUME Tasks, births' = births, task' \in [Tid -> Task \cup {NoTask}],
         \A t \in Tid : SameTask(t)
  PROVE  Living'
<1>1. ASSUME NEW t \in Tid, task'[t] # NoTask
      PROVE  /\ task'[t].start <= births'
             /\ task'[task'[t].leader] # NoTask /\ task'[task'[t].leader].leader = task'[t].leader
  <2>1. task[t] # NoTask /\ task[t] \in Task
    BY <1>1 DEF SameTask, Tasks, MachineTypeOK
  <2>2. task[t].leader \in Tid
    BY <2>1 DEF Task
  <2> QED BY <1>1, <2>1, <2>2 DEF SameTask, Tasks, Living
<1> QED BY <1>1 DEF Living

\* One step of apply_affinity, whatever for.
LEMMA WalkStep ==
  ASSUME Tasks, NEW c \in Clients, NEW base, NEW exclude, ApplyStep(c, base, exclude)
  PROVE  /\ Tasks' /\ births' = births /\ UNCHANGED <<online, knob>>
         /\ \A t \in Tid : SameTask(t)
         /\ \A d \in Clients \ {c} : scan'[d] = scan[d]
         /\ exclude = MeasureCPU =>
              \A t \in Tid : task[t] # NoTask /\ ~task[t].fixed /\ Handled(c, t) => Handled(c, t)'
<1>1. CASE ApplyProcess(c)
  <2>1. PICK p \in scan[c].procs :
          scan' = [scan EXCEPT ![c].procs = @ \ {p}, ![c].pid = p, ![c].tids = Group(p)]
    BY <1>1 DEF ApplyProcess
  <2>2. UNCHANGED <<online, knob, task, births>> /\ scan[c].tids = {}
    BY <1>1 DEF ApplyProcess, machine
  <2>3. scan[c] \in Scan /\ p \in Tid /\ Group(p) \subseteq Tid
    BY <2>1 DEF Tasks, AffinityTypeOK, Scan, Group, Live
  <2>4. /\ scan'[c].procs = scan[c].procs \ {p} /\ scan'[c].tids = Group(p)
        /\ \A d \in Clients \ {c} : scan'[d] = scan[d]
        /\ scan' \in [Clients -> Scan]
    BY <2>1, <2>3 DEF Tasks, AffinityTypeOK, Scan
  <2>5. ASSUME NEW t \in Tid, task[t] # NoTask, Handled(c, t) PROVE Handled(c, t)'
    <3>1. CASE task[t].leader = p
      <4>1. t \in Group(p)
        BY <2>3, <2>5, <3>1 DEF Tasks, Living, Group, Live
      <4> QED BY <2>4, <4>1 DEF Handled
    <3>2. CASE task[t].leader # p
      BY <2>2, <2>4, <2>5, <3>2 DEF Handled, Effective
    <3> QED BY <3>1, <3>2
  <2> QED BY <2>2, <2>4, <2>5 DEF Tasks, MachineTypeOK, AffinityTypeOK, Living, SameTask
<1>2. CASE ApplyTask(c, base, exclude)
  <2> DEFINE rest(t) == [scan[c] EXCEPT !.tids = @ \ {t}]
             want(t) == Want(base, rest(t).pid, t, rest(t).cpus, exclude)
             differs(t) == task[t] # NoTask /\ Effective(t) # want(t)
  <2>1. PICK t \in scan[c].tids :
          /\ task' = IF differs(t) /\ ~task[t].fixed THEN [task EXCEPT ![t].mask = want(t)] ELSE task
          /\ scan' = [scan EXCEPT ![c] =
                  CASE ~differs(t) -> rest(t)
                    [] differs(t) /\ task[t].fixed -> [rest(t) EXCEPT !.refused = @ \cup {t}]
                    [] differs(t) /\ ~task[t].fixed -> [rest(t) EXCEPT !.changed = TRUE]]
          /\ UNCHANGED <<online, knob, births>>
    BY <1>2 DEF ApplyTask
  <2>2. scan[c] \in Scan /\ t \in Tid
    BY <2>1 DEF Tasks, AffinityTypeOK, Scan
  <2>3. /\ rest(t) \in Scan /\ rest(t).procs = scan[c].procs /\ rest(t).tids = scan[c].tids \ {t}
        /\ rest(t).cpus = scan[c].cpus /\ rest(t).cpus \subseteq CPU
    BY <2>2 DEF Scan
  <2>4. want(t) \subseteq CPU /\ (exclude = MeasureCPU => want(t) \cap MeasureCPU = {})
    BY <2>3 DEF Want
  <2> HIDE DEF want
  <2>5. /\ scan'[c] \in {rest(t), [rest(t) EXCEPT !.refused = @ \cup {t}], [rest(t) EXCEPT !.changed = TRUE]}
        /\ \A d \in Clients \ {c} : scan'[d] = scan[d]
        /\ DOMAIN scan' = Clients /\ scan' = [d \in Clients |-> scan'[d]]
    BY <2>1 DEF Tasks, AffinityTypeOK
  <2>6. /\ scan'[c] \in Scan /\ scan'[c].procs = scan[c].procs /\ scan'[c].tids = scan[c].tids \ {t}
    <3> HIDE DEF rest
    <3>1. CASE scan'[c] = rest(t)
      BY <2>3, <3>1
    <3>2. CASE scan'[c] = [rest(t) EXCEPT !.refused = @ \cup {t}]
      BY <2>2, <2>3, <3>2 DEF Scan
    <3>3. CASE scan'[c] = [rest(t) EXCEPT !.changed = TRUE]
      BY <2>3, <3>3 DEF Scan
    <3> QED BY <2>5, <3>1, <3>2, <3>3
  <2>7. AffinityTypeOK'
    <3>1. \A d \in Clients : scan'[d] \in Scan
      BY <2>5, <2>6 DEF Tasks, AffinityTypeOK
    <3> QED BY <2>5, <3>1 DEF AffinityTypeOK
  <2>8. CASE differs(t) /\ ~task[t].fixed
    <3>1. task[t] \in Task
      BY <2>2, <2>8 DEF Tasks, MachineTypeOK
    <3>2. /\ task' \in [Tid -> Task \cup {NoTask}] /\ task'[t] # NoTask /\ task'[t].mask = want(t)
          /\ task'[t].start = task[t].start /\ task'[t].leader = task[t].leader
          /\ task'[t].fixed = task[t].fixed
          /\ \A u \in Tid \ {t} : task'[u] = task[u]
      <4>1. task' = [task EXCEPT ![t].mask = want(t)]
        BY <2>1, <2>8
      <4>2. [task[t] EXCEPT !.mask = want(t)] \in Task
        BY <2>4, <3>1 DEF Task
      <4> QED BY <2>2, <3>1, <4>1, <4>2, TasksAssumption DEF Tasks, MachineTypeOK, Task
    <3>3. \A u \in Tid : SameTask(u)
      BY <2>2, <2>8, <3>2 DEF SameTask
    <3>4. Living'
      BY <2>1, <3>2, <3>3, LivingStays
    <3>5. ASSUME exclude = MeasureCPU, NEW u \in Tid, task[u] # NoTask, Handled(c, u) PROVE Handled(c, u)'
      <4>1. CASE u = t
        BY <2>4, <3>2, <3>5, <4>1 DEF Handled, Effective
      <4>2. CASE u # t
        <5>1. Effective(u)' = Effective(u)
          BY <2>1, <3>2, <3>5, <4>2 DEF Effective
        <5> QED BY <2>6, <3>2, <3>5, <4>2, <5>1 DEF Handled
      <4> QED BY <4>1, <4>2
    <3> QED BY <2>1, <2>5, <2>7, <3>2, <3>3, <3>4, <3>5 DEF Tasks, MachineTypeOK
  <2>9. CASE ~(differs(t) /\ ~task[t].fixed)
    <3>1. task' = task
      BY <2>1, <2>9
    <3>2. \A u \in Tid : SameTask(u)
      BY <3>1 DEF SameTask
    <3>3. Living'
      BY <2>1, <3>1 DEF Tasks, Living
    <3>4. ASSUME exclude = MeasureCPU, NEW u \in Tid, task[u] # NoTask, ~task[u].fixed, Handled(c, u)
          PROVE  Handled(c, u)'
      <4>1. Effective(u)' = Effective(u)
        BY <2>1, <3>1 DEF Effective
      <4>2. CASE u = t
        BY <2>4, <2>9, <3>4, <4>1, <4>2 DEF Handled
      <4>3. CASE u # t
        BY <2>6, <3>1, <3>4, <4>1, <4>3 DEF Handled
      <4> QED BY <4>2, <4>3
    <3> QED BY <2>1, <2>5, <2>7, <3>1, <3>2, <3>3, <3>4 DEF Tasks, MachineTypeOK
  <2> QED BY <2>8, <2>9
<1> QED BY <1>1, <1>2 DEF ApplyStep

\* Tasks are born and end.
LEMMA ComeAndGo ==
  ASSUME Tasks, Fork \/ Exit, scan' = scan
  PROVE  /\ Tasks' /\ UNCHANGED <<online, knob>> /\ births' \in Nat /\ births \in Nat /\ births' >= births
         /\ \A t \in Tid : task'[t] = NoTask \/ task'[t] = task[t] \/ task'[t].start > births
<1>0. births \in Nat /\ births <= MaxBirths /\ MaxBirths \in Nat
  BY TasksAssumption DEF Tasks, MachineTypeOK
<1>1. CASE Fork
  <2>0. PICK parent \in Live, child \in Tid \ Live : \E l \in {child, task[parent].leader} :
          task' = [task EXCEPT ![child] = [task[parent] EXCEPT !.start = births', !.leader = l]]
    BY <1>1 DEF Fork
  <2>1. PICK leader \in {child, task[parent].leader} :
          task' = [task EXCEPT ![child] = [task[parent] EXCEPT !.start = births', !.leader = leader]]
    BY <2>0
  <2>2. births' = births + 1 /\ births < MaxBirths /\ UNCHANGED <<online, knob>>
    BY <1>1 DEF Fork
  <2>3. parent \in Tid /\ task[parent] # NoTask /\ task[parent] \in Task
    BY DEF Live, Tasks, MachineTypeOK
  <2>4. leader \in Tid
    BY <2>3 DEF Task
  <2> DEFINE born == [task[parent] EXCEPT !.start = births', !.leader = leader]
  <2>5. born \in Task /\ born.start = births + 1 /\ born.leader = leader
    <3>1. births' \in 0 .. MaxBirths
      BY <1>0, <2>2
    <3> QED BY <2>2, <2>3, <2>4, <3>1 DEF Task
  <2>6. task' = [task EXCEPT ![child] = born]
    BY <2>1
  <2> HIDE DEF born
  <2>7. /\ task'[child] = born /\ \A t \in Tid \ {child} : task'[t] = task[t]
        /\ task' \in [Tid -> Task \cup {NoTask}]
    BY <2>5, <2>6 DEF Tasks, MachineTypeOK
  <2>8. MachineTypeOK'
    BY <1>0, <2>2, <2>7 DEF Tasks, MachineTypeOK
  <2>9. ASSUME NEW t \in Tid, task'[t] # NoTask
        PROVE  /\ task'[t].start <= births'
               /\ task'[task'[t].leader] # NoTask /\ task'[task'[t].leader].leader = task'[t].leader
    <3>1. task[child] = NoTask /\ born # NoTask
      BY <2>5, TasksAssumption DEF Live
    <3>2. CASE t = child
      <4>1. CASE leader = child
        BY <1>0, <2>2, <2>5, <2>7, <3>1, <3>2, <4>1
      <4>2. CASE leader # child
        <5>1. /\ leader = task[parent].leader /\ task[leader] # NoTask /\ task[leader].leader = leader
          BY <2>1, <2>3, <4>2 DEF Tasks, Living
        <5> QED BY <1>0, <2>2, <2>4, <2>5, <2>7, <3>2, <4>2, <5>1
      <4> QED BY <4>1, <4>2
    <3>3. CASE t # child
      <4>1. task'[t] = task[t] /\ task[t] \in Task
        BY <2>7, <2>9, <3>3 DEF Tasks, MachineTypeOK
      <4>2. /\ task[t].start <= births /\ task[t].start \in Nat /\ task[t].leader \in Tid
            /\ task[task[t].leader] # NoTask /\ task[task[t].leader].leader = task[t].leader
        BY <2>9, <4>1 DEF Tasks, Living, Task
      <4>3. task'[task[t].leader] = task[task[t].leader]
        BY <2>7, <3>1, <4>2
      <4> QED BY <1>0, <2>2, <4>1, <4>2, <4>3
    <3> QED BY <3>2, <3>3
  <2>10. Living'
    BY <2>9 DEF Living
  <2>11. \A t \in Tid : task'[t] = NoTask \/ task'[t] = task[t] \/ task'[t].start > births
    BY <1>0, <2>5, <2>7
  <2> QED BY <1>0, <2>2, <2>8, <2>10, <2>11 DEF Tasks, AffinityTypeOK
<1>2. CASE Exit
  <2>1. PICK gone \in Live :
          task' = [t \in Tid |-> IF t \in Live /\ gone \in {t, task[t].leader} THEN NoTask ELSE task[t]]
    BY <1>2 DEF Exit
  <2>2. UNCHANGED <<online, knob, births>>
    BY <1>2 DEF Exit
  <2>3. MachineTypeOK'
    BY <2>1, <2>2 DEF Tasks, MachineTypeOK
  <2>4. ASSUME NEW t \in Tid, task'[t] # NoTask
        PROVE  /\ task'[t].start <= births'
               /\ task'[task'[t].leader] # NoTask /\ task'[task'[t].leader].leader = task'[t].leader
    <3>1. task'[t] = task[t] /\ t \in Live /\ gone \notin {t, task[t].leader} /\ task[t] \in Task
      BY <2>1, <2>4 DEF Live, Tasks, MachineTypeOK
    <3>2. /\ task[t].start <= births /\ task[t].leader \in Tid
          /\ task[task[t].leader] # NoTask /\ task[task[t].leader].leader = task[t].leader
      BY <2>4, <3>1 DEF Tasks, Living, Task
    <3>3. task'[task[t].leader] = task[task[t].leader]
      BY <2>1, <3>1, <3>2
    <3> QED BY <2>2, <3>1, <3>2, <3>3
  <2>5. Living'
    BY <2>4 DEF Living
  <2> QED BY <1>0, <2>1, <2>2, <2>3, <2>5 DEF Tasks, AffinityTypeOK
<1> QED BY <1>1, <1>2

\* Nothing happens to the tasks; a walk begins, ends, or neither.
LEMMA StillTasks ==
  ASSUME Tasks, UNCHANGED machine, NEW c \in Clients,
         scan' \in {scan, [scan EXCEPT ![c] = NoScan], [scan EXCEPT ![c] = Listing]}
  PROVE  Tasks'
<1>1. scan' \in [Clients -> Scan]
  BY NoScans, Listings DEF Tasks, AffinityTypeOK
<1> QED BY <1>1 DEF Tasks, machine, MachineTypeOK, AffinityTypeOK, Living

------------------------------------------------------------------------------
(* bench_record.py and the tasks. *)

\* The baseline that a session begins with.
LEMMA BaselineTimely ==
  ASSUME Tasks
  PROVE  Baseline \in Baselines /\ Baseline # NoRecovery /\ Timely(Baseline)
<1>1. \A t \in Live : t \in Tid /\ task[t] \in Task /\ task[t].start \in 0 .. births
  BY TasksAssumption DEF Live, Tasks, MachineTypeOK, Living, Task
<1>2. \A t \in Live : [start |-> task[t].start, mask |-> Effective(t)] \in Entry
  BY <1>1 DEF Entry, Task, Effective, Tasks, MachineTypeOK
<1>3. Baseline \in [Live -> Entry] /\ Live \subseteq Tid
  BY <1>1, <1>2 DEF Baseline
<1>4. Timely(Baseline)
  BY <1>1 DEF Baseline, Timely
<1> QED BY <1>3, <1>4, CallersAssumption DEF Baselines, IsBaseline

\* A walk through the tasks begins with all of them ahead, and ends with none.
LEMMA WalkBegins ==
  ASSUME Tasks, NEW c \in Clients, UNCHANGED machine, scan' = [scan EXCEPT ![c] = Listing]
  PROVE  \A t \in Tid : task'[t] # NoTask => Handled(c, t)'
<1>1. scan'[c].procs = {task[t].leader : t \in Live}
  BY DEF Tasks, AffinityTypeOK, Listing, NoScan
<1> QED BY <1>1 DEF Handled, Live, machine

\* At the end of the walk no task that was dealt with runs on the measurement cores.
LEMMA WalkEnds ==
  ASSUME Tasks, NEW c \in Clients, ApplyDone(c), UNCHANGED machine
  PROVE  \A t \in Tid : Handled(c, t) => Effective(t)' \cap MeasureCPU = {}
BY DEF ApplyDone, Handled, Effective, machine

\* What bench_record.py calls of apply_affinity is the model's.
LEMMA RecorderOperators ==
  /\ Recording!Baseline = Baseline /\ Recording!Listing = Listing
  /\ Recording!NoScan = NoScan /\ (Recording!ApplyDone("record") <=> ApplyDone("record"))
BY DEF Recording!Baseline, Recording!Live, Recording!Effective, Baseline, Live, Effective,
     Recording!Listing, Recording!NoScan, Listing, NoScan, Recording!ApplyDone, ApplyDone

\* The CPUs that apply_affinity picks are the same,
LEMMA RecorderWants ==
  ASSUME NEW base, NEW pid, NEW t, NEW cpus, NEW exclude
  PROVE  Recording!Want(base, pid, t, cpus, exclude) = Want(base, pid, t, cpus, exclude)
<1>1. Recording!Live = Live
  BY DEF Live, Recording!Live
<1>2. \A u : Recording!Known(base, pid, u) <=> Known(base, pid, u)
  BY <1>1 DEF Known, Recording!Known, Group, Recording!Group, Matches, Recording!Matches
<1>3. Recording!Cardinality(online) = Cardinality(online)
  BY DEF Cardinality, Recording!Cardinality
<1>4. Recording!BaselineMask(base, pid, t) = BaselineMask(base, pid, t)
  BY <1>2, <1>3 DEF BaselineMask, Everything, Recording!BaselineMask, Recording!Everything
<1> QED BY <1>4 DEF Want, Recording!Want

\* and so is one step of its walk.
LEMMA RecorderWalks ==
  ASSUME NEW exclude, Recording!ApplyStep("record", recorder.base, exclude)
  PROVE  ApplyStep("record", recorder.base, exclude)
<1>1. CASE Recording!ApplyProcess("record")
  BY <1>1 DEF ApplyStep, ApplyProcess, Group, Live, machine,
     Recording!ApplyProcess, Recording!Group, Recording!Live, Recording!machine
<1>2. CASE Recording!ApplyTask("record", recorder.base, exclude)
  BY <1>2, RecorderWants DEF ApplyStep, ApplyTask, Effective, Recording!ApplyTask,
     Recording!Effective
<1> QED BY <1>1, <1>2 DEF Recording!ApplyStep

\* A step of bench_record.py that moves a task.
LEMMA RecorderMoves ==
  ASSUME TasksInv, Recording!Moving
  PROVE  Tasks' /\ RecorderTasks'
<1>1. /\ recorder' = recorder
      /\ recorder.at \in {"clearing", "returning", "first", "second"}
      /\ Recording!ApplyStep("record", recorder.base, IF recorder.at = "clearing" THEN MeasureCPU ELSE {})
  BY DEF Recording!Moving, Recording!session, Recording!InStudy
<1>2. ApplyStep("record", recorder.base, IF recorder.at = "clearing" THEN MeasureCPU ELSE {})
  BY <1>1, RecorderWalks
<1>3. /\ Tasks' /\ births' = births
      /\ \A t \in Tid : SameTask(t)
      /\ recorder.at = "clearing" =>
           \A t \in Tid : task[t] # NoTask /\ ~task[t].fixed /\ Handled("record", t) => Handled("record", t)'
  BY <1>2, WalkStep, CallersAssumption DEF TasksInv
<1>4. ASSUME recorder.at = "clearing" PROVE Clearing("record", recorder.base)'
  BY <1>1, <1>3, <1>4 DEF TasksInv, RecorderTasks, Clearing, Timely, Matches, SameTask
<1> QED BY <1>1, <1>3, <1>4 DEF TasksInv, RecorderTasks, Timely

\* The points at which the study has a baseline.
HoldsBaseline == {"setup", "cores", "next", "clearing", "launching", "returning"}

\* A step of bench_record.py that moves no task: what it does to a walk, and what its
\* next point takes for granted.
LEMMA RecorderHolds ==
  ASSUME TasksInv, UNCHANGED machine,
         scan' \in {scan, [scan EXCEPT !["record"] = NoScan], [scan EXCEPT !["record"] = Listing]},
         \/ recorder'.at \notin HoldsBaseline
         \/ /\ recorder'.at \in HoldsBaseline \ {"clearing", "launching"}
            /\ recorder.at \in HoldsBaseline /\ recorder'.base = recorder.base
         \/ /\ recorder'.at \in {"setup", "cores"} /\ recorder'.base = Baseline
         \/ /\ recorder'.at = "clearing" /\ recorder.at = "next" /\ recorder'.base = recorder.base
            /\ scan' = [scan EXCEPT !["record"] = Listing]
         \/ /\ recorder'.at = "launching" /\ recorder.at = "next" /\ recorder'.base = recorder.base
            /\ ~Recording!Cleared'
         \/ /\ recorder'.at = "launching" /\ recorder.at = "clearing" /\ recorder'.base = recorder.base
            /\ ApplyDone("record")
  PROVE  Tasks' /\ RecorderTasks'
<1>1. Tasks' /\ births' = births
  BY StillTasks, CallersAssumption DEF TasksInv, machine
<1>2. CASE recorder'.at \notin HoldsBaseline
  BY <1>1, <1>2 DEF RecorderTasks, HoldsBaseline
<1>3. CASE /\ recorder'.at \in HoldsBaseline \ {"clearing", "launching"}
           /\ recorder.at \in HoldsBaseline /\ recorder'.base = recorder.base
  BY <1>1, <1>3 DEF TasksInv, RecorderTasks, HoldsBaseline, Timely
<1>4. CASE recorder'.at \in {"setup", "cores"} /\ recorder'.base = Baseline
  BY <1>1, <1>4, BaselineTimely DEF TasksInv, RecorderTasks, Timely
<1>5. CASE /\ recorder'.at = "clearing" /\ recorder.at = "next" /\ recorder'.base = recorder.base
           /\ scan' = [scan EXCEPT !["record"] = Listing]
  <2>1. \A t \in Tid : task'[t] # NoTask => Handled("record", t)'
    BY <1>5, WalkBegins, CallersAssumption DEF TasksInv
  <2>2. Timely(recorder.base)
    BY <1>5 DEF TasksInv, RecorderTasks
  <2> QED BY <1>1, <1>5, <2>1, <2>2 DEF RecorderTasks, Clearing, Matches, Timely
<1>6. CASE /\ recorder'.at = "launching" /\ recorder.at = "next" /\ recorder'.base = recorder.base
           /\ ~Recording!Cleared'
  BY <1>1, <1>6 DEF TasksInv, RecorderTasks, Timely
<1>7. CASE /\ recorder'.at = "launching" /\ recorder.at = "clearing" /\ recorder'.base = recorder.base
           /\ ApplyDone("record")
  <2>1. \A t \in Tid : Handled("record", t) => Effective(t)' \cap MeasureCPU = {}
    BY <1>7, WalkEnds, CallersAssumption DEF TasksInv
  <2>2. Timely(recorder.base) /\ Clearing("record", recorder.base)
    BY <1>7 DEF TasksInv, RecorderTasks
  <2>3. OffTheCores(recorder.base)'
    BY <1>7, <2>1, <2>2 DEF Clearing, OffTheCores, Matches, Timely, machine
  <2> QED BY <1>1, <1>7, <2>2, <2>3 DEF RecorderTasks, Timely
<1> QED BY <1>2, <1>3, <1>4, <1>5, <1>6, <1>7

\* Every step of bench_record.py.
LEMMA RecorderStepsHold ==
  ASSUME TasksInv, RecorderTyped, Recording!StudyStep \/ Recording!Prepare
  PROVE  Tasks' /\ RecorderTasks'
<1> USE DEF RecorderTyped, RecorderRecord, Recording!InStudy, Recording!GoTo, HoldsBaseline,
        machine, modeVars, Recording!machine, Recording!modeVars
<1>1. CASE Recording!Prepare
  <2>1. scan' = scan /\ UNCHANGED machine /\ recorder'.at \in {"session", "ended"}
    BY <1>1 DEF Recording!Prepare, Recording!Gone
  <2> QED BY <2>1, RecorderHolds
<1>2. CASE Recording!BeginSession
  <2>1. scan' = scan /\ UNCHANGED machine /\ recorder'.at = "setup" /\ recorder'.base = Baseline
    BY <1>2, RecorderOperators DEF Recording!BeginSession
  <2> QED BY <2>1, RecorderHolds
<1>3. CASE Recording!SetupEnds
  <2>1. /\ scan' = scan /\ UNCHANGED machine
        /\ recorder.at = "setup" /\ recorder'.at \in {"cores", "leave"} /\ recorder'.base = recorder.base
    BY <1>3 DEF Recording!SetupEnds, Recording!Raising
  <2> QED BY <2>1, RecorderHolds
<1>4. CASE Recording!Confine
  <2>1. /\ scan' = scan /\ UNCHANGED machine
        /\ recorder.at = "cores" /\ recorder'.at \in {"next", "leave"} /\ recorder'.base = recorder.base
    BY <1>4 DEF Recording!Confine, Recording!Raising
  <2> QED BY <2>1, RecorderHolds
<1>5. CASE Recording!NextLaunch
  <2>1. UNCHANGED machine /\ recorder.at = "next" /\ recorder'.base = recorder.base
    BY <1>5 DEF Recording!NextLaunch, Recording!NextRound
  <2>2. \/ recorder'.at = "clearing" /\ scan' = [scan EXCEPT !["record"] = Listing]
        \/ recorder'.at = "launching" /\ ~Recording!Cleared' /\ scan' = scan
        \/ recorder'.at = "returning" /\ scan' = [scan EXCEPT !["record"] = Listing]
        \/ recorder'.at \in {"next", "leave"} /\ scan' = scan
    BY <1>5, RecorderOperators DEF Recording!NextLaunch, Recording!NextRound,
       Recording!ApplyBegin, Recording!Cleared
  <2> QED BY <2>1, <2>2, RecorderHolds
<1>6. CASE Recording!TasksCleared
  <2>1. /\ UNCHANGED machine /\ recorder.at = "clearing" /\ recorder'.at = "launching"
        /\ recorder'.base = recorder.base /\ ApplyDone("record")
        /\ scan' = [scan EXCEPT !["record"] = NoScan]
    BY <1>6, RecorderOperators DEF Recording!TasksCleared
  <2> QED BY <2>1, RecorderHolds
<1>7. CASE Recording!LaunchEnds \/ Recording!LaunchEndsShort
  <2>1. /\ UNCHANGED machine /\ recorder.at = "launching" /\ recorder'.base = recorder.base
        /\ recorder'.at \in {"next", "returning", "leave"}
        /\ scan' \in {scan, [scan EXCEPT !["record"] = Listing]}
    BY <1>7, RecorderOperators DEF Recording!LaunchEnds, Recording!LaunchEndsShort,
       Recording!Finished,
       Recording!AfterLaunchFails, Recording!ApplyBegin, Recording!Raising
  <2> QED BY <2>1, RecorderHolds
<1>8. CASE Recording!TasksReturned
  <2>1. /\ UNCHANGED machine /\ recorder.at = "returning" /\ recorder'.base = recorder.base
        /\ recorder'.at \in {"next", "leave"} /\ scan' = [scan EXCEPT !["record"] = NoScan]
    BY <1>8, RecorderOperators DEF Recording!TasksReturned, Recording!NextRound,
       Recording!Raising
  <2> QED BY <2>1, RecorderHolds
<1>9. CASE Recording!Leave
  <2>1. /\ UNCHANGED machine /\ recorder'.at \notin HoldsBaseline
        /\ scan' \in {scan, [scan EXCEPT !["record"] = Listing]}
    BY <1>9, RecorderOperators DEF Recording!Leave, Recording!ApplyBegin, Recording!Gone
  <2> QED BY <2>1, RecorderHolds
<1>10. CASE Recording!RestoreEnds \/ Recording!Reap
  <2>1. UNCHANGED machine /\ scan' = scan /\ recorder'.at \notin HoldsBaseline
    BY <1>10 DEF Recording!RestoreEnds, Recording!Reap, Recording!Gone, Recording!Raising
  <2> QED BY <2>1, RecorderHolds
<1>11. CASE Recording!PassEnds
  <2>1. /\ UNCHANGED machine /\ recorder'.at \notin HoldsBaseline
        /\ scan' \in {[scan EXCEPT !["record"] = NoScan], [scan EXCEPT !["record"] = Listing]}
    BY <1>11, RecorderOperators DEF Recording!PassEnds, Recording!ApplyBegin
  <2> QED BY <2>1, RecorderHolds
<1>12. CASE Recording!Write
  <2>1. UNCHANGED machine /\ scan' = scan /\ recorder'.at \notin HoldsBaseline
    BY <1>12 DEF Recording!Write, Recording!Gone
  <2> QED BY <2>1, RecorderHolds
<1>13. CASE Recording!Interrupt
  <2>1. UNCHANGED machine /\ recorder.at \in Recording!Points
    BY <1>13 DEF Recording!Interrupt
  <2>2. scan' \in {[scan EXCEPT !["record"] = NoScan], [scan EXCEPT !["record"] = Listing]}
    BY <1>13, RecorderOperators DEF Recording!Interrupt
  <2>3. \/ \E at \in {"reaping", "dying"} : recorder' = [recorder EXCEPT !.at = at]
        \/ /\ recorder.at \in {"next", "clearing", "launching"}
           /\ recorder' = [recorder EXCEPT !.at = "returning", !.raising = TRUE]
        \/ recorder' = Recording!Gone
        \/ recorder' = Recording!Raising
    BY <1>13 DEF Recording!Interrupt
  <2>4. \/ recorder'.at \notin HoldsBaseline
        \/ recorder'.at = "returning" /\ recorder.at \in HoldsBaseline /\ recorder'.base = recorder.base
    BY <2>3 DEF Recording!Gone, Recording!Raising
  <2> QED BY <2>1, <2>2, <2>4, RecorderHolds
<1>14. CASE Recording!Kill
  <2>1. UNCHANGED machine /\ scan' = [scan EXCEPT !["record"] = NoScan] /\ recorder'.at = "ended"
    BY <1>14, RecorderOperators DEF Recording!Kill, Recording!Gone
  <2> QED BY <2>1, RecorderHolds
<1> QED BY <1>1, <1>2, <1>3, <1>4, <1>5, <1>6, <1>7, <1>8, <1>9, <1>10, <1>11, <1>12, <1>13,
     <1>14,
           RecorderMoves DEF Recording!StudyStep, Recording!Normal

------------------------------------------------------------------------------
(* bench_diagnose.py and the tasks. *)

\* What bench_diagnose.py calls of apply_affinity is the model's.
LEMMA DiagnosisOperators ==
  /\ Diagnosing!Baseline = Baseline /\ Diagnosing!Listing = Listing
  /\ Diagnosing!NoScan = NoScan /\ (Diagnosing!ApplyDone("diagnose") <=> ApplyDone("diagnose"))
BY DEF Diagnosing!Baseline, Diagnosing!Live, Diagnosing!Effective, Baseline, Live, Effective,
     Diagnosing!Listing, Diagnosing!NoScan, Listing, NoScan, Diagnosing!ApplyDone, ApplyDone

\* The CPUs that apply_affinity picks are the same,
LEMMA DiagnosisWants ==
  ASSUME NEW base, NEW pid, NEW t, NEW cpus, NEW exclude
  PROVE  Diagnosing!Want(base, pid, t, cpus, exclude) = Want(base, pid, t, cpus, exclude)
<1>1. Diagnosing!Live = Live
  BY DEF Live, Diagnosing!Live
<1>2. \A u : Diagnosing!Known(base, pid, u) <=> Known(base, pid, u)
  BY <1>1 DEF Known, Diagnosing!Known, Group, Diagnosing!Group, Matches, Diagnosing!Matches
<1>3. Diagnosing!Cardinality(online) = Cardinality(online)
  BY DEF Cardinality, Diagnosing!Cardinality
<1>4. Diagnosing!BaselineMask(base, pid, t) = BaselineMask(base, pid, t)
  BY <1>2, <1>3 DEF BaselineMask, Everything, Diagnosing!BaselineMask, Diagnosing!Everything
<1> QED BY <1>4 DEF Want, Diagnosing!Want

\* and so is one step of its walk.
LEMMA DiagnosisWalks ==
  ASSUME NEW exclude, Diagnosing!ApplyStep("diagnose", diagnosis.base, exclude)
  PROVE  ApplyStep("diagnose", diagnosis.base, exclude)
<1>1. CASE Diagnosing!ApplyProcess("diagnose")
  BY <1>1 DEF ApplyStep, ApplyProcess, Group, Live, machine,
     Diagnosing!ApplyProcess, Diagnosing!Group, Diagnosing!Live, Diagnosing!machine
<1>2. CASE Diagnosing!ApplyTask("diagnose", diagnosis.base, exclude)
  BY <1>2, DiagnosisWants DEF ApplyStep, ApplyTask, Effective, Diagnosing!ApplyTask,
     Diagnosing!Effective
<1> QED BY <1>1, <1>2 DEF Diagnosing!ApplyStep

\* A step of bench_diagnose.py that moves a task.
LEMMA DiagnosisMoves ==
  ASSUME TasksInv, Diagnosing!Moving
  PROVE  Tasks' /\ DiagnosisTasks'
<1>1. /\ diagnosis' = diagnosis
      /\ diagnosis.at \in {"clearing", "first", "second"}
      /\ Diagnosing!ApplyStep("diagnose", diagnosis.base, IF diagnosis.at = "clearing" THEN MeasureCPU ELSE {})
  BY DEF Diagnosing!Moving, Diagnosing!session, Diagnosing!InStudy
<1>2. ApplyStep("diagnose", diagnosis.base, IF diagnosis.at = "clearing" THEN MeasureCPU ELSE {})
  BY <1>1, DiagnosisWalks
<1>3. /\ Tasks' /\ births' = births
      /\ \A t \in Tid : SameTask(t)
      /\ diagnosis.at = "clearing" =>
           \A t \in Tid : task[t] # NoTask /\ ~task[t].fixed /\ Handled("diagnose", t) => Handled("diagnose", t)'
  BY <1>2, WalkStep, CallersAssumption DEF TasksInv
<1>4. ASSUME diagnosis.at = "clearing" PROVE Clearing("diagnose", diagnosis.base)'
  BY <1>1, <1>3, <1>4 DEF TasksInv, DiagnosisTasks, Clearing, Timely, Matches, SameTask
<1> QED BY <1>1, <1>3, <1>4 DEF TasksInv, DiagnosisTasks, Timely

\* The points at which the study has a baseline.
HoldsListing == {"noted", "setup", "cores", "warmup", "next", "clearing", "launching", "counting"}

\* A step of bench_diagnose.py that moves no task.
LEMMA DiagnosisHolds ==
  ASSUME TasksInv, UNCHANGED machine,
         scan' \in {scan, [scan EXCEPT !["diagnose"] = NoScan], [scan EXCEPT !["diagnose"] = Listing]},
         \/ diagnosis'.at \notin HoldsListing
         \/ /\ diagnosis'.at \in HoldsListing \ {"clearing", "launching"}
            /\ diagnosis.at \in HoldsListing /\ diagnosis'.base = diagnosis.base
         \/ /\ diagnosis'.at = "noted" /\ diagnosis'.base = Baseline
         \/ /\ diagnosis'.at = "clearing" /\ diagnosis.at = "next" /\ diagnosis'.base = diagnosis.base
            /\ scan' = [scan EXCEPT !["diagnose"] = Listing]
         \/ /\ diagnosis'.at = "launching" /\ diagnosis.at = "next" /\ diagnosis'.base = diagnosis.base
            /\ ~diagnosis'.clears
         \/ /\ diagnosis'.at = "launching" /\ diagnosis.at = "clearing" /\ diagnosis'.base = diagnosis.base
            /\ ApplyDone("diagnose")
  PROVE  Tasks' /\ DiagnosisTasks'
<1>1. Tasks' /\ births' = births
  BY StillTasks, CallersAssumption DEF TasksInv, machine
<1>2. CASE diagnosis'.at \notin HoldsListing
  BY <1>1, <1>2 DEF DiagnosisTasks, HoldsListing
<1>3. CASE /\ diagnosis'.at \in HoldsListing \ {"clearing", "launching"}
           /\ diagnosis.at \in HoldsListing /\ diagnosis'.base = diagnosis.base
  BY <1>1, <1>3 DEF TasksInv, DiagnosisTasks, HoldsListing, Timely
<1>4. CASE diagnosis'.at = "noted" /\ diagnosis'.base = Baseline
  BY <1>1, <1>4, BaselineTimely DEF TasksInv, DiagnosisTasks, Timely
<1>5. CASE /\ diagnosis'.at = "clearing" /\ diagnosis.at = "next" /\ diagnosis'.base = diagnosis.base
           /\ scan' = [scan EXCEPT !["diagnose"] = Listing]
  <2>1. \A t \in Tid : task'[t] # NoTask => Handled("diagnose", t)'
    BY <1>5, WalkBegins, CallersAssumption DEF TasksInv
  <2>2. Timely(diagnosis.base)
    BY <1>5 DEF TasksInv, DiagnosisTasks
  <2> QED BY <1>1, <1>5, <2>1, <2>2 DEF DiagnosisTasks, Clearing, Matches, Timely
<1>6. CASE /\ diagnosis'.at = "launching" /\ diagnosis.at = "next" /\ diagnosis'.base = diagnosis.base
           /\ ~diagnosis'.clears
  BY <1>1, <1>6 DEF TasksInv, DiagnosisTasks, Timely
<1>7. CASE /\ diagnosis'.at = "launching" /\ diagnosis.at = "clearing" /\ diagnosis'.base = diagnosis.base
           /\ ApplyDone("diagnose")
  <2>1. \A t \in Tid : Handled("diagnose", t) => Effective(t)' \cap MeasureCPU = {}
    BY <1>7, WalkEnds, CallersAssumption DEF TasksInv
  <2>2. Timely(diagnosis.base) /\ Clearing("diagnose", diagnosis.base)
    BY <1>7 DEF TasksInv, DiagnosisTasks
  <2>3. OffTheCores(diagnosis.base)'
    BY <1>7, <2>1, <2>2 DEF Clearing, OffTheCores, Matches, Timely, machine
  <2> QED BY <1>1, <1>7, <2>2, <2>3 DEF DiagnosisTasks, Timely
<1> QED BY <1>2, <1>3, <1>4, <1>5, <1>6, <1>7

\* Every step of bench_diagnose.py.
LEMMA DiagnosisStepsHold ==
  ASSUME TasksInv, DiagnosisTyped, Diagnosing!StudyStep \/ Diagnosing!Prepare
  PROVE  Tasks' /\ DiagnosisTasks'
<1> USE DEF DiagnosisTyped, DiagnosisRecord, Diagnosing!InStudy, Diagnosing!GoTo, HoldsListing,
        machine, modeVars, Diagnosing!machine, Diagnosing!modeVars
<1>1. CASE Diagnosing!Prepare
  <2>1. scan' = scan /\ UNCHANGED machine /\ diagnosis'.at \in {"session", "ended"}
    BY <1>1 DEF Diagnosing!Prepare, Diagnosing!Gone
  <2> QED BY <2>1, DiagnosisHolds
<1>2. CASE Diagnosing!BeginSession
  <2>1. /\ scan' = scan /\ UNCHANGED machine
        /\ \/ diagnosis'.at = "tables"
           \/ diagnosis'.at = "noted" /\ diagnosis'.base = Baseline
    BY <1>2, DiagnosisOperators DEF Diagnosing!BeginSession, Diagnosing!Archiving
  <2> QED BY <2>1, DiagnosisHolds
<1>3. CASE Diagnosing!RunSetup \/ Diagnosing!SetupEnds
  <2>1. /\ scan' = scan /\ UNCHANGED machine /\ diagnosis.at \in {"noted", "setup"}
        /\ diagnosis'.at \in {"setup", "cores", "after"} /\ diagnosis'.base = diagnosis.base
    BY <1>3 DEF Diagnosing!RunSetup, Diagnosing!SetupEnds, Diagnosing!Raising
  <2> QED BY <2>1, DiagnosisHolds
<1>4. CASE Diagnosing!Confine
  <2>1. /\ scan' = scan /\ UNCHANGED machine /\ diagnosis.at \in {"cores", "warmup"}
        /\ diagnosis'.at \in {"warmup", "next", "after"} /\ diagnosis'.base = diagnosis.base
    BY <1>4 DEF Diagnosing!Confine, Diagnosing!Raising
  <2> QED BY <2>1, DiagnosisHolds
<1>5. CASE Diagnosing!NextLaunch
  <2>1. UNCHANGED machine /\ diagnosis.at = "next" /\ diagnosis'.base = diagnosis.base
    BY <1>5 DEF Diagnosing!NextLaunch
  <2>2. \/ diagnosis'.at = "clearing" /\ scan' = [scan EXCEPT !["diagnose"] = Listing]
        \/ diagnosis'.at = "launching" /\ ~diagnosis'.clears /\ scan' = scan
        \/ diagnosis'.at \in {"next", "after"} /\ scan' = scan
    BY <1>5, DiagnosisOperators DEF Diagnosing!NextLaunch, Diagnosing!ApplyBegin
  <2> QED BY <2>1, <2>2, DiagnosisHolds
<1>6. CASE Diagnosing!TasksCleared
  <2>1. /\ UNCHANGED machine /\ diagnosis.at = "clearing" /\ diagnosis'.at \in {"launching", "after"}
        /\ diagnosis'.base = diagnosis.base /\ ApplyDone("diagnose")
        /\ scan' = [scan EXCEPT !["diagnose"] = NoScan]
    BY <1>6, DiagnosisOperators DEF Diagnosing!TasksCleared, Diagnosing!Raising
  <2> QED BY <2>1, DiagnosisHolds
<1>7. CASE Diagnosing!LaunchEnds \/ Diagnosing!LaunchCounted
  <2> DEFINE Held == /\ UNCHANGED machine /\ diagnosis.at \in {"launching", "counting"}
                     /\ diagnosis'.base = diagnosis.base
                     /\ diagnosis'.at \in {"counting", "next", "after"} /\ scan' = scan
  <2>1. Diagnosing!LaunchEnds => Held
    BY DEF Diagnosing!LaunchEnds, Diagnosing!Raising
  <2>2. ASSUME Diagnosing!LaunchCounted PROVE Held
    <3>1. UNCHANGED machine /\ scan' = scan /\ diagnosis.at = "counting"
      BY <2>2 DEF Diagnosing!LaunchCounted
    <3>2. \E rows : diagnosis' \in {[diagnosis EXCEPT !.at = "next", !.position = @ + 1, !.rows = rows],
                                   [Diagnosing!Raising EXCEPT !.rows = rows]}
      BY <2>2 DEF Diagnosing!LaunchCounted
    <3> QED BY <3>1, <3>2 DEF Diagnosing!Raising
  <2>3. Held
    BY ONLY <1>7, <2>1, <2>2
  <2> QED BY <2>3, DiagnosisHolds
<1>8. CASE Diagnosing!After \/ Diagnosing!Left \/ Diagnosing!Archive
  <2> DEFINE Past == UNCHANGED machine /\ scan' = scan /\ diagnosis'.at \notin HoldsListing
  <2>1. Diagnosing!After => Past
    BY DEF Diagnosing!After
  <2>2. Diagnosing!Left => Past
    BY DEF Diagnosing!Left, Diagnosing!Archiving
  <2>3. Diagnosing!Archive => Past
    BY DEF Diagnosing!Archive, Diagnosing!Gone
  <2>4. Past
    BY ONLY <1>8, <2>1, <2>2, <2>3
  <2> QED BY <2>4, DiagnosisHolds
<1>9. CASE Diagnosing!Leave \/ Diagnosing!RestoreEnds
  <2> DEFINE Past == /\ UNCHANGED machine /\ diagnosis'.at \notin HoldsListing
                     /\ scan' \in {scan, [scan EXCEPT !["diagnose"] = Listing]}
  <2>1. Diagnosing!Leave => Past
    BY DiagnosisOperators DEF Diagnosing!Leave, Diagnosing!ApplyBegin
  <2>2. Diagnosing!RestoreEnds => Past
    BY DiagnosisOperators DEF Diagnosing!RestoreEnds, Diagnosing!ApplyBegin
  <2>3. Past
    BY ONLY <1>9, <2>1, <2>2
  <2> QED BY <2>3, DiagnosisHolds
<1>10. CASE Diagnosing!PassEnds
  <2>1. UNCHANGED machine /\ diagnosis'.at \in {"second", "left"}
    BY <1>10 DEF Diagnosing!PassEnds
  <2>2. scan' \in {[scan EXCEPT !["diagnose"] = NoScan], [scan EXCEPT !["diagnose"] = Listing]}
    BY <1>10, DiagnosisOperators DEF Diagnosing!PassEnds, Diagnosing!ApplyBegin
  <2> QED BY <2>1, <2>2, DiagnosisHolds
<1>11. CASE Diagnosing!Interrupt
  <2>1. UNCHANGED machine /\ diagnosis.at \in Diagnosing!Points
    BY <1>11 DEF Diagnosing!Interrupt
  <2>2. scan' = [scan EXCEPT !["diagnose"] = NoScan]
    BY <1>11, DiagnosisOperators DEF Diagnosing!Interrupt
  <2>3. \/ /\ diagnosis.at \in {"setup", "restore"}
           /\ diagnosis' = [diagnosis EXCEPT !.pending = TRUE]
        \/ diagnosis' = [diagnosis EXCEPT !.at = "left", !.errors = TRUE]
        \/ diagnosis' = [diagnosis EXCEPT !.at = "leave", !.raising = TRUE]
        \/ diagnosis' \in {Diagnosing!Gone, Diagnosing!Raising, Diagnosing!Archiving}
    BY <1>11 DEF Diagnosing!Interrupt
  <2>4. \/ diagnosis'.at \notin HoldsListing
        \/ diagnosis'.at = "setup" /\ diagnosis.at \in HoldsListing /\ diagnosis'.base = diagnosis.base
    BY <2>3 DEF Diagnosing!Gone, Diagnosing!Raising, Diagnosing!Archiving
  <2> QED BY <2>1, <2>2, <2>4, DiagnosisHolds
<1>12. CASE Diagnosing!Kill
  <2>1. UNCHANGED machine /\ scan' = [scan EXCEPT !["diagnose"] = NoScan] /\ diagnosis'.at = "ended"
    BY <1>12, DiagnosisOperators DEF Diagnosing!Kill, Diagnosing!Gone
  <2> QED BY <2>1, DiagnosisHolds
<1> QED BY <1>1, <1>2, <1>3, <1>4, <1>5, <1>6, <1>7, <1>8, <1>9, <1>10, <1>11, <1>12,
           DiagnosisMoves DEF Diagnosing!StudyStep, Diagnosing!Normal

------------------------------------------------------------------------------
(* The whole system. *)

\* Recovery by hand moves tasks the same way.
LEMMA HandWalks ==
  ASSUME Tasks, AffinityByHand
  PROVE  Tasks'
<1>1. PICK who \in DOMAIN LeftBy :
        \/ ApplyBegin("hand") /\ UNCHANGED machine
        \/ ApplyStep("hand", LeftBy[who], {})
        \/ scan' = [scan EXCEPT !["hand"] = NoScan] /\ UNCHANGED machine
  BY DEF AffinityByHand
<1> QED BY <1>1, StillTasks, WalkStep, CallersAssumption DEF ApplyBegin

\* Taking CPUs offline gives the tasks that had only those all of them.
LEMMA OfflineKeeps ==
  ASSUME Tasks, NEW cpus, Offline(cpus)
  PROVE  /\ task' \in [Tid -> Task \cup {NoTask}]
         /\ \A t \in Tid : SameTask(t)
<1>1. ASSUME NEW t \in Tid
      PROVE  task'[t] \in Task \cup {NoTask} /\ SameTask(t)
  <2>1. CASE task[t] # NoTask /\ task[t].mask \subseteq CPU \ online'
    <3>1. task'[t] = [task[t] EXCEPT !.mask = CPU] /\ task[t] \in Task
      BY <2>1 DEF Offline, Tasks, MachineTypeOK
    <3>2. task'[t] \in Task
      BY <3>1 DEF Task
    <3> QED BY <2>1, <3>1, <3>2, TasksAssumption DEF SameTask, Task
  <2>2. CASE ~(task[t] # NoTask /\ task[t].mask \subseteq CPU \ online')
    <3>1. task'[t] = task[t]
      BY <2>2 DEF Offline
    <3> QED BY <3>1 DEF SameTask, Tasks, MachineTypeOK
  <2> QED BY <2>1, <2>2
<1>2. task' = [t \in Tid |-> task'[t]]
  BY DEF Offline
<1> QED BY <1>1, <1>2

\* bench_env.sh moves tasks only by taking CPUs offline.
LEMMA ScriptsKeepTasks ==
  ASSUME Tasks, ModeInv', NEW c \in Callers, ScriptStep(c), scan' = scan
  PROVE  Tasks' /\ births' = births
<1>1. births' = births /\ (task' = task \/ SetupOffline(c))
  BY DEF ScriptStep, Setup, SetupBegin, SetupOpen, SetupSave, SetupSaveIrqs, SetupTune,
     SetupOffline,
     SetupParanoid, SetupSteer, SetupAppend, SetupVerify, Restore, RestoreBegin, RestoreOnline,
     RestoreIrqs, RestoreLimits, RestoreParanoid, RestoreRemove, Abort, machine
<1>2. task' \in [Tid -> Task \cup {NoTask}] /\ \A t \in Tid : SameTask(t)
  <2>1. CASE task' = task
    BY <2>1 DEF SameTask, Tasks, MachineTypeOK
  <2>2. CASE SetupOffline(c)
    BY <2>2, OfflineKeeps DEF SetupOffline
  <2> QED BY <1>1, <2>1, <2>2
<1>3. Living'
  BY <1>1, <1>2, LivingStays
<1>4. online' \subseteq CPU /\ knob' \in KnobValues
  BY DEF ModeInv
<1> QED BY <1>1, <1>2, <1>3, <1>4 DEF Tasks, MachineTypeOK, AffinityTypeOK

\* What is done by hand, and how many studies have begun.
Counts == hand \in {"idle", "restoring", "record", "diagnose"} /\ started \in 0 .. MaxStudies

\* What is true of the whole system, beside what TraceInv adds.
StudiesInv == IInv /\ TasksInv /\ RecorderInv /\ DiagnosisInv /\ Counts

\* A study that does not run claims nothing of the tasks.
LEMMA IdleTasks ==
  /\ ~Runs(recorder) => RecorderTasks
  /\ ~Runs(diagnosis) => DiagnosisTasks
BY DEF Runs, RecorderTasks, DiagnosisTasks

\* A step of bench_record.py,
LEMMA RecorderKeepsAll ==
  ASSUME StudiesInv, RecorderStep
  PROVE  StudiesInv'
<1>1. IInv'
  BY RecorderKeeps DEF StudiesInv, IInv
<1>2. RecorderInv'
  BY RecorderInvariant, BaselineTimely DEF StudiesInv, TasksInv
<1>3. DiagnosisInv'
  BY DiagnosisStays DEF StudiesInv, RecorderStep
<1>4. Tasks' /\ RecorderTasks'
  BY RecorderStepsHold DEF RecorderStep, Starts, StudiesInv, RecorderInv
<1>5. ~Runs(diagnosis)'
  BY DEF RecorderStep, Starts, Quiet, StudiesInv, IInv, Alone, Runs
<1>6. DiagnosisTasks'
  <2>1. (~Runs(diagnosis) => DiagnosisTasks)'
    BY IdleTasks, PTL
  <2> QED BY <1>5, <2>1
<1>7. Counts'
  BY CallersAssumption DEF StudiesInv, Counts, RecorderStep, Starts
<1> QED BY <1>1, <1>2, <1>3, <1>4, <1>6, <1>7 DEF StudiesInv, TasksInv

\* of bench_diagnose.py,
LEMMA DiagnosisKeepsAll ==
  ASSUME StudiesInv, DiagnosisStep
  PROVE  StudiesInv'
<1>1. IInv'
  BY DiagnosisKeeps DEF StudiesInv, IInv
<1>2. DiagnosisInv'
  BY DiagnosisInvariant, BaselineTimely DEF StudiesInv, TasksInv
<1>3. RecorderInv'
  BY RecorderStays DEF StudiesInv, DiagnosisStep
<1>4. Tasks' /\ DiagnosisTasks'
  BY DiagnosisStepsHold DEF DiagnosisStep, Starts, StudiesInv, DiagnosisInv
<1>5. ~Runs(recorder)'
  BY DEF DiagnosisStep, Starts, Quiet, StudiesInv, IInv, Alone, Runs
<1>6. RecorderTasks'
  <2>1. (~Runs(recorder) => RecorderTasks)'
    BY IdleTasks, PTL
  <2> QED BY <1>5, <2>1
<1>7. Counts'
  BY CallersAssumption DEF StudiesInv, Counts, DiagnosisStep, Starts
<1> QED BY <1>1, <1>2, <1>3, <1>4, <1>6, <1>7 DEF StudiesInv, TasksInv

\* of bench_env.sh,
LEMMA ScriptKeepsAll ==
  ASSUME StudiesInv, ScriptMoves
  PROVE  StudiesInv'
<1>1. PICK c \in Callers : ScriptStep(c)
  BY DEF ScriptMoves
<1>2. UNCHANGED <<scan, recorder, recorderDir, diagnosis, diagnosisDir, hand, started>>
  BY DEF ScriptMoves
<1>3. IInv'
  BY ScriptKeeps DEF StudiesInv, IInv
<1>4. RecorderInv' /\ DiagnosisInv'
  BY <1>2, RecorderStays, DiagnosisStays DEF StudiesInv
<1>5. Tasks' /\ births' = births
  BY <1>1, <1>2, <1>3, ScriptsKeepTasks DEF StudiesInv, TasksInv, IInv
<1>6. script[c].at \in Running
  BY <1>1, ScriptMovesOn DEF StudiesInv, IInv
<1>7. recorder.at \notin {"clearing", "launching"} /\ diagnosis.at \notin {"clearing", "launching"}
  BY <1>6, CallersAssumption DEF StudiesInv, IInv, Alone, Runs, RecorderInMode,
     DiagnosisInMode, InMode,
     RecordingPoints, DiagnosisPoints
<1>8. RecorderTasks' /\ DiagnosisTasks'
  BY <1>2, <1>5, <1>7 DEF StudiesInv, TasksInv, RecorderTasks, DiagnosisTasks, Timely
<1> QED BY <1>2, <1>3, <1>4, <1>5, <1>8 DEF StudiesInv, TasksInv, Counts

\* of a task,
LEMMA TasksKeepAll ==
  ASSUME StudiesInv, TasksComeAndGo
  PROVE  StudiesInv'
<1>1. UNCHANGED <<scan, recorder, recorderDir, diagnosis, diagnosisDir, hand, started>> /\ (Fork \/ Exit)
  BY DEF TasksComeAndGo
<1>2. IInv'
  BY TasksKeep DEF StudiesInv, IInv
<1>3. RecorderInv' /\ DiagnosisInv'
  BY <1>1, RecorderStays, DiagnosisStays DEF StudiesInv
<1>4. /\ Tasks' /\ UNCHANGED <<online, knob>> /\ births' \in Nat /\ births \in Nat /\ births' >= births
      /\ \A t \in Tid : task'[t] = NoTask \/ task'[t] = task[t] \/ task'[t].start > births
  BY <1>1, ComeAndGo DEF StudiesInv, TasksInv
<1>5. ASSUME NEW t \in Tid, task'[t] # NoTask, task'[t].start \in 0 .. births
      PROVE  task'[t] = task[t] /\ Effective(t)' = Effective(t)
  BY <1>4, <1>5 DEF Effective
<1>6. RecorderTasks'
  <2>1. Timely(recorder.base) => Timely(recorder.base)'
    BY <1>1, <1>4 DEF Timely
  <2>2. Timely(recorder.base) /\ Clearing("record", recorder.base) => Clearing("record", recorder.base)'
    BY <1>1, <1>5 DEF Timely, Clearing, Matches, Handled
  <2>3. Timely(recorder.base) /\ OffTheCores(recorder.base) => OffTheCores(recorder.base)'
    BY <1>1, <1>5 DEF Timely, OffTheCores, Matches
  <2>4. Recording!Cleared' = Recording!Cleared
    BY <1>1 DEF Recording!Cleared
  <2> QED BY <1>1, <2>1, <2>2, <2>3, <2>4 DEF StudiesInv, TasksInv, RecorderTasks
<1>7. DiagnosisTasks'
  <2>1. Timely(diagnosis.base) => Timely(diagnosis.base)'
    BY <1>1, <1>4 DEF Timely
  <2>2. Timely(diagnosis.base) /\ Clearing("diagnose", diagnosis.base) => Clearing("diagnose", diagnosis.base)'
    BY <1>1, <1>5 DEF Timely, Clearing, Matches, Handled
  <2>3. Timely(diagnosis.base) /\ OffTheCores(diagnosis.base) => OffTheCores(diagnosis.base)'
    BY <1>1, <1>5 DEF Timely, OffTheCores, Matches
  <2> QED BY <1>1, <2>1, <2>2, <2>3 DEF StudiesInv, TasksInv, DiagnosisTasks
<1> QED BY <1>1, <1>2, <1>3, <1>4, <1>6, <1>7 DEF StudiesInv, TasksInv, Counts

\* and of somebody at the machine.
LEMMA HandKeepsAll ==
  ASSUME StudiesInv, HandStep
  PROVE  StudiesInv'
<1>1. UNCHANGED <<recorder, recorderDir, diagnosis, diagnosisDir, started>>
  BY DEF HandStep
<1>2. IInv'
  BY HandKeeps DEF StudiesInv, IInv
<1>3. RecorderInv' /\ DiagnosisInv'
  BY <1>1, RecorderStays, DiagnosisStays DEF StudiesInv
<1>4. ~Runs(recorder) /\ ~Runs(diagnosis)
  BY DEF HandStep, RestoreByHand, AffinityByHand, LeftBy, Quiet, StudiesInv, IInv, Alone
<1>5. RecorderTasks' /\ DiagnosisTasks'
  BY <1>1, <1>4 DEF Runs, RecorderTasks, DiagnosisTasks
<1>6. Tasks'
  <2>1. CASE AffinityByHand
    BY <2>1, HandWalks DEF StudiesInv, TasksInv
  <2>2. CASE RestoreByHand
    BY <2>2, StillTasks, CallersAssumption DEF RestoreByHand, StudiesInv, TasksInv
  <2> QED BY <2>1, <2>2 DEF HandStep
<1>7. Counts'
  BY <1>1 DEF HandStep, RestoreByHand, AffinityByHand, LeftBy, StudiesInv, Counts
<1> QED BY <1>2, <1>3, <1>5, <1>6, <1>7 DEF StudiesInv, TasksInv

\* Whoever moves, all of it stays true.
LEMMA StudiesStep == StudiesInv /\ [Next]_vars => StudiesInv'
<1> SUFFICES ASSUME StudiesInv, [Next]_vars PROVE StudiesInv'
  OBVIOUS
<1>1. CASE Next
  BY <1>1, RecorderKeepsAll, DiagnosisKeepsAll, ScriptKeepsAll, TasksKeepAll, HandKeepsAll
     DEF Next
<1>2. CASE UNCHANGED vars
  <2>1. UNCHANGED <<online, knob, task, births, scan, recorder, recorderDir, diagnosis, diagnosisDir, hand, started>>
    BY <1>2 DEF vars, machine
  <2>2. IInv'
    BY <1>2, StepInvariant DEF StudiesInv
  <2>3. RecorderInv' /\ DiagnosisInv'
    BY <2>1, RecorderStays, DiagnosisStays DEF StudiesInv
  <2>4. Tasks' /\ Counts'
    BY <2>1 DEF StudiesInv, TasksInv, Tasks, MachineTypeOK, AffinityTypeOK, Living, Counts
  <2>5. RecorderTasks' /\ DiagnosisTasks'
    BY <2>1 DEF StudiesInv, TasksInv, RecorderTasks, DiagnosisTasks, Timely, Clearing,
       OffTheCores, Matches,
       Handled, Effective, Recording!Cleared
  <2> QED BY <2>2, <2>3, <2>4, <2>5 DEF StudiesInv, TasksInv
<1> QED BY <1>1, <1>2

\* It is true of the machine before anything is run.
LEMMA StudiesBegin == Init => StudiesInv
<1> SUFFICES ASSUME Init PROVE StudiesInv
  OBVIOUS
<1>1. IInv /\ RecorderInv /\ DiagnosisInv
  BY InitInvariant, RecorderBegins, DiagnosisBegins DEF Init
<1>2. ~Runs(recorder) /\ ~Runs(diagnosis)
  BY DEF Init, Recording!StudyInit, Diagnosing!StudyInit, Runs
<1>3. Tasks
  <2>1. PICK second \in SecondTasks :
          task = [t \in Tid |->
                    CASE t = 1 -> [start |-> 0, leader |-> 1, mask |-> MeasureCPU, fixed |-> FALSE]
                      [] t = 2 -> second
                      [] OTHER -> NoTask]
    BY DEF Init, MachineInit
  <2>2. 0 \in 0 .. MaxBirths
    BY TasksAssumption
  <2>3. /\ second \in Task /\ second.start = 0 /\ second.leader \in {1, 2}
        /\ second.leader = 2 \/ second.leader = 1
    <3>1. CASE second = [start |-> 0, leader |-> 1, mask |-> Siblings, fixed |-> FALSE]
      BY <2>2, <3>1, CPUsDivide, TasksAssumption DEF Task
    <3>2. CASE second = [start |-> 0, leader |-> 2, mask |-> CPU, fixed |-> TRUE]
      BY <2>2, <3>2, CPUsDivide, TasksAssumption DEF Task
    <3> QED BY <3>1, <3>2 DEF SecondTasks, SecondTask
  <2>4. [start |-> 0, leader |-> 1, mask |-> MeasureCPU, fixed |-> FALSE] \in Task
    BY <2>2, CPUsDivide, TasksAssumption DEF Task
  <2>5. /\ task \in [Tid -> Task \cup {NoTask}] /\ task[1].leader = 1 /\ task[1].start = 0
        /\ task[1] # NoTask /\ task[2] = second /\ task[2] # NoTask
        /\ \A t \in Tid : task[t] # NoTask => t \in {1, 2}
    <3> DEFINE first == [start |-> 0, leader |-> 1, mask |-> MeasureCPU, fixed |-> FALSE]
    <3>1. 1 \in Tid /\ 2 \in Tid /\ first # NoTask /\ second # NoTask /\ first.leader = 1 /\ first.start = 0
      BY <2>3, <2>4, TasksAssumption
    <3> HIDE DEF first
    <3>2. /\ task[1] = first /\ task[2] = second
          /\ \A t \in Tid \ {1, 2} : task[t] = NoTask
      BY <2>1, <3>1 DEF first
    <3>3. \A t \in Tid : task[t] \in Task \cup {NoTask}
      BY <2>3, <2>4, <3>2 DEF first
    <3>4. task = [t \in Tid |-> task[t]]
      BY <2>1
    <3> QED BY <3>1, <3>2, <3>3, <3>4
  <2>6. Living
    BY <2>3, <2>5, TasksAssumption DEF Living, Init, MachineInit
  <2>7. MachineTypeOK
    BY <1>1, <2>2, <2>5 DEF MachineTypeOK, Init, MachineInit, IInv, ModeInv
  <2>8. AffinityTypeOK
    BY NoScans DEF Init, AffinityInit, AffinityTypeOK
  <2> QED BY <2>6, <2>7, <2>8 DEF Tasks
<1>4. Counts
  BY CallersAssumption DEF Init, Counts
<1> QED BY <1>1, <1>2, <1>3, <1>4, IdleTasks DEF StudiesInv, TasksInv

\* It holds of every behaviour.
LEMMA StudiesInvariance == Spec => []StudiesInv
<1>1. Init => StudiesInv
  BY StudiesBegin
<1>2. StudiesInv /\ [Next]_vars => StudiesInv'
  BY StudiesStep
<1> QED BY <1>1, <1>2, PTL DEF Spec

\* The values of recovery files are baselines.
LEMMA BaselinesAre ==
  ASSUME NEW base \in Baselines
  PROVE  base # NoRecovery => IsBaseline(base)
BY DEF Baselines, IsBaseline

\* Every variable of the machine, of bench_env.sh and of both recorders keeps its
\* type, whatever number of studies, signals, kills and task changes there is.
THEOREM TypeCorrect == Spec => []TypeOK
<1>1. StudiesInv => TypeOK
  <2> SUFFICES ASSUME StudiesInv PROVE TypeOK
    OBVIOUS
  <2>1. MachineTypeOK /\ ModeTypeOK /\ AffinityTypeOK
    BY DEF StudiesInv, TasksInv, Tasks, IInv, ModeInv
  <2>2. Recording!StudyTypeOK
    <3>1. recorder.base # NoRecovery => Recording!IsBaseline(recorder.base)
      BY BaselinesAre DEF StudiesInv, RecorderInv, RecorderTyped, RecorderRecord,
         Recording!IsBaseline, IsBaseline,
         Recording!Entry, Entry
    <3>2. recorder.rows \subseteq Recording!Rows
      BY DEF StudiesInv, RecorderInv, RecorderTyped, RecorderRecord, Recording!Rows, Rows,
         Recording!Keys, Keys
    <3> QED BY <3>1, <3>2 DEF StudiesInv, RecorderInv, RecorderTyped, RecorderRecord,
         Recording!StudyTypeOK
  <2>3. Diagnosing!StudyTypeOK
    <3>1. diagnosis.base # NoRecovery => Diagnosing!IsBaseline(diagnosis.base)
      BY BaselinesAre DEF StudiesInv, DiagnosisInv, DiagnosisTyped, DiagnosisRecord,
         Diagnosing!IsBaseline, IsBaseline,
         Diagnosing!Entry, Entry
    <3>2. diagnosis.rows \subseteq Diagnosing!Rows
      BY DEF StudiesInv, DiagnosisInv, DiagnosisTyped, DiagnosisRecord, Diagnosing!Rows, Rows,
         Diagnosing!Keys, Keys
    <3> QED BY <3>1, <3>2 DEF StudiesInv, DiagnosisInv, DiagnosisTyped, DiagnosisRecord,
         Diagnosing!StudyTypeOK
  <2> QED BY <2>1, <2>2, <2>3 DEF TypeOK, StudiesInv, Counts
<1> QED BY <1>1, StudiesInvariance, PTL

\* While either recorder runs a binary in the cleared condition, no task of the
\* baseline that can be moved may run on the measurement cores: apply_affinity lists
\* tasks, looks them up and moves them one by one, and they are born and end, and
\* their numbers go to others, between any two of its steps.
THEOREM Cleared == Spec => []ClearedTasksAreOff
<1>1. StudiesInv => ClearedTasksAreOff
  BY DEF StudiesInv, TasksInv, RecorderTasks, DiagnosisTasks, ClearedTasksAreOff
<1> QED BY <1>1, StudiesInvariance, PTL

\* diagnose_report.py accepts a directory only when it holds every launch of the
\* design with every repetition and no recovery file, whatever either recorder had
\* done when it failed, got a signal or was killed.
THEOREM OnlyWhole == Spec => []ReportAcceptsOnlyWhole
<1>1. StudiesInv => ReportAcceptsOnlyWhole
  BY Reported DEF StudiesInv
<1> QED BY <1>1, StudiesInvariance, PTL

\* The log of a launch in the tables, and the command noted for it, are not lost
\* when write() or archive() of the recorders is cut short, packing, removing or before.
THEOREM FilesKept == Spec => []RawFilesKept
<1>1. StudiesInv => RawFilesKept
  BY LogsAreKept DEF StudiesInv
<1> QED BY <1>1, StudiesInvariance, PTL

------------------------------------------------------------------------------
(* What bench_diagnose.py leaves behind. *)

\* From setup to leave(), setup was attempted; and until leave() has given the tasks
\* their CPUs back, there is a baseline.
Attempting == {"setup", "cores", "warmup", "next", "clearing", "launching", "counting", "after", "leave"}

\* The points at which the study has a baseline, or still gives it back.
HasBaseline == Attempting \cup {"noted", "restore", "first", "second"}

\* What bench_diagnose.py knows of the state file while it leaves: that it is gone
\* when restore has succeeded, so that the recovery file may go.
TraceInv ==
  /\ recorder.at = "idle" => recorderDir.recovery = NoRecovery
  /\ Runs(diagnosis) /\ script["diagnose"].at \in Running => diagnosis.at \in {"setup", "restore"}
  /\ diagnosis.at \in HasBaseline => diagnosis.base # NoRecovery
  /\ diagnosis.at \in Attempting => diagnosis.attempted
  /\ diagnosis.at = "restore" =>
       /\ script["diagnose"].at \in RestoreSteps \cup {"done", "failed"}
       /\ script["diagnose"].at = "done" => stateFile = NoFile
  /\ diagnosis.at \in {"first", "second", "left"} /\ ~diagnosis.errors => stateFile = NoFile
  /\ recorder.at = "idle" /\ diagnosisDir.recovery = NoRecovery =>
       stateFile = NoFile /\ NoScriptRuns /\ hand = "idle"

\* A step of the study that neither calls a script nor touches the recovery file.
LEMMA TraceQuiet ==
  ASSUME StudiesInv, TraceInv, Runs(diagnosis) \/ NoScriptRuns,
         UNCHANGED <<stateFile, script, hand, recorder, recorderDir>>,
         diagnosisDir'.recovery = diagnosisDir.recovery,
         \/ diagnosis'.at = "ended"
         \/ /\ diagnosis.at \notin {"setup", "restore"}
            /\ diagnosis'.at \in {"session", "tables", "env", "pack", "purge"}
         \/ /\ diagnosis'.at = diagnosis.at /\ diagnosis'.base = diagnosis.base
            /\ diagnosis'.attempted = diagnosis.attempted /\ diagnosis'.errors = diagnosis.errors
         \/ /\ diagnosis.at \in Attempting \ {"setup"} /\ diagnosis'.at \in Attempting \ {"setup"}
            /\ diagnosis'.base = diagnosis.base /\ diagnosis'.attempted = diagnosis.attempted
         \/ /\ diagnosis.at \in {"first", "second"} /\ diagnosis'.at \in {"second", "left"}
            /\ diagnosis'.base = diagnosis.base /\ (diagnosis.errors => diagnosis'.errors)
  PROVE  TraceInv'
<1>1. NoScriptRuns' <=> NoScriptRuns
  BY DEF NoScriptRuns
<1>2. NoScriptRuns => script["diagnose"].at \notin Running
  BY CallersAssumption DEF NoScriptRuns
<1> USE <1>1, <1>2 DEF TraceInv, HasBaseline, Attempting, Runs
<1>3. CASE diagnosis'.at = "ended"
  BY <1>3
<1>4. CASE /\ diagnosis.at \notin {"setup", "restore"}
           /\ diagnosis'.at \in {"session", "tables", "env", "pack", "purge"}
  BY <1>4
<1>5. CASE /\ diagnosis'.at = diagnosis.at /\ diagnosis'.base = diagnosis.base
           /\ diagnosis'.attempted = diagnosis.attempted /\ diagnosis'.errors = diagnosis.errors
  BY <1>5
<1>6. CASE /\ diagnosis.at \in Attempting \ {"setup"} /\ diagnosis'.at \in Attempting \ {"setup"}
           /\ diagnosis'.base = diagnosis.base /\ diagnosis'.attempted = diagnosis.attempted
  BY <1>6
<1>7. CASE /\ diagnosis.at \in {"first", "second"} /\ diagnosis'.at \in {"second", "left"}
           /\ diagnosis'.base = diagnosis.base /\ (diagnosis.errors => diagnosis'.errors)
  BY <1>7
<1> QED BY <1>3, <1>4, <1>5, <1>6, <1>7

\* The steps of the study that are such.
LEMMA DiagnosisTracesQuietly ==
  ASSUME StudiesInv, TraceInv, Runs(diagnosis) \/ NoScriptRuns,
         UNCHANGED <<hand, recorder, recorderDir>>,
         \/ Diagnosing!Prepare \/ Diagnosing!Confine \/ Diagnosing!NextLaunch \/ Diagnosing!Moving
         \/ Diagnosing!TasksCleared \/ Diagnosing!LaunchEnds \/ Diagnosing!LaunchCounted
         \/ Diagnosing!After \/ Diagnosing!Left \/ Diagnosing!Archive \/ Diagnosing!Interrupt
         \/ Diagnosing!Kill
  PROVE  TraceInv'
<1> USE DEF StudiesInv, DiagnosisInv, DiagnosisTyped, DiagnosisRecord, Directory, Diagnosing!InStudy,
        Diagnosing!GoTo, machine, modeVars, Diagnosing!machine, Diagnosing!modeVars
<1>1. CASE Diagnosing!Prepare
  <2>1. /\ UNCHANGED <<stateFile, script>> /\ diagnosisDir'.recovery = diagnosisDir.recovery
        /\ diagnosis.at = "idle" /\ diagnosis'.at \in {"session", "ended"}
    BY <1>1 DEF Diagnosing!Prepare, Diagnosing!Gone
  <2> QED BY <2>1, TraceQuiet
<1>2. CASE Diagnosing!Confine
  <2>1. UNCHANGED <<stateFile, script>> /\ diagnosisDir'.recovery = diagnosisDir.recovery
    BY <1>2 DEF Diagnosing!Confine
  <2>2. \/ diagnosis.at = "cores" /\ diagnosis' = [diagnosis EXCEPT !.at = "warmup", !.before = TRUE]
        \/ diagnosis.at = "warmup" /\ diagnosis' = [diagnosis EXCEPT !.at = "next", !.round = 1, !.position = 0]
        \/ diagnosis.at \in {"cores", "warmup"} /\ diagnosis' = Diagnosing!Raising
    BY <1>2 DEF Diagnosing!Confine
  <2>3. /\ diagnosis.at \in {"cores", "warmup"} /\ diagnosis'.at \in {"warmup", "next", "after"}
        /\ diagnosis'.base = diagnosis.base /\ diagnosis'.attempted = diagnosis.attempted
    <3>1. diagnosis \in DiagnosisRecord
      OBVIOUS
    <3> QED BY ONLY <2>2, <3>1 DEF DiagnosisRecord, Diagnosing!Raising
  <2> QED BY <2>1, <2>3, TraceQuiet DEF Attempting
<1>3. CASE Diagnosing!NextLaunch
  <2>1. /\ UNCHANGED <<stateFile, script>> /\ diagnosis.at = "next"
        /\ diagnosis'.at \in {"next", "after", "clearing", "launching"}
        /\ diagnosis'.base = diagnosis.base /\ diagnosis'.attempted = diagnosis.attempted
    BY <1>3 DEF Diagnosing!NextLaunch
  <2>2. diagnosisDir'.recovery = diagnosisDir.recovery
    BY <1>3 DEF Diagnosing!NextLaunch, Diagnosing!Launching
  <2> QED BY <2>1, <2>2, TraceQuiet DEF Attempting
<1>4. CASE Diagnosing!Moving
  <2>1. UNCHANGED <<stateFile, script>> /\ diagnosisDir' = diagnosisDir /\ diagnosis' = diagnosis
    BY <1>4 DEF Diagnosing!Moving, Diagnosing!session
  <2> QED BY <2>1, TraceQuiet
<1>5. CASE Diagnosing!TasksCleared
  <2>1. /\ UNCHANGED <<stateFile, script>> /\ diagnosis.at = "clearing"
        /\ diagnosis'.at \in {"launching", "after"} /\ diagnosisDir'.recovery = diagnosisDir.recovery
        /\ diagnosis'.base = diagnosis.base /\ diagnosis'.attempted = diagnosis.attempted
    BY <1>5 DEF Diagnosing!TasksCleared, Diagnosing!Launching, Diagnosing!Raising
  <2> QED BY <2>1, TraceQuiet DEF Attempting
<1>6. CASE Diagnosing!LaunchEnds
  <2>1. /\ UNCHANGED <<stateFile, script>> /\ diagnosis.at = "launching"
        /\ diagnosis'.at \in {"counting", "after"} /\ diagnosisDir'.recovery = diagnosisDir.recovery
        /\ diagnosis'.base = diagnosis.base /\ diagnosis'.attempted = diagnosis.attempted
    BY <1>6 DEF Diagnosing!LaunchEnds, Diagnosing!Tables, Diagnosing!Raising
  <2> QED BY <2>1, TraceQuiet DEF Attempting
<1>7. CASE Diagnosing!LaunchCounted
  <2>1. /\ UNCHANGED <<stateFile, script>> /\ diagnosis.at = "counting"
        /\ diagnosis'.at \in {"next", "after"}
        /\ diagnosis'.base = diagnosis.base /\ diagnosis'.attempted = diagnosis.attempted
    <3>1. UNCHANGED <<stateFile, script>> /\ diagnosis.at = "counting"
      BY <1>7 DEF Diagnosing!LaunchCounted
    <3>2. \E rows : diagnosis' \in {[diagnosis EXCEPT !.at = "next", !.position = @ + 1, !.rows = rows],
                                   [Diagnosing!Raising EXCEPT !.rows = rows]}
      BY <1>7 DEF Diagnosing!LaunchCounted
    <3> QED BY <3>1, <3>2 DEF Diagnosing!Raising
  <2>2. diagnosisDir'.recovery = diagnosisDir.recovery
    BY <1>7 DEF Diagnosing!LaunchCounted, Diagnosing!Tables
  <2> QED BY <2>1, <2>2, TraceQuiet DEF Attempting
<1>8. CASE Diagnosing!After
  <2>1. /\ UNCHANGED <<stateFile, script, diagnosisDir>> /\ diagnosis.at = "after"
        /\ diagnosis'.at = "leave"
        /\ diagnosis'.base = diagnosis.base /\ diagnosis'.attempted = diagnosis.attempted
    BY <1>8 DEF Diagnosing!After
  <2> QED BY <2>1, TraceQuiet DEF Attempting
<1>9. CASE Diagnosing!Left
  <2>1. /\ UNCHANGED <<stateFile, script, diagnosisDir>> /\ diagnosis.at = "left"
        /\ diagnosis'.at \in {"session", "tables"}
    BY <1>9 DEF Diagnosing!Left, Diagnosing!Archiving
  <2> QED BY <2>1, TraceQuiet
<1>10. CASE Diagnosing!Archive
  <2>1. /\ UNCHANGED <<stateFile, script>> /\ diagnosis.at \in {"tables", "env", "pack", "purge"}
        /\ diagnosis'.at \in {"env", "pack", "purge", "ended"}
        /\ diagnosisDir'.recovery = diagnosisDir.recovery
    BY <1>10 DEF Diagnosing!Archive, Diagnosing!Tables, Diagnosing!Removed, Diagnosing!Gone
  <2> QED BY <2>1, TraceQuiet
<1>11. CASE Diagnosing!Interrupt
  <2>1. /\ UNCHANGED <<stateFile, script>> /\ diagnosisDir'.recovery = diagnosisDir.recovery
        /\ diagnosis.at \in Diagnosing!Points
    BY <1>11 DEF Diagnosing!Interrupt
  <2>2. \/ /\ diagnosis.at \in {"setup", "restore"}
           /\ diagnosis' = [diagnosis EXCEPT !.pending = TRUE]
        \/ /\ diagnosis.at \in {"first", "second"}
           /\ diagnosis' = [diagnosis EXCEPT !.at = "left", !.errors = TRUE]
        \/ /\ diagnosis.at \in {"session", "noted", "left", "leave"}
           /\ diagnosis' = Diagnosing!Archiving
        \/ /\ diagnosis.at = "after"
           /\ diagnosis' = [diagnosis EXCEPT !.at = "leave", !.raising = TRUE]
        \/ diagnosis' = Diagnosing!Gone
        \/ /\ diagnosis.at \in {"cores", "warmup", "next", "clearing", "launching", "counting"}
           /\ diagnosis' = Diagnosing!Raising
    BY <1>11, <2>1 DEF Diagnosing!Interrupt, Diagnosing!Points
  <2>3. CASE /\ diagnosis.at \in {"setup", "restore"}
             /\ diagnosis' = [diagnosis EXCEPT !.pending = TRUE]
    BY <2>1, <2>3, TraceQuiet
  <2>4. CASE /\ diagnosis.at \in {"first", "second"}
             /\ diagnosis' = [diagnosis EXCEPT !.at = "left", !.errors = TRUE]
    BY <2>1, <2>4, TraceQuiet
  <2>5. CASE /\ diagnosis.at \in {"session", "noted", "left", "leave"}
             /\ diagnosis' = Diagnosing!Archiving
    BY <2>1, <2>5, TraceQuiet DEF Diagnosing!Archiving
  <2>6. CASE /\ diagnosis.at = "after"
             /\ diagnosis' = [diagnosis EXCEPT !.at = "leave", !.raising = TRUE]
    BY <2>1, <2>6, TraceQuiet DEF Attempting
  <2>7. CASE diagnosis' = Diagnosing!Gone
    BY <2>1, <2>7, TraceQuiet DEF Diagnosing!Gone
  <2>8. CASE /\ diagnosis.at \in {"cores", "warmup", "next", "clearing", "launching", "counting"}
             /\ diagnosis' = Diagnosing!Raising
    BY <2>1, <2>8, TraceQuiet DEF Diagnosing!Raising, Attempting
  <2> QED BY <2>2, <2>3, <2>4, <2>5, <2>6, <2>7, <2>8
<1>12. CASE Diagnosing!Kill
  <2>1. UNCHANGED <<stateFile, script, diagnosisDir>> /\ diagnosis'.at = "ended"
    BY <1>12 DEF Diagnosing!Kill, Diagnosing!Gone
  <2> QED BY <2>1, TraceQuiet
<1> QED BY <1>1, <1>2, <1>3, <1>4, <1>5, <1>6, <1>7, <1>8, <1>9, <1>10, <1>11, <1>12

\* A session begins: now there is a recovery file, or the study ends.
LEMMA TraceBegins ==
  ASSUME StudiesInv, TraceInv, Diagnosing!BeginSession, Runs(diagnosis),
         UNCHANGED <<hand, recorder, recorderDir>>
  PROVE  TraceInv'
<1>1. UNCHANGED <<stateFile, script>> /\ diagnosis.at = "session" /\ "at" \in DOMAIN diagnosis
  BY DEF Diagnosing!BeginSession, Diagnosing!InStudy, Diagnosing!modeVars, StudiesInv, IInv,
     DiagnosisInMode
<1>2. CASE diagnosis' = Diagnosing!Archiving /\ diagnosisDir' = diagnosisDir
  BY <1>1, <1>2, TraceQuiet DEF Diagnosing!Archiving
<1>3. CASE /\ diagnosis' = [diagnosis EXCEPT !.at = "noted", !.session = @ + 1, !.round = 0,
                                  !.before = FALSE, !.base = Diagnosing!Baseline]
           /\ diagnosisDir' = [diagnosisDir EXCEPT !.recovery = Diagnosing!Baseline]
  <2>1. /\ diagnosis'.at = "noted" /\ diagnosis'.base = Baseline /\ diagnosisDir'.recovery = Baseline
    BY <1>3, DiagnosisOperators DEF StudiesInv, DiagnosisInv, DiagnosisTyped, DiagnosisRecord,
       Directory
  <2>2. Baseline # NoRecovery
    BY BaselineTimely DEF StudiesInv, TasksInv
  <2> QED BY <1>1, <2>1, <2>2 DEF TraceInv, Runs, HasBaseline, Attempting
<1> QED BY <1>2, <1>3 DEF Diagnosing!BeginSession

\* setup or restore is started for the study.
LEMMA TraceStarts ==
  ASSUME StudiesInv, TraceInv, Diagnosing!RunSetup \/ Diagnosing!Leave,
         UNCHANGED <<hand, recorder, recorderDir>>
  PROVE  TraceInv'
<1> USE DEF StudiesInv, DiagnosisInv, DiagnosisTyped, DiagnosisRecord, Diagnosing!InStudy, Diagnosing!GoTo
<1>1. diagnosis.at \in HasBaseline /\ diagnosisDir'.recovery = diagnosisDir.recovery
      /\ stateFile' = stateFile
  BY DEF Diagnosing!RunSetup, Diagnosing!Leave, HasBaseline, Attempting
<1>2. diagnosisDir'.recovery # NoRecovery /\ diagnosis.base # NoRecovery
  BY <1>1 DEF DiagnosisFlags, TraceInv, HasBaseline, Attempting
<1>3. CASE Diagnosing!RunSetup
  <2>1. /\ diagnosis'.at = "setup" /\ diagnosis'.base = diagnosis.base /\ diagnosis'.attempted
    BY <1>3 DEF Diagnosing!RunSetup
  <2> QED BY <1>1, <1>2, <2>1 DEF TraceInv, HasBaseline, Attempting
<1>4. CASE Diagnosing!Leave
  <2>1. diagnosis.at = "leave" /\ diagnosis.attempted
    BY <1>4 DEF Diagnosing!Leave, TraceInv, Attempting
  <2>2. /\ diagnosis'.at = "restore" /\ diagnosis'.base = diagnosis.base
        /\ Diagnosing!Start("diagnose", "restore")
    BY <1>4, <2>1 DEF Diagnosing!Leave
  <2>3. script'["diagnose"].at = "restore"
    BY <2>2, CallersAssumption DEF Diagnosing!Start, Diagnosing!Goto, IInv, ModeInv,
       ModeTypeOK, Scripts
  <2>4. "restore" \in RestoreSteps /\ "restore" # "done"
    BY DEF RestoreSteps
  <2> QED BY <1>1, <1>2, <2>2, <2>3, <2>4 DEF TraceInv, HasBaseline, Attempting
<1> QED BY <1>3, <1>4

\* The study takes the exit status of a script that has ended.
LEMMA TraceCollects ==
  ASSUME StudiesInv, TraceInv, Diagnosing!SetupEnds \/ Diagnosing!RestoreEnds,
         UNCHANGED <<hand, recorder, recorderDir>>
  PROVE  TraceInv'
<1> USE DEF StudiesInv, DiagnosisInv, DiagnosisTyped, DiagnosisRecord, Diagnosing!InStudy, Diagnosing!GoTo
<1>1. diagnosis.at \in {"setup", "restore"} /\ diagnosisDir' = diagnosisDir /\ stateFile' = stateFile
      /\ Diagnosing!Collect("diagnose")
  BY DEF Diagnosing!SetupEnds, Diagnosing!RestoreEnds
<1>2. diagnosisDir'.recovery # NoRecovery /\ diagnosis.base # NoRecovery
  BY <1>1 DEF DiagnosisFlags, TraceInv, HasBaseline, Attempting
<1>3. script'["diagnose"].at = "idle"
  BY <1>1, CallersAssumption DEF Diagnosing!Collect, Diagnosing!Finish, IInv, ModeInv,
     ModeTypeOK
<1>4. "idle" \notin Running
  BY DEF Running, SetupSteps, RestoreSteps
<1>5. CASE Diagnosing!SetupEnds
  <2>1. /\ diagnosis'.at \in {"cores", "after"} /\ diagnosis'.base = diagnosis.base
        /\ diagnosis'.attempted = diagnosis.attempted /\ diagnosis.at = "setup"
    BY <1>5 DEF Diagnosing!SetupEnds, Diagnosing!Raising
  <2> QED BY <1>2, <1>3, <1>4, <2>1, <1>1 DEF TraceInv, HasBaseline, Attempting
<1>6. CASE Diagnosing!RestoreEnds
  <2>1. /\ diagnosis'.at = "first" /\ diagnosis'.base = diagnosis.base /\ diagnosis.at = "restore"
        /\ \/ script["diagnose"].at = "done"
           \/ diagnosis'.errors
    BY <1>6 DEF Diagnosing!RestoreEnds, Diagnosing!At
  <2> QED BY <1>1, <1>2, <1>3, <1>4, <2>1 DEF TraceInv, HasBaseline, Attempting
<1> QED BY <1>5, <1>6

\* The recovery file goes when restore has ended well and the tasks are back.
LEMMA TracePassEnds ==
  ASSUME StudiesInv, TraceInv, Diagnosing!PassEnds, Runs(diagnosis),
         UNCHANGED <<hand, recorder, recorderDir>>
  PROVE  TraceInv'
<1> USE DEF StudiesInv, DiagnosisInv, DiagnosisTyped, DiagnosisRecord, Directory, Diagnosing!InStudy, Diagnosing!GoTo
<1>1. UNCHANGED <<stateFile, script>> /\ diagnosis.at \in {"first", "second"}
  BY DEF Diagnosing!PassEnds, Diagnosing!modeVars
<1>2. CASE /\ diagnosis'.at \in {"second", "left"} /\ diagnosis'.base = diagnosis.base
           /\ diagnosis.errors => diagnosis'.errors
           /\ diagnosisDir' = diagnosisDir
  BY <1>1, <1>2, TraceQuiet
<1>3. CASE ~diagnosis.errors /\ diagnosis' = [diagnosis EXCEPT !.at = "left", !.base = NoRecovery]
  <2>1. diagnosis'.at = "left"
    BY <1>3
  <2>2. stateFile = NoFile
    BY <1>1, <1>3 DEF TraceInv
  <2>3. NoScriptRuns /\ hand = "idle"
    BY <1>1, CallersAssumption DEF TraceInv, IInv, Alone, NoScriptRuns
  <2> QED BY <1>1, <2>1, <2>2, <2>3 DEF TraceInv, HasBaseline, Attempting, NoScriptRuns
<1> QED BY <1>2, <1>3 DEF Diagnosing!PassEnds

\* Every step of bench_diagnose.py.
LEMMA DiagnosisTraces ==
  ASSUME StudiesInv, TraceInv, DiagnosisStep
  PROVE  TraceInv'
<1>1. UNCHANGED <<hand, recorder, recorderDir>> /\ (Runs(diagnosis) \/ NoScriptRuns)
  BY DEF DiagnosisStep, Starts, Quiet
<1>2. CASE Diagnosing!Prepare
  BY <1>1, <1>2, DiagnosisTracesQuietly
<1>3. CASE Runs(diagnosis) /\ Diagnosing!StudyStep
  BY <1>1, <1>3, DiagnosisTracesQuietly, TraceBegins, TraceStarts, TraceCollects, TracePassEnds
     DEF Diagnosing!StudyStep, Diagnosing!Normal
<1> QED BY <1>2, <1>3 DEF DiagnosisStep, Starts

\* A recorder that has begun is not idle any more.
LEMMA RecorderLeavesIdle ==
  ASSUME RecorderTyped, Recording!Prepare \/ (Runs(recorder) /\ Recording!StudyStep)
  PROVE  recorder'.at # "idle"
<1> USE DEF RecorderTyped, RecorderRecord, Recording!InStudy, Recording!GoTo, Runs
<1>1. CASE Recording!Prepare \/ Recording!BeginSession \/ Recording!SetupEnds \/ Recording!Confine
  BY <1>1 DEF Recording!Prepare, Recording!BeginSession, Recording!SetupEnds,
     Recording!Confine,
     Recording!Gone, Recording!Raising
<1>2. CASE Recording!NextLaunch \/ Recording!TasksCleared \/ Recording!LaunchEnds
           \/ Recording!LaunchEndsShort \/ Recording!TasksReturned
  BY <1>2 DEF Recording!NextLaunch, Recording!NextRound, Recording!TasksCleared,
     Recording!LaunchEnds,
     Recording!LaunchEndsShort, Recording!Finished, Recording!AfterLaunchFails,
     Recording!TasksReturned,
     Recording!Raising
<1>3. CASE Recording!RestoreEnds \/ Recording!PassEnds \/ Recording!Write \/ Recording!Reap
           \/ Recording!Kill
  BY <1>3 DEF Recording!RestoreEnds, Recording!PassEnds, Recording!Write, Recording!Reap,
     Recording!Kill, Recording!Gone, Recording!Raising
<1>4. CASE Recording!Leave
  BY <1>4 DEF Recording!Leave, Recording!Gone
<1>5. CASE Recording!Interrupt
  <2>1. \/ \E at \in {"reaping", "dying"} : recorder' = [recorder EXCEPT !.at = at]
        \/ recorder' = [recorder EXCEPT !.at = "returning", !.raising = TRUE]
        \/ recorder' \in {Recording!Gone, Recording!Raising}
    BY <1>5 DEF Recording!Interrupt
  <2> QED BY <2>1 DEF Recording!Gone, Recording!Raising
<1>6. CASE Runs(recorder) /\ Recording!Moving
  BY <1>6 DEF Recording!Moving, Recording!session
<1> QED BY <1>1, <1>2, <1>3, <1>4, <1>5, <1>6 DEF Recording!StudyStep, Recording!Normal

\* Every step of bench_record.py: it is not idle any more.
LEMMA RecorderTraces ==
  ASSUME StudiesInv, TraceInv, RecorderStep
  PROVE  TraceInv'
<1>1. recorder'.at # "idle"
  BY RecorderLeavesIdle DEF RecorderStep, Starts, StudiesInv, RecorderInv
<1>2. ~Runs(diagnosis) /\ diagnosis' = diagnosis
  BY DEF RecorderStep, Starts, Quiet, StudiesInv, IInv, Alone
<1> QED BY <1>1, <1>2 DEF TraceInv, Runs, HasBaseline, Attempting

\* restore goes on, and ends well only when the state file is gone.
LEMMA RestoreMovesOn ==
  ASSUME ModeInv, NEW c \in Callers, ScriptStep(c), script[c].at \in RestoreSteps
  PROVE  /\ script'[c].at \in RestoreSteps \cup {"done", "failed"}
         /\ script'[c].at = "done" => stateFile' = NoFile
<1> USE DEF ModeInv, ModeTypeOK, Scripts, At, RestoreSteps
<1>1. CASE Restore(c)
  BY <1>1 DEF Restore, RestoreBegin, RestoreOnline, RestoreIrqs, RestoreLimits,
     RestoreParanoid,
     RestoreRemove, Goto, Finish
<1>2. CASE Abort(c)
  BY <1>2 DEF Abort, Finish
<1>3. ~Setup(c)
  BY DEF Setup, SetupBegin, SetupOpen, SetupSave, SetupSaveIrqs, SetupTune, SetupOffline,
     SetupParanoid, SetupSteer, SetupAppend, SetupVerify
<1> QED BY <1>1, <1>2, <1>3 DEF ScriptStep

\* Every step of bench_env.sh, whoever called it.
LEMMA ScriptTraces ==
  ASSUME StudiesInv, TraceInv, ScriptMoves
  PROVE  TraceInv'
<1>1. PICK c \in Callers : ScriptStep(c)
  BY DEF ScriptMoves
<1>2. UNCHANGED <<recorder, recorderDir, diagnosis, diagnosisDir, hand>>
  BY DEF ScriptMoves
<1>3. script[c].at \in Running /\ \A d \in Callers \ {c} : script'[d] = script[d]
  BY <1>1, ScriptMovesOn DEF StudiesInv, IInv
<1>4. ~(recorder.at = "idle" /\ diagnosisDir.recovery = NoRecovery)
  BY <1>3 DEF TraceInv, NoScriptRuns
<1>5. CASE ~Runs(diagnosis)
  BY <1>2, <1>4, <1>5 DEF TraceInv, Runs, HasBaseline, Attempting
<1>6. CASE Runs(diagnosis)
  <2>1. c = "diagnose"
    BY <1>3, <1>6, CallersAssumption DEF StudiesInv, IInv, Alone
  <2>2. diagnosis.at \in {"setup", "restore"}
    BY <1>3, <1>6, <2>1 DEF TraceInv
  <2>3. diagnosis.at = "restore" =>
          /\ script'["diagnose"].at \in RestoreSteps \cup {"done", "failed"}
          /\ script'["diagnose"].at = "done" => stateFile' = NoFile
    <3>1. "done" \notin Running /\ "failed" \notin Running
      BY DEF Running, SetupSteps, RestoreSteps
    <3>2. diagnosis.at = "restore" => script[c].at \in RestoreSteps
      BY <1>3, <2>1, <3>1 DEF TraceInv
    <3> QED BY <1>1, <2>1, <3>2, RestoreMovesOn DEF StudiesInv, IInv
  <2> QED BY <1>2, <1>4, <2>2, <2>3 DEF TraceInv, HasBaseline, Attempting
<1> QED BY <1>5, <1>6

\* Recovery by hand.
LEMMA HandTraces ==
  ASSUME StudiesInv, TraceInv, HandStep
  PROVE  TraceInv'
<1>1. UNCHANGED <<recorder, recorderDir, diagnosis, diagnosisDir>>
  BY DEF HandStep
<1>2. ~Runs(diagnosis)
  BY DEF HandStep, RestoreByHand, AffinityByHand, LeftBy, Quiet, StudiesInv, IInv, Alone
<1>3. ~(recorder.at = "idle" /\ diagnosisDir.recovery = NoRecovery)
  BY DEF HandStep, RestoreByHand, AffinityByHand, LeftBy, TraceInv
<1> QED BY <1>1, <1>2, <1>3 DEF TraceInv, Runs, HasBaseline, Attempting

\* Steps of tasks.
LEMMA OthersTrace ==
  ASSUME TraceInv, UNCHANGED <<stateFile, script, recorder, recorderDir, diagnosis, diagnosisDir, hand>>
  PROVE  TraceInv'
BY DEF TraceInv, Runs, NoScriptRuns

\* It holds of every behaviour, StudiesInv given.
LEMMA TraceInvariance == Spec => []TraceInv
<1>1. Init => TraceInv
  <2> SUFFICES ASSUME Init PROVE TraceInv
    OBVIOUS
  <2>1. /\ diagnosis.at = "idle" /\ recorderDir.recovery = NoRecovery /\ stateFile = NoFile /\ hand = "idle"
    BY DEF Init, ModeInit, Recording!StudyInit, Diagnosing!StudyInit, Recording!EmptyDirectory
  <2>2. NoScriptRuns
    BY DEF Init, ModeInit, NoScriptRuns, IdleScript, Running, SetupSteps, RestoreSteps
  <2> QED BY <2>1, <2>2 DEF TraceInv, Runs, HasBaseline, Attempting
<1>2. TraceInv /\ StudiesInv /\ [Next]_vars => TraceInv'
  <2> SUFFICES ASSUME TraceInv, StudiesInv, [Next]_vars PROVE TraceInv'
    OBVIOUS
  <2>1. CASE RecorderStep \/ DiagnosisStep \/ ScriptMoves \/ HandStep
    BY <2>1, RecorderTraces, DiagnosisTraces, ScriptTraces, HandTraces
  <2>2. CASE TasksComeAndGo \/ UNCHANGED vars
    BY <2>2, OthersTrace DEF TasksComeAndGo, vars, modeVars
  <2> QED BY <2>1, <2>2 DEF Next
<1> QED BY <1>1, <1>2, StudiesInvariance, PTL DEF Spec

\* A diagnostic study that leaves no recovery file leaves no state file, all CPUs
\* online and the settings as they were, however it ended, as long as bench_record.py
\* has not been at the machine before.
THEOREM NoTrace == Spec => []DiagnosisLeavesNoTrace
<1>1. StudiesInv /\ TraceInv => DiagnosisLeavesNoTrace
  BY DEF StudiesInv, IInv, ModeInv, FilesSound, Untouched, TraceInv, DiagnosisLeavesNoTrace,
     Resting
<1> QED BY <1>1, StudiesInvariance, TraceInvariance, PTL

------------------------------------------------------------------------------
(* The CPUs that tasks get back, and the recovery file.                      *)

\* While a recorder or somebody at the machine walks through the tasks, no script
\* that it called still runs.
Scriptless ==
  /\ Runs(recorder) /\ script["record"].at \in Running =>
       recorder.at \in {"setup", "restore", "reaping", "dying"}
  /\ hand \in {"record", "diagnose"} => script["hand"].at \notin Running

\* No task is without a CPU: setup takes the siblings away and no more, and a task
\* that had only those is given all.
Powered ==
  /\ CPU \ Siblings \subseteq online
  /\ \A t \in Tid : task[t] # NoTask => Effective(t) # {}

\* A baseline of tasks that were there, each with CPUs to go back to.
Sound(base) ==
  base # NoRecovery =>
    Timely(base) /\ \A t \in DOMAIN base : base[t].mask # {} /\ base[t].mask \subseteq CPU

\* So are the baselines in the recovery files, also those of a study that was killed.
SoundFiles == Sound(recorderDir.recovery) /\ Sound(diagnosisDir.recovery)

\* The points at which each recorder walks through the tasks.
RecorderWalking == {"clearing", "returning", "first", "second"}
DiagnosisWalking == {"clearing", "first", "second"}

\* What a walk takes for the CPUs online still is: nobody takes one offline meanwhile.
Walking ==
  /\ recorder.at \in RecorderWalking => scan["record"].cpus = online
  /\ diagnosis.at \in DiagnosisWalking => scan["diagnose"].cpus = online
  /\ hand \in {"record", "diagnose"} => scan["hand"].cpus = online

\* The walk still comes to this task, and will look it up under its own process.
Ahead(c, t) ==
  task[t].leader \in scan[c].procs \/ (t \in scan[c].tids /\ scan[c].pid = task[t].leader)

\* A walk that has found nothing to change, or with no task born, has left every task
\* that it passed where the baseline says.
Returned(c, base) ==
  Settled(c) =>
    \A t \in DOMAIN base :
      Matches(base, t) /\ ~task[t].fixed => Ahead(c, t) \/ Effective(t) = base[t].mask

\* With no task born the walk looks every task up under its own process: a leader
\* keeps its number until its threads have ended.
Led(c) ==
  births = 0 =>
    /\ \A p \in scan[c].procs : task[p] # NoTask => task[p].leader = p
    /\ \A t \in scan[c].tids : task[t] # NoTask => task[t].leader = scan[c].pid

\* The walks that decide whether a recovery file goes: the second pass of either
\* recorder, when measurement mode has been left, and the one by hand.
Returning ==
  /\ recorder.at = "second" /\ stateFile = NoFile /\ recorder.base # NoRecovery =>
       Returned("record", recorder.base) /\ Led("record")
  /\ diagnosis.at = "second" /\ stateFile = NoFile /\ diagnosis.base # NoRecovery =>
       Returned("diagnose", diagnosis.base) /\ Led("diagnose")
  /\ hand \in {"record", "diagnose"} =>
       /\ stateFile = NoFile /\ LeftBy[hand] # NoRecovery
       /\ Returned("hand", LeftBy[hand]) /\ Led("hand")

\* What makes BaselineGivenBack provable, beside StudiesInv and TraceInv.
ReturnInv == Scriptless /\ Powered /\ SoundFiles /\ Walking /\ Returning

\* One task of a walk: it had what is wanted, refused it, or was given it.
LEMMA Visits ==
  ASSUME Tasks, NEW c \in Clients, NEW base, NEW exclude, ApplyTask(c, base, exclude)
  PROVE  \E t \in scan[c].tids :
           /\ t \in Tid
           /\ scan'[c].procs = scan[c].procs /\ scan'[c].pid = scan[c].pid
           /\ scan'[c].cpus = scan[c].cpus /\ scan'[c].tids = scan[c].tids \ {t}
           /\ scan[c].changed => scan'[c].changed
           /\ \A u \in Tid \ {t} : task'[u] = task[u]
           /\ \/ /\ task'[t] = task[t]
                 /\ task[t] # NoTask /\ ~task[t].fixed =>
                      Effective(t) = Want(base, scan[c].pid, t, scan[c].cpus, exclude)
              \/ /\ task[t] # NoTask
                 /\ Effective(t) # Want(base, scan[c].pid, t, scan[c].cpus, exclude)
                 /\ task'[t].mask = Want(base, scan[c].pid, t, scan[c].cpus, exclude)
                 /\ scan'[c].changed
           /\ UNCHANGED <<online, knob, births>>
<1> DEFINE rest(t) == [scan[c] EXCEPT !.tids = @ \ {t}]
           want(t) == Want(base, rest(t).pid, t, rest(t).cpus, exclude)
           differs(t) == task[t] # NoTask /\ Effective(t) # want(t)
<1>1. PICK t \in scan[c].tids :
        /\ task' = IF differs(t) /\ ~task[t].fixed THEN [task EXCEPT ![t].mask = want(t)] ELSE task
        /\ scan' = [scan EXCEPT ![c] =
                CASE ~differs(t) -> rest(t)
                  [] differs(t) /\ task[t].fixed -> [rest(t) EXCEPT !.refused = @ \cup {t}]
                  [] differs(t) /\ ~task[t].fixed -> [rest(t) EXCEPT !.changed = TRUE]]
        /\ UNCHANGED <<online, knob, births>>
  BY DEF ApplyTask
<1>2. scan[c] \in Scan /\ t \in Tid
  BY <1>1 DEF Tasks, AffinityTypeOK, Scan
<1>3. /\ rest(t) \in Scan /\ rest(t).procs = scan[c].procs /\ rest(t).tids = scan[c].tids \ {t}
      /\ rest(t).cpus = scan[c].cpus /\ rest(t).pid = scan[c].pid /\ rest(t).changed = scan[c].changed
  BY <1>2 DEF Scan
<1> DEFINE Want0 == Want(base, scan[c].pid, t, scan[c].cpus, exclude)
<1>4. want(t) = Want0
  BY <1>3
<1>5. scan'[c] = CASE ~differs(t) -> rest(t)
                   [] differs(t) /\ task[t].fixed -> [rest(t) EXCEPT !.refused = @ \cup {t}]
                   [] differs(t) /\ ~task[t].fixed -> [rest(t) EXCEPT !.changed = TRUE]
  BY <1>1 DEF Tasks, AffinityTypeOK
<1> HIDE DEF want, Want0, rest
<1>6. /\ scan'[c].procs = scan[c].procs /\ scan'[c].pid = scan[c].pid
      /\ scan'[c].cpus = scan[c].cpus /\ scan'[c].tids = scan[c].tids \ {t}
      /\ scan[c].changed => scan'[c].changed
      /\ differs(t) /\ ~task[t].fixed => scan'[c].changed
  <2>1. CASE ~differs(t)
    BY <1>3, <1>5, <2>1
  <2>2. CASE differs(t) /\ task[t].fixed
    <3>1. scan'[c] = [rest(t) EXCEPT !.refused = @ \cup {t}]
      BY <1>5, <2>2
    <3> QED BY <1>3, <2>2, <3>1 DEF Scan
  <2>3. CASE differs(t) /\ ~task[t].fixed
    <3>1. scan'[c] = [rest(t) EXCEPT !.changed = TRUE]
      BY <1>5, <2>3
    <3> QED BY <1>3, <2>3, <3>1 DEF Scan
  <2> QED BY <2>1, <2>2, <2>3
<1>7. CASE differs(t) /\ ~task[t].fixed
  <2>1. task' = [task EXCEPT ![t].mask = want(t)] /\ task[t] \in Task
    BY <1>1, <1>2, <1>7 DEF Tasks, MachineTypeOK
  <2>2. task'[t].mask = want(t) /\ \A u \in Tid \ {t} : task'[u] = task[u]
    BY <1>2, <2>1 DEF Tasks, MachineTypeOK, Task
  <2>3. /\ task[t] # NoTask /\ Effective(t) # Want0 /\ task'[t].mask = Want0 /\ scan'[c].changed
    BY <1>4, <1>6, <1>7, <2>2
  <2> QED BY <1>1, <1>2, <1>6, <2>2, <2>3 DEF Want0
<1>8. CASE ~(differs(t) /\ ~task[t].fixed)
  <2>1. task' = task
    BY <1>1, <1>8
  <2>2. task[t] # NoTask /\ ~task[t].fixed => Effective(t) = Want0
    BY <1>4, <1>8
  <2> QED BY <1>1, <1>2, <1>6, <2>1, <2>2 DEF Want0
<1> QED BY <1>7, <1>8

\* When a walk begins, every task there is is ahead.
LEMMA WalkBegun ==
  ASSUME Tasks, NEW c \in Clients, NEW base, UNCHANGED machine, scan' = [scan EXCEPT ![c] = Listing]
  PROVE  /\ scan'[c].cpus = online'
         /\ Timely(base) => Returned(c, base)' /\ Led(c)'
<1>1. /\ scan'[c].procs = {task[t].leader : t \in Live} /\ scan'[c].tids = {} /\ scan'[c].cpus = online
      /\ scan'[c].procs \subseteq Tid
  BY DEF Tasks, AffinityTypeOK, Listing, NoScan, MachineTypeOK, Live, Task
<1>2. ASSUME Timely(base), NEW t \in DOMAIN base, Matches(base, t)'
      PROVE  Ahead(c, t)'
  BY <1>1, <1>2 DEF Timely, Matches, Ahead, Live, machine
<1>3. Led(c)'
  BY <1>1 DEF Led, machine, Tasks, Living, Live
<1> QED BY <1>1, <1>2, <1>3 DEF Returned, machine

\* No step of a walk takes a task its last CPU.
LEMMA WalkPowers ==
  ASSUME Tasks, Powered, NEW c \in Clients, NEW base, NEW exclude \in {{}, MeasureCPU},
         scan[c].cpus = online, ApplyStep(c, base, exclude)
  PROVE  Powered' /\ scan'[c].cpus = online'
<1>1. CASE ApplyProcess(c)
  <2>1. scan'[c].cpus = scan[c].cpus
    BY <1>1 DEF ApplyProcess, Tasks, AffinityTypeOK, Scan
  <2> QED BY <1>1, <2>1 DEF ApplyProcess, Powered, Effective, machine
<1>2. CASE ApplyTask(c, base, exclude)
  <2>1. PICK t \in scan[c].tids :
           /\ t \in Tid
           /\ scan'[c].cpus = scan[c].cpus
           /\ \A u \in Tid \ {t} : task'[u] = task[u]
           /\ task'[t] = task[t] \/ task'[t].mask = Want(base, scan[c].pid, t, scan[c].cpus, exclude)
           /\ UNCHANGED <<online, knob, births>>
    BY <1>2, Visits
  <2>2. online \ exclude # {}
    BY CPUsDivide DEF Powered
  <2>3. /\ Want(base, scan[c].pid, t, online, exclude) # {}
        /\ Want(base, scan[c].pid, t, online, exclude) \subseteq online
    BY <2>2 DEF Want
  <2>4. \A u \in Tid : task'[u] # NoTask => Effective(u)' # {}
    <3>1. ASSUME NEW u \in Tid, task'[u] # NoTask PROVE Effective(u)' # {}
      <4>1. CASE task'[u] = task[u]
        BY <2>1, <3>1, <4>1 DEF Powered, Effective
      <4>2. CASE u = t /\ task'[t].mask = Want(base, scan[c].pid, t, online, exclude)
        BY <2>1, <2>3, <4>2 DEF Effective
      <4> QED BY <2>1, <4>1, <4>2
    <3> QED BY <3>1
  <2> QED BY <2>1, <2>4 DEF Powered
<1> QED BY <1>1, <1>2 DEF ApplyStep

\* A walk that gives back passes no task but those it has returned: one found in
\* place stays so, and one looked up under a process that is not its own is left
\* elsewhere only by a change that the walk takes note of.
LEMMA WalkReturns ==
  ASSUME Tasks, NEW c \in Clients, NEW base, Sound(base), base # NoRecovery,
         scan[c].cpus = online, online = CPU, Returned(c, base), Led(c), ApplyStep(c, base, {})
  PROVE  Returned(c, base)' /\ Led(c)'
<1>1. CASE ApplyProcess(c)
  <2>1. PICK p \in scan[c].procs :
          scan' = [scan EXCEPT ![c].procs = @ \ {p}, ![c].pid = p, ![c].tids = Group(p)]
    BY <1>1 DEF ApplyProcess
  <2>2. UNCHANGED <<online, knob, task, births>> /\ scan[c].tids = {}
    BY <1>1 DEF ApplyProcess, machine
  <2>3. scan[c] \in Scan /\ p \in Tid /\ Group(p) \subseteq Tid
    BY <2>1 DEF Tasks, AffinityTypeOK, Scan, Group, Live
  <2>4. /\ scan'[c].procs = scan[c].procs \ {p} /\ scan'[c].tids = Group(p) /\ scan'[c].pid = p
        /\ scan'[c].changed = scan[c].changed
    BY <2>1, <2>3 DEF Tasks, AffinityTypeOK, Scan
  <2>5. ASSUME NEW t \in Tid, task[t] # NoTask, Ahead(c, t) PROVE Ahead(c, t)'
    <3>1. task[t].leader \in scan[c].procs
      BY <2>2, <2>5 DEF Ahead
    <3>2. CASE task[t].leader = p
      <4>1. t \in Group(p)
        BY <2>3, <2>5, <3>2 DEF Tasks, Living, Group, Live
      <4> QED BY <2>2, <2>4, <3>2, <4>1 DEF Ahead
    <3>3. CASE task[t].leader # p
      BY <2>2, <2>4, <3>1, <3>3 DEF Ahead
    <3> QED BY <3>2, <3>3
  <2>6. Returned(c, base)'
    BY <2>2, <2>4, <2>5 DEF Returned, Settled, Matches, Sound, Timely, Effective
  <2>7. Led(c)'
    BY <2>2, <2>4 DEF Led, Group, Live
  <2> QED BY <2>6, <2>7
<1>2. CASE ApplyTask(c, base, {})
  <2>1. /\ births' = births /\ online' = online
        /\ \A t \in Tid : SameTask(t)
    BY WalkStep
  <2> DEFINE wanted(t) == Want(base, scan[c].pid, t, scan[c].cpus, {})
  <2>2. PICK t \in scan[c].tids :
           /\ t \in Tid
           /\ scan'[c].procs = scan[c].procs /\ scan'[c].pid = scan[c].pid
           /\ scan'[c].tids = scan[c].tids \ {t}
           /\ scan[c].changed => scan'[c].changed
           /\ \A u \in Tid \ {t} : task'[u] = task[u]
           /\ \/ /\ task'[t] = task[t]
                 /\ task[t] # NoTask /\ ~task[t].fixed => Effective(t) = wanted(t)
              \/ /\ task[t] # NoTask
                 /\ Effective(t) # wanted(t)
                 /\ task'[t].mask = wanted(t)
                 /\ scan'[c].changed
    BY <1>2, Visits
  <2>3. ASSUME NEW u \in DOMAIN base, Matches(base, u)
        PROVE  /\ u \in Tid /\ task[u] # NoTask /\ base[u].mask # {} /\ base[u].mask \subseteq CPU
               /\ scan[c].pid = task[u].leader => wanted(u) = base[u].mask
    <3>1. u \in Tid /\ task[u] # NoTask /\ base[u].mask # {} /\ base[u].mask \subseteq CPU
      BY <2>3 DEF Sound, Timely, Matches
    <3>2. ASSUME scan[c].pid = task[u].leader PROVE wanted(u) = base[u].mask
      <4>1. Known(base, scan[c].pid, u)
        BY <2>3, <3>1, <3>2 DEF Known, Group, Live, Tasks, Living, MachineTypeOK, Task
      <4> QED BY <3>1, <4>1 DEF Want, BaselineMask
    <3> QED BY <3>1, <3>2
  <2> HIDE DEF wanted
  <2>4. ASSUME Settled(c)', NEW u \in DOMAIN base, Matches(base, u)', ~task'[u].fixed, ~Ahead(c, u)'
        PROVE  Effective(u)' = base[u].mask
    <3>1. Settled(c)
      BY <2>1, <2>2, <2>4 DEF Settled
    <3>2. u \in Tid /\ Matches(base, u) /\ ~task[u].fixed /\ task'[u].leader = task[u].leader
      BY <2>1, <2>4 DEF Sound, Timely, Matches, SameTask
    <3>3. Ahead(c, u) \/ Effective(u) = base[u].mask
      BY <3>1, <3>2 DEF Returned
    <3>4. CASE u # t
      BY <2>1, <2>2, <2>4, <3>2, <3>3, <3>4 DEF Ahead, Effective
    <3>5. CASE u = t
      <4>1. CASE Ahead(c, u)
        <5>1. scan[c].pid = task[u].leader
          BY <2>2, <2>4, <3>2, <4>1 DEF Ahead
        <5>2. wanted(u) = base[u].mask /\ base[u].mask \subseteq CPU
          BY <2>3, <3>2, <5>1
        <5> QED BY <2>1, <2>2, <3>2, <3>5, <5>2 DEF Effective, Matches
      <4>2. CASE Effective(u) = base[u].mask /\ task'[u] # task[u]
        <5>1. scan'[c].changed /\ Effective(u) # wanted(u)
          BY <2>2, <3>5, <4>2
        <5>2. births = 0
          BY <2>1, <2>4, <5>1 DEF Settled
        <5>3. task[u].leader = scan[c].pid
          BY <2>2, <3>2, <3>5, <5>2 DEF Led, Matches
        <5> QED BY <2>3, <3>2, <4>2, <5>1, <5>3
      <4>3. CASE Effective(u) = base[u].mask /\ task'[u] = task[u]
        BY <2>1, <4>3 DEF Effective
      <4> QED BY <3>3, <4>1, <4>2, <4>3
    <3> QED BY <3>4, <3>5
  <2>5. Returned(c, base)'
    BY <2>4 DEF Returned
  <2>6. Led(c)'
    BY <2>1, <2>2 DEF Led, SameTask, Tasks, AffinityTypeOK, Scan
  <2> QED BY <2>5, <2>6
<1> QED BY <1>1, <1>2 DEF ApplyStep

\* A task that is born has its parent's CPUs,
LEMMA GoneKeeps ==
  ASSUME Tasks, Powered, Fork \/ Exit, scan' = scan
  PROVE  Powered'
<1>1. UNCHANGED online
  BY DEF Fork, Exit
<1>2. \A t \in Tid : task'[t] # NoTask => \E u \in Tid : task[u] # NoTask /\ task'[t].mask = task[u].mask
  <2>1. CASE Fork
    <3>1. PICK parent \in Live, child \in Tid \ Live : \E l \in {child, task[parent].leader} :
            task' = [task EXCEPT ![child] = [task[parent] EXCEPT !.start = births', !.leader = l]]
      BY <2>1 DEF Fork
    <3>2. PICK l \in {child, task[parent].leader} :
            task' = [task EXCEPT ![child] = [task[parent] EXCEPT !.start = births', !.leader = l]]
      BY <3>1
    <3>3. parent \in Tid /\ task[parent] # NoTask /\ task[parent] \in Task
      BY DEF Live, Tasks, MachineTypeOK
    <3>4. task'[child].mask = task[parent].mask /\ \A t \in Tid \ {child} : task'[t] = task[t]
      BY <3>2, <3>3 DEF Tasks, MachineTypeOK, Task
    <3> QED BY <3>3, <3>4
  <2>2. CASE Exit
    BY <2>2 DEF Exit, Tasks, MachineTypeOK
  <2> QED BY <2>1, <2>2
<1> QED BY <1>1, <1>2 DEF Powered, Effective

\* and is not the one of the baseline that had its number.
LEMMA GoneReturns ==
  ASSUME Tasks, Fork \/ Exit, scan' = scan, NEW c \in Clients, NEW base, Timely(base),
         Returned(c, base), Led(c)
  PROVE  Returned(c, base)' /\ Led(c)'
<1>1. /\ Tasks' /\ UNCHANGED <<online, knob>> /\ births' \in Nat /\ births \in Nat /\ births' >= births
      /\ \A t \in Tid : task'[t] = NoTask \/ task'[t] = task[t] \/ task'[t].start > births
  BY ComeAndGo
<1>2. ASSUME NEW t \in DOMAIN base, Matches(base, t)'
      PROVE  Matches(base, t) /\ task'[t] = task[t]
  BY <1>1, <1>2 DEF Timely, Matches
<1>3. Returned(c, base)'
  <2>1. Settled(c)' => Settled(c)
    BY <1>1 DEF Settled
  <2> QED BY <1>1, <1>2, <2>1 DEF Returned, Ahead, Effective
<1>4. Led(c)'
  <2>1. ASSUME births' = 0, NEW t \in Tid, task'[t] # NoTask PROVE task'[t] = task[t] /\ births = 0
    <3>1. task'[t].start <= births' /\ task'[t].start \in Nat
      BY <1>1, <2>1, TasksAssumption DEF Tasks, Living, MachineTypeOK, Task
    <3> QED BY <1>1, <2>1, <3>1
  <2> QED BY <2>1 DEF Led, Tasks, AffinityTypeOK, Scan
<1> QED BY <1>3, <1>4

\* The points at which bench_record.py waits for a script or for its end.
Waits == {"setup", "restore", "reaping", "dying"}

\* A step of bench_record.py either moves a task, one of a walk
RecorderMovesATask ==
  /\ UNCHANGED <<recorder, recorderDir>> /\ UNCHANGED modeVars
  /\ recorder.at \in RecorderWalking
  /\ ApplyStep("record", recorder.base, IF recorder.at = "clearing" THEN MeasureCPU ELSE {})

\* or leaves the machine as it is: then a walk is only begun or dropped, and the
\* recovery file written with the baseline or removed after the second pass.
RecorderMovesNone ==
  /\ UNCHANGED machine /\ stateFile' = stateFile
  /\ scan' \in {scan, [scan EXCEPT !["record"] = NoScan], [scan EXCEPT !["record"] = Listing]}
  /\ recorder'.at \in RecorderWalking => scan' = [scan EXCEPT !["record"] = Listing]
  /\ recorderDir'.recovery \in {recorderDir.recovery, NoRecovery, Baseline}
  /\ recorderDir'.recovery = NoRecovery =>
       recorderDir.recovery = NoRecovery \/ (recorder.at = "second" /\ ApplyDone("record"))
  /\ \/ recorder'.at \in Waits \cup {"ended"}
     \/ script'["record"].at = "idle"
     \/ script' = script /\ recorder.at \notin Waits

\* There are no others.
LEMMA RecorderKinds ==
  ASSUME StudiesInv, Recording!StudyStep \/ Recording!Prepare
  PROVE  RecorderMovesATask \/ RecorderMovesNone
<1> USE DEF StudiesInv, RecorderInv, RecorderTyped, RecorderRecord, Directory, Recording!InStudy,
        Recording!GoTo, machine, modeVars, Recording!machine, Recording!modeVars, RecorderWalking,
        Waits
<1>0. Baseline # NoRecovery
  BY BaselineTimely DEF TasksInv
<1>00. ASSUME Recording!Collect("record") PROVE script'["record"].at = "idle"
  BY <1>00, CallersAssumption DEF Recording!Collect, Recording!Finish, IInv, ModeInv, ModeTypeOK
<1>1. CASE Recording!Prepare
  <2>1. /\ scan' = scan /\ UNCHANGED machine /\ UNCHANGED <<stateFile, script, recorderDir>>
        /\ recorder.at = "idle" /\ recorder'.at \in {"session", "ended"}
    BY <1>1 DEF Recording!Prepare, Recording!Gone
  <2> QED BY <2>1 DEF RecorderMovesNone
<1>2. CASE Recording!BeginSession
  <2>1. /\ scan' = scan /\ UNCHANGED machine /\ stateFile' = stateFile
        /\ recorder'.at = "setup" /\ recorderDir'.recovery = Baseline
    BY <1>2, RecorderOperators DEF Recording!BeginSession
  <2> QED BY <1>0, <2>1 DEF RecorderMovesNone
<1>3. CASE Recording!SetupEnds
  <2>1. /\ scan' = scan /\ UNCHANGED machine /\ UNCHANGED <<stateFile, recorderDir>>
        /\ recorder'.at \in {"cores", "leave"} /\ Recording!Collect("record")
    BY <1>3 DEF Recording!SetupEnds, Recording!Raising
  <2> QED BY <1>00, <2>1 DEF RecorderMovesNone
<1>4. CASE Recording!Confine
  <2>1. /\ scan' = scan /\ UNCHANGED machine /\ UNCHANGED <<stateFile, script, recorderDir>>
        /\ recorder.at = "cores" /\ recorder'.at \in {"next", "leave"}
    BY <1>4 DEF Recording!Confine, Recording!Raising
  <2> QED BY <2>1 DEF RecorderMovesNone
<1>5. CASE Recording!NextLaunch
  <2>1. UNCHANGED machine /\ recorder.at = "next" /\ UNCHANGED <<stateFile, script, recorderDir>>
    BY <1>5 DEF Recording!NextLaunch
  <2>2. \/ recorder'.at = "clearing" /\ scan' = [scan EXCEPT !["record"] = Listing]
        \/ recorder'.at = "launching" /\ scan' = scan
        \/ recorder'.at = "returning" /\ scan' = [scan EXCEPT !["record"] = Listing]
        \/ recorder'.at \in {"next", "leave"} /\ scan' = scan
    BY <1>5, RecorderOperators DEF Recording!NextLaunch, Recording!NextRound, Recording!ApplyBegin
  <2> QED BY <2>1, <2>2 DEF RecorderMovesNone
<1>6. CASE Recording!Moving
  <2>1. /\ UNCHANGED <<recorder, recorderDir, stateFile, irqFile, script>>
        /\ recorder.at \in RecorderWalking
        /\ Recording!ApplyStep("record", recorder.base, IF recorder.at = "clearing" THEN MeasureCPU ELSE {})
    BY <1>6 DEF Recording!Moving, Recording!session
  <2> QED BY <2>1, RecorderWalks DEF RecorderMovesATask
<1>7. CASE Recording!TasksCleared
  <2>1. /\ UNCHANGED machine /\ recorder.at = "clearing" /\ recorder'.at = "launching"
        /\ UNCHANGED <<stateFile, script, recorderDir>>
        /\ scan' = [scan EXCEPT !["record"] = NoScan]
    BY <1>7, RecorderOperators DEF Recording!TasksCleared
  <2> QED BY <2>1 DEF RecorderMovesNone
<1>8. CASE Recording!LaunchEnds \/ Recording!LaunchEndsShort
  <2>1. /\ UNCHANGED machine /\ recorder.at = "launching" /\ UNCHANGED <<stateFile, script>>
    BY <1>8 DEF Recording!LaunchEnds, Recording!LaunchEndsShort, Recording!Finished
  <2>2. recorderDir'.recovery = recorderDir.recovery
    BY <1>8 DEF Recording!LaunchEnds, Recording!LaunchEndsShort, Recording!Finished
  <2>3. \/ recorder'.at \in {"next", "leave"} /\ scan' = scan
        \/ recorder'.at = "returning" /\ scan' = [scan EXCEPT !["record"] = Listing]
    BY <1>8, RecorderOperators DEF Recording!LaunchEnds, Recording!LaunchEndsShort,
       Recording!Finished, Recording!AfterLaunchFails, Recording!ApplyBegin, Recording!Raising
  <2> QED BY <2>1, <2>2, <2>3 DEF RecorderMovesNone
<1>9. CASE Recording!TasksReturned
  <2>1. /\ UNCHANGED machine /\ recorder.at = "returning" /\ UNCHANGED <<stateFile, script, recorderDir>>
        /\ recorder'.at \in {"next", "leave"} /\ scan' = [scan EXCEPT !["record"] = NoScan]
    BY <1>9, RecorderOperators DEF Recording!TasksReturned, Recording!NextRound, Recording!Raising
  <2> QED BY <2>1 DEF RecorderMovesNone
<1>10. CASE Recording!Leave
  <2>1. UNCHANGED machine /\ UNCHANGED <<stateFile, recorderDir>> /\ recorder.at = "leave"
    BY <1>10 DEF Recording!Leave
  <2>2. \/ recorder'.at = "restore" /\ scan' = scan
        \/ recorder'.at = "first" /\ scan' = [scan EXCEPT !["record"] = Listing] /\ script' = script
        \/ recorder'.at \in {"ended", "samples", "session", "leave"} /\ UNCHANGED <<scan, script>>
    BY <1>10, RecorderOperators DEF Recording!Leave, Recording!ApplyBegin, Recording!Gone
  <2> QED BY <2>1, <2>2 DEF RecorderMovesNone
<1>11. CASE Recording!RestoreEnds \/ Recording!Reap
  <2>1. /\ UNCHANGED machine /\ scan' = scan /\ UNCHANGED <<stateFile, recorderDir>>
        /\ recorder'.at \in {"leave", "ended"} /\ Recording!Collect("record")
    BY <1>11 DEF Recording!RestoreEnds, Recording!Reap, Recording!Gone, Recording!Raising
  <2> QED BY <1>00, <2>1 DEF RecorderMovesNone
<1>12. CASE Recording!PassEnds
  <2>1. /\ UNCHANGED machine /\ UNCHANGED <<stateFile, script>> /\ ApplyDone("record")
        /\ recorder.at \in {"first", "second"}
    BY <1>12, RecorderOperators DEF Recording!PassEnds
  <2>2. \/ recorder'.at = "second" /\ scan' = [scan EXCEPT !["record"] = Listing] /\ recorderDir' = recorderDir
        \/ /\ recorder.at = "second" /\ recorder'.at = "leave"
           /\ scan' = [scan EXCEPT !["record"] = NoScan] /\ recorderDir'.recovery = NoRecovery
    BY <1>12, RecorderOperators DEF Recording!PassEnds, Recording!ApplyBegin
  <2> QED BY <2>1, <2>2 DEF RecorderMovesNone
<1>13. CASE Recording!Write
  <2>1. /\ UNCHANGED machine /\ scan' = scan /\ UNCHANGED <<stateFile, script>>
        /\ recorder.at \in {"samples", "launches", "env", "pack", "purge"}
        /\ recorder'.at \in {"launches", "env", "pack", "purge", "ended"}
    BY <1>13 DEF Recording!Write, Recording!Gone
  <2>2. recorderDir'.recovery = recorderDir.recovery
    BY <1>13 DEF Recording!Write, Recording!Removed
  <2> QED BY <2>1, <2>2 DEF RecorderMovesNone
<1>14. CASE Recording!Interrupt
  <2>1. UNCHANGED machine /\ UNCHANGED <<stateFile, script, recorderDir>>
        /\ recorder.at \notin {"reaping", "dying"}
    BY <1>14 DEF Recording!Interrupt
  <2> DEFINE inRound == recorder.at \in {"next", "clearing", "launching"} /\ Recording!Cleared
  <2>2. scan' = [scan EXCEPT !["record"] = IF inRound THEN Listing ELSE NoScan]
    BY <1>14, RecorderOperators DEF Recording!Interrupt
  <2>3. \/ \E at \in {"reaping", "dying"} : recorder' = [recorder EXCEPT !.at = at]
        \/ /\ inRound /\ recorder' = [recorder EXCEPT !.at = "returning", !.raising = TRUE]
           /\ recorder.at \notin {"setup", "restore"}
        \/ recorder' = Recording!Gone
        \/ recorder' = Recording!Raising /\ recorder.at \notin {"setup", "restore"}
    BY <1>14 DEF Recording!Interrupt
  <2> HIDE DEF inRound
  <2>4. \/ recorder'.at \in {"reaping", "dying", "ended"}
        \/ inRound /\ recorder'.at = "returning" /\ recorder.at \notin {"setup", "restore"}
        \/ recorder'.at = "leave" /\ recorder.at \notin {"setup", "restore"}
    BY <2>3 DEF Recording!Gone, Recording!Raising
  <2> QED BY <2>1, <2>2, <2>4 DEF RecorderMovesNone
<1>15. CASE Recording!Kill
  <2>1. /\ UNCHANGED machine /\ scan' = [scan EXCEPT !["record"] = NoScan] /\ recorder'.at = "ended"
        /\ UNCHANGED <<stateFile, recorderDir>>
    BY <1>15, RecorderOperators DEF Recording!Kill, Recording!Gone
  <2> QED BY <2>1 DEF RecorderMovesNone
<1> QED BY <1>1, <1>2, <1>3, <1>4, <1>5, <1>6, <1>7, <1>8, <1>9, <1>10, <1>11, <1>12, <1>13, <1>14,
           <1>15 DEF Recording!StudyStep, Recording!Normal

\* A step of bench_diagnose.py that moves a task,
DiagnosisMovesATask ==
  /\ UNCHANGED <<diagnosis, diagnosisDir>> /\ UNCHANGED modeVars
  /\ diagnosis.at \in DiagnosisWalking
  /\ ApplyStep("diagnose", diagnosis.base, IF diagnosis.at = "clearing" THEN MeasureCPU ELSE {})

\* and one that does not: it removes the recovery file only when the second pass is
\* through, had nothing to change, and no error came before.
DiagnosisMovesNone ==
  /\ UNCHANGED machine /\ stateFile' = stateFile
  /\ scan' \in {scan, [scan EXCEPT !["diagnose"] = NoScan], [scan EXCEPT !["diagnose"] = Listing]}
  /\ diagnosis'.at \in DiagnosisWalking => scan' = [scan EXCEPT !["diagnose"] = Listing]
  /\ diagnosisDir'.recovery \in {diagnosisDir.recovery, NoRecovery, Baseline}
  /\ diagnosisDir'.recovery = NoRecovery =>
       \/ diagnosisDir.recovery = NoRecovery
       \/ /\ diagnosis.at = "second" /\ ApplyDone("diagnose")
          /\ ~diagnosis.errors /\ ~scan["diagnose"].changed

\* There are no others here either.
LEMMA DiagnosisKinds ==
  ASSUME StudiesInv, Diagnosing!StudyStep \/ Diagnosing!Prepare
  PROVE  DiagnosisMovesATask \/ DiagnosisMovesNone
<1> USE DEF StudiesInv, DiagnosisInv, DiagnosisTyped, DiagnosisRecord, Directory, Diagnosing!InStudy,
        Diagnosing!GoTo, machine, modeVars, Diagnosing!machine, Diagnosing!modeVars, DiagnosisWalking
<1>0. Baseline # NoRecovery
  BY BaselineTimely DEF TasksInv
<1>1. CASE Diagnosing!Prepare \/ Diagnosing!RunSetup \/ Diagnosing!SetupEnds
  <2>1. /\ UNCHANGED machine /\ scan' = scan /\ stateFile' = stateFile
        /\ diagnosis'.at \in {"session", "ended", "setup", "cores", "after"}
        /\ diagnosisDir'.recovery = diagnosisDir.recovery
    BY <1>1 DEF Diagnosing!Prepare, Diagnosing!Gone, Diagnosing!RunSetup, Diagnosing!SetupEnds,
       Diagnosing!Raising
  <2> QED BY <2>1 DEF DiagnosisMovesNone
<1>2. CASE Diagnosing!BeginSession
  <2>1. UNCHANGED machine /\ scan' = scan /\ stateFile' = stateFile
    BY <1>2 DEF Diagnosing!BeginSession
  <2>2. \/ diagnosis'.at = "tables" /\ diagnosisDir' = diagnosisDir
        \/ diagnosis'.at = "noted" /\ diagnosisDir'.recovery = Baseline
    BY <1>2, DiagnosisOperators DEF Diagnosing!BeginSession, Diagnosing!Archiving
  <2> QED BY <1>0, <2>1, <2>2 DEF DiagnosisMovesNone
<1>3. CASE Diagnosing!Confine
  <2>1. UNCHANGED machine /\ scan' = scan /\ UNCHANGED <<stateFile, diagnosisDir>>
    BY <1>3 DEF Diagnosing!Confine
  <2>2. diagnosis'.at \in {"warmup", "next", "after"}
    BY <1>3 DEF Diagnosing!Confine, Diagnosing!Raising
  <2> QED BY <2>1, <2>2 DEF DiagnosisMovesNone
<1>4. CASE Diagnosing!NextLaunch
  <2>1. UNCHANGED machine /\ stateFile' = stateFile
    BY <1>4 DEF Diagnosing!NextLaunch
  <2>2. \/ diagnosis'.at \in {"next", "after", "launching"} /\ scan' = scan
        \/ diagnosis'.at = "clearing" /\ scan' = [scan EXCEPT !["diagnose"] = Listing]
    BY <1>4, DiagnosisOperators DEF Diagnosing!NextLaunch, Diagnosing!ApplyBegin
  <2>3. diagnosisDir'.recovery = diagnosisDir.recovery
    BY <1>4 DEF Diagnosing!NextLaunch, Diagnosing!Launching
  <2> QED BY <2>1, <2>2, <2>3 DEF DiagnosisMovesNone
<1>5. CASE Diagnosing!Moving
  <2>1. /\ UNCHANGED <<diagnosis, diagnosisDir, stateFile, irqFile, script>>
        /\ diagnosis.at \in DiagnosisWalking
        /\ Diagnosing!ApplyStep("diagnose", diagnosis.base,
                                IF diagnosis.at = "clearing" THEN MeasureCPU ELSE {})
    BY <1>5 DEF Diagnosing!Moving, Diagnosing!session
  <2> QED BY <2>1, DiagnosisWalks DEF DiagnosisMovesATask
<1>6. CASE Diagnosing!TasksCleared
  <2>1. /\ UNCHANGED machine /\ stateFile' = stateFile
        /\ diagnosis'.at \in {"launching", "after"} /\ diagnosisDir'.recovery = diagnosisDir.recovery
        /\ scan' = [scan EXCEPT !["diagnose"] = NoScan]
    BY <1>6, DiagnosisOperators DEF Diagnosing!TasksCleared, Diagnosing!Launching, Diagnosing!Raising
  <2> QED BY <2>1 DEF DiagnosisMovesNone
<1>7. CASE Diagnosing!LaunchEnds
  <2>1. /\ UNCHANGED machine /\ scan' = scan /\ stateFile' = stateFile
        /\ diagnosis'.at \in {"counting", "after"} /\ diagnosisDir'.recovery = diagnosisDir.recovery
    BY <1>7 DEF Diagnosing!LaunchEnds, Diagnosing!Tables, Diagnosing!Raising
  <2> QED BY <2>1 DEF DiagnosisMovesNone
<1>8. CASE Diagnosing!LaunchCounted
  <2>1. UNCHANGED machine /\ scan' = scan /\ stateFile' = stateFile
    BY <1>8 DEF Diagnosing!LaunchCounted
  <2>2. \E rows : diagnosis' \in {[diagnosis EXCEPT !.at = "next", !.position = @ + 1, !.rows = rows],
                                 [Diagnosing!Raising EXCEPT !.rows = rows]}
    BY <1>8 DEF Diagnosing!LaunchCounted
  <2>3. diagnosis'.at \in {"next", "after"}
    BY <2>2 DEF Diagnosing!Raising
  <2>4. diagnosisDir'.recovery = diagnosisDir.recovery
    BY <1>8 DEF Diagnosing!LaunchCounted, Diagnosing!Tables
  <2> QED BY <2>1, <2>3, <2>4 DEF DiagnosisMovesNone
<1>9. CASE Diagnosing!After \/ Diagnosing!Left
  <2>1. /\ UNCHANGED machine /\ scan' = scan /\ UNCHANGED <<stateFile, diagnosisDir>>
        /\ diagnosis'.at \in {"leave", "session", "tables"}
    BY <1>9 DEF Diagnosing!After, Diagnosing!Left, Diagnosing!Archiving
  <2> QED BY <2>1 DEF DiagnosisMovesNone
<1>10. CASE Diagnosing!Leave
  <2>1. UNCHANGED machine /\ UNCHANGED <<stateFile, diagnosisDir>>
    BY <1>10 DEF Diagnosing!Leave
  <2>2. \/ diagnosis'.at = "restore" /\ scan' = scan
        \/ diagnosis'.at = "first" /\ scan' = [scan EXCEPT !["diagnose"] = Listing]
    BY <1>10, DiagnosisOperators DEF Diagnosing!Leave, Diagnosing!ApplyBegin
  <2> QED BY <2>1, <2>2 DEF DiagnosisMovesNone
<1>11. CASE Diagnosing!RestoreEnds
  <2>1. /\ UNCHANGED machine /\ UNCHANGED <<stateFile, diagnosisDir>>
        /\ scan' = [scan EXCEPT !["diagnose"] = Listing]
    BY <1>11, DiagnosisOperators DEF Diagnosing!RestoreEnds, Diagnosing!ApplyBegin
  <2> QED BY <2>1 DEF DiagnosisMovesNone
<1>12. CASE Diagnosing!PassEnds
  <2>1. UNCHANGED machine /\ stateFile' = stateFile /\ ApplyDone("diagnose")
    BY <1>12, DiagnosisOperators DEF Diagnosing!PassEnds
  <2>2. \/ diagnosis'.at = "second" /\ scan' = [scan EXCEPT !["diagnose"] = Listing] /\ diagnosisDir' = diagnosisDir
        \/ /\ diagnosis.at = "second" /\ diagnosis'.at = "left"
           /\ scan' = [scan EXCEPT !["diagnose"] = NoScan]
           /\ \/ diagnosisDir' = diagnosisDir
              \/ /\ ~diagnosis.errors /\ ~scan["diagnose"].changed
                 /\ diagnosisDir'.recovery = NoRecovery
    BY <1>12, DiagnosisOperators DEF Diagnosing!PassEnds, Diagnosing!ApplyBegin
  <2> QED BY <2>1, <2>2 DEF DiagnosisMovesNone
<1>13. CASE Diagnosing!Archive
  <2>1. /\ UNCHANGED machine /\ scan' = scan /\ stateFile' = stateFile
        /\ diagnosis'.at \in {"env", "pack", "purge", "ended"}
        /\ diagnosisDir'.recovery = diagnosisDir.recovery
    BY <1>13 DEF Diagnosing!Archive, Diagnosing!Tables, Diagnosing!Removed, Diagnosing!Gone
  <2> QED BY <2>1 DEF DiagnosisMovesNone
<1>14. CASE Diagnosing!Interrupt
  <2>1. /\ UNCHANGED machine /\ stateFile' = stateFile /\ diagnosisDir'.recovery = diagnosisDir.recovery
        /\ scan' = [scan EXCEPT !["diagnose"] = NoScan]
    BY <1>14, DiagnosisOperators DEF Diagnosing!Interrupt
  <2>2. \/ /\ diagnosis.at \in {"setup", "restore"}
           /\ diagnosis' = [diagnosis EXCEPT !.pending = TRUE]
        \/ diagnosis' = [diagnosis EXCEPT !.at = "left", !.errors = TRUE]
        \/ diagnosis' = [diagnosis EXCEPT !.at = "leave", !.raising = TRUE]
        \/ diagnosis' \in {Diagnosing!Archiving, Diagnosing!Gone, Diagnosing!Raising}
    BY <1>14 DEF Diagnosing!Interrupt
  <2>3. diagnosis'.at \notin DiagnosisWalking
    <3>1. diagnosis \in DiagnosisRecord
      OBVIOUS
    <3>2. CASE diagnosis.at \in {"setup", "restore"} /\ diagnosis' = [diagnosis EXCEPT !.pending = TRUE]
      <4>1. diagnosis'.at = diagnosis.at
        BY ONLY <3>1, <3>2 DEF DiagnosisRecord
      <4> QED BY <3>2, <4>1
    <3>3. CASE \/ diagnosis' = [diagnosis EXCEPT !.at = "left", !.errors = TRUE]
               \/ diagnosis' = [diagnosis EXCEPT !.at = "leave", !.raising = TRUE]
               \/ diagnosis' \in {Diagnosing!Archiving, Diagnosing!Gone, Diagnosing!Raising}
      <4>1. diagnosis'.at \in {"left", "leave", "tables", "ended", "after"}
        BY ONLY <3>1, <3>3 DEF DiagnosisRecord, Diagnosing!Archiving, Diagnosing!Gone, Diagnosing!Raising
      <4> QED BY <4>1
    <3> QED BY <2>2, <3>2, <3>3
  <2> QED BY <2>1, <2>3 DEF DiagnosisMovesNone
<1>15. CASE Diagnosing!Kill
  <2>1. /\ UNCHANGED machine /\ UNCHANGED <<stateFile, diagnosisDir>>
        /\ scan' = [scan EXCEPT !["diagnose"] = NoScan] /\ diagnosis'.at = "ended"
    BY <1>15, DiagnosisOperators DEF Diagnosing!Kill, Diagnosing!Gone
  <2> QED BY <2>1 DEF DiagnosisMovesNone
<1> QED BY <1>1, <1>2, <1>3, <1>4, <1>5, <1>6, <1>7, <1>8, <1>9, <1>10, <1>11, <1>12, <1>13, <1>14,
           <1>15 DEF Diagnosing!StudyStep, Diagnosing!Normal

\* The baseline that a session takes has CPUs for every task.
LEMMA BaselineSound ==
  ASSUME Tasks, Powered
  PROVE  Sound(Baseline)
<1>1. \A t \in Live : Effective(t) # {} /\ Effective(t) \subseteq CPU
  BY DEF Powered, Live, Effective, Tasks, MachineTypeOK
<1>2. Timely(Baseline)
  BY BaselineTimely
<1> QED BY <1>1, <1>2 DEF Sound, Baseline

\* Every step of bench_record.py,
LEMMA RecorderGivesBack ==
  ASSUME StudiesInv, ReturnInv, RecorderStep
  PROVE  ReturnInv'
<1>1. StudiesInv'
  BY RecorderKeepsAll
<1>2. /\ hand = "idle" /\ ~Runs(diagnosis) /\ UNCHANGED <<diagnosis, diagnosisDir, hand>>
      /\ ~Runs(recorder) => NoScriptRuns
  BY DEF RecorderStep, Starts, Quiet, StudiesInv, IInv, Alone
<1>3. RecorderMovesATask \/ RecorderMovesNone
  BY RecorderKinds DEF RecorderStep, Starts
<1>4. Tasks /\ Tasks' /\ "record" \in Clients /\ "record" \in Callers
  BY <1>1, CallersAssumption DEF StudiesInv, TasksInv
<1>5. CASE RecorderMovesATask
  <2> DEFINE exclude == IF recorder.at = "clearing" THEN MeasureCPU ELSE {}
  <2>1. /\ UNCHANGED <<recorder, recorderDir, stateFile, irqFile, script>>
        /\ recorder.at \in RecorderWalking
        /\ ApplyStep("record", recorder.base, exclude)
    BY <1>5 DEF RecorderMovesATask, modeVars
  <2>2. scan["record"].cpus = online
    BY <2>1 DEF ReturnInv, Walking
  <2>3. Powered' /\ scan'["record"].cpus = online'
    BY <1>4, <2>1, <2>2, WalkPowers DEF ReturnInv
  <2>4. births' = births
    BY <1>4, <2>1, WalkStep
  <2>5. ASSUME recorder.at = "second", stateFile = NoFile, recorder.base # NoRecovery
        PROVE  Returned("record", recorder.base)' /\ Led("record")'
    <3>1. PICK base : base = recorder.base
      OBVIOUS
    <3>2. Sound(base) /\ base # NoRecovery
      BY <2>5, <3>1 DEF ReturnInv, SoundFiles, StudiesInv, RecorderInv, RecorderFlags
    <3>3. online = CPU
      BY <2>5 DEF StudiesInv, IInv, ModeInv, FilesSound, Untouched
    <3>4. ApplyStep("record", base, {})
      BY <2>1, <2>5, <3>1
    <3>5. Returned("record", base) /\ Led("record")
      BY <2>5, <3>1 DEF ReturnInv, Returning
    <3>6. Returned("record", base)' /\ Led("record")'
      BY <1>4, <2>2, <3>2, <3>3, <3>4, <3>5, WalkReturns
    <3>7. recorder'.base = base
      BY <2>1, <3>1
    <3> QED BY <3>6, <3>7 DEF Returned, Matches
  <2>6. Returning'
    BY <1>2, <2>1, <2>5 DEF Returning, Runs
  <2>7. Walking'
    BY <1>2, <2>1, <2>3 DEF Walking, Runs, DiagnosisWalking
  <2>8. Scriptless' /\ SoundFiles'
    BY <1>2, <2>1, <2>4 DEF ReturnInv, Scriptless, Runs, SoundFiles, Sound, Timely
  <2> QED BY <2>3, <2>6, <2>7, <2>8 DEF ReturnInv
<1>6. CASE RecorderMovesNone
  <2> DEFINE listed == scan' = [scan EXCEPT !["record"] = Listing]
  <2>1. /\ UNCHANGED <<online, knob, task, births, stateFile>>
        /\ recorder'.at \in RecorderWalking => listed
        /\ recorderDir'.recovery \in {recorderDir.recovery, NoRecovery, Baseline}
        /\ \/ recorder'.at \in Waits \cup {"ended"}
           \/ script'["record"].at = "idle"
           \/ script' = script /\ recorder.at \notin Waits
    BY <1>6 DEF RecorderMovesNone, machine
  <2>2. Powered'
    BY <2>1 DEF ReturnInv, Powered, Effective
  <2>3. SoundFiles'
    <3>1. PICK base : base = recorderDir'.recovery
      OBVIOUS
    <3>2. Sound(base)
      BY <1>4, <2>1, <3>1, BaselineSound DEF ReturnInv, SoundFiles, Sound
    <3>3. Sound(base)' /\ Sound(diagnosisDir.recovery)'
      BY <1>2, <2>1, <3>2 DEF ReturnInv, SoundFiles, Sound, Timely
    <3> QED BY <3>1, <3>3 DEF SoundFiles, Sound, Timely
  <2>4. Scriptless'
    <3>1. "idle" \notin Running
      BY DEF Running, SetupSteps, RestoreSteps
    <3>2. recorder.at \notin Waits => script["record"].at \notin Running
      BY <1>2, <1>4 DEF ReturnInv, Scriptless, Waits, NoScriptRuns
    <3> QED BY <1>2, <2>1, <3>1, <3>2 DEF Scriptless, Runs, Waits
  <2>5. Walking'
    <3>1. listed => scan'["record"].cpus = online'
      BY <1>4, <2>1, WalkBegun DEF machine
    <3> QED BY <1>2, <2>1, <3>1 DEF Walking, Runs, DiagnosisWalking
  <2>6. ASSUME recorder'.at = "second", recorder'.base # NoRecovery
        PROVE  Returned("record", recorder.base)' /\ Led("record")'
    <3>1. PICK base : base = recorder'.base
      OBVIOUS
    <3>2. recorderDir'.recovery = base
      BY <1>1, <2>6, <3>1 DEF StudiesInv, RecorderInv, RecorderFlags
    <3>3. Timely(base)
      BY <2>1, <2>3, <2>6, <3>1, <3>2 DEF SoundFiles, Sound, Timely
    <3>4. listed
      BY <2>1, <2>6 DEF RecorderWalking
    <3>5. Returned("record", base)' /\ Led("record")'
      BY <1>4, <2>1, <3>3, <3>4, WalkBegun DEF machine
    <3> QED BY <3>1, <3>5 DEF Returned, Matches
  <2>7. Returning'
    BY <1>2, <2>6 DEF Returning, Runs
  <2> QED BY <2>2, <2>3, <2>4, <2>5, <2>7 DEF ReturnInv
<1> QED BY <1>3, <1>5, <1>6

\* of bench_diagnose.py,
LEMMA DiagnosisGivesBack ==
  ASSUME StudiesInv, ReturnInv, DiagnosisStep
  PROVE  ReturnInv'
<1>1. StudiesInv'
  BY DiagnosisKeepsAll
<1>2. hand = "idle" /\ ~Runs(recorder) /\ UNCHANGED <<recorder, recorderDir, hand>>
  BY DEF DiagnosisStep, Starts, Quiet, StudiesInv, IInv, Alone
<1>3. DiagnosisMovesATask \/ DiagnosisMovesNone
  BY DiagnosisKinds DEF DiagnosisStep, Starts
<1>4. Tasks /\ Tasks' /\ "diagnose" \in Clients
  BY <1>1, CallersAssumption DEF StudiesInv, TasksInv
<1>5. Scriptless'
  BY <1>2 DEF Scriptless, Runs
<1>6. CASE DiagnosisMovesATask
  <2> DEFINE exclude == IF diagnosis.at = "clearing" THEN MeasureCPU ELSE {}
  <2>1. /\ UNCHANGED <<diagnosis, diagnosisDir, stateFile, irqFile, script>>
        /\ diagnosis.at \in DiagnosisWalking
        /\ ApplyStep("diagnose", diagnosis.base, exclude)
    BY <1>6 DEF DiagnosisMovesATask, modeVars
  <2>2. scan["diagnose"].cpus = online
    BY <2>1 DEF ReturnInv, Walking
  <2>3. Powered' /\ scan'["diagnose"].cpus = online'
    BY <1>4, <2>1, <2>2, WalkPowers DEF ReturnInv
  <2>4. births' = births
    BY <1>4, <2>1, WalkStep
  <2>5. ASSUME diagnosis.at = "second", stateFile = NoFile, diagnosis.base # NoRecovery
        PROVE  Returned("diagnose", diagnosis.base)' /\ Led("diagnose")'
    <3>1. PICK base : base = diagnosis.base
      OBVIOUS
    <3>2. Sound(base) /\ base # NoRecovery
      BY <2>5, <3>1 DEF ReturnInv, SoundFiles, StudiesInv, DiagnosisInv, DiagnosisFlags
    <3>3. online = CPU
      BY <2>5 DEF StudiesInv, IInv, ModeInv, FilesSound, Untouched
    <3>4. ApplyStep("diagnose", base, {})
      BY <2>1, <2>5, <3>1
    <3>5. Returned("diagnose", base) /\ Led("diagnose")
      BY <2>5, <3>1 DEF ReturnInv, Returning
    <3>6. Returned("diagnose", base)' /\ Led("diagnose")'
      BY <1>4, <2>2, <3>2, <3>3, <3>4, <3>5, WalkReturns
    <3>7. diagnosis'.base = base
      BY <2>1, <3>1
    <3> QED BY <3>6, <3>7 DEF Returned, Matches
  <2>6. Returning'
    BY <1>2, <2>1, <2>5 DEF Returning, Runs
  <2>7. Walking'
    BY <1>2, <2>1, <2>3 DEF Walking, Runs, RecorderWalking
  <2>8. SoundFiles'
    BY <1>2, <2>1, <2>4 DEF ReturnInv, SoundFiles, Sound, Timely
  <2> QED BY <1>5, <2>3, <2>6, <2>7, <2>8 DEF ReturnInv
<1>7. CASE DiagnosisMovesNone
  <2> DEFINE listed == scan' = [scan EXCEPT !["diagnose"] = Listing]
  <2>1. /\ UNCHANGED <<online, knob, task, births, stateFile>>
        /\ diagnosis'.at \in DiagnosisWalking => listed
        /\ diagnosisDir'.recovery \in {diagnosisDir.recovery, NoRecovery, Baseline}
    BY <1>7 DEF DiagnosisMovesNone, machine
  <2>2. Powered'
    BY <2>1 DEF ReturnInv, Powered, Effective
  <2>3. SoundFiles'
    <3>1. PICK base : base = diagnosisDir'.recovery
      OBVIOUS
    <3>2. Sound(base)
      BY <1>4, <2>1, <3>1, BaselineSound DEF ReturnInv, SoundFiles, Sound
    <3>3. Sound(base)' /\ Sound(recorderDir.recovery)'
      BY <1>2, <2>1, <3>2 DEF ReturnInv, SoundFiles, Sound, Timely
    <3> QED BY <3>1, <3>3 DEF SoundFiles, Sound, Timely
  <2>4. Walking'
    <3>1. listed => scan'["diagnose"].cpus = online'
      BY <1>4, <2>1, WalkBegun DEF machine
    <3> QED BY <1>2, <2>1, <3>1 DEF Walking, Runs, RecorderWalking
  <2>5. ASSUME diagnosis'.at = "second", diagnosis'.base # NoRecovery
        PROVE  Returned("diagnose", diagnosis.base)' /\ Led("diagnose")'
    <3>1. PICK base : base = diagnosis'.base
      OBVIOUS
    <3>2. diagnosisDir'.recovery = base
      BY <1>1, <2>5, <3>1 DEF StudiesInv, DiagnosisInv, DiagnosisFlags
    <3>3. Timely(base)
      BY <2>1, <2>3, <2>5, <3>1, <3>2 DEF SoundFiles, Sound, Timely
    <3>4. listed
      BY <2>1, <2>5 DEF DiagnosisWalking
    <3>5. Returned("diagnose", base)' /\ Led("diagnose")'
      BY <1>4, <2>1, <3>3, <3>4, WalkBegun DEF machine
    <3> QED BY <3>1, <3>5 DEF Returned, Matches
  <2>6. Returning'
    BY <1>2, <2>5 DEF Returning, Runs
  <2> QED BY <1>5, <2>2, <2>3, <2>4, <2>6 DEF ReturnInv
<1> QED BY <1>3, <1>6, <1>7

\* setup leaves every task a CPU, restore takes none,
LEMMA ScriptsPower ==
  ASSUME StudiesInv, Powered, NEW c \in Callers, ScriptStep(c)
  PROVE  Powered'
<1>1. \/ task' = task /\ (online' = online \/ \E cpus : online' = online \cup cpus)
      \/ SetupOffline(c)
  BY DEF ScriptStep, Setup, SetupBegin, SetupOpen, SetupSave, SetupSaveIrqs, SetupTune,
     SetupParanoid, SetupSteer, SetupAppend, SetupVerify, Restore, RestoreBegin, RestoreOnline,
     RestoreIrqs, RestoreLimits, RestoreParanoid, RestoreRemove, Abort, machine
<1>2. CASE task' = task /\ (online' = online \/ \E cpus : online' = online \cup cpus)
  <2>1. online \subseteq online'
    BY <1>2
  <2> QED BY <1>2, <2>1 DEF Powered, Effective
<1>3. CASE SetupOffline(c)
  <2>1. script[c].at = "offline" /\ Offline(script[c].plan.offlined)
    BY <1>3 DEF SetupOffline, At
  <2>2. script[c].plan.offlined = Siblings
    BY <2>1 DEF StudiesInv, IInv, ModeInv, SetupUnderWay, Changing
  <2>3. online' = online \ Siblings /\ online' # {} /\ online' \subseteq CPU /\ CPU \ Siblings \subseteq online'
    BY <2>1, <2>2, CPUsDivide DEF Offline, Powered, StudiesInv, IInv, ModeInv
  <2>4. ASSUME NEW t \in Tid, task'[t] # NoTask PROVE Effective(t)' # {}
    <3>1. CASE task[t] # NoTask /\ task[t].mask \subseteq CPU \ online'
      <4>1. task'[t] = [task[t] EXCEPT !.mask = CPU] /\ task[t] \in Task
        BY <2>1, <3>1 DEF Offline, StudiesInv, TasksInv, Tasks, MachineTypeOK
      <4>2. task'[t].mask = CPU
        BY <4>1 DEF Task
      <4> QED BY <2>3, <4>2 DEF Effective
    <3>2. CASE ~(task[t] # NoTask /\ task[t].mask \subseteq CPU \ online')
      <4>1. task'[t] = task[t]
        BY <2>1, <3>2 DEF Offline
      <4>2. task[t] \in Task
        BY <2>4, <4>1 DEF StudiesInv, TasksInv, Tasks, MachineTypeOK
      <4> QED BY <2>4, <3>2, <4>1, <4>2 DEF Effective, Task
    <3> QED BY <3>1, <3>2
  <2> QED BY <2>3, <2>4 DEF Powered
<1> QED BY <1>1, <1>2, <1>3

\* and neither runs while somebody walks;
LEMMA ScriptsGiveBack ==
  ASSUME StudiesInv, TraceInv, ReturnInv, ScriptMoves
  PROVE  ReturnInv'
<1>1. PICK c \in Callers : ScriptStep(c)
  BY DEF ScriptMoves
<1>2. UNCHANGED <<scan, recorder, recorderDir, diagnosis, diagnosisDir, hand>>
  BY DEF ScriptMoves
<1>3. script[c].at \in Running /\ \A d \in Callers \ {c} : script'[d] = script[d]
  BY <1>1, ScriptMovesOn DEF StudiesInv, IInv
<1>4. /\ recorder.at \notin RecorderWalking /\ diagnosis.at \notin DiagnosisWalking
      /\ hand \notin {"record", "diagnose"}
  BY <1>3, CallersAssumption DEF StudiesInv, IInv, Alone, Runs, ReturnInv, Scriptless, TraceInv,
     RecorderWalking, DiagnosisWalking
<1>5. births' = births
  BY <1>1, <1>2, ScriptsKeepTasks, ScriptKeepsAll DEF StudiesInv, TasksInv, IInv
<1>6. Scriptless'
  BY <1>2, <1>3, <1>4, CallersAssumption DEF ReturnInv, Scriptless, Runs
<1>7. Powered'
  BY <1>1, ScriptsPower DEF ReturnInv
<1>8. SoundFiles'
  BY <1>2, <1>5 DEF ReturnInv, SoundFiles, Sound, Timely
<1>9. Walking' /\ Returning'
  BY <1>2, <1>4 DEF Walking, Returning, RecorderWalking, DiagnosisWalking
<1> QED BY <1>6, <1>7, <1>8, <1>9 DEF ReturnInv

\* a task that is born or ends changes no walk's account,
LEMMA TasksGiveBack ==
  ASSUME StudiesInv, ReturnInv, TasksComeAndGo
  PROVE  ReturnInv'
<1>1. /\ UNCHANGED <<scan, stateFile, script, recorder, recorderDir, diagnosis, diagnosisDir, hand>>
      /\ Fork \/ Exit
  BY DEF TasksComeAndGo, modeVars
<1>2. Tasks /\ {"record", "diagnose", "hand"} \subseteq Clients
  BY CallersAssumption DEF StudiesInv, TasksInv
<1>3. UNCHANGED online /\ births' \in Nat /\ births \in Nat /\ births' >= births
  BY <1>1, <1>2, ComeAndGo
<1>4. Powered'
  BY <1>1, <1>2, GoneKeeps DEF ReturnInv
<1>5. Scriptless' /\ SoundFiles' /\ Walking'
  BY <1>1, <1>3 DEF ReturnInv, Scriptless, Runs, SoundFiles, Sound, Timely, Walking
<1>6. ASSUME recorder.at = "second", stateFile = NoFile, recorder.base # NoRecovery
      PROVE  Returned("record", recorder.base)' /\ Led("record")'
  <2>1. PICK base : base = recorder.base
    OBVIOUS
  <2>2. Timely(base) /\ Returned("record", base) /\ Led("record")
    BY <1>6, <2>1 DEF ReturnInv, Returning, SoundFiles, Sound, StudiesInv, RecorderInv, RecorderFlags
  <2>3. Returned("record", base)' /\ Led("record")'
    BY <1>1, <1>2, <2>2, GoneReturns
  <2>4. recorder'.base = base
    BY <1>1, <2>1
  <2> QED BY <2>3, <2>4 DEF Returned, Matches
<1>7. ASSUME diagnosis.at = "second", stateFile = NoFile, diagnosis.base # NoRecovery
      PROVE  Returned("diagnose", diagnosis.base)' /\ Led("diagnose")'
  <2>1. PICK base : base = diagnosis.base
    OBVIOUS
  <2>2. Timely(base) /\ Returned("diagnose", base) /\ Led("diagnose")
    BY <1>7, <2>1 DEF ReturnInv, Returning, SoundFiles, Sound, StudiesInv, DiagnosisInv, DiagnosisFlags
  <2>3. Returned("diagnose", base)' /\ Led("diagnose")'
    BY <1>1, <1>2, <2>2, GoneReturns
  <2>4. diagnosis'.base = base
    BY <1>1, <2>1
  <2> QED BY <2>3, <2>4 DEF Returned, Matches
<1>8. ASSUME hand \in {"record", "diagnose"}
      PROVE  /\ stateFile' = NoFile
             /\ (LeftBy[hand] # NoRecovery /\ Returned("hand", LeftBy[hand]) /\ Led("hand"))'
  <2>1. PICK base : base = LeftBy[hand]
    OBVIOUS
  <2>2. stateFile = NoFile /\ base # NoRecovery /\ Returned("hand", base) /\ Led("hand")
    BY <1>8, <2>1 DEF ReturnInv, Returning
  <2>3. Timely(base)
    BY <1>8, <2>1, <2>2 DEF ReturnInv, SoundFiles, Sound, LeftBy
  <2>4. Returned("hand", base)' /\ Led("hand")'
    BY <1>1, <1>2, <2>2, <2>3, GoneReturns
  <2>5. LeftBy'[hand'] = base
    BY <1>1, <2>1 DEF LeftBy
  <2> QED BY <1>1, <2>2, <2>4, <2>5 DEF Returned, Matches
<1>9. Returning'
  BY <1>1, <1>6, <1>7, <1>8 DEF Returning
<1> QED BY <1>4, <1>5, <1>9 DEF ReturnInv

\* and recovery by hand begins when the siblings are back.
LEMMA HandGivesBack ==
  ASSUME StudiesInv, ReturnInv, HandStep
  PROVE  ReturnInv'
<1>1. UNCHANGED <<recorder, recorderDir, diagnosis, diagnosisDir>>
  BY DEF HandStep
<1>2. ~Runs(recorder) /\ ~Runs(diagnosis)
  BY DEF HandStep, RestoreByHand, AffinityByHand, LeftBy, Quiet, StudiesInv, IInv, Alone
<1>3. Tasks /\ "hand" \in Clients /\ "hand" \in Callers
  BY CallersAssumption DEF StudiesInv, TasksInv
<1>4. /\ recorder.at \notin RecorderWalking /\ diagnosis.at \notin DiagnosisWalking
      /\ recorder.at # "second" /\ diagnosis.at # "second"
  BY <1>2 DEF Runs, RecorderWalking, DiagnosisWalking
<1>5. CASE hand' \notin {"record", "diagnose"} /\ UNCHANGED <<online, knob, task, births>>
  BY <1>1, <1>2, <1>4, <1>5
     DEF ReturnInv, Scriptless, Runs, Powered, Effective, SoundFiles, Sound, Timely, Walking, Returning
<1>6. ASSUME NEW who \in {"record", "diagnose"}, hand' = who, LeftBy[who] # NoRecovery,
             stateFile = NoFile, stateFile' = stateFile, script' = script,
             script["hand"].at \notin Running,
             births' = births, Powered', scan'["hand"].cpus = online',
             Timely(LeftBy[who]), NEW base, base = LeftBy[who], Returned("hand", base)', Led("hand")'
      PROVE  ReturnInv'
  <2>1. LeftBy'[hand'] = base
    BY <1>1, <1>6 DEF LeftBy
  <2>2. Returned("hand", LeftBy[hand])'
    BY <1>6, <2>1 DEF Returned, Matches
  <2>3. Returning'
    BY <1>1, <1>4, <1>6, <2>1, <2>2 DEF Returning
  <2>4. Scriptless' /\ SoundFiles' /\ Walking'
    BY <1>1, <1>2, <1>4, <1>6 DEF ReturnInv, Scriptless, Runs, SoundFiles, Sound, Timely, Walking
  <2> QED BY <1>6, <2>3, <2>4 DEF ReturnInv
<1>7. CASE RestoreByHand
  BY <1>5, <1>7 DEF RestoreByHand, machine
<1>8. CASE AffinityByHand
  <2>1. PICK who \in {"record", "diagnose"} :
          /\ LeftBy[who] # NoRecovery
          /\ \/ /\ Quiet /\ stateFile = NoFile
                /\ hand' = who /\ ApplyBegin("hand")
                /\ UNCHANGED <<machine, modeVars>>
             \/ /\ hand = who /\ ApplyStep("hand", LeftBy[who], {})
                /\ UNCHANGED <<modeVars, hand>>
             \/ /\ hand = who /\ ApplyDone("hand")
                /\ hand' = "idle" /\ scan' = [scan EXCEPT !["hand"] = NoScan]
                /\ UNCHANGED <<machine, modeVars>>
    BY <1>8 DEF AffinityByHand, LeftBy
  <2>2. PICK base : base = LeftBy[who]
    OBVIOUS
  <2>3. Sound(base) /\ Timely(base) /\ base # NoRecovery
    BY <2>1, <2>2 DEF ReturnInv, SoundFiles, Sound, LeftBy
  <2>4. CASE Quiet /\ stateFile = NoFile /\ hand' = who /\ ApplyBegin("hand") /\ UNCHANGED <<machine, modeVars>>
    <3>1. UNCHANGED <<online, task, births, stateFile, script>>
      BY <2>4 DEF machine, modeVars
    <3>2. scan'["hand"].cpus = online' /\ Returned("hand", base)' /\ Led("hand")'
      BY <1>3, <2>3, <2>4, WalkBegun DEF ApplyBegin
    <3>3. Powered' /\ script["hand"].at \notin Running
      BY <1>3, <2>4, <3>1 DEF ReturnInv, Powered, Effective, Quiet, NoScriptRuns
    <3> QED BY <1>6, <2>1, <2>2, <2>3, <2>4, <3>1, <3>2, <3>3
  <2>5. CASE hand = who /\ ApplyStep("hand", LeftBy[who], {}) /\ UNCHANGED <<modeVars, hand>>
    <3>1. /\ ApplyStep("hand", base, {}) /\ UNCHANGED <<stateFile, script, hand>>
      BY <2>2, <2>5 DEF modeVars
    <3>2. /\ stateFile = NoFile /\ Returned("hand", base) /\ Led("hand") /\ scan["hand"].cpus = online
          /\ script["hand"].at \notin Running
      BY <2>2, <2>5 DEF ReturnInv, Returning, Walking, Scriptless
    <3>3. online = CPU
      BY <3>2 DEF StudiesInv, IInv, ModeInv, FilesSound, Untouched
    <3>4. Returned("hand", base)' /\ Led("hand")'
      BY <1>3, <2>3, <3>1, <3>2, <3>3, WalkReturns
    <3>5. Powered' /\ scan'["hand"].cpus = online'
      BY <1>3, <3>1, <3>2, WalkPowers DEF ReturnInv
    <3>6. births' = births
      BY <1>3, <3>1, WalkStep
    <3> QED BY <1>6, <2>1, <2>2, <2>3, <2>5, <3>1, <3>2, <3>4, <3>5, <3>6
  <2>6. CASE hand' = "idle" /\ UNCHANGED <<machine, modeVars>>
    BY <1>5, <2>6 DEF machine
  <2> QED BY <2>1, <2>4, <2>5, <2>6
<1> QED BY <1>7, <1>8 DEF HandStep

\* It holds of every behaviour, StudiesInv and TraceInv given.
LEMMA ReturnInvariance == Spec => []ReturnInv
<1>1. Init => ReturnInv
  <2> SUFFICES ASSUME Init PROVE ReturnInv
    OBVIOUS
  <2>1. /\ recorder.at = "idle" /\ diagnosis.at = "idle" /\ hand = "idle"
        /\ recorderDir.recovery = NoRecovery /\ diagnosisDir.recovery = NoRecovery
    BY DEF Init, Recording!StudyInit, Diagnosing!StudyInit, Recording!EmptyDirectory,
       Diagnosing!EmptyDirectory
  <2>2. Scriptless /\ SoundFiles /\ Walking /\ Returning
    BY <2>1 DEF Scriptless, Runs, SoundFiles, Sound, Walking, RecorderWalking, DiagnosisWalking,
       Returning
  <2>3. PICK second \in SecondTasks :
          task = [t \in Tid |->
                   CASE t = 1 -> [start |-> 0, leader |-> 1, mask |-> MeasureCPU, fixed |-> FALSE]
                     [] t = 2 -> second
                     [] OTHER -> NoTask]
    BY DEF Init, MachineInit
  <2>4. online = CPU /\ MeasureCPU # {} /\ MeasureCPU \subseteq CPU
    BY CPUsDivide DEF Init, MachineInit
  <2>5. second.mask # {} /\ second.mask \subseteq CPU
    BY <2>3, CPUsDivide DEF SecondTasks, SecondTask
  <2>6. \A t \in Tid : task[t] # NoTask => Effective(t) # {}
    <3>1. ASSUME NEW t \in Tid, task[t] # NoTask PROVE Effective(t) # {}
      <4>1. CASE t = 1
        <5>1. task[t].mask = MeasureCPU
          BY <2>3, <4>1
        <5> QED BY <2>4, <5>1 DEF Effective
      <4>2. CASE t = 2
        <5>1. task[t] = second
          BY <2>3, <4>2
        <5> QED BY <2>4, <2>5, <5>1 DEF Effective
      <4>3. CASE t \notin {1, 2}
        BY <2>3, <3>1, <4>3
      <4> QED BY <4>1, <4>2, <4>3
    <3> QED BY <3>1
  <2> QED BY <2>2, <2>4, <2>6 DEF ReturnInv, Powered
<1>2. ReturnInv /\ StudiesInv /\ TraceInv /\ [Next]_vars => ReturnInv'
  <2> SUFFICES ASSUME ReturnInv, StudiesInv, TraceInv, [Next]_vars PROVE ReturnInv'
    OBVIOUS
  <2>1. CASE Next
    BY <2>1, RecorderGivesBack, DiagnosisGivesBack, ScriptsGiveBack, TasksGiveBack, HandGivesBack
       DEF Next
  <2>2. CASE UNCHANGED vars
    <3>1. UNCHANGED <<online, task, births, stateFile, script, scan, recorder, recorderDir, diagnosis,
                      diagnosisDir, hand>>
      BY <2>2 DEF vars, machine, modeVars
    <3>2. Scriptless' /\ Powered' /\ SoundFiles' /\ Walking'
      BY <3>1 DEF ReturnInv, Scriptless, Runs, Powered, Effective, SoundFiles, Sound, Timely, Walking
    <3>3. Returning'
      BY <3>1 DEF ReturnInv, Returning, Returned, Led, Settled, Matches, Ahead, Effective, LeftBy
    <3> QED BY <3>2, <3>3 DEF ReturnInv
  <2> QED BY <2>1, <2>2
<1> QED BY <1>1, <1>2, StudiesInvariance, TraceInvariance, PTL DEF Spec

\* When the walk is over nothing is ahead.
LEMMA WalkOver ==
  ASSUME NEW c, NEW base, Returned(c, base), Settled(c), ApplyDone(c)
  PROVE  AtBaseline(base)
BY DEF Returned, Ahead, ApplyDone, AtBaseline

\* The recovery file goes only after bench_record.py has tried to leave measurement
\* mode, and when the tasks it lists have the CPUs they had before setup: with
\* bench_record.py when the mode was left and its second pass changed nothing, with
\* bench_diagnose.py always, and by hand when there was nothing to change; or with no
\* task born, whatever was changed.  Tasks fork, end and take each other's numbers
\* between any two steps of the walks.
THEOREM GivenBack == Spec => BaselineGivenBack
<1> DEFINE Back ==
      /\ Dropped(recorderDir, recorderDir') => ~recorder.entered
      /\ Dropped(recorderDir, recorderDir') /\ stateFile = NoFile /\ Settled("record") =>
           AtBaseline(recorderDir.recovery)
      /\ Dropped(diagnosisDir, diagnosisDir') =>
           stateFile = NoFile /\ AtBaseline(diagnosisDir.recovery)
      /\ hand \in DOMAIN LeftBy /\ hand' = "idle" /\ Settled("hand") => AtBaseline(LeftBy[hand])
<1>1. StudiesInv /\ TraceInv /\ ReturnInv /\ [Next]_vars => [Back]_vars
  <2> SUFFICES ASSUME StudiesInv, TraceInv, ReturnInv, Next PROVE Back
    OBVIOUS
  <2>1. ASSUME Dropped(recorderDir, recorderDir')
        PROVE  /\ ~recorder.entered
               /\ stateFile = NoFile /\ Settled("record") => AtBaseline(recorderDir.recovery)
    <3>1. RecorderStep
      BY <2>1 DEF Next, Dropped, DiagnosisStep, ScriptMoves, TasksComeAndGo, HandStep
    <3>2. RecorderMovesATask \/ RecorderMovesNone
      BY <3>1, RecorderKinds DEF RecorderStep, Starts
    <3>3. recorder.at = "second" /\ ApplyDone("record")
      BY <2>1, <3>2 DEF Dropped, RecorderMovesATask, RecorderMovesNone
    <3>4. recorder.base = recorderDir.recovery /\ recorder.base # NoRecovery
      BY <2>1, <3>3 DEF Dropped, StudiesInv, RecorderInv, RecorderFlags
    <3>5. stateFile = NoFile => Returned("record", recorderDir.recovery)
      BY <3>3, <3>4 DEF ReturnInv, Returning
    <3>6. ~recorder.entered
      BY <3>3 DEF StudiesInv, RecorderInv, RecorderFlags
    <3> QED BY <3>3, <3>5, <3>6, WalkOver
  <2>2. ASSUME Dropped(diagnosisDir, diagnosisDir')
        PROVE  stateFile = NoFile /\ AtBaseline(diagnosisDir.recovery)
    <3>1. DiagnosisStep
      BY <2>2 DEF Next, Dropped, RecorderStep, ScriptMoves, TasksComeAndGo, HandStep
    <3>2. DiagnosisMovesATask \/ DiagnosisMovesNone
      BY <3>1, DiagnosisKinds DEF DiagnosisStep, Starts
    <3>3. /\ diagnosis.at = "second" /\ ApplyDone("diagnose")
          /\ ~diagnosis.errors /\ ~scan["diagnose"].changed
      BY <2>2, <3>2 DEF Dropped, DiagnosisMovesATask, DiagnosisMovesNone
    <3>4. diagnosis.base = diagnosisDir.recovery /\ diagnosis.base # NoRecovery
      BY <2>2, <3>3 DEF Dropped, StudiesInv, DiagnosisInv, DiagnosisFlags
    <3>5. stateFile = NoFile
      BY <3>3 DEF TraceInv
    <3>6. Returned("diagnose", diagnosisDir.recovery) /\ Settled("diagnose")
      BY <3>3, <3>4, <3>5 DEF ReturnInv, Returning, Settled
    <3> QED BY <3>3, <3>5, <3>6, WalkOver
  <2>3. ASSUME hand \in DOMAIN LeftBy, hand' = "idle", Settled("hand")
        PROVE  AtBaseline(LeftBy[hand])
    <3>1. hand \in {"record", "diagnose"}
      BY <2>3 DEF LeftBy
    <3>2. AffinityByHand
      BY <2>3, <3>1 DEF Next, RecorderStep, DiagnosisStep, ScriptMoves, TasksComeAndGo, HandStep,
         RestoreByHand, Quiet
    <3>3. ApplyDone("hand")
      BY <2>3, <3>1, <3>2 DEF AffinityByHand, Quiet
    <3>4. Returned("hand", LeftBy[hand])
      BY <3>1 DEF ReturnInv, Returning
    <3> QED BY <2>3, <3>3, <3>4, WalkOver
  <2> QED BY <2>1, <2>2, <2>3
<1> QED BY <1>1, StudiesInvariance, TraceInvariance, ReturnInvariance, PTL DEF Spec, BaselineGivenBack
==============================================================================
