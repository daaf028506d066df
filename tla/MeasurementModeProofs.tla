------------------------ MODULE MeasurementModeProofs ------------------------
(***************************************************************************)
(* A script of measurement mode that has the machine to itself keeps it    *)
(* restorable, wherever it is ended.                                       *)
(***************************************************************************)
EXTENDS MeasurementMode, TLAPS

\* Nothing of measurement mode is on.
Untouched ==
  /\ knob.power = "usual" /\ knob.paranoid # "measuring" /\ knob.irq = "usual"
  /\ online = CPU

\* The files never say that measurement mode is what to go back to.
FilesSound ==
  /\ irqFile \in {NoFile, "usual"}
  /\ stateFile = NoFile => Untouched
  /\ stateFile # NoFile => stateFile.power # "measuring" /\ stateFile.paranoid # "measuring"

Saving == {"open", "save", "saveIrqs", "tune"}
Changing == {"tune", "offline", "paranoid", "steer", "append", "verify"}

\* Nothing is changed before everything is saved.
SetupUnderWay(c) ==
  /\ script[c].at \in Saving => Untouched
  /\ script[c].at = "open" => stateFile = NoFile
  /\ script[c].at = "offline" => online = CPU
  /\ script[c].at \in Saving \cup Changing => script[c].plan.offlined = Siblings
  /\ script[c].at = "save" => stateFile # NoFile
  /\ script[c].at \in Changing \cup {"saveIrqs"} =>
       /\ stateFile # NoFile /\ stateFile.power = "usual"
       /\ stateFile.paranoid \in {"usual", "strict"} /\ stateFile.offlined = Siblings
  /\ script[c].at \in Changing => irqFile = "usual"

\* What restore has put back so far; it has loaded all that the files say.
RestoreUnderWay(c) ==
  script[c].at \in RestoreSteps \ {"restore"} =>
    /\ stateFile # NoFile
    /\ script[c].plan.power = stateFile.power /\ script[c].plan.irq = irqFile
    /\ script[c].plan.offlined = stateFile.offlined
    /\ script[c].plan.paranoid \in {"usual", "strict"}
    /\ script[c].at # "online" => online = CPU
    /\ script[c].at \in {"limits", "permit", "remove"} => knob.irq = "usual"
    /\ script[c].at \in {"permit", "remove"} => knob.power = "usual"
    /\ script[c].at = "remove" => knob.paranoid # "measuring"

ModeInv ==
  /\ online \subseteq CPU /\ knob \in KnobValues
  /\ ModeTypeOK
  /\ RestorableMachine
  /\ FilesSound
  /\ \A c \in Callers : SetupUnderWay(c) /\ RestoreUnderWay(c)

Sole(c) == \A d \in Callers \ {c} : script[d].at \notin Running

------------------------------------------------------------------------------
\* A script that does not run claims nothing of the machine.
LEMMA OthersKeep ==
  ASSUME NEW c \in Callers, Sole(c), \A d \in Callers \ {c} : script'[d] = script[d]
  PROVE  \A d \in Callers \ {c} : SetupUnderWay(d)' /\ RestoreUnderWay(d)'
<1> SUFFICES ASSUME NEW d \in Callers \ {c} PROVE SetupUnderWay(d)' /\ RestoreUnderWay(d)'
  OBVIOUS
<1>1. script'[d].at \notin Running
  BY DEF Sole
<1> QED BY <1>1 DEF SetupUnderWay, RestoreUnderWay, Running, SetupSteps, RestoreSteps, Saving,
     Changing

\* What is left to show of a step of one script.
LEMMA OwnSuffices ==
  ASSUME NEW c \in Callers, Sole(c), \A d \in Callers \ {c} : script'[d] = script[d],
         online' \subseteq CPU, knob' \in KnobValues, ModeTypeOK',
         RestorableMachine', FilesSound', SetupUnderWay(c)', RestoreUnderWay(c)'
  PROVE  ModeInv'
BY OthersKeep DEF ModeInv

\* Where `c` goes on, with the plan it has, and where it ends.
LEMMA GotoMoves ==
  ASSUME ModeTypeOK, NEW c \in Callers, NEW step \in Running, Goto(c, step)
  PROVE  /\ script' \in [Callers -> Scripts]
         /\ script'[c].at = step /\ script'[c].plan = script[c].plan
         /\ \A d \in Callers \ {c} : script'[d] = script[d]
BY DEF ModeTypeOK, Scripts, Goto

\* A script that finishes forgets its plan.
LEMMA FinishMoves ==
  ASSUME ModeTypeOK, NEW c \in Callers, NEW result \in {"idle", "done", "failed"}, Finish(c, result)
  PROVE  /\ script' \in [Callers -> Scripts]
         /\ script'[c].at = result
         /\ \A d \in Callers \ {c} : script'[d] = script[d]
<1>1. NoPlan \in Plan
  BY DEF NoPlan, Plan, Unknown
<1> QED BY <1>1 DEF ModeTypeOK, Scripts, Finish

\* The file is there, and has no lines yet.
LEMMA SetupOpenKeeps ==
  ASSUME ModeInv, NEW c \in Callers, Sole(c), SetupOpen(c), UNCHANGED faults
  PROVE  ModeInv'
<1>1. /\ script' \in [Callers -> Scripts]
      /\ script'[c].at = "save" /\ script'[c].plan = script[c].plan
      /\ \A d \in Callers \ {c} : script'[d] = script[d]
  <2>1. "save" \in Running /\ Goto(c, "save")
    BY DEF SetupOpen, Running, SetupSteps, RestoreSteps
  <2> QED BY <2>1, GotoMoves DEF ModeInv
<1>2. online' \subseteq CPU /\ knob' \in KnobValues
  BY DEF ModeInv, ModeTypeOK, Scripts, KnobValues, SetupOpen, machine, EmptyState, Unknown
<1>3. ModeTypeOK'
  BY <1>1 DEF ModeInv, ModeTypeOK, Scripts, SavedState, SetupOpen, machine, EmptyState, Unknown
<1>4. SetupUnderWay(c) /\ RestoreUnderWay(c)
  BY DEF ModeInv
<1>5. RestorableMachine' /\ FilesSound' /\ SetupUnderWay(c)' /\ RestoreUnderWay(c)'
  <2> USE <1>1, <1>4, NoFileAssumption, CPUsDivide DEF ModeInv, ModeTypeOK, Scripts, KnobValues,
       SavedState, RestorableMachine, FilesSound, Untouched, SetupUnderWay, RestoreUnderWay, Running,
       SetupSteps, RestoreSteps, Saving, Changing, At, SetupOpen, machine, EmptyState, Unknown
  <2>1. RestorableMachine'
    OBVIOUS
  <2>2. FilesSound'
    OBVIOUS
  <2>3. SetupUnderWay(c)' /\ RestoreUnderWay(c)'
    OBVIOUS
  <2> QED BY <2>1, <2>2, <2>3
<1> QED BY <1>1, <1>2, <1>3, <1>5, OwnSuffices

\* The settings saved are the usual ones.
LEMMA SetupSaveKeeps ==
  ASSUME ModeInv, NEW c \in Callers, Sole(c), SetupSave(c), UNCHANGED faults
  PROVE  ModeInv'
<1>1. /\ script' \in [Callers -> Scripts]
      /\ script'[c].at = "saveIrqs" /\ script'[c].plan = script[c].plan
      /\ \A d \in Callers \ {c} : script'[d] = script[d]
  <2>1. "saveIrqs" \in Running /\ Goto(c, "saveIrqs")
    BY DEF SetupSave, Running, SetupSteps, RestoreSteps
  <2> QED BY <2>1, GotoMoves DEF ModeInv
<1>2. online' \subseteq CPU /\ knob' \in KnobValues
  BY DEF ModeInv, ModeTypeOK, Scripts, KnobValues, SetupSave, machine, Unknown
<1>3. ModeTypeOK'
  BY <1>1 DEF ModeInv, ModeTypeOK, Scripts, SavedState, SetupSave, machine, Unknown, KnobValues,
       Plan
<1>4. SetupUnderWay(c) /\ RestoreUnderWay(c)
  BY DEF ModeInv
<1>5. RestorableMachine' /\ FilesSound' /\ SetupUnderWay(c)' /\ RestoreUnderWay(c)'
  <2> USE <1>1, <1>4, NoFileAssumption, CPUsDivide DEF ModeInv, ModeTypeOK, Scripts, KnobValues,
       SavedState, RestorableMachine, FilesSound, Untouched, SetupUnderWay, RestoreUnderWay, Running,
       SetupSteps, RestoreSteps, Saving, Changing, At, SetupSave, machine, Unknown
  <2>1. RestorableMachine'
    OBVIOUS
  <2>2. FilesSound'
    OBVIOUS
  <2>3. SetupUnderWay(c)' /\ RestoreUnderWay(c)'
    OBVIOUS
  <2> QED BY <2>1, <2>2, <2>3
<1> QED BY <1>1, <1>2, <1>3, <1>5, OwnSuffices

\* So are the interrupt masks.
LEMMA SetupSaveIrqsKeeps ==
  ASSUME ModeInv, NEW c \in Callers, Sole(c), SetupSaveIrqs(c), UNCHANGED faults
  PROVE  ModeInv'
<1>1. /\ script' \in [Callers -> Scripts]
      /\ script'[c].at = "tune" /\ script'[c].plan = script[c].plan
      /\ \A d \in Callers \ {c} : script'[d] = script[d]
  <2>1. "tune" \in Running /\ Goto(c, "tune")
    BY DEF SetupSaveIrqs, Running, SetupSteps, RestoreSteps
  <2> QED BY <2>1, GotoMoves DEF ModeInv
<1>2. online' \subseteq CPU /\ knob' \in KnobValues
  BY DEF ModeInv, ModeTypeOK, Scripts, KnobValues, SetupSaveIrqs, machine
<1>3. ModeTypeOK'
  BY <1>1 DEF ModeInv, ModeTypeOK, Scripts, SavedState, SetupSaveIrqs, machine, KnobValues
<1>4. SetupUnderWay(c) /\ RestoreUnderWay(c)
  BY DEF ModeInv
<1>5. RestorableMachine' /\ FilesSound' /\ SetupUnderWay(c)' /\ RestoreUnderWay(c)'
  <2> USE <1>1, <1>4, NoFileAssumption, CPUsDivide DEF ModeInv, ModeTypeOK, Scripts, KnobValues,
       SavedState, RestorableMachine, FilesSound, Untouched, SetupUnderWay, RestoreUnderWay, Running,
       SetupSteps, RestoreSteps, Saving, Changing, At, SetupSaveIrqs, machine
  <2>1. RestorableMachine'
    OBVIOUS
  <2>2. FilesSound'
    OBVIOUS
  <2>3. SetupUnderWay(c)' /\ RestoreUnderWay(c)'
    OBVIOUS
  <2> QED BY <2>1, <2>2, <2>3
<1> QED BY <1>1, <1>2, <1>3, <1>5, OwnSuffices

\* From here on the files are complete.
LEMMA SetupTuneKeeps ==
  ASSUME ModeInv, NEW c \in Callers, Sole(c), SetupTune(c), UNCHANGED faults
  PROVE  ModeInv'
<1>1. /\ script' \in [Callers -> Scripts]
      /\ script'[c].at = "offline" /\ script'[c].plan = script[c].plan
      /\ \A d \in Callers \ {c} : script'[d] = script[d]
  <2>1. "offline" \in Running /\ Goto(c, "offline")
    BY DEF SetupTune, Running, SetupSteps, RestoreSteps
  <2> QED BY <2>1, GotoMoves DEF ModeInv
<1>2. online' \subseteq CPU /\ knob' \in KnobValues
  BY DEF ModeInv, ModeTypeOK, Scripts, KnobValues, SetupTune, machine, Tuned
<1>3. ModeTypeOK'
  BY <1>1 DEF ModeInv, ModeTypeOK, Scripts, SavedState, SetupTune, machine, Tuned
<1>4. SetupUnderWay(c) /\ RestoreUnderWay(c)
  BY DEF ModeInv
<1>5. RestorableMachine' /\ FilesSound' /\ SetupUnderWay(c)' /\ RestoreUnderWay(c)'
  <2> USE <1>1, <1>4, NoFileAssumption, CPUsDivide DEF ModeInv, ModeTypeOK, Scripts, KnobValues,
       SavedState, RestorableMachine, FilesSound, Untouched, SetupUnderWay, RestoreUnderWay, Running,
       SetupSteps, RestoreSteps, Saving, Changing, At, SetupTune, machine, Tuned
  <2>1. RestorableMachine'
    OBVIOUS
  <2>2. FilesSound'
    OBVIOUS
  <2>3. SetupUnderWay(c)' /\ RestoreUnderWay(c)'
    OBVIOUS
  <2> QED BY <2>1, <2>2, <2>3
<1> QED BY <1>1, <1>2, <1>3, <1>5, OwnSuffices

\* What goes offline is what was noted.
LEMMA SetupOfflineKeeps ==
  ASSUME ModeInv, NEW c \in Callers, Sole(c), SetupOffline(c), UNCHANGED faults
  PROVE  ModeInv'
<1>1. /\ script' \in [Callers -> Scripts]
      /\ script'[c].at = "paranoid" /\ script'[c].plan = script[c].plan
      /\ \A d \in Callers \ {c} : script'[d] = script[d]
  <2>1. "paranoid" \in Running /\ Goto(c, "paranoid")
    BY DEF SetupOffline, Running, SetupSteps, RestoreSteps
  <2> QED BY <2>1, GotoMoves DEF ModeInv
<1>2. online' \subseteq CPU /\ knob' \in KnobValues
  BY DEF ModeInv, ModeTypeOK, Scripts, KnobValues, SetupOffline, machine, Offline
<1>3. ModeTypeOK'
  BY <1>1 DEF ModeInv, ModeTypeOK, Scripts, SavedState, SetupOffline, machine, Offline
<1>4. SetupUnderWay(c) /\ RestoreUnderWay(c)
  BY DEF ModeInv
<1>5. RestorableMachine' /\ FilesSound' /\ SetupUnderWay(c)' /\ RestoreUnderWay(c)'
  <2> USE <1>1, <1>4, NoFileAssumption, CPUsDivide DEF ModeInv, ModeTypeOK, Scripts, KnobValues,
       SavedState, RestorableMachine, FilesSound, Untouched, SetupUnderWay, RestoreUnderWay, Running,
       SetupSteps, RestoreSteps, Saving, Changing, At, SetupOffline, machine, Offline
  <2>1. RestorableMachine'
    OBVIOUS
  <2>2. FilesSound'
    OBVIOUS
  <2>3. SetupUnderWay(c)' /\ RestoreUnderWay(c)'
    OBVIOUS
  <2> QED BY <2>1, <2>2, <2>3
<1> QED BY <1>1, <1>2, <1>3, <1>5, OwnSuffices

\* Another setting.
LEMMA SetupParanoidKeeps ==
  ASSUME ModeInv, NEW c \in Callers, Sole(c), SetupParanoid(c), UNCHANGED faults
  PROVE  ModeInv'
<1>1. /\ script' \in [Callers -> Scripts]
      /\ script'[c].at = "steer" /\ script'[c].plan = script[c].plan
      /\ \A d \in Callers \ {c} : script'[d] = script[d]
  <2>1. "steer" \in Running /\ Goto(c, "steer")
    BY DEF SetupParanoid, Running, SetupSteps, RestoreSteps
  <2> QED BY <2>1, GotoMoves DEF ModeInv
<1>2. online' \subseteq CPU /\ knob' \in KnobValues
  BY DEF ModeInv, ModeTypeOK, Scripts, KnobValues, SetupParanoid, machine, Permitted
<1>3. ModeTypeOK'
  BY <1>1 DEF ModeInv, ModeTypeOK, Scripts, SavedState, SetupParanoid, machine, Permitted
<1>4. SetupUnderWay(c) /\ RestoreUnderWay(c)
  BY DEF ModeInv
<1>5. RestorableMachine' /\ FilesSound' /\ SetupUnderWay(c)' /\ RestoreUnderWay(c)'
  <2> USE <1>1, <1>4, NoFileAssumption, CPUsDivide DEF ModeInv, ModeTypeOK, Scripts, KnobValues,
       SavedState, RestorableMachine, FilesSound, Untouched, SetupUnderWay, RestoreUnderWay, Running,
       SetupSteps, RestoreSteps, Saving, Changing, At, SetupParanoid, machine, Permitted
  <2>1. RestorableMachine'
    OBVIOUS
  <2>2. FilesSound'
    OBVIOUS
  <2>3. SetupUnderWay(c)' /\ RestoreUnderWay(c)'
    OBVIOUS
  <2> QED BY <2>1, <2>2, <2>3
<1> QED BY <1>1, <1>2, <1>3, <1>5, OwnSuffices

\* Interrupts may or may not move.
LEMMA SetupSteerKeeps ==
  ASSUME ModeInv, NEW c \in Callers, Sole(c), SetupSteer(c), UNCHANGED faults
  PROVE  ModeInv'
<1>1. /\ script' \in [Callers -> Scripts]
      /\ script'[c].at = "append" /\ script'[c].plan = script[c].plan
      /\ \A d \in Callers \ {c} : script'[d] = script[d]
  <2>1. "append" \in Running /\ Goto(c, "append")
    BY DEF SetupSteer, Running, SetupSteps, RestoreSteps
  <2> QED BY <2>1, GotoMoves DEF ModeInv
<1>2. online' \subseteq CPU /\ knob' \in KnobValues
  BY DEF ModeInv, ModeTypeOK, Scripts, KnobValues, SetupSteer, machine
<1>3. ModeTypeOK'
  BY <1>1 DEF ModeInv, ModeTypeOK, Scripts, SavedState, SetupSteer, machine
<1>4. SetupUnderWay(c) /\ RestoreUnderWay(c)
  BY DEF ModeInv
<1>5. RestorableMachine' /\ FilesSound' /\ SetupUnderWay(c)' /\ RestoreUnderWay(c)'
  <2> USE <1>1, <1>4, NoFileAssumption, CPUsDivide DEF ModeInv, ModeTypeOK, Scripts, KnobValues,
       SavedState, RestorableMachine, FilesSound, Untouched, SetupUnderWay, RestoreUnderWay, Running,
       SetupSteps, RestoreSteps, Saving, Changing, At, SetupSteer, machine
  <2>1. RestorableMachine'
    OBVIOUS
  <2>2. FilesSound'
    OBVIOUS
  <2>3. SetupUnderWay(c)' /\ RestoreUnderWay(c)'
    OBVIOUS
  <2> QED BY <2>1, <2>2, <2>3
<1> QED BY <1>1, <1>2, <1>3, <1>5, OwnSuffices

\* The file is there already.
LEMMA SetupAppendKeeps ==
  ASSUME ModeInv, NEW c \in Callers, Sole(c), SetupAppend(c), UNCHANGED faults
  PROVE  ModeInv'
<1>1. /\ script' \in [Callers -> Scripts]
      /\ script'[c].at = "verify" /\ script'[c].plan = script[c].plan
      /\ \A d \in Callers \ {c} : script'[d] = script[d]
  <2>1. "verify" \in Running /\ Goto(c, "verify")
    BY DEF SetupAppend, Running, SetupSteps, RestoreSteps
  <2> QED BY <2>1, GotoMoves DEF ModeInv
<1>2. online' \subseteq CPU /\ knob' \in KnobValues
  BY DEF ModeInv, ModeTypeOK, Scripts, KnobValues, SetupAppend, machine, EmptyState, Unknown
<1>3. ModeTypeOK'
  BY <1>1 DEF ModeInv, ModeTypeOK, Scripts, SavedState, SetupAppend, machine, EmptyState,
       Unknown
<1>4. SetupUnderWay(c) /\ RestoreUnderWay(c)
  BY DEF ModeInv
<1>5. RestorableMachine' /\ FilesSound' /\ SetupUnderWay(c)' /\ RestoreUnderWay(c)'
  <2> USE <1>1, <1>4, NoFileAssumption, CPUsDivide DEF ModeInv, ModeTypeOK, Scripts, KnobValues,
       SavedState, RestorableMachine, FilesSound, Untouched, SetupUnderWay, RestoreUnderWay, Running,
       SetupSteps, RestoreSteps, Saving, Changing, At, SetupAppend, machine, EmptyState, Unknown
  <2>1. RestorableMachine'
    OBVIOUS
  <2>2. FilesSound'
    OBVIOUS
  <2>3. SetupUnderWay(c)' /\ RestoreUnderWay(c)'
    OBVIOUS
  <2> QED BY <2>1, <2>2, <2>3
<1> QED BY <1>1, <1>2, <1>3, <1>5, OwnSuffices

\* Whatever was offline is online.
LEMMA RestoreOnlineKeeps ==
  ASSUME ModeInv, NEW c \in Callers, Sole(c), RestoreOnline(c), UNCHANGED faults
  PROVE  ModeInv'
<1>1. /\ script' \in [Callers -> Scripts]
      /\ script'[c].at = "irqs" /\ script'[c].plan = script[c].plan
      /\ \A d \in Callers \ {c} : script'[d] = script[d]
  <2>1. "irqs" \in Running /\ Goto(c, "irqs")
    BY DEF RestoreOnline, Running, SetupSteps, RestoreSteps
  <2> QED BY <2>1, GotoMoves DEF ModeInv
<1>2. online' \subseteq CPU /\ knob' \in KnobValues
  BY DEF ModeInv, ModeTypeOK, Scripts, KnobValues, RestoreOnline, machine, Plan
<1>3. ModeTypeOK'
  BY <1>1 DEF ModeInv, ModeTypeOK, Scripts, SavedState, RestoreOnline, machine
<1>4. SetupUnderWay(c) /\ RestoreUnderWay(c)
  BY DEF ModeInv
<1>5. RestorableMachine' /\ FilesSound' /\ SetupUnderWay(c)' /\ RestoreUnderWay(c)'
  <2> USE <1>1, <1>4, NoFileAssumption, CPUsDivide DEF ModeInv, ModeTypeOK, Scripts, KnobValues,
       SavedState, RestorableMachine, FilesSound, Untouched, SetupUnderWay, RestoreUnderWay, Running,
       SetupSteps, RestoreSteps, Saving, Changing, At, RestoreOnline, machine
  <2>1. RestorableMachine'
    OBVIOUS
  <2>2. FilesSound'
    OBVIOUS
  <2>3. SetupUnderWay(c)' /\ RestoreUnderWay(c)'
    OBVIOUS
  <2> QED BY <2>1, <2>2, <2>3
<1> QED BY <1>1, <1>2, <1>3, <1>5, OwnSuffices

\* With the siblings back the mask is accepted.
LEMMA RestoreIrqsKeeps ==
  ASSUME ModeInv, NEW c \in Callers, Sole(c), RestoreIrqs(c), UNCHANGED faults
  PROVE  ModeInv'
<1>1. /\ script' \in [Callers -> Scripts]
      /\ script'[c].at = "limits" /\ script'[c].plan = script[c].plan
      /\ \A d \in Callers \ {c} : script'[d] = script[d]
  <2>1. "limits" \in Running /\ Goto(c, "limits")
    BY DEF RestoreIrqs, Running, SetupSteps, RestoreSteps
  <2> QED BY <2>1, GotoMoves DEF ModeInv
<1>2. online' \subseteq CPU /\ knob' \in KnobValues
  BY DEF ModeInv, ModeTypeOK, Scripts, KnobValues, RestoreIrqs, machine, IrqAccepted, Plan
<1>3. ModeTypeOK'
  BY <1>1 DEF ModeInv, ModeTypeOK, Scripts, SavedState, RestoreIrqs, machine, IrqAccepted
<1>4. SetupUnderWay(c) /\ RestoreUnderWay(c)
  BY DEF ModeInv
<1>5. RestorableMachine' /\ FilesSound' /\ SetupUnderWay(c)' /\ RestoreUnderWay(c)'
  <2> USE <1>1, <1>4, NoFileAssumption, CPUsDivide DEF ModeInv, ModeTypeOK, Scripts, KnobValues,
       SavedState, RestorableMachine, FilesSound, Untouched, SetupUnderWay, RestoreUnderWay, Running,
       SetupSteps, RestoreSteps, Saving, Changing, At, RestoreIrqs, machine, IrqAccepted
  <2>1. RestorableMachine'
    OBVIOUS
  <2>2. FilesSound'
    OBVIOUS
  <2>3. SetupUnderWay(c)' /\ RestoreUnderWay(c)'
    OBVIOUS
  <2> QED BY <2>1, <2>2, <2>3
<1> QED BY <1>1, <1>2, <1>3, <1>5, OwnSuffices

\* A setting that was changed was saved.
LEMMA RestoreLimitsKeeps ==
  ASSUME ModeInv, NEW c \in Callers, Sole(c), RestoreLimits(c), UNCHANGED faults
  PROVE  ModeInv'
<1>1. /\ script' \in [Callers -> Scripts]
      /\ script'[c].at = "permit" /\ script'[c].plan = script[c].plan
      /\ \A d \in Callers \ {c} : script'[d] = script[d]
  <2>1. "permit" \in Running /\ Goto(c, "permit")
    BY DEF RestoreLimits, Running, SetupSteps, RestoreSteps
  <2> QED BY <2>1, GotoMoves DEF ModeInv
<1>2. online' \subseteq CPU /\ knob' \in KnobValues
  BY DEF ModeInv, ModeTypeOK, Scripts, KnobValues, RestoreLimits, machine, Unknown, Plan
<1>3. ModeTypeOK'
  BY <1>1 DEF ModeInv, ModeTypeOK, Scripts, SavedState, RestoreLimits, machine, Unknown
<1>4. SetupUnderWay(c) /\ RestoreUnderWay(c)
  BY DEF ModeInv
<1>5. RestorableMachine' /\ FilesSound' /\ SetupUnderWay(c)' /\ RestoreUnderWay(c)'
  <2> USE <1>1, <1>4, NoFileAssumption, CPUsDivide DEF ModeInv, ModeTypeOK, Scripts, KnobValues,
       SavedState, RestorableMachine, FilesSound, Untouched, SetupUnderWay, RestoreUnderWay, Running,
       SetupSteps, RestoreSteps, Saving, Changing, At, RestoreLimits, machine, Unknown
  <2>1. RestorableMachine'
    OBVIOUS
  <2>2. FilesSound'
    OBVIOUS
  <2>3. SetupUnderWay(c)' /\ RestoreUnderWay(c)'
    OBVIOUS
  <2> QED BY <2>1, <2>2, <2>3
<1> QED BY <1>1, <1>2, <1>3, <1>5, OwnSuffices

\* The saved value, or the strictest.
LEMMA RestoreParanoidKeeps ==
  ASSUME ModeInv, NEW c \in Callers, Sole(c), RestoreParanoid(c), UNCHANGED faults
  PROVE  ModeInv'
<1>1. /\ script' \in [Callers -> Scripts]
      /\ script'[c].at = "remove" /\ script'[c].plan = script[c].plan
      /\ \A d \in Callers \ {c} : script'[d] = script[d]
  <2>1. "remove" \in Running /\ Goto(c, "remove")
    BY DEF RestoreParanoid, Running, SetupSteps, RestoreSteps
  <2> QED BY <2>1, GotoMoves DEF ModeInv
<1>2. online' \subseteq CPU /\ knob' \in KnobValues
  BY DEF ModeInv, ModeTypeOK, Scripts, KnobValues, RestoreParanoid, machine, RestoreUnderWay,
       RestoreSteps, At
<1>3. ModeTypeOK'
  BY <1>1 DEF ModeInv, ModeTypeOK, Scripts, SavedState, RestoreParanoid, machine
<1>4. SetupUnderWay(c) /\ RestoreUnderWay(c)
  BY DEF ModeInv
<1>5. RestorableMachine' /\ FilesSound' /\ SetupUnderWay(c)' /\ RestoreUnderWay(c)'
  <2> USE <1>1, <1>4, NoFileAssumption, CPUsDivide DEF ModeInv, ModeTypeOK, Scripts, KnobValues,
       SavedState, RestorableMachine, FilesSound, Untouched, SetupUnderWay, RestoreUnderWay, Running,
       SetupSteps, RestoreSteps, Saving, Changing, At, RestoreParanoid, machine
  <2>1. RestorableMachine'
    OBVIOUS
  <2>2. FilesSound'
    OBVIOUS
  <2>3. SetupUnderWay(c)' /\ RestoreUnderWay(c)'
    OBVIOUS
  <2> QED BY <2>1, <2>2, <2>3
<1> QED BY <1>1, <1>2, <1>3, <1>5, OwnSuffices

\* Nothing is done beside a state file; else every sibling that is to go is noted.
LEMMA SetupBeginKeeps ==
  ASSUME ModeInv, NEW c \in Callers, Sole(c), SetupBegin(c), UNCHANGED faults
  PROVE  ModeInv'
<1>1. /\ script' \in [Callers -> Scripts]
      /\ \A d \in Callers \ {c} : script'[d] = script[d]
      /\ \/ script'[c].at = "failed"
         \/ /\ stateFile = NoFile
            /\ script'[c].at = "open" /\ script'[c].plan.offlined = online \cap Siblings
  <2>1. CASE stateFile # NoFile
    <3>1. Finish(c, "failed")
      BY <2>1 DEF SetupBegin
    <3> QED BY <3>1, FinishMoves DEF ModeInv
  <2>2. CASE stateFile = NoFile
    <3>1. script' = [script EXCEPT ![c].at = "open", ![c].plan.offlined = online \cap Siblings]
      BY <2>2 DEF SetupBegin
    <3>2. online \cap Siblings \in SUBSET CPU
      BY CPUsDivide
    <3>3. [script[c].plan EXCEPT !.offlined = online \cap Siblings] \in Plan
      BY <3>2 DEF ModeInv, ModeTypeOK, Scripts, Plan
    <3>4. script[c] = [at |-> "setup", plan |-> script[c].plan] /\ DOMAIN script = Callers
      BY DEF ModeInv, ModeTypeOK, Scripts, SetupBegin, At
    <3>5. script'[c] = [at |-> "open", plan |-> [script[c].plan EXCEPT !.offlined = online \cap Siblings]]
      BY <3>1, <3>4
    <3>6. DOMAIN script' = Callers /\ \A d \in Callers \ {c} : script'[d] = script[d]
      BY <3>1, <3>4
    <3>7. script' = [d \in Callers |-> script'[d]]
      BY <3>1, <3>4
    <3>8. script'[c].plan.offlined = online \cap Siblings
      BY <3>5 DEF ModeInv, ModeTypeOK, Scripts, Plan
    <3>9. "open" \in Running
      BY DEF Running, SetupSteps
    <3> HIDE DEF Plan
    <3>10. script' \in [Callers -> Scripts]
      <4>1. script'[c] \in Scripts
        BY <3>3, <3>5, <3>9 DEF Scripts
      <4>2. ASSUME NEW d \in Callers \ {c}
            PROVE  script'[d] \in Scripts
        BY <3>6 DEF ModeInv, ModeTypeOK, Scripts
      <4>3. \A d \in Callers :
              script'[d] \in Scripts
        BY <4>1, <4>2
      <4> QED BY <3>7, <4>3
    <3> QED BY <2>2, <3>5, <3>6, <3>8, <3>10
  <2> QED BY <2>1, <2>2
<1>2. UNCHANGED <<online, knob, stateFile, irqFile, faults>>
  BY DEF SetupBegin, machine
<1>3. ModeTypeOK' /\ RestorableMachine' /\ FilesSound'
  BY <1>1, <1>2 DEF ModeInv, ModeTypeOK, Scripts, RestorableMachine, FilesSound, Untouched
<1>4. SetupUnderWay(c)' /\ RestoreUnderWay(c)'
  BY <1>1, <1>2, CPUsDivide DEF ModeInv, FilesSound, Untouched, SetupUnderWay, RestoreUnderWay,
       SetupSteps, RestoreSteps, Saving, Changing
<1> QED BY <1>1, <1>2, <1>3, <1>4, OwnSuffices DEF ModeInv

\* What is loaded is what the files say.
LEMMA RestoreBeginKeeps ==
  ASSUME ModeInv, NEW c \in Callers, Sole(c), RestoreBegin(c), UNCHANGED faults
  PROVE  ModeInv'
<1>1. /\ script' \in [Callers -> Scripts]
      /\ \A d \in Callers \ {c} : script'[d] = script[d]
      /\ \/ script'[c].at = "failed"
         \/ /\ stateFile # NoFile
            /\ script'[c].at = "online" /\ script'[c].plan = LoadSavedState
  <2>1. CASE stateFile = NoFile
    <3>1. Finish(c, "failed")
      BY <2>1 DEF RestoreBegin
    <3> QED BY <3>1, FinishMoves DEF ModeInv
  <2>2. CASE stateFile # NoFile
    <3>1. script' = [script EXCEPT ![c] = [at |-> "online", plan |-> LoadSavedState]]
      BY <2>2 DEF RestoreBegin
    <3>2. LoadSavedState \in Plan
      BY <2>2 DEF ModeInv, ModeTypeOK, Scripts, LoadSavedState, SavedState, Plan
    <3>3. "online" \in Running
      BY DEF Running, RestoreSteps
    <3> HIDE DEF LoadSavedState, Plan
    <3> QED BY <2>2, <3>1, <3>2, <3>3 DEF ModeInv, ModeTypeOK, Scripts
  <2> QED BY <2>1, <2>2
<1>2. UNCHANGED <<online, knob, stateFile, irqFile, faults>>
  BY DEF RestoreBegin, machine
<1>3. ModeTypeOK' /\ RestorableMachine' /\ FilesSound'
  BY <1>1, <1>2 DEF ModeInv, ModeTypeOK, Scripts, RestorableMachine, FilesSound, Untouched
<1>4. SetupUnderWay(c)' /\ RestoreUnderWay(c)'
  BY <1>1, <1>2 DEF ModeInv, ModeTypeOK, Scripts, FilesSound, SetupUnderWay, RestoreUnderWay,
       SavedState,
       Unknown, LoadSavedState, SetupSteps, RestoreSteps, Saving, Changing
<1> QED BY <1>1, <1>2, <1>3, <1>4, OwnSuffices DEF ModeInv

\* The files go when everything is back.
LEMMA RestoreRemoveKeeps ==
  ASSUME ModeInv, NEW c \in Callers, Sole(c), RestoreRemove(c), UNCHANGED faults
  PROVE  ModeInv'
<1>1. /\ script' \in [Callers -> Scripts]
      /\ script'[c].at = "done"
      /\ \A d \in Callers \ {c} : script'[d] = script[d]
  BY FinishMoves DEF ModeInv, RestoreRemove
<1>2. UNCHANGED <<online, knob, faults>> /\ stateFile' = NoFile /\ irqFile' = NoFile
  BY DEF RestoreRemove, machine
<1>3. Untouched
  BY DEF ModeInv, RestoreUnderWay, RestoreRemove, At, RestoreSteps, Untouched
<1>4. ModeTypeOK' /\ RestorableMachine' /\ FilesSound'
  BY <1>1, <1>2, <1>3 DEF ModeInv, ModeTypeOK, Scripts, RestorableMachine, FilesSound, Untouched
<1>5. SetupUnderWay(c)' /\ RestoreUnderWay(c)'
  BY <1>1 DEF SetupUnderWay, RestoreUnderWay, SetupSteps, RestoreSteps, Saving, Changing
<1> QED BY <1>1, <1>2, <1>4, <1>5, OwnSuffices DEF ModeInv

\* A script that has ended, by itself or not, leaves what it has done.
LEMMA FinishKeeps ==
  ASSUME ModeInv, NEW c \in Callers, Sole(c), NEW result \in {"idle", "done", "failed"},
         Finish(c, result), UNCHANGED <<online, knob, stateFile, irqFile>>,
         faults' \in 0 .. MaxFaults
  PROVE  ModeInv'
<1>1. /\ script' \in [Callers -> Scripts]
      /\ script'[c].at = result
      /\ \A d \in Callers \ {c} : script'[d] = script[d]
  BY FinishMoves DEF ModeInv
<1>2. ModeTypeOK' /\ RestorableMachine' /\ FilesSound'
  BY <1>1 DEF ModeInv, ModeTypeOK, Scripts, RestorableMachine, FilesSound, Untouched
<1>3. SetupUnderWay(c)' /\ RestoreUnderWay(c)'
  BY <1>1 DEF SetupUnderWay, RestoreUnderWay, SetupSteps, RestoreSteps, Saving, Changing
<1> QED BY <1>1, <1>2, <1>3, OwnSuffices DEF ModeInv

\* Checking the mode changes nothing.
LEMMA SetupVerifyKeeps ==
  ASSUME ModeInv, NEW c \in Callers, Sole(c), SetupVerify(c), UNCHANGED faults
  PROVE  ModeInv'
<1>1. PICK result \in {"done", "failed"} : Finish(c, result)
  BY DEF SetupVerify
<1> QED BY <1>1, FinishKeeps DEF SetupVerify, machine, ModeInv, ModeTypeOK, Scripts

\* A script killed, or whose command failed, leaves what it has done.
LEMMA AbortKeeps ==
  ASSUME ModeInv, NEW c \in Callers, Sole(c), Abort(c)
  PROVE  ModeInv'
<1>1. faults' \in 0 .. MaxFaults
  BY NoFileAssumption DEF ModeInv, ModeTypeOK, Scripts, Abort, Fault
<1> QED BY <1>1, FinishKeeps DEF Abort, machine

------------------------------------------------------------------------------
\* Any step of a script that runs alone.
LEMMA ScriptStepKeeps ==
  ASSUME ModeInv, NEW c \in Callers, Sole(c), ScriptStep(c)
  PROVE  ModeInv'
<1>1. CASE Setup(c) /\ UNCHANGED faults
  BY <1>1, SetupBeginKeeps, SetupOpenKeeps, SetupSaveKeeps, SetupSaveIrqsKeeps, SetupTuneKeeps,
     SetupOfflineKeeps, SetupParanoidKeeps, SetupSteerKeeps, SetupAppendKeeps, SetupVerifyKeeps
     DEF Setup
<1>2. CASE Restore(c) /\ UNCHANGED faults
  BY <1>2, RestoreBeginKeeps, RestoreOnlineKeeps, RestoreIrqsKeeps, RestoreLimitsKeeps,
     RestoreParanoidKeeps, RestoreRemoveKeeps DEF Restore
<1>3. CASE Abort(c)
  BY <1>3, AbortKeeps
<1> QED BY <1>1, <1>2, <1>3 DEF ScriptStep

\* Scripts are started and collected by their callers, and the first step of
\* either finds the machine as it is.
Calls(c) ==
  /\ UNCHANGED <<online, knob, stateFile, irqFile>>
  /\ script' \in [Callers -> Scripts]
  /\ \A d \in Callers \ {c} : script'[d] = script[d]
  /\ script'[c] = script[c] \/ script'[c].at \in {"idle", "setup", "restore"}

\* A call of a script leaves the machine restorable.
LEMMA CallsKeep ==
  ASSUME ModeInv, NEW c \in Callers, Calls(c), faults' \in 0 .. MaxFaults
  PROVE  ModeInv'
<1>1. ModeTypeOK' /\ RestorableMachine' /\ FilesSound'
  BY DEF ModeInv, ModeTypeOK, Scripts, RestorableMachine, FilesSound, Untouched, Calls
<1>2. ASSUME NEW d \in Callers PROVE SetupUnderWay(d)' /\ RestoreUnderWay(d)'
  <2>1. CASE script'[d] = script[d]
    BY <2>1 DEF Calls, ModeInv, SetupUnderWay, RestoreUnderWay, Untouched
  <2>2. CASE script'[d].at \in {"idle", "setup", "restore"}
    BY <2>2 DEF SetupUnderWay, RestoreUnderWay, RestoreSteps, Saving, Changing
  <2> QED BY <2>1, <2>2 DEF Calls
<1> QED BY <1>1, <1>2 DEF ModeInv, Calls

\* Starting a script and taking its exit status are calls.
LEMMA StartCalls ==
  ASSUME ModeTypeOK, NEW c \in Callers, NEW command \in {"setup", "restore"}, Start(c, command),
         UNCHANGED <<online, knob, stateFile, irqFile>>
  PROVE  Calls(c) /\ script'[c].at = command
<1>1. command \in Running
  BY DEF Running, SetupSteps, RestoreSteps
<1> QED BY <1>1, GotoMoves DEF Start, Calls

\* An exit status taken leaves the script idle.
LEMMA CollectCalls ==
  ASSUME ModeTypeOK, NEW c \in Callers, Collect(c), UNCHANGED <<online, knob, stateFile, irqFile>>
  PROVE  Calls(c) /\ script'[c].at = "idle"
BY FinishMoves DEF Collect, Calls
=============================================================================
