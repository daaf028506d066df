------------------------------ MODULE Machine ------------------------------
(***************************************************************************)
(* The part of the machine the measurement scripts act on: CPUs that can   *)
(* be taken offline, settings that can be written, and the user's tasks    *)
(* with the CPUs each may run on.  It is the kernel's side of the          *)
(* scripts' system calls, modelled from how scripts/ uses it.              *)
(***************************************************************************)
EXTENDS Integers, FiniteSets

CONSTANTS CPU,          \* CPU numbers, from 0
          Siblings,     \* second hardware threads, taken offline by setup
          MeasureCPU,   \* the measurement cores
          Tid,          \* task identifiers; a leader's one is its process's
          MaxBirths,    \* bound: tasks born while the model runs
          MaxExits,     \* bound: tasks that end
          NoTask

ASSUME CPUsDivide ==
  /\ CPU = 0 .. (Cardinality(CPU) - 1)
  /\ Siblings \subseteq CPU
  /\ MeasureCPU \subseteq CPU \ Siblings /\ MeasureCPU # {}
  /\ CPU \ (Siblings \cup MeasureCPU) # {}

Task == [start : 0 .. MaxBirths, leader : Tid, mask : SUBSET CPU, fixed : BOOLEAN]

ASSUME TasksAssumption ==
  /\ {1, 2} \subseteq Tid /\ NoTask \notin Task
  /\ MaxBirths \in Nat /\ MaxExits \in Nat

VARIABLES online,   \* CPUs that are online
          knob,     \* power: governor, turbo and minimum; paranoid; irq masks
          task,     \* the user's tasks
          births    \* tasks born so far, the source of start times

machine == <<online, knob, task, births>>

KnobValues == [power    : {"usual", "measuring"},
               paranoid : {"usual", "measuring", "strict"},
               irq      : {"usual", "measuring", "broken"}]

MachineTypeOK ==
  /\ online \subseteq CPU
  /\ knob \in KnobValues
  /\ task \in [Tid -> Task \cup {NoTask}]
  /\ births \in 0 .. MaxBirths

Live == {t \in Tid : task[t] # NoTask}

\* What sched_getaffinity returns.
Effective(t) == task[t].mask \cap online

(* Taking CPUs offline.  A task left without a CPU may run on all of them   *)
(* from then on, and an interrupt bound to a lost CPU gets another mask.    *)
Offline(cpus) ==
  /\ online' = online \ cpus
  /\ task' = [t \in Tid |-> IF task[t] # NoTask /\ task[t].mask \subseteq CPU \ online'
                              THEN [task[t] EXCEPT !.mask = CPU]
                              ELSE task[t]]
  /\ knob' = [knob EXCEPT !.irq = IF @ = "usual" /\ cpus \cap Siblings # {}
                                    THEN "broken" ELSE @]

\* A mask that names only offline CPUs is refused; the usual one may be that.
IrqAccepted(value) == value = "usual" => Siblings \subseteq online

(* A task starts a thread of its process or a new process.  The child       *)
(* inherits the CPUs, and with them whatever a session did to its parent.   *)
Fork ==
  /\ births < MaxBirths
  /\ births' = births + 1
  /\ \E parent \in Live, child \in Tid \ Live :
       \E leader \in {child, task[parent].leader} :
          task' = [task EXCEPT ![child] = [task[parent] EXCEPT
                                             !.start = births', !.leader = leader]]
  /\ UNCHANGED <<online, knob>>

\* A thread ends, or a process with all its threads.  Two tasks were there first.
Exit ==
  /\ 2 + births - Cardinality(Live) < MaxExits
  /\ \E gone \in Live :
       task' = [t \in Tid |-> IF t \in Live /\ gone \in {t, task[t].leader}
                                THEN NoTask ELSE task[t]]
  /\ UNCHANGED <<online, knob, births>>

(* At first every CPU is online and every setting as usual.  Task 1 is a    *)
(* process pinned to the measurement cores; task 2 is a thread of it that   *)
(* keeps to the siblings, or a process that refuses to be moved.            *)
SecondTask == {[start |-> 0, leader |-> 1, mask |-> Siblings, fixed |-> FALSE],
               [start |-> 0, leader |-> 2, mask |-> CPU, fixed |-> TRUE]}
SecondTasks == {second \in SecondTask : second.mask # {}}

MachineInit ==
  /\ online = CPU
  /\ knob = [power |-> "usual", paranoid |-> "usual", irq |-> "usual"]
  /\ births = 0
  /\ \E second \in SecondTasks :
       task = [t \in Tid |->
                 CASE t = 1 -> [start |-> 0, leader |-> 1, mask |-> MeasureCPU, fixed |-> FALSE]
                   [] t = 2 -> second
                   [] OTHER -> NoTask]
=============================================================================
