---------------------------- MODULE TaskAffinity ----------------------------
(***************************************************************************)
(* The user's other tasks, as scripts/record/bench_record.py sees and      *)
(* moves them: a baseline of every task's CPUs, and apply_affinity, which  *)
(* walks through /proc while tasks are born and end.  A client's walk is   *)
(* one step per process listed and one per task changed.                   *)
(***************************************************************************)
EXTENDS Machine

CONSTANTS Clients       \* those who walk through the tasks

VARIABLE scan           \* each client's apply_affinity in progress

NoScan == [procs |-> {}, pid |-> NoTask, tids |-> {}, cpus |-> {},
           changed |-> FALSE, refused |-> {}]

Scan == [procs : SUBSET Tid, pid : Tid \cup {NoTask}, tids : SUBSET Tid, cpus : SUBSET CPU,
         changed : BOOLEAN, refused : SUBSET Tid]

AffinityTypeOK == scan \in [Clients -> Scan]

AffinityInit == scan = [c \in Clients |-> NoScan]

\* affinity_baseline(): every task with its start time and its CPUs.
Baseline == [t \in Live |-> [start |-> task[t].start, mask |-> Effective(t)]]
Entry == [start : 0 .. MaxBirths, mask : SUBSET CPU]
IsBaseline(base) == \E listed \in SUBSET Tid : base \in [listed -> Entry]

\* The entry is about this task and not about one that had its number before.
Matches(base, t) == t \in DOMAIN base /\ task[t] # NoTask /\ base[t].start = task[t].start

\* range(os.cpu_count()), which counts the CPUs that are online.
Everything == 0 .. (Cardinality(online) - 1)

\* /proc/PID/task now, which is there for the number of any thread of a process.
Group(pid) == {t \in Live : pid \in Live /\ task[t].leader = task[pid].leader}

\* A task is looked up as a thread of the process it was listed under.
Known(base, pid, t) == t \in Group(pid) /\ Matches(base, t)

BaselineMask(base, pid, t) ==
  CASE Known(base, pid, t) -> base[t].mask
    [] ~Known(base, pid, t) /\ Known(base, pid, pid) -> base[pid].mask
    [] OTHER -> Everything

WantFallingBack(base, pid, t, cpus, exclude) ==
  LET wanted == (BaselineMask(base, pid, t) \cap cpus) \ exclude
  IN  IF wanted # {} THEN wanted ELSE cpus

(* The CPUs a task gets: its baseline without the excluded ones, or all     *)
(* that are left when that is none.                                         *)
Want(base, pid, t, cpus, exclude) ==
  LET wanted == (BaselineMask(base, pid, t) \cap cpus) \ exclude
  IN  IF wanted # {} THEN wanted ELSE cpus \ exclude

\* The process identifiers are listed first, the threads of each when it comes.
Listing == [NoScan EXCEPT !.procs = {task[t].leader : t \in Live}, !.cpus = online]

ApplyBegin(c) == scan' = [scan EXCEPT ![c] = Listing]

ApplyProcess(c) ==
  /\ scan[c].tids = {}
  /\ \E p \in scan[c].procs :
       scan' = [scan EXCEPT ![c].procs = @ \ {p},
                            ![c].pid = p, ![c].tids = Group(p)]
  /\ UNCHANGED machine

\* One task: gone, or as wanted already, or not to be changed, or changed.
ApplyTask(c, base, exclude) ==
  \E t \in scan[c].tids :
    LET rest == [scan[c] EXCEPT !.tids = @ \ {t}]
        want == Want(base, rest.pid, t, rest.cpus, exclude)
        differs == task[t] # NoTask /\ Effective(t) # want
    IN
    /\ task' = IF differs /\ ~task[t].fixed THEN [task EXCEPT ![t].mask = want] ELSE task
    /\ scan' = [scan EXCEPT ![c] =
                  CASE ~differs -> rest
                    [] differs /\ task[t].fixed -> [rest EXCEPT !.refused = @ \cup {t}]
                    [] differs /\ ~task[t].fixed -> [rest EXCEPT !.changed = TRUE]]
    /\ UNCHANGED <<online, knob, births>>

ApplyStep(c, base, exclude) == ApplyProcess(c) \/ ApplyTask(c, base, exclude)

ApplyDone(c) == scan[c].procs = {} /\ scan[c].tids = {}

\* Every task of a baseline that lives and lets itself be moved is back at it.
AtBaseline(base) ==
  \A t \in DOMAIN base :
    Matches(base, t) /\ ~task[t].fixed => Effective(t) = base[t].mask
=============================================================================
