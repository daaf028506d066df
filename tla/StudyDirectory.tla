--------------------------- MODULE StudyDirectory ---------------------------
(***************************************************************************)
(* What a study leaves on disk, for scripts/record/ that write it and      *)
(* scripts/report/ that read it: the recovery file, the tables, env.json,  *)
(* and the raw files with their archive.  A launch is known by its session,*)
(* its round (or block) and what it runs (a binary, or a matrix entry).    *)
(***************************************************************************)
EXTENDS Integers, FiniteSets

CONSTANTS Sessions, Rounds,     \* the design; a round is also called a block
          Programs,             \* how many launches a round has
          Repetitions, Warmup,  \* per benchmark, and those that are warm-up
          NoRecovery            \* no affinity_baseline.json

ASSUME DesignAssumption ==
  /\ {Sessions, Rounds, Programs, Repetitions, Warmup} \subseteq Nat \ {0}
  /\ Warmup < Repetitions

Keys == (1 .. Sessions) \X (1 .. Rounds) \X (1 .. Programs)

\* One launch as the tables have it: its exit status and its repetitions.
Rows == [key : Keys, exit : {0, 1}, reps : SUBSET (0 .. Repetitions - 1)]

AllReps == 0 .. Repetitions - 1

\* The programs of a round take turns in being first.
RoundIndex(s, r) == (s - 1) * Rounds + (r - 1)
ProgramAt(s, r, position) == ((RoundIndex(s, r) + position - 1) % Programs) + 1

(* launches and samples are the two tables, {} while there is no file; env  *)
(* is what env.json says of the study: nothing as there is no file, nothing *)
(* as it has no "complete" (plain), or that.  raw and archive are the files *)
(* in raw/ and in raw.tar.gz: a launch's log, and its .command.json, which  *)
(* says "complete": false at first and true later.                          *)
Log(key) == [of |-> key, is |-> "log"]
Command(key, is) == [of |-> key, is |-> is]     \* is: started, complete

EmptyDirectory == [recovery |-> NoRecovery, launches |-> {}, samples |-> {},
                   env |-> "none", raw |-> {}, archive |-> {}]

\* The next file removed from raw/, in the directory's order.
NextFile(dir) == CHOOSE file \in dir.raw : TRUE
Removed(dir) == [dir EXCEPT !.raw = @ \ {NextFile(dir)}]

LaunchTable(rows) == {[key |-> row.key, exit |-> row.exit] : row \in rows}
SampleTable(rows) ==
  {[key |-> row.key, reps |-> row.reps] : row \in {r \in rows : r.reps # {}}}

\* All that a finished study of this design has to show.
WholeRows == {[key |-> key, exit |-> 0, reps |-> AllReps] : key \in Keys}
Whole(dir) ==
  /\ dir.launches = LaunchTable(WholeRows)
  /\ dir.samples = SampleTable(WholeRows)
=============================================================================
