------------------------------- MODULE Launch -------------------------------
(***************************************************************************)
(* launch() of scripts/record/bench_record.py: one benchmark process in a  *)
(* session of its own, its output read from a pipe until all writers are   *)
(* gone, and on a timeout or a signal the end of the whole session, found  *)
(* by going through /proc while processes fork and end and the kernel      *)
(* gives free process numbers to others.  A signal is an exception, raised *)
(* wherever the program is, on its way out too.  A command runs under a    *)
(* prefix that may change the process group but not the session, a child   *)
(* is in its parent's group or leads one of its own, and a process closes  *)
(* its end of the pipe only by ending.                                     *)
(***************************************************************************)
EXTENDS Integers, FiniteSets

CONSTANTS Pid, Main,    \* process numbers, and the one of the launched process
          PipeSize,     \* pieces of output the pipe holds
          MaxForks      \* bound: processes born meanwhile, own and foreign

ASSUME LaunchAssumption ==
  /\ Main \in Pid
  /\ PipeSize \in Nat \ {0} /\ MaxForks \in Nat

VARIABLES process,      \* what has each number: a process, or nothing
          pipe,         \* pieces written and not yet read
          owed,         \* pieces written and not in the output
          forks,        \* processes born so far
          late,         \* the time given has passed
          strayed,      \* a process was born outside the first group during a scan
          hit,          \* a process of someone else was killed
          struck,       \* history: where in launch() a signal came
          launcher      \* the program in launch()

vars == <<process, pipe, owed, forks, late, strayed, hit, struck, launcher>>

\* kind: of this launch; ended and not waited for (only the program's child
\* stays in that state); or someone else's, leading a group and a session.
Processes == [kind : {"own", "zombie", "foreign", "free"}, group : Pid]
Free == [kind |-> "free", group |-> Main]

\* Inside the `try`; in kill_launch_session(); in the rest of the `except`.
Reading == {"poll", "read", "append", "wait", "reaped"}
Scanning == {"list", "scan", "open", "again", "kill", "group"}
Leaving == {"reap", "drain", "keep"}
Points == {"begin", "returned", "raised"} \cup Reading \cup Scanning \cup Leaving

Launchers ==
  [at : Points,
   chunk : 0 .. PipeSize,       \* pieces read and not appended
   todo : SUBSET Pid,           \* /proc entries still to look at
   entry : Pid,                 \* the one looked at
   pinned : BOOLEAN]            \* the descriptor's process has the number

TypeOK ==
  /\ process \in [Pid -> Processes]
  /\ pipe \in 0 .. PipeSize /\ owed \in Nat
  /\ forks \in 0 .. MaxForks
  /\ {late, strayed, hit} \subseteq BOOLEAN
  /\ struck \subseteq Points
  /\ launcher \in Launchers

Init ==
  /\ process = [p \in Pid |-> IF p = Main THEN [kind |-> "own", group |-> Main] ELSE Free]
  /\ pipe = 0 /\ owed = 0 /\ forks = 0
  /\ late = FALSE /\ strayed = FALSE /\ hit = FALSE /\ struck = {}
  /\ launcher = [at |-> "begin", chunk |-> 0, todo |-> {}, entry |-> Main, pinned |-> FALSE]

Own == {p \in Pid : process[p].kind = "own"}
Zombies == {p \in Pid : process[p].kind = "zombie"}
Foreign == {p \in Pid : process[p].kind = "foreign"}
Taken == Own \cup Zombies \cup Foreign

\* A number is given out when no process has it, as its own or as that of its
\* group or session.
Givable ==
  {p \in Pid \ Taken :
     /\ \A q \in Taken : process[q].group # p
     /\ p = Main => Own = {}}

\* getsid(p) == proc.pid
InSession(p) == p \in Own \cup Zombies \/ (p = Main /\ p \in Foreign)

Goto(point) == launcher' = [launcher EXCEPT !.at = point]
Busy == launcher.at \notin {"returned", "raised"}

\* Processes end: the program's child is there until it is waited for, the
\* others' numbers are free, and a descriptor of one of them is void.
Ended(gone) ==
  [p \in Pid |-> CASE p \notin gone -> process[p]
                   [] p \in gone /\ p = Main /\ p \in Own -> [process[p] EXCEPT !.kind = "zombie"]
                   [] p \in gone /\ ~(p = Main /\ p \in Own) -> Free]
Void(gone, new) == [new EXCEPT !.pinned = @ /\ new.entry \notin gone \ (Own \cap {Main})]

------------------------------------------------------------------------------
(* What the processes do *)

\* A writer waits while the pipe is full, and may go on for ever.
Write ==
  /\ Busy /\ Own # {} /\ pipe < PipeSize
  /\ pipe' = pipe + 1 /\ owed' = owed + 1
  /\ UNCHANGED <<process, forks, late, strayed, hit, struck, launcher>>

\* /proc has been listed, and the launch is not over.
Scanned == launcher.at \in (Scanning \ {"list"}) \cup Leaving

Fork ==
  /\ Busy /\ forks < MaxForks
  /\ forks' = forks + 1
  /\ \E parent \in Own, child \in Givable :
       \E group \in {process[parent].group, child} :
          /\ process' = [process EXCEPT ![child] = [kind |-> "own", group |-> group]]
          /\ strayed' = (strayed \/ (Scanned /\ group # Main))
  /\ UNCHANGED <<pipe, owed, late, hit, struck, launcher>>

\* Someone else's process gets a free number.
Reuse ==
  /\ Busy /\ forks < MaxForks
  /\ forks' = forks + 1
  /\ \E p \in Givable : process' = [process EXCEPT ![p] = [kind |-> "foreign", group |-> p]]
  /\ UNCHANGED <<pipe, owed, late, strayed, hit, struck, launcher>>

Exit ==
  /\ Busy
  /\ \E p \in Own \cup Foreign :
       /\ process' = Ended({p})
       /\ launcher' = Void({p}, launcher)
  /\ UNCHANGED <<pipe, owed, forks, late, strayed, hit, struck>>

TimePasses ==
  /\ ~late /\ late' = TRUE
  /\ UNCHANGED <<process, pipe, owed, forks, strayed, hit, struck, launcher>>

------------------------------------------------------------------------------
(* The loop of launch() *)

\* The child runs, and the `try` is not reached yet.
Begin ==
  /\ launcher.at = "begin" /\ Goto("poll")
  /\ UNCHANGED <<process, pipe, owed, hit>>

Readable == pipe > 0 \/ Own = {}

PollWhenSilent ==
  /\ launcher.at = "poll"
  /\ \/ ~Readable /\ late /\ Goto("list")
     \/ Readable /\ Goto("read")
  /\ UNCHANGED <<process, pipe, owed, hit>>

\* The time is looked at whenever select() comes back, before anything else.
Poll ==
  /\ launcher.at = "poll"
  /\ \/ late /\ Goto("list")
     \/ ~late /\ Readable /\ Goto("read")
  /\ UNCHANGED <<process, pipe, owed, hit>>

ReadKeeping ==
  /\ launcher.at = "read"
  /\ launcher' = [launcher EXCEPT !.chunk = pipe, !.at = IF pipe > 0 THEN "append" ELSE "wait"]
  /\ UNCHANGED <<process, pipe, owed, hit>>

\* os.read(): empty at the end of the file.
Read ==
  /\ launcher.at = "read"
  /\ launcher' = [launcher EXCEPT !.chunk = pipe, !.at = IF pipe > 0 THEN "append" ELSE "wait"]
  /\ pipe' = 0
  /\ UNCHANGED <<process, owed, hit>>

\* out += chunk
Append ==
  /\ launcher.at = "append"
  /\ owed' = owed - launcher.chunk
  /\ launcher' = [launcher EXCEPT !.chunk = 0, !.at = "poll"]
  /\ UNCHANGED <<process, pipe, hit>>

\* wait4() comes back; the `try` is not left yet.
Wait ==
  /\ launcher.at = "wait" /\ Main \in Zombies
  /\ process' = [process EXCEPT ![Main] = Free]
  /\ Goto("reaped")
  /\ UNCHANGED <<pipe, owed, hit>>

Return ==
  /\ launcher.at = "reaped" /\ Goto("returned")
  /\ UNCHANGED <<process, pipe, owed, hit>>

\* A signal: inside the `try` it leads to the `except`, before it or in it to
\* the caller, and what was read and not appended is gone.
Interrupt ==
  /\ Busy
  /\ struck' = struck \cup {launcher.at}
  /\ launcher' = [launcher EXCEPT !.at = IF @ \in Reading THEN "list" ELSE "raised",
                                  !.chunk = 0, !.pinned = FALSE]
  /\ UNCHANGED <<process, pipe, owed, forks, late, strayed, hit>>

------------------------------------------------------------------------------
(* kill_launch_session() *)

List ==
  /\ launcher.at = "list"
  /\ launcher' = [launcher EXCEPT !.at = "scan", !.todo = Taken]
  /\ UNCHANGED <<process, pipe, owed, hit>>

\* getsid() of the next entry, which may be free by now.
Scan ==
  /\ launcher.at = "scan"
  /\ \/ \E p \in launcher.todo :
          launcher' = [launcher EXCEPT !.todo = @ \ {p}, !.entry = p,
                                       !.at = IF InSession(p) THEN "open" ELSE "scan"]
     \/ launcher.todo = {} /\ Goto("group")
  /\ UNCHANGED <<process, pipe, owed, hit>>

\* pidfd_open() takes whatever has the number now.
Open ==
  /\ launcher.at = "open"
  /\ launcher' = IF launcher.entry \in Taken
                   THEN [launcher EXCEPT !.at = "again", !.pinned = TRUE]
                   ELSE [launcher EXCEPT !.at = "scan"]
  /\ UNCHANGED <<process, pipe, owed, hit>>

AgainSkipped ==
  /\ launcher.at = "again"
  /\ Goto("kill")
  /\ UNCHANGED <<process, pipe, owed, hit>>

\* getsid() again, now that the descriptor is held.
Again ==
  /\ launcher.at = "again"
  /\ launcher' = IF InSession(launcher.entry)
                   THEN [launcher EXCEPT !.at = "kill"]
                   ELSE [launcher EXCEPT !.at = "scan", !.pinned = FALSE]
  /\ UNCHANGED <<process, pipe, owed, hit>>

\* The signal goes to the descriptor's process, if that is still there.
Kill ==
  /\ launcher.at = "kill"
  /\ LET gone == IF launcher.pinned THEN {launcher.entry} \ Zombies ELSE {} IN
     /\ process' = Ended(gone)
     /\ hit' = (hit \/ gone \cap Foreign # {})
  /\ launcher' = [launcher EXCEPT !.at = "scan", !.pinned = FALSE]
  /\ UNCHANGED <<pipe, owed>>

KillGroupSkipped ==
  /\ launcher.at = "group"
  /\ Goto("reap")
  /\ UNCHANGED <<process, pipe, owed, hit>>

\* killpg(), for those born during the scan: whoever is in that group.
KillGroup ==
  /\ launcher.at = "group"
  /\ LET gone == {p \in Own \cup Foreign : process[p].group = Main} IN
     /\ process' = Ended(gone)
     /\ hit' = (hit \/ gone \cap Foreign # {})
  /\ Goto("reap")
  /\ UNCHANGED <<pipe, owed>>

------------------------------------------------------------------------------
(* The rest of the exception's way out *)

\* proc.wait(), which goes on at once when the child was waited for before.
Reap ==
  /\ launcher.at = "reap" /\ Main \notin Own
  /\ process' = IF Main \in Zombies THEN [process EXCEPT ![Main] = Free] ELSE process
  /\ Goto("drain")
  /\ UNCHANGED <<pipe, owed, hit>>

DrainSkipped ==
  /\ launcher.at = "drain" /\ Goto("raised")
  /\ UNCHANGED <<process, pipe, owed, hit>>

\* What is in the pipe is read, without waiting for its end.
Drain ==
  /\ launcher.at = "drain"
  /\ launcher' = [launcher EXCEPT !.chunk = pipe, !.at = IF pipe > 0 THEN "keep" ELSE "raised"]
  /\ pipe' = 0
  /\ UNCHANGED <<process, owed, hit>>

Keep ==
  /\ launcher.at = "keep"
  /\ owed' = owed - launcher.chunk
  /\ launcher' = [launcher EXCEPT !.chunk = 0, !.at = "drain"]
  /\ UNCHANGED <<process, pipe, hit>>

LauncherStep ==
  /\ \/ Begin \/ Poll \/ Read \/ Append \/ Wait \/ Return
     \/ List \/ Scan \/ Open \/ Again \/ Kill \/ KillGroup
     \/ Reap \/ Drain \/ Keep
  /\ UNCHANGED <<forks, late, strayed, struck>>

Next ==
  \/ LauncherStep \/ Interrupt \/ TimePasses
  \/ Write \/ Fork \/ Reuse \/ Exit

\* The program is scheduled and time passes; nothing is asked of the processes.
Spec == Init /\ [][Next]_vars /\ WF_vars(LauncherStep) /\ WF_vars(TimePasses)

------------------------------------------------------------------------------
Undisturbed(points) == struck \cap points = {}

\* No signal reaches a process of someone else, although numbers are given to
\* others between any two steps of the scan.  It rests on the child, which holds
\* the number of the session until it is waited for: a signal taken between the
\* return of wait4() and the end of the `try` has the number killed after that.
OnlyOwnKilled == Undisturbed({"reaped"}) => ~hit

\* After an exception nothing of the launch runs on: not what is in a group of
\* its own, nor what was born in the first group while the scan went by.  What
\* is born in another group during the scan is not covered by the code, nor is
\* a signal before the `try`, or a second exception in kill_launch_session().
NoSurvivors ==
  launcher.at = "raised" /\ ~strayed /\ Undisturbed(Scanning \cup {"begin"}) => Own = {}

\* All that was written is in the output: of a launch that returned without any
\* exception, and with an exception up to the last look into the pipe, unless it
\* came before the `try`, between a read and its append, or in the `except`.
OutputKept ==
  \/ launcher.at = "returned"
  \/ launcher.at = "raised" /\ Undisturbed(Scanning \cup Leaving \cup {"begin", "append"})
  => owed = 0

\* With a timeout a launch comes to its end, though its processes may write for
\* ever; only a process that strayed can keep the last loop reading.
LaunchEnds == <>(~Busy \/ strayed)
=============================================================================
