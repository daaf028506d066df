---------------------------- MODULE LaunchProofs ----------------------------
(***************************************************************************)
(* Proofs of the safety properties of Launch: for every set of process     *)
(* numbers, any size of the pipe, any amount of output and any number of   *)
(* forks, with a signal at any step, nothing of someone else's is killed,  *)
(* nothing of the launch survives and no output is lost, outside the       *)
(* windows that the properties name.                                       *)
(***************************************************************************)
EXTENDS Launch, TLAPS

\* Points of the way out at which the scan is on.
InScan == {"scan", "open", "again", "kill"}

\* A signal leaves the `try` once, and the `except` for good.
Unstruck ==
  /\ launcher.at \in Reading \cup {"begin", "returned"} => struck = {}
  /\ launcher.at \in Scanning \cup Leaving => struck \subseteq Reading

\* What is not in the output is in the pipe or on the way from it; only a signal
\* that comes upon something on the way loses it.
Conserved ==
  /\ owed >= pipe + launcher.chunk
  /\ Undisturbed({"append", "keep"}) => owed = pipe + launcher.chunk
  /\ launcher.at \notin {"append", "keep"} => launcher.chunk = 0

\* An empty read means that no writer is left, and then none comes.
SeenToTheEnd ==
  /\ launcher.at = "read" => pipe > 0 \/ Own = {}
  /\ launcher.at \in {"wait", "reaped", "returned"} => Own = {} /\ pipe = 0
  /\ launcher.at = "raised" /\ Undisturbed(Scanning \cup Leaving \cup {"begin"}) => pipe = 0

\* The child has its number, and with it that of group and session, until the
\* program has waited for it.
Held ==
  /\ \A p \in Foreign : process[p].group = p
  /\ Undisturbed({"reaped"}) /\ launcher.at \notin {"reaped", "drain", "keep", "returned", "raised"}
       => Main \in Own \cup Zombies

\* A descriptor that was looked at again holds a process of the session.
Pinned ==
  /\ Undisturbed({"reaped"}) => ~hit
  /\ launcher.at = "kill" /\ launcher.pinned => InSession(launcher.entry)

\* What is still to come in the scan covers all that the group's signal misses.
Covered ==
  ~strayed =>
    /\ launcher.at \in InScan =>
         \A p \in Own : \/ process[p].group = Main
                        \/ p \in launcher.todo
                        \/ launcher.at # "scan" /\ p = launcher.entry
    /\ launcher.at \in {"again", "kill"} /\ ~launcher.pinned /\ launcher.entry \in Own =>
         process[launcher.entry].group = Main
    /\ launcher.at = "group" => \A p \in Own : process[p].group = Main
    /\ launcher.at \in Leaving => Own = {}
    /\ launcher.at = "raised" /\ Undisturbed(Scanning \cup {"begin"}) => Own = {}

IInv == TypeOK /\ Unstruck /\ Conserved /\ SeenToTheEnd /\ Held /\ Pinned /\ Covered

------------------------------------------------------------------------------
(* What the operations on the processes do to the sets of them. *)

LEMMA Kinds ==
  ASSUME TypeOK
  PROVE  /\ Own \subseteq Pid /\ Zombies \subseteq Pid /\ Foreign \subseteq Pid
         /\ Own \cap Zombies = {} /\ Own \cap Foreign = {} /\ Zombies \cap Foreign = {}
         /\ Givable \subseteq Pid \ Taken
BY DEF TypeOK, Processes, Own, Zombies, Foreign, Givable

\* Nothing changes when the function does not.
LEMMA Unmoved ==
  ASSUME UNCHANGED process
  PROVE  /\ UNCHANGED <<Own, Zombies, Foreign, Taken>>
         /\ \A p \in Pid : InSession(p)' = InSession(p)
BY DEF Own, Zombies, Foreign, Taken, InSession

\* What ends is gone, but for the program's child, which is a zombie.
LEMMA EndedKinds ==
  ASSUME TypeOK, NEW gone \in SUBSET (Own \cup Foreign), process' = Ended(gone)
  PROVE  /\ process' \in [Pid -> Processes]
         /\ Own' = Own \ gone /\ Foreign' = Foreign \ gone
         /\ Zombies' = Zombies \cup (gone \cap Own \cap {Main})
         /\ \A p \in Pid \ gone : process'[p] = process[p]
BY LaunchAssumption DEF TypeOK, Processes, Ended, Own, Foreign, Zombies, Free

\* A process with a number nobody had.
LEMMA BornKinds ==
  ASSUME TypeOK, NEW child \in Givable, NEW kind \in {"own", "foreign"}, NEW group \in Pid,
         process' = [process EXCEPT ![child] = [kind |-> kind, group |-> group]]
  PROVE  /\ process' \in [Pid -> Processes]
         /\ Own' = IF kind = "own" THEN Own \cup {child} ELSE Own
         /\ Foreign' = IF kind = "foreign" THEN Foreign \cup {child} ELSE Foreign
         /\ Zombies' = Zombies
         /\ process'[child].group = group
         /\ \A p \in Pid \ {child} : process'[p] = process[p]
BY Kinds DEF TypeOK, Processes, Own, Foreign, Zombies, Taken

\* The child is waited for.
LEMMA ReapedKinds ==
  ASSUME TypeOK, Main \in Zombies, process' = [process EXCEPT ![Main] = Free]
  PROVE  /\ process' \in [Pid -> Processes]
         /\ Own' = Own /\ Foreign' = Foreign
         /\ \A p \in Pid \ {Main} : process'[p] = process[p]
BY LaunchAssumption DEF TypeOK, Processes, Own, Foreign, Zombies, Free

------------------------------------------------------------------------------
(* The initial states, and then one lemma per action. *)

LEMMA InitInvariant == Init => IInv
<1> SUFFICES ASSUME Init PROVE IInv
  OBVIOUS
<1>1. TypeOK
  <2>1. process \in [Pid -> Processes]
    BY LaunchAssumption DEF Init, Processes, Free
  <2>2. launcher \in Launchers
    BY LaunchAssumption DEF Init, Launchers, Points
  <2>3. /\ pipe \in 0 .. PipeSize /\ owed \in Nat /\ forks \in 0 .. MaxForks
        /\ {late, strayed, hit} \subseteq BOOLEAN /\ struck \subseteq Points
    <3>1. pipe \in 0 .. PipeSize /\ owed \in Nat /\ forks \in 0 .. MaxForks
      BY LaunchAssumption DEF Init
    <3>2. {late, strayed, hit} \subseteq BOOLEAN /\ struck \subseteq Points
      BY DEF Init
    <3> QED BY <3>1, <3>2
  <2> QED BY <2>1, <2>2, <2>3 DEF TypeOK
<1>2. Main \in Own /\ Foreign = {}
  BY LaunchAssumption DEF Init, Own, Foreign, Free
<1>3. Unstruck /\ Conserved /\ Pinned
  BY DEF Init, Unstruck, Conserved, Pinned, Undisturbed, Scanning, Leaving
<1>4. SeenToTheEnd /\ Held /\ Covered
  BY <1>2 DEF Init, SeenToTheEnd, Held, Covered, InScan, Leaving
<1> QED BY <1>1, <1>3, <1>4 DEF IInv

\* A writer is left, so nothing has been seen to the end.
LEMMA WriteKeeps ==
  ASSUME IInv, Write
  PROVE  IInv'
<1>u. /\ UNCHANGED <<Own, Zombies, Foreign, Taken>>
      /\ \A p \in Pid : InSession(p)' = InSession(p)
  BY Unmoved DEF Write
<1>k. Own \subseteq Pid /\ Zombies \subseteq Pid /\ Foreign \subseteq Pid
  BY Kinds DEF IInv
<1>1. TypeOK'
  BY LaunchAssumption DEF IInv, TypeOK, Launchers, Points, Reading, Scanning, Leaving,
       Write, Busy
<1>2. Unstruck'
  BY DEF IInv, TypeOK, Launchers, Unstruck, Reading, Scanning, Leaving, Write, Busy
<1>3. Conserved'
  BY DEF IInv, TypeOK, Launchers, Conserved, Undisturbed, Write, Busy
<1>4. SeenToTheEnd'
  BY <1>u, <1>k DEF IInv, TypeOK, Launchers, SeenToTheEnd, Undisturbed, Reading, Scanning,
       Leaving, Write, Busy
<1>5. Held'
  BY LaunchAssumption, <1>u, <1>k DEF IInv, TypeOK, Launchers, Held, Undisturbed, Reading,
       Scanning, Leaving, Write, Busy
<1>6. Pinned'
  BY LaunchAssumption, <1>u, <1>k DEF IInv, TypeOK, Launchers, Pinned, Undisturbed, Write, Busy
<1>7. Covered'
  BY <1>u, <1>k DEF IInv, TypeOK, Launchers, Covered, InScan, Undisturbed, Reading,
       Scanning, Leaving, Write, Busy
<1> QED BY <1>1, <1>2, <1>3, <1>4, <1>5, <1>6, <1>7 DEF IInv

\* Only the clock moves.
LEMMA TimePassesKeeps ==
  ASSUME IInv, TimePasses
  PROVE  IInv'
<1>u. /\ UNCHANGED <<Own, Zombies, Foreign, Taken>>
      /\ \A p \in Pid : InSession(p)' = InSession(p)
  BY Unmoved DEF TimePasses
<1>k. Own \subseteq Pid /\ Zombies \subseteq Pid /\ Foreign \subseteq Pid
  BY Kinds DEF IInv
<1>1. TypeOK'
  BY LaunchAssumption DEF IInv, TypeOK, Launchers, Points, Reading, Scanning, Leaving,
       TimePasses
<1>2. Unstruck'
  BY DEF IInv, TypeOK, Launchers, Unstruck, Reading, Scanning, Leaving, TimePasses
<1>3. Conserved'
  BY DEF IInv, TypeOK, Launchers, Conserved, Undisturbed, TimePasses
<1>4. SeenToTheEnd'
  BY <1>u, <1>k DEF IInv, TypeOK, Launchers, SeenToTheEnd, Undisturbed, Reading, Scanning,
       Leaving, TimePasses
<1>5. Held'
  BY LaunchAssumption, <1>u, <1>k DEF IInv, TypeOK, Launchers, Held, Undisturbed, Reading,
       Scanning, Leaving, TimePasses
<1>6. Pinned'
  BY LaunchAssumption, <1>u, <1>k DEF IInv, TypeOK, Launchers, Pinned, Undisturbed, TimePasses
<1>7. Covered'
  BY <1>u, <1>k DEF IInv, TypeOK, Launchers, Covered, InScan, Undisturbed, Reading,
       Scanning, Leaving, TimePasses
<1> QED BY <1>1, <1>2, <1>3, <1>4, <1>5, <1>6, <1>7 DEF IInv

\* A signal leads to the scan or out of launch().
LEMMA InterruptKeeps ==
  ASSUME IInv, Interrupt
  PROVE  IInv'
<1>u. /\ UNCHANGED <<Own, Zombies, Foreign, Taken>>
      /\ \A p \in Pid : InSession(p)' = InSession(p)
  BY Unmoved DEF Interrupt
<1>k. Own \subseteq Pid /\ Zombies \subseteq Pid /\ Foreign \subseteq Pid
  BY Kinds DEF IInv
<1>l. /\ launcher'.at = IF launcher.at \in Reading THEN "list" ELSE "raised"
      /\ launcher'.chunk = 0 /\ launcher'.pinned = FALSE
      /\ launcher'.todo = launcher.todo /\ launcher'.entry = launcher.entry
  BY DEF IInv, TypeOK, Launchers, Interrupt
<1>s. launcher.at \in Points /\ struck' = struck \cup {launcher.at}
  BY DEF IInv, TypeOK, Launchers, Interrupt
<1>1. TypeOK'
  <2>1. launcher' \in Launchers
    <3> DEFINE next == IF launcher.at \in Reading THEN "list" ELSE "raised"
    <3>1. next \in Points /\ 0 \in 0 .. PipeSize
      BY LaunchAssumption DEF Points, Scanning
    <3>2. launcher' = [launcher EXCEPT !.at = next, !.chunk = 0, !.pinned = FALSE]
      BY DEF Interrupt
    <3> HIDE DEF next
    <3> QED BY <3>1, <3>2 DEF IInv, TypeOK, Launchers
  <2> QED BY <1>s, <2>1 DEF IInv, TypeOK, Interrupt
<1>2. Unstruck'
  BY <1>l DEF IInv, TypeOK, Launchers, Unstruck, Reading, Scanning, Leaving, Interrupt, Busy
<1>3. Conserved'
  BY <1>l, <1>s DEF IInv, TypeOK, Launchers, Conserved, Undisturbed, Interrupt, Busy
<1>4. SeenToTheEnd'
  <2>1. launcher'.at = "raised" => launcher.at \in Scanning \cup Leaving \cup {"begin"}
    BY <1>l, <1>s DEF Points, Interrupt, Busy
  <2> QED BY ONLY <1>l, <1>s, <2>1 DEF SeenToTheEnd, Undisturbed
<1>5. Held'
  BY LaunchAssumption, <1>u, <1>k, <1>l DEF IInv, TypeOK, Launchers, Held, Undisturbed,
       Reading, Scanning, Leaving, Interrupt, Busy
<1>6. Pinned'
  BY LaunchAssumption, <1>u, <1>k, <1>l DEF IInv, TypeOK, Launchers, Pinned, Undisturbed,
       Interrupt, Busy
<1>7. Covered'
  <2>1. CASE launcher.at \in Reading
    BY ONLY <2>1, <1>l DEF Covered, InScan, Leaving
  <2>2. CASE launcher.at \in Scanning \cup {"begin"}
    <3>1. ~Undisturbed(Scanning \cup {"begin"})'
      BY <2>2, <1>s DEF Undisturbed
    <3>2. launcher'.at = "raised"
      BY <2>2, <1>l DEF Scanning, Reading
    <3> QED BY ONLY <3>1, <3>2 DEF Covered, InScan, Leaving
  <2>3. CASE launcher.at \in Leaving
    <3>1. launcher'.at = "raised"
      BY <2>3, <1>l DEF Leaving, Reading
    <3>2. ~strayed' => Own' = {}
      BY <2>3, <1>u DEF IInv, Covered, Interrupt
    <3> QED BY ONLY <3>1, <3>2 DEF Covered, InScan, Leaving
  <2> QED BY <1>s, <2>1, <2>2, <2>3 DEF Points, Interrupt, Busy
<1> QED BY <1>1, <1>2, <1>3, <1>4, <1>5, <1>6, <1>7 DEF IInv

\* The `try` is entered.
LEMMA BeginKeeps ==
  ASSUME IInv, Begin, UNCHANGED <<forks, late, strayed, struck>>
  PROVE  IInv'
<1>u. /\ UNCHANGED <<Own, Zombies, Foreign, Taken>>
      /\ \A p \in Pid : InSession(p)' = InSession(p)
  BY Unmoved DEF Begin
<1>k. Own \subseteq Pid /\ Zombies \subseteq Pid /\ Foreign \subseteq Pid
  BY Kinds DEF IInv
<1>1. TypeOK'
  BY LaunchAssumption DEF IInv, TypeOK, Launchers, Points, Reading, Scanning, Leaving,
       Begin, Goto
<1>2. Unstruck'
  BY DEF IInv, TypeOK, Launchers, Unstruck, Reading, Scanning, Leaving, Begin, Goto
<1>3. Conserved'
  BY DEF IInv, TypeOK, Launchers, Conserved, Undisturbed, Begin, Goto
<1>4. SeenToTheEnd'
  BY <1>u, <1>k DEF IInv, TypeOK, Launchers, SeenToTheEnd, Undisturbed, Reading, Scanning,
       Leaving, Begin, Goto
<1>5. Held'
  BY LaunchAssumption, <1>u, <1>k DEF IInv, TypeOK, Launchers, Held, Undisturbed, Reading,
       Scanning, Leaving, Begin, Goto
<1>6. Pinned'
  BY LaunchAssumption, <1>u, <1>k DEF IInv, TypeOK, Launchers, Pinned, Undisturbed, Begin, Goto
<1>7. Covered'
  BY <1>u, <1>k DEF IInv, TypeOK, Launchers, Covered, InScan, Undisturbed, Reading,
       Scanning, Leaving, Begin, Goto
<1> QED BY <1>1, <1>2, <1>3, <1>4, <1>5, <1>6, <1>7 DEF IInv

\* The time is up, or there is something to read.
LEMMA PollKeeps ==
  ASSUME IInv, Poll, UNCHANGED <<forks, late, strayed, struck>>
  PROVE  IInv'
<1>u. /\ UNCHANGED <<Own, Zombies, Foreign, Taken>>
      /\ \A p \in Pid : InSession(p)' = InSession(p)
  BY Unmoved DEF Poll
<1>k. Own \subseteq Pid /\ Zombies \subseteq Pid /\ Foreign \subseteq Pid
  BY Kinds DEF IInv
<1>1. TypeOK'
  BY LaunchAssumption DEF IInv, TypeOK, Launchers, Points, Reading, Scanning, Leaving, Poll,
       Goto, Readable
<1>2. Unstruck'
  BY DEF IInv, TypeOK, Launchers, Unstruck, Reading, Scanning, Leaving, Poll, Goto, Readable
<1>3. Conserved'
  BY DEF IInv, TypeOK, Launchers, Conserved, Undisturbed, Poll, Goto, Readable
<1>4. SeenToTheEnd'
  BY <1>u, <1>k DEF IInv, TypeOK, Launchers, SeenToTheEnd, Undisturbed, Reading, Scanning,
       Leaving, Poll, Goto, Readable
<1>5. Held'
  BY LaunchAssumption, <1>u, <1>k DEF IInv, TypeOK, Launchers, Held, Undisturbed, Reading,
       Scanning, Leaving, Poll, Goto, Readable
<1>6. Pinned'
  BY LaunchAssumption, <1>u, <1>k DEF IInv, TypeOK, Launchers, Pinned, Undisturbed, Poll,
       Goto, Readable
<1>7. Covered'
  BY <1>u, <1>k DEF IInv, TypeOK, Launchers, Covered, InScan, Undisturbed, Reading,
       Scanning, Leaving, Poll, Goto, Readable
<1> QED BY <1>1, <1>2, <1>3, <1>4, <1>5, <1>6, <1>7 DEF IInv

\* What was in the pipe is on its way.
LEMMA ReadKeeps ==
  ASSUME IInv, Read, UNCHANGED <<forks, late, strayed, struck>>
  PROVE  IInv'
<1>u. /\ UNCHANGED <<Own, Zombies, Foreign, Taken>>
      /\ \A p \in Pid : InSession(p)' = InSession(p)
  BY Unmoved DEF Read
<1>k. Own \subseteq Pid /\ Zombies \subseteq Pid /\ Foreign \subseteq Pid
  BY Kinds DEF IInv
<1>1. TypeOK'
  <2>0. 0 \in 0 .. PipeSize
    BY LaunchAssumption
  <2>1. launcher' \in Launchers
    BY <2>0 DEF IInv, TypeOK, Launchers, Points, Reading, Leaving, Read
  <2>2. pipe' \in 0 .. PipeSize /\ owed' \in Nat
    BY LaunchAssumption DEF IInv, TypeOK, Launchers, Conserved, Read
  <2> QED BY <2>1, <2>2 DEF IInv, TypeOK, Read
<1>2. Unstruck'
  BY DEF IInv, TypeOK, Launchers, Unstruck, Reading, Scanning, Leaving, Read
<1>3. Conserved'
  BY DEF IInv, TypeOK, Launchers, Conserved, Undisturbed, Read
<1>4. SeenToTheEnd'
  BY <1>u, <1>k DEF IInv, TypeOK, Launchers, SeenToTheEnd, Undisturbed, Reading, Scanning,
       Leaving, Read
<1>5. Held'
  BY LaunchAssumption, <1>u, <1>k DEF IInv, TypeOK, Launchers, Held, Undisturbed, Reading,
       Scanning, Leaving, Read
<1>6. Pinned'
  BY LaunchAssumption, <1>u, <1>k DEF IInv, TypeOK, Launchers, Pinned, Undisturbed, Read
<1>7. Covered'
  BY <1>u, <1>k DEF IInv, TypeOK, Launchers, Covered, InScan, Undisturbed, Reading,
       Scanning, Leaving, Read
<1> QED BY <1>1, <1>2, <1>3, <1>4, <1>5, <1>6, <1>7 DEF IInv

\* What was on its way is in the output.
LEMMA AppendKeeps ==
  ASSUME IInv, Append, UNCHANGED <<forks, late, strayed, struck>>
  PROVE  IInv'
<1>u. /\ UNCHANGED <<Own, Zombies, Foreign, Taken>>
      /\ \A p \in Pid : InSession(p)' = InSession(p)
  BY Unmoved DEF Append
<1>k. Own \subseteq Pid /\ Zombies \subseteq Pid /\ Foreign \subseteq Pid
  BY Kinds DEF IInv
<1>1. TypeOK'
  <2>0. 0 \in 0 .. PipeSize
    BY LaunchAssumption
  <2>1. launcher' \in Launchers
    BY <2>0 DEF IInv, TypeOK, Launchers, Points, Reading, Leaving, Append
  <2>2. pipe' \in 0 .. PipeSize /\ owed' \in Nat
    BY LaunchAssumption DEF IInv, TypeOK, Launchers, Conserved, Append
  <2> QED BY <2>1, <2>2 DEF IInv, TypeOK, Append
<1>2. Unstruck'
  BY DEF IInv, TypeOK, Launchers, Unstruck, Reading, Scanning, Leaving, Append
<1>3. Conserved'
  BY DEF IInv, TypeOK, Launchers, Conserved, Undisturbed, Append
<1>4. SeenToTheEnd'
  BY <1>u, <1>k DEF IInv, TypeOK, Launchers, SeenToTheEnd, Undisturbed, Reading, Scanning,
       Leaving, Append
<1>5. Held'
  BY LaunchAssumption, <1>u, <1>k DEF IInv, TypeOK, Launchers, Held, Undisturbed, Reading,
       Scanning, Leaving, Append
<1>6. Pinned'
  BY LaunchAssumption, <1>u, <1>k DEF IInv, TypeOK, Launchers, Pinned, Undisturbed, Append
<1>7. Covered'
  BY <1>u, <1>k DEF IInv, TypeOK, Launchers, Covered, InScan, Undisturbed, Reading,
       Scanning, Leaving, Append
<1> QED BY <1>1, <1>2, <1>3, <1>4, <1>5, <1>6, <1>7 DEF IInv

\* Nothing of the launch is left, and nothing in the pipe.
LEMMA ReturnKeeps ==
  ASSUME IInv, Return, UNCHANGED <<forks, late, strayed, struck>>
  PROVE  IInv'
<1>u. /\ UNCHANGED <<Own, Zombies, Foreign, Taken>>
      /\ \A p \in Pid : InSession(p)' = InSession(p)
  BY Unmoved DEF Return
<1>k. Own \subseteq Pid /\ Zombies \subseteq Pid /\ Foreign \subseteq Pid
  BY Kinds DEF IInv
<1>1. TypeOK'
  BY LaunchAssumption DEF IInv, TypeOK, Launchers, Points, Reading, Scanning, Leaving,
       Return, Goto
<1>2. Unstruck'
  BY DEF IInv, TypeOK, Launchers, Unstruck, Reading, Scanning, Leaving, Return, Goto
<1>3. Conserved'
  BY DEF IInv, TypeOK, Launchers, Conserved, Undisturbed, Return, Goto
<1>4. SeenToTheEnd'
  BY <1>u, <1>k DEF IInv, TypeOK, Launchers, SeenToTheEnd, Undisturbed, Reading, Scanning,
       Leaving, Return, Goto
<1>5. Held'
  BY LaunchAssumption, <1>u, <1>k DEF IInv, TypeOK, Launchers, Held, Undisturbed, Reading,
       Scanning, Leaving, Return, Goto
<1>6. Pinned'
  BY LaunchAssumption, <1>u, <1>k DEF IInv, TypeOK, Launchers, Pinned, Undisturbed, Return, Goto
<1>7. Covered'
  BY <1>u, <1>k DEF IInv, TypeOK, Launchers, Covered, InScan, Undisturbed, Reading,
       Scanning, Leaving, Return, Goto
<1> QED BY <1>1, <1>2, <1>3, <1>4, <1>5, <1>6, <1>7 DEF IInv

\* All that has a number is listed.
LEMMA ListKeeps ==
  ASSUME IInv, List, UNCHANGED <<forks, late, strayed, struck>>
  PROVE  IInv'
<1>u. /\ UNCHANGED <<Own, Zombies, Foreign, Taken>>
      /\ \A p \in Pid : InSession(p)' = InSession(p)
  BY Unmoved DEF List
<1>k. Own \subseteq Pid /\ Zombies \subseteq Pid /\ Foreign \subseteq Pid
  BY Kinds DEF IInv
<1>1. TypeOK'
  BY <1>k DEF IInv, TypeOK, Launchers, Points, Scanning, Taken, List
<1>2. Unstruck'
  BY DEF IInv, TypeOK, Launchers, Unstruck, Reading, Scanning, Leaving, List, Taken
<1>3. Conserved'
  BY DEF IInv, TypeOK, Launchers, Conserved, Undisturbed, List, Taken
<1>4. SeenToTheEnd'
  BY <1>u, <1>k DEF IInv, TypeOK, Launchers, SeenToTheEnd, Undisturbed, Reading, Scanning,
       Leaving, List, Taken
<1>5. Held'
  BY LaunchAssumption, <1>u, <1>k DEF IInv, TypeOK, Launchers, Held, Undisturbed, Reading,
       Scanning, Leaving, List, Taken
<1>6. Pinned'
  BY LaunchAssumption, <1>u, <1>k DEF IInv, TypeOK, Launchers, Pinned, Undisturbed, List, Taken
<1>7. Covered'
  BY <1>u, <1>k DEF IInv, TypeOK, Launchers, Covered, InScan, Undisturbed, Reading,
       Scanning, Leaving, List, Taken
<1> QED BY <1>1, <1>2, <1>3, <1>4, <1>5, <1>6, <1>7 DEF IInv

\* An entry leaves the list for a closer look, or because it is not of the session.
LEMMA ScanKeeps ==
  ASSUME IInv, Scan, UNCHANGED <<forks, late, strayed, struck>>
  PROVE  IInv'
<1>u. /\ UNCHANGED <<Own, Zombies, Foreign, Taken>>
      /\ \A p \in Pid : InSession(p)' = InSession(p)
  BY Unmoved DEF Scan
<1>k. Own \subseteq Pid /\ Zombies \subseteq Pid /\ Foreign \subseteq Pid
  BY Kinds DEF IInv
<1>1. TypeOK'
  <2>1. CASE \E p \in launcher.todo :
          launcher' = [launcher EXCEPT !.todo = @ \ {p}, !.entry = p,
                                       !.at = IF InSession(p) THEN "open" ELSE "scan"]
    <3>1. PICK p \in launcher.todo :
            launcher' = [launcher EXCEPT !.todo = @ \ {p}, !.entry = p,
                                         !.at = IF InSession(p) THEN "open" ELSE "scan"]
      BY <2>1
    <3>2. p \in Pid /\ launcher.todo \ {p} \in SUBSET Pid
      BY DEF IInv, TypeOK, Launchers
    <3> QED BY <3>1, <3>2 DEF IInv, TypeOK, Launchers, Points, Scanning, Scan
  <2>2. CASE launcher.todo = {} /\ Goto("group")
    BY <2>2 DEF IInv, TypeOK, Launchers, Points, Scanning, Goto, Scan
  <2> QED BY <2>1, <2>2 DEF Scan
<1>2. Unstruck'
  BY DEF IInv, TypeOK, Launchers, Unstruck, Reading, Scanning, Leaving, Scan, Goto, InSession
<1>3. Conserved'
  BY DEF IInv, TypeOK, Launchers, Conserved, Undisturbed, Scan, Goto, InSession
<1>4. SeenToTheEnd'
  BY <1>u, <1>k DEF IInv, TypeOK, Launchers, SeenToTheEnd, Undisturbed, Reading, Scanning,
       Leaving, Scan, Goto, InSession
<1>5. Held'
  BY LaunchAssumption, <1>u, <1>k DEF IInv, TypeOK, Launchers, Held, Undisturbed, Reading,
       Scanning, Leaving, Scan, Goto, InSession
<1>6. Pinned'
  BY LaunchAssumption, <1>u, <1>k DEF IInv, TypeOK, Launchers, Pinned, Undisturbed, Scan,
       Goto, InSession
<1>7. Covered'
  <2>1. CASE \E p \in launcher.todo :
          launcher' = [launcher EXCEPT !.todo = @ \ {p}, !.entry = p,
                                       !.at = IF InSession(p) THEN "open" ELSE "scan"]
    <3>1. PICK p \in launcher.todo :
            launcher' = [launcher EXCEPT !.todo = @ \ {p}, !.entry = p,
                                         !.at = IF InSession(p) THEN "open" ELSE "scan"]
      BY <2>1
    <3>2. /\ launcher'.todo = launcher.todo \ {p} /\ launcher'.entry = p
          /\ launcher'.at = IF InSession(p) THEN "open" ELSE "scan"
      BY <3>1 DEF IInv, TypeOK, Launchers
    <3>3. ~InSession(p) => p \notin Own
      BY DEF InSession, Own, Foreign, Zombies
    <3>4. process' = process /\ strayed' = strayed /\ Own' = Own
      BY DEF Scan, Own
    <3>5. launcher.at = "scan" /\ launcher'.at \in {"scan", "open"}
      BY <3>2 DEF Scan
    <3>6. Own \subseteq Pid
      BY DEF Own
    <3>7. ASSUME ~strayed, NEW q \in Own
          PROVE  \/ process[q].group = Main
                 \/ q \in launcher.todo \ {p}
                 \/ launcher'.at = "open" /\ q = p
      <4> HIDE DEF Own, InSession, Undisturbed
      <4> QED BY <3>2, <3>3, <3>5, <3>7 DEF IInv, Covered, InScan
    <3> HIDE DEF Own, InSession, Undisturbed
    <3> QED BY <3>2, <3>4, <3>5, <3>7 DEF Covered, InScan, Leaving
  <2>2. CASE launcher.todo = {} /\ Goto("group")
    BY <1>u, <2>2 DEF IInv, TypeOK, Launchers, Covered, InScan, Scanning, Leaving, Goto, Scan
  <2> QED BY <2>1, <2>2 DEF Scan
<1> QED BY <1>1, <1>2, <1>3, <1>4, <1>5, <1>6, <1>7 DEF IInv

\* The descriptor is of whatever has the number now.
LEMMA OpenKeeps ==
  ASSUME IInv, Open, UNCHANGED <<forks, late, strayed, struck>>
  PROVE  IInv'
<1>u. /\ UNCHANGED <<Own, Zombies, Foreign, Taken>>
      /\ \A p \in Pid : InSession(p)' = InSession(p)
  BY Unmoved DEF Open
<1>k. Own \subseteq Pid /\ Zombies \subseteq Pid /\ Foreign \subseteq Pid
  BY Kinds DEF IInv
<1>1. TypeOK'
  BY LaunchAssumption DEF IInv, TypeOK, Launchers, Points, Reading, Scanning, Leaving, Open,
       Taken
<1>2. Unstruck'
  BY DEF IInv, TypeOK, Launchers, Unstruck, Reading, Scanning, Leaving, Open, Taken
<1>3. Conserved'
  BY DEF IInv, TypeOK, Launchers, Conserved, Undisturbed, Open, Taken
<1>4. SeenToTheEnd'
  BY <1>u, <1>k DEF IInv, TypeOK, Launchers, SeenToTheEnd, Undisturbed, Reading, Scanning,
       Leaving, Open, Taken
<1>5. Held'
  BY LaunchAssumption, <1>u, <1>k DEF IInv, TypeOK, Launchers, Held, Undisturbed, Reading,
       Scanning, Leaving, Open, Taken
<1>6. Pinned'
  BY LaunchAssumption, <1>u, <1>k DEF IInv, TypeOK, Launchers, Pinned, Undisturbed, Open, Taken
<1>7. Covered'
  BY <1>u, <1>k DEF IInv, TypeOK, Launchers, Covered, InScan, Undisturbed, Reading,
       Scanning, Leaving, Open, Taken
<1> QED BY <1>1, <1>2, <1>3, <1>4, <1>5, <1>6, <1>7 DEF IInv

\* Looked at again with the descriptor held.
LEMMA AgainKeeps ==
  ASSUME IInv, Again, UNCHANGED <<forks, late, strayed, struck>>
  PROVE  IInv'
<1>u. /\ UNCHANGED <<Own, Zombies, Foreign, Taken>>
      /\ \A p \in Pid : InSession(p)' = InSession(p)
  BY Unmoved DEF Again
<1>k. Own \subseteq Pid /\ Zombies \subseteq Pid /\ Foreign \subseteq Pid
  BY Kinds DEF IInv
<1>1. TypeOK'
  BY LaunchAssumption DEF IInv, TypeOK, Launchers, Points, Reading, Scanning, Leaving,
       Again, InSession
<1>2. Unstruck'
  BY DEF IInv, TypeOK, Launchers, Unstruck, Reading, Scanning, Leaving, Again, InSession
<1>3. Conserved'
  BY DEF IInv, TypeOK, Launchers, Conserved, Undisturbed, Again, InSession
<1>4. SeenToTheEnd'
  BY <1>u, <1>k DEF IInv, TypeOK, Launchers, SeenToTheEnd, Undisturbed, Reading, Scanning,
       Leaving, Again, InSession
<1>5. Held'
  BY LaunchAssumption, <1>u, <1>k DEF IInv, TypeOK, Launchers, Held, Undisturbed, Reading,
       Scanning, Leaving, Again, InSession
<1>6. Pinned'
  BY LaunchAssumption, <1>u, <1>k DEF IInv, TypeOK, Launchers, Pinned, Undisturbed, Again,
       InSession
<1>7. Covered'
  BY <1>u, <1>k DEF IInv, TypeOK, Launchers, Covered, InScan, Undisturbed, Reading,
       Scanning, Leaving, Again, InSession
<1> QED BY <1>1, <1>2, <1>3, <1>4, <1>5, <1>6, <1>7 DEF IInv

\* What was in the pipe is on its way.
LEMMA DrainKeeps ==
  ASSUME IInv, Drain, UNCHANGED <<forks, late, strayed, struck>>
  PROVE  IInv'
<1>u. /\ UNCHANGED <<Own, Zombies, Foreign, Taken>>
      /\ \A p \in Pid : InSession(p)' = InSession(p)
  BY Unmoved DEF Drain
<1>k. Own \subseteq Pid /\ Zombies \subseteq Pid /\ Foreign \subseteq Pid
  BY Kinds DEF IInv
<1>1. TypeOK'
  <2>0. 0 \in 0 .. PipeSize
    BY LaunchAssumption
  <2>1. launcher' \in Launchers
    BY <2>0 DEF IInv, TypeOK, Launchers, Points, Reading, Leaving, Drain
  <2>2. pipe' \in 0 .. PipeSize /\ owed' \in Nat
    BY LaunchAssumption DEF IInv, TypeOK, Launchers, Conserved, Drain
  <2> QED BY <2>1, <2>2 DEF IInv, TypeOK, Drain
<1>2. Unstruck'
  BY DEF IInv, TypeOK, Launchers, Unstruck, Reading, Scanning, Leaving, Drain
<1>3. Conserved'
  BY DEF IInv, TypeOK, Launchers, Conserved, Undisturbed, Drain
<1>4. SeenToTheEnd'
  BY <1>u, <1>k DEF IInv, TypeOK, Launchers, SeenToTheEnd, Undisturbed, Reading, Scanning,
       Leaving, Drain
<1>5. Held'
  BY LaunchAssumption, <1>u, <1>k DEF IInv, TypeOK, Launchers, Held, Undisturbed, Reading,
       Scanning, Leaving, Drain
<1>6. Pinned'
  BY LaunchAssumption, <1>u, <1>k DEF IInv, TypeOK, Launchers, Pinned, Undisturbed, Drain
<1>7. Covered'
  BY <1>u, <1>k DEF IInv, TypeOK, Launchers, Covered, InScan, Undisturbed, Reading,
       Scanning, Leaving, Drain
<1> QED BY <1>1, <1>2, <1>3, <1>4, <1>5, <1>6, <1>7 DEF IInv

\* What was on its way is in the output.
LEMMA KeepKeeps ==
  ASSUME IInv, Keep, UNCHANGED <<forks, late, strayed, struck>>
  PROVE  IInv'
<1>u. /\ UNCHANGED <<Own, Zombies, Foreign, Taken>>
      /\ \A p \in Pid : InSession(p)' = InSession(p)
  BY Unmoved DEF Keep
<1>k. Own \subseteq Pid /\ Zombies \subseteq Pid /\ Foreign \subseteq Pid
  BY Kinds DEF IInv
<1>1. TypeOK'
  <2>0. 0 \in 0 .. PipeSize
    BY LaunchAssumption
  <2>1. launcher' \in Launchers
    BY <2>0 DEF IInv, TypeOK, Launchers, Points, Reading, Leaving, Keep
  <2>2. pipe' \in 0 .. PipeSize /\ owed' \in Nat
    BY LaunchAssumption DEF IInv, TypeOK, Launchers, Conserved, Keep
  <2> QED BY <2>1, <2>2 DEF IInv, TypeOK, Keep
<1>2. Unstruck'
  BY DEF IInv, TypeOK, Launchers, Unstruck, Reading, Scanning, Leaving, Keep
<1>3. Conserved'
  BY DEF IInv, TypeOK, Launchers, Conserved, Undisturbed, Keep
<1>4. SeenToTheEnd'
  BY <1>u, <1>k DEF IInv, TypeOK, Launchers, SeenToTheEnd, Undisturbed, Reading, Scanning,
       Leaving, Keep
<1>5. Held'
  BY LaunchAssumption, <1>u, <1>k DEF IInv, TypeOK, Launchers, Held, Undisturbed, Reading,
       Scanning, Leaving, Keep
<1>6. Pinned'
  BY LaunchAssumption, <1>u, <1>k DEF IInv, TypeOK, Launchers, Pinned, Undisturbed, Keep
<1>7. Covered'
  BY <1>u, <1>k DEF IInv, TypeOK, Launchers, Covered, InScan, Undisturbed, Reading,
       Scanning, Leaving, Keep
<1> QED BY <1>1, <1>2, <1>3, <1>4, <1>5, <1>6, <1>7 DEF IInv

\* A child outside the group during the scan is what `strayed` notes.
LEMMA ForkKeeps ==
  ASSUME IInv, Fork
  PROVE  IInv'
<1>k. /\ Own \subseteq Pid /\ Zombies \subseteq Pid /\ Foreign \subseteq Pid
      /\ Own \cap Zombies = {} /\ Own \cap Foreign = {} /\ Zombies \cap Foreign = {}
      /\ Givable \subseteq Pid \ Taken
  BY Kinds DEF IInv
<1>t. TypeOK
  BY DEF IInv
<1>1a. PICK parent \in Own, child \in Givable :
         \E group \in {process[parent].group, child} :
           /\ process' = [process EXCEPT ![child] = [kind |-> "own", group |-> group]]
           /\ strayed' = (strayed \/ (Scanned /\ group # Main))
  BY DEF Fork
<1>1b. PICK group \in {process[parent].group, child} :
         /\ process' = [process EXCEPT ![child] = [kind |-> "own", group |-> group]]
         /\ strayed' = (strayed \/ (Scanned /\ group # Main))
  BY <1>1a
<1>1c. group \in Pid
  BY <1>k, <1>t DEF TypeOK, Processes
<1>1d. child \in Pid \ Taken /\ child # Main
  <2>1. child = Main => Own = {}
    BY DEF Givable
  <2> QED BY <2>1, <1>k
<1>f. /\ process' \in [Pid -> Processes]
      /\ Own' = Own \cup {child} /\ Own # {} /\ Foreign' = Foreign /\ Zombies' = Zombies
      /\ process'[child].group = group
      /\ \A p \in Pid \ {child} : process'[p] = process[p]
      /\ child \notin Foreign
      /\ strayed' \in BOOLEAN
      /\ ~strayed' => ~strayed /\ (launcher.at \in (Scanning \ {"list"}) \cup Leaving => group = Main)
  BY <1>t, <1>1b, <1>1c, <1>1d, BornKinds DEF Taken, TypeOK, Scanned
<1> HIDE DEF Own
<1>1. TypeOK'
  BY LaunchAssumption, <1>f DEF IInv, TypeOK, Launchers, Points, Reading, Scanning, Leaving,
       Fork, Busy
<1>2. Unstruck'
  BY <1>f DEF IInv, TypeOK, Launchers, Unstruck, Reading, Scanning, Leaving, Fork, Busy
<1>3. Conserved'
  BY <1>f DEF IInv, TypeOK, Launchers, Conserved, Undisturbed, Fork, Busy
<1>4. SeenToTheEnd'
  BY <1>k, <1>f DEF IInv, TypeOK, Launchers, SeenToTheEnd, Undisturbed, Reading, Scanning,
       Leaving, Fork, Busy
<1>5. Held'
  BY LaunchAssumption, <1>k, <1>f DEF IInv, TypeOK, Launchers, Held, Undisturbed, Reading,
       Scanning, Leaving, Fork, Busy
<1>6. Pinned'
  BY LaunchAssumption, <1>k, <1>t, <1>f, <1>1d DEF IInv, TypeOK, Launchers, Pinned,
       Undisturbed, InSession, Taken, Fork, Busy
<1>7. Covered'
  BY <1>k, <1>f DEF IInv, TypeOK, Launchers, Covered, InScan, Undisturbed, Reading,
       Scanning, Leaving, Fork, Busy
<1> QED BY <1>1, <1>2, <1>3, <1>4, <1>5, <1>6, <1>7 DEF IInv

\* What is born is not of this launch.
LEMMA ReuseKeeps ==
  ASSUME IInv, Reuse
  PROVE  IInv'
<1>k. /\ Own \subseteq Pid /\ Zombies \subseteq Pid /\ Foreign \subseteq Pid
      /\ Own \cap Zombies = {} /\ Own \cap Foreign = {} /\ Zombies \cap Foreign = {}
      /\ Givable \subseteq Pid \ Taken
  BY Kinds DEF IInv
<1>t. TypeOK
  BY DEF IInv
<1>1a. PICK new \in Givable : process' = [process EXCEPT ![new] = [kind |-> "foreign", group |-> new]]
  BY DEF Reuse
<1>f. /\ process' \in [Pid -> Processes]
      /\ Own' = Own /\ Foreign' = Foreign \cup {new} /\ Zombies' = Zombies
      /\ process'[new].group = new
      /\ \A p \in Pid \ {new} : process'[p] = process[p]
      /\ new \notin Own
  BY <1>k, <1>t, <1>1a, BornKinds DEF Taken
<1>1. TypeOK'
  BY LaunchAssumption, <1>f DEF IInv, TypeOK, Launchers, Points, Reading, Scanning, Leaving,
       Reuse, Busy
<1>2. Unstruck'
  BY <1>f DEF IInv, TypeOK, Launchers, Unstruck, Reading, Scanning, Leaving, Reuse, Busy
<1>3. Conserved'
  BY <1>f DEF IInv, TypeOK, Launchers, Conserved, Undisturbed, Reuse, Busy
<1>4. SeenToTheEnd'
  BY <1>k, <1>f DEF IInv, TypeOK, Launchers, SeenToTheEnd, Undisturbed, Reading, Scanning,
       Leaving, Reuse, Busy
<1>5. Held'
  BY LaunchAssumption, <1>k, <1>f DEF IInv, TypeOK, Launchers, Held, Undisturbed, Reading,
       Scanning, Leaving, Reuse, Busy
<1>6. Pinned'
  BY LaunchAssumption, <1>k, <1>t, <1>f DEF IInv, TypeOK, Launchers, Pinned, Undisturbed,
       InSession, Taken, Reuse, Busy
<1>7. Covered'
  BY <1>k, <1>f DEF IInv, TypeOK, Launchers, Covered, InScan, Undisturbed, Reading,
       Scanning, Leaving, Reuse, Busy
<1> QED BY <1>1, <1>2, <1>3, <1>4, <1>5, <1>6, <1>7 DEF IInv

\* What ends takes its descriptor with it; the program's child stays as a zombie.
LEMMA ExitKeeps ==
  ASSUME IInv, Exit
  PROVE  IInv'
<1>k. /\ Own \subseteq Pid /\ Zombies \subseteq Pid /\ Foreign \subseteq Pid
      /\ Own \cap Zombies = {} /\ Own \cap Foreign = {} /\ Zombies \cap Foreign = {}
      /\ Givable \subseteq Pid \ Taken
  BY Kinds DEF IInv
<1>t. TypeOK
  BY DEF IInv
<1>1a. PICK p \in Own \cup Foreign : process' = Ended({p}) /\ launcher' = Void({p}, launcher)
  BY DEF Exit
<1>f. /\ process' \in [Pid -> Processes]
      /\ Own' = Own \ {p} /\ Foreign' = Foreign \ {p}
      /\ Zombies' = Zombies \cup ({p} \cap Own \cap {Main})
      /\ \A q \in Pid \ {p} : process'[q] = process[q]
      /\ launcher' = [launcher EXCEPT !.pinned = @ /\ launcher.entry \notin {p} \ (Own \cap {Main})]
  BY <1>t, <1>1a, EndedKinds DEF Void
<1>g. /\ launcher' \in Launchers
      /\ launcher'.at = launcher.at /\ launcher'.chunk = launcher.chunk
      /\ launcher'.todo = launcher.todo /\ launcher'.entry = launcher.entry
      /\ launcher'.pinned = (launcher.pinned /\ launcher.entry \notin {p} \ (Own \cap {Main}))
      /\ launcher.entry \in Pid
  BY <1>t, <1>f DEF TypeOK, Launchers
<1>1. TypeOK'
  BY LaunchAssumption, <1>f DEF IInv, TypeOK, Launchers, Points, Reading, Scanning, Leaving,
       Exit, Busy
<1>2. Unstruck'
  BY <1>f DEF IInv, TypeOK, Launchers, Unstruck, Reading, Scanning, Leaving, Exit, Busy
<1>3. Conserved'
  BY <1>f DEF IInv, TypeOK, Launchers, Conserved, Undisturbed, Exit, Busy
<1>4. SeenToTheEnd'
  BY <1>k, <1>f DEF IInv, TypeOK, Launchers, SeenToTheEnd, Undisturbed, Reading, Scanning,
       Leaving, Exit, Busy
<1>5. Held'
  BY LaunchAssumption, <1>k, <1>f DEF IInv, TypeOK, Launchers, Held, Undisturbed, Reading,
       Scanning, Leaving, Exit, Busy
<1>6. Pinned'
  <2>1. Undisturbed({"reaped"})' => ~hit'
    BY DEF IInv, Pinned, Undisturbed, Exit
  <2>2. ASSUME launcher'.at = "kill", launcher'.pinned
        PROVE  InSession(launcher.entry)'
    <3>1. InSession(launcher.entry)
      BY <2>2, <1>g DEF IInv, Pinned
    <3>2. launcher.entry # p \/ (p = Main /\ p \in Own)
      BY <2>2, <1>g
    <3> QED BY <3>1, <3>2, <1>f, <1>g DEF InSession
  <2> QED BY <2>1, <2>2 DEF Pinned
<1>7. Covered'
  BY <1>k, <1>f DEF IInv, TypeOK, Launchers, Covered, InScan, Undisturbed, Reading,
       Scanning, Leaving, Exit, Busy
<1> QED BY <1>1, <1>2, <1>3, <1>4, <1>5, <1>6, <1>7 DEF IInv

\* The child is waited for when no writer is left.
LEMMA WaitKeeps ==
  ASSUME IInv, Wait, UNCHANGED <<forks, late, strayed, struck>>
  PROVE  IInv'
<1>k. /\ Own \subseteq Pid /\ Zombies \subseteq Pid /\ Foreign \subseteq Pid
      /\ Own \cap Zombies = {} /\ Own \cap Foreign = {} /\ Zombies \cap Foreign = {}
      /\ Givable \subseteq Pid \ Taken
  BY Kinds DEF IInv
<1>t. TypeOK
  BY DEF IInv
<1>f. /\ process' \in [Pid -> Processes]
      /\ Own' = Own /\ Foreign' = Foreign
      /\ \A p \in Pid \ {Main} : process'[p] = process[p]
      /\ Main \in Zombies
  BY <1>t, ReapedKinds DEF Wait
<1>1. TypeOK'
  BY LaunchAssumption, <1>f DEF IInv, TypeOK, Launchers, Points, Reading, Scanning, Leaving,
       Wait, Goto
<1>2. Unstruck'
  BY <1>f DEF IInv, TypeOK, Launchers, Unstruck, Reading, Scanning, Leaving, Wait, Goto
<1>3. Conserved'
  BY <1>f DEF IInv, TypeOK, Launchers, Conserved, Undisturbed, Wait, Goto
<1>4. SeenToTheEnd'
  BY <1>k, <1>f DEF IInv, TypeOK, Launchers, SeenToTheEnd, Undisturbed, Reading, Scanning,
       Leaving, Wait, Goto
<1>5. Held'
  BY LaunchAssumption, <1>k, <1>f DEF IInv, TypeOK, Launchers, Held, Undisturbed, Reading,
       Scanning, Leaving, Wait, Goto
<1>6. Pinned'
  BY LaunchAssumption, <1>k, <1>t, <1>f DEF IInv, TypeOK, Launchers, Pinned, Undisturbed,
       Wait, Goto
<1>7. Covered'
  BY <1>k, <1>f DEF IInv, TypeOK, Launchers, Covered, InScan, Undisturbed, Reading,
       Scanning, Leaving, Wait, Goto
<1> QED BY <1>1, <1>2, <1>3, <1>4, <1>5, <1>6, <1>7 DEF IInv

\* The signal reaches the process that was looked at, or none.
LEMMA KillKeeps ==
  ASSUME IInv, Kill, UNCHANGED <<forks, late, strayed, struck>>
  PROVE  IInv'
<1>k. /\ Own \subseteq Pid /\ Zombies \subseteq Pid /\ Foreign \subseteq Pid
      /\ Own \cap Zombies = {} /\ Own \cap Foreign = {} /\ Zombies \cap Foreign = {}
      /\ Givable \subseteq Pid \ Taken
  BY Kinds DEF IInv
<1>t. TypeOK
  BY DEF IInv
<1> DEFINE gone == IF launcher.pinned THEN {launcher.entry} \ Zombies ELSE {}
<1>1a. InSession(launcher.entry) \/ ~launcher.pinned
  BY DEF IInv, Pinned, Kill
<1>1b. gone \in SUBSET (Own \cup Foreign)
  BY <1>1a DEF InSession
<1>1c. process' = Ended(gone) /\ hit' = (hit \/ gone \cap Foreign # {})
  BY DEF Kill
<1>1d. gone \cap Foreign # {} => Main \in Foreign
  BY <1>1a, <1>k DEF InSession
<1>1e. Undisturbed({"reaped"}) => Main \in Own \cup Zombies
  BY DEF IInv, Held, Kill
<1>1f. launcher.pinned /\ launcher.entry \in Own => launcher.entry \in gone
  BY <1>k
<1> HIDE DEF gone
<1>f. /\ process' \in [Pid -> Processes]
      /\ Own' = Own \ gone /\ Foreign' = Foreign \ gone
      /\ Zombies' = Zombies \cup (gone \cap Own \cap {Main})
      /\ \A q \in Pid \ gone : process'[q] = process[q]
      /\ hit' \in BOOLEAN /\ (hit' => hit \/ Main \in Foreign)
      /\ launcher' = [launcher EXCEPT !.at = "scan", !.pinned = FALSE]
  BY <1>t, <1>1b, <1>1c, <1>1d, EndedKinds DEF Kill, TypeOK
<1>1. TypeOK'
  BY LaunchAssumption, <1>f DEF IInv, TypeOK, Launchers, Points, Reading, Scanning, Leaving,
       Kill
<1>2. Unstruck'
  BY <1>f DEF IInv, TypeOK, Launchers, Unstruck, Reading, Scanning, Leaving, Kill
<1>3. Conserved'
  BY <1>f DEF IInv, TypeOK, Launchers, Conserved, Undisturbed, Kill
<1>4. SeenToTheEnd'
  BY <1>k, <1>f DEF IInv, TypeOK, Launchers, SeenToTheEnd, Undisturbed, Reading, Scanning,
       Leaving, Kill
<1>5. Held'
  BY LaunchAssumption, <1>k, <1>f DEF IInv, TypeOK, Launchers, Held, Undisturbed, Reading,
       Scanning, Leaving, Kill
<1>6. Pinned'
  <2>1. Undisturbed({"reaped"})' => Undisturbed({"reaped"})
    BY DEF Undisturbed
  <2>2. Undisturbed({"reaped"})' => ~hit'
    BY <2>1, <1>k, <1>f, <1>1e DEF IInv, Pinned
  <2>3. launcher'.at # "kill"
    BY <1>f, <1>t DEF TypeOK, Launchers
  <2> QED BY <2>2, <2>3 DEF Pinned
<1>7. Covered'
  <2>1. launcher'.at = "scan" /\ launcher'.todo = launcher.todo
    BY <1>f, <1>t DEF TypeOK, Launchers
  <2>2. ASSUME ~strayed, NEW q \in Own'
        PROVE  process'[q].group = Main \/ q \in launcher.todo
    <3>1. q \in Own /\ q \in Pid \ gone
      BY <1>f, <1>k
    <3>2. launcher.entry = q => ~launcher.pinned
      BY <3>1, <1>1f
    <3> QED BY <2>2, <3>1, <3>2, <1>f DEF IInv, Covered, InScan, Kill
  <2> QED BY <2>1, <2>2 DEF Covered, InScan, Leaving
<1> QED BY <1>1, <1>2, <1>3, <1>4, <1>5, <1>6, <1>7 DEF IInv

\* The group's signal takes what is left.
LEMMA KillGroupKeeps ==
  ASSUME IInv, KillGroup, UNCHANGED <<forks, late, strayed, struck>>
  PROVE  IInv'
<1>k. /\ Own \subseteq Pid /\ Zombies \subseteq Pid /\ Foreign \subseteq Pid
      /\ Own \cap Zombies = {} /\ Own \cap Foreign = {} /\ Zombies \cap Foreign = {}
      /\ Givable \subseteq Pid \ Taken
  BY Kinds DEF IInv
<1>t. TypeOK
  BY DEF IInv
<1> DEFINE gone == {p \in Own \cup Foreign : process[p].group = Main}
<1>1b. gone \in SUBSET (Own \cup Foreign)
  OBVIOUS
<1>1c. process' = Ended(gone) /\ hit' = (hit \/ gone \cap Foreign # {})
  BY DEF KillGroup
<1>1d. gone \cap Foreign # {} => Main \in Foreign
  BY DEF IInv, Held
<1>1e. Undisturbed({"reaped"}) => Main \in Own \cup Zombies
  BY DEF IInv, Held, KillGroup
<1>1f. ~strayed => Own \subseteq gone
  BY DEF IInv, Covered, KillGroup
<1> HIDE DEF gone
<1>f. /\ process' \in [Pid -> Processes]
      /\ Own' = Own \ gone /\ Foreign' = Foreign \ gone
      /\ Zombies' = Zombies \cup (gone \cap Own \cap {Main})
      /\ \A q \in Pid \ gone : process'[q] = process[q]
      /\ hit' \in BOOLEAN /\ (hit' => hit \/ Main \in Foreign)
      /\ launcher' = [launcher EXCEPT !.at = "reap"]
  BY <1>t, <1>1b, <1>1c, <1>1d, EndedKinds DEF KillGroup, TypeOK, Goto
<1>1. TypeOK'
  BY LaunchAssumption, <1>f DEF IInv, TypeOK, Launchers, Points, Reading, Scanning, Leaving,
       KillGroup
<1>2. Unstruck'
  BY <1>f DEF IInv, TypeOK, Launchers, Unstruck, Reading, Scanning, Leaving, KillGroup
<1>3. Conserved'
  BY <1>f DEF IInv, TypeOK, Launchers, Conserved, Undisturbed, KillGroup
<1>4. SeenToTheEnd'
  BY <1>k, <1>f DEF IInv, TypeOK, Launchers, SeenToTheEnd, Undisturbed, Reading, Scanning,
       Leaving, KillGroup
<1>5. Held'
  BY LaunchAssumption, <1>k, <1>f DEF IInv, TypeOK, Launchers, Held, Undisturbed, Reading,
       Scanning, Leaving, KillGroup
<1>6. Pinned'
  <2>1. Undisturbed({"reaped"})' => Undisturbed({"reaped"})
    BY DEF Undisturbed
  <2>2. Undisturbed({"reaped"})' => ~hit'
    BY <2>1, <1>k, <1>f, <1>1e DEF IInv, Pinned
  <2>3. launcher'.at # "kill"
    BY <1>f, <1>t DEF TypeOK, Launchers
  <2> QED BY <2>2, <2>3 DEF Pinned
<1>7. Covered'
  <2>1. launcher'.at = "reap"
    BY <1>f, <1>t DEF TypeOK, Launchers
  <2>2. ~strayed' => Own' = {}
    BY <1>f, <1>1f
  <2> QED BY <2>1, <2>2 DEF Covered, InScan
<1> QED BY <1>1, <1>2, <1>3, <1>4, <1>5, <1>6, <1>7 DEF IInv

\* A zombie is no writer.
LEMMA ReapKeeps ==
  ASSUME IInv, Reap, UNCHANGED <<forks, late, strayed, struck>>
  PROVE  IInv'
<1>k. /\ Own \subseteq Pid /\ Zombies \subseteq Pid /\ Foreign \subseteq Pid
      /\ Own \cap Zombies = {} /\ Own \cap Foreign = {} /\ Zombies \cap Foreign = {}
      /\ Givable \subseteq Pid \ Taken
  BY Kinds DEF IInv
<1>t. TypeOK
  BY DEF IInv
<1>f. /\ process' \in [Pid -> Processes]
      /\ Own' = Own /\ Foreign' = Foreign
      /\ \A p \in Pid : p \in Foreign => process'[p] = process[p]
  <2>1. CASE Main \in Zombies
    BY <1>k, <1>t, <2>1, ReapedKinds DEF Reap
  <2>2. CASE Main \notin Zombies
    BY <1>t, <2>2, Unmoved DEF Reap, TypeOK
  <2> QED BY <2>1, <2>2
<1>1. TypeOK'
  BY LaunchAssumption, <1>f DEF IInv, TypeOK, Launchers, Points, Reading, Scanning, Leaving,
       Reap, Goto
<1>2. Unstruck'
  BY <1>f DEF IInv, TypeOK, Launchers, Unstruck, Reading, Scanning, Leaving, Reap, Goto
<1>3. Conserved'
  BY <1>f DEF IInv, TypeOK, Launchers, Conserved, Undisturbed, Reap, Goto
<1>4. SeenToTheEnd'
  BY <1>k, <1>f DEF IInv, TypeOK, Launchers, SeenToTheEnd, Undisturbed, Reading, Scanning,
       Leaving, Reap, Goto
<1>5. Held'
  BY LaunchAssumption, <1>k, <1>f DEF IInv, TypeOK, Launchers, Held, Undisturbed, Reading,
       Scanning, Leaving, Reap, Goto
<1>6. Pinned'
  BY LaunchAssumption, <1>k, <1>t, <1>f DEF IInv, TypeOK, Launchers, Pinned, Undisturbed,
       Reap, Goto
<1>7. Covered'
  BY <1>k, <1>f DEF IInv, TypeOK, Launchers, Covered, InScan, Undisturbed, Reading,
       Scanning, Leaving, Reap, Goto
<1> QED BY <1>1, <1>2, <1>3, <1>4, <1>5, <1>6, <1>7 DEF IInv

------------------------------------------------------------------------------
LEMMA StepInvariant == IInv /\ [Next]_vars => IInv'
<1> SUFFICES ASSUME IInv, [Next]_vars PROVE IInv'
  OBVIOUS
<1>1. CASE LauncherStep
  <2>1. UNCHANGED <<forks, late, strayed, struck>>
    BY <1>1 DEF LauncherStep
  <2> QED BY <1>1, <2>1, BeginKeeps, PollKeeps, ReadKeeps, AppendKeeps, WaitKeeps, ReturnKeeps,
             ListKeeps, ScanKeeps, OpenKeeps, AgainKeeps, KillKeeps, KillGroupKeeps,
             ReapKeeps, DrainKeeps, KeepKeeps DEF LauncherStep
<1>2. CASE Interrupt \/ TimePasses
  BY <1>2, InterruptKeeps, TimePassesKeeps
<1>3. CASE Write \/ Fork \/ Reuse \/ Exit
  BY <1>3, WriteKeeps, ForkKeeps, ReuseKeeps, ExitKeeps
<1>4. CASE UNCHANGED vars
  <2>1. /\ UNCHANGED <<Own, Zombies, Foreign, Taken>>
        /\ \A p \in Pid : InSession(p)' = InSession(p)
    BY <1>4, Unmoved DEF vars
  <2>2. launcher.entry \in Pid /\ launcher' = launcher
    BY <1>4 DEF vars, IInv, TypeOK, Launchers
  <2>3. TypeOK' /\ Unstruck' /\ Conserved'
    BY <1>4 DEF vars, IInv, TypeOK, Unstruck, Conserved, Undisturbed
  <2>4. SeenToTheEnd' /\ Held' /\ Pinned' /\ Covered'
    BY <1>4, <2>1, <2>2 DEF vars, IInv, SeenToTheEnd, Held, Pinned, Covered, Undisturbed
  <2> QED BY <2>3, <2>4 DEF IInv
<1> QED BY <1>1, <1>2, <1>3, <1>4 DEF Next

LEMMA Invariance == Spec => []IInv
<1>1. Init => IInv
  BY InitInvariant
<1>2. IInv /\ [Next]_vars => IInv'
  BY StepInvariant
<1> QED BY <1>1, <1>2, PTL DEF Spec

\* No number of launch() and kill_launch_session() leaves its range: nothing is
\* put into the output that was not written, and nothing twice.
THEOREM TypeCorrect == Spec => []TypeOK
<1>1. IInv => TypeOK
  BY DEF IInv
<1> QED BY <1>1, Invariance, PTL

\* kill_launch_session() kills nobody else's process, whatever numbers the
\* kernel gives to whom during the scan and wherever signals come, but for one
\* between the return of wait4() and the end of the `try`: up to there the child
\* has not been waited for, so that its number is not given out.
THEOREM OnlyOwn == Spec => []OnlyOwnKilled
<1>1. IInv => OnlyOwnKilled
  BY DEF IInv, Pinned, OnlyOwnKilled
<1> QED BY <1>1, Invariance, PTL

\* After the exception of launch() no process of the launch is left, in
\* whatever group, unless one was born in another group during the scan, or a
\* signal came before the `try` or put an end to kill_launch_session().
THEOREM NoneSurvives == Spec => []NoSurvivors
<1>1. IInv => NoSurvivors
  BY DEF IInv, Covered, NoSurvivors
<1> QED BY <1>1, Invariance, PTL

\* launch() loses no output when it returns, whatever came in between, nor with
\* an exception, unless a signal came before the `try`, between a read and its
\* append, or in the `except`.
THEOREM NothingLost == Spec => []OutputKept
<1>1. ASSUME IInv, launcher.at = "returned"
      PROVE  owed = 0
  BY <1>1 DEF IInv, TypeOK, Unstruck, Conserved, SeenToTheEnd, Undisturbed
<1>2. ASSUME IInv, launcher.at = "raised",
             Undisturbed(Scanning \cup Leaving \cup {"begin", "append"})
      PROVE  owed = 0
  BY <1>2 DEF IInv, TypeOK, Conserved, SeenToTheEnd, Undisturbed, Leaving
<1>3. IInv => OutputKept
  BY <1>1, <1>2 DEF OutputKept
<1> QED BY <1>3, Invariance, PTL
=============================================================================
