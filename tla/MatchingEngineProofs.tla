------------------------ MODULE MatchingEngineProofs ------------------------
(***************************************************************************)
(* The pipeline hands every order slot from owner to owner, for any number *)
(* of slots, orders and runs and any sizes of the two queues.              *)
(***************************************************************************)
EXTENDS MatchingEngine, SequenceTheorems, FiniteSetTheorems, TLAPS

Reclaiming == {"reclaim", "pushReclaim", "drain", "lastDrain"}
Filling    == {"reclaim", "allocate", "push", "pushReclaim"}
Draining   == {"drain", "checkDone", "lastDrain", "exited"}
Busy       == {"stamp", "match", "hand", "record"}

\* Which thread exists, and what it may be doing, at each place of main.
Phases ==
  /\ mpc \in {"idle", "spawnConsumer"} =>
       ~pJoinable /\ ~cJoinable /\ ppc \in {"off", "exited"} /\ cpc \in {"off", "exited"}
  /\ mpc = "spawnConsumer" => ~producerDone /\ ~consumerDone
  /\ mpc = "spawnProducer" =>
       /\ ~pJoinable /\ cJoinable /\ ~producerDone
       /\ ppc \in {"off", "exited"} /\ cpc \in {"pop", "checkDone"}
  /\ mpc = "failed" =>
       /\ ~pJoinable /\ producerDone /\ ppc \in {"off", "exited"}
       /\ cJoinable => cpc \in {"pop", "checkDone", "popAgain", "exited"}
       /\ ~cJoinable => cpc \in {"off", "exited"} /\ ~consumerDone
  /\ mpc = "started" => pJoinable /\ cJoinable /\ ppc # "off" /\ cpc # "off"
  /\ mpc = "joinConsumer" => ~pJoinable /\ cJoinable /\ ppc = "exited" /\ cpc # "off"
  /\ mpc \in {"started", "joinConsumer"} =>
       (producerDone <=> ppc \in Draining)
  /\ cJoinable => (consumerDone <=> cpc = "exited")

\* A flag is seen after it is set, and what was pushed before it is seen with it.
Flags ==
  /\ producerDoneSeen => producerDone
  /\ consumerDoneSeen => consumerDone
  /\ cpc = "popAgain" => producerDone /\ oAvail = Len(oItems)
  /\ consumerDone => producerDone /\ oItems = <<>>
  /\ ppc = "lastDrain" => consumerDone /\ rAvail = Len(rItems)
  /\ ppc = "exited" /\ mpc \in {"started", "joinConsumer"} => consumerDone
  /\ ppc \in {"off", "exited"} => oItems = <<>> \/ mpc \in {"started", "joinConsumer"}
  /\ ppc \in {"off", "exited"} => rItems = <<>>

\* Who has a pointer to a slot, and when.
Pointers ==
  /\ slot # NoSlot <=> (ppc \in {"push", "pushReclaim"})
  /\ handing # NoSlot <=> (cpc = "hand")
  /\ cpc = "stamp" => working = popped
  /\ cpc \in {"stamp", "match"} => working # NoSlot
  /\ working # NoSlot => cpc \in {"stamp", "match", "hand"}
  /\ cpc \in {"off", "exited"} => held = {}
  /\ mpc = "spawnConsumer" \/ cpc \notin {"off", "exited"} => abandoned = {}

\* Each used slot has one owner.
Custody ==
  /\ Distinct(oItems) /\ Distinct(rItems)
  /\ \A s \in Slots :
       /\ s \in used <=> \/ s = slot \/ s \in Elements(oItems) \/ s = working \/ s \in held
                         \/ s = handing \/ s \in Elements(rItems) \/ s \in abandoned
       /\ s = slot => /\ s \notin Elements(oItems) /\ s # working /\ s \notin held
                      /\ s # handing /\ s \notin Elements(rItems) /\ s \notin abandoned
       /\ s \in Elements(oItems) => /\ s # working /\ s \notin held /\ s # handing
                                    /\ s \notin Elements(rItems) /\ s \notin abandoned
       /\ s = working => /\ s \notin held /\ s # handing /\ s \notin Elements(rItems)
                         /\ s \notin abandoned
       /\ s \in held => s # handing /\ s \notin Elements(rItems) /\ s \notin abandoned
       /\ s = handing => s \notin Elements(rItems) /\ s \notin abandoned
       /\ s \in Elements(rItems) => s \notin abandoned

\* The orders of a run are numbered: consumed, being consumed, queued, to be made.
InHand == IF cpc \in Busy THEN 1 ELSE 0
Counted ==
  /\ mpc \in {"spawnConsumer", "spawnProducer", "failed"} => consumed = 0
  /\ mpc \in {"started", "joinConsumer"} => consumed + InHand + Len(oItems) = pushed
  /\ mpc = "idle" /\ outcome = "ok" => consumed = OrderCount
  /\ ppc \in Filling => pushed < OrderCount
  /\ ppc \in {"setDone", "drain", "checkDone", "lastDrain"} => pushed = OrderCount
  /\ mpc \in {"started", "joinConsumer"} /\ ppc = "exited" => pushed = OrderCount

Stamped ==
  /\ ppc \in {"push", "pushReclaim"} => stamp[slot] = pushed + 1
  /\ \A i \in 1..Len(oItems) : stamp[oItems[i]] = consumed + InHand + i
  /\ cpc = "stamp" => stamp[popped] = consumed + 1
  /\ cpc \in {"match", "hand", "record"} => tPush = consumed + 1
  /\ sample.stamp = sample.order

IInv == TypeOK /\ Phases /\ Flags /\ Pointers /\ Custody /\ Counted /\ Stamped
-----------------------------------------------------------------------------
(* What a push and a pop do to the elements of a queue. *)

\* A push adds one element, behind the others.
LEMMA Enqueued ==
  ASSUME NEW S, NEW q \in Seq(S), NEW x \in S
  PROVE  /\ Append(q, x) \in Seq(S) /\ Len(Append(q, x)) = Len(q) + 1
         /\ Elements(Append(q, x)) = Elements(q) \cup {x}
         /\ Distinct(q) /\ x \notin Elements(q) => Distinct(Append(q, x))
         /\ \A i \in 1..Len(q) : Append(q, x)[i] = q[i]
         /\ Append(q, x)[Len(q) + 1] = x
<1> DEFINE a == Append(q, x)
<1>1. /\ a \in Seq(S) /\ Len(a) = Len(q) + 1 /\ Len(q) \in Nat
      /\ \A i \in 1..Len(q) : a[i] = q[i]
      /\ a[Len(q) + 1] = x
  BY AppendProperties, LenProperties
<1>2. DOMAIN q = 1..Len(q) /\ DOMAIN a = 1..(Len(q) + 1)
  BY <1>1, LenProperties
<1> HIDE DEF a
<1>3. Elements(a) = Elements(q) \cup {x}
  <2>1. ASSUME NEW y \in Elements(a) PROVE y \in Elements(q) \cup {x}
    <3>1. PICK i \in 1..(Len(q) + 1) : y = a[i]
      BY <1>2 DEF Elements
    <3>2. CASE i \in 1..Len(q)
      BY <1>1, <1>2, <3>1, <3>2 DEF Elements
    <3>3. CASE i = Len(q) + 1
      BY <1>1, <3>1, <3>3
    <3> QED BY <1>1, <3>2, <3>3
  <2>2. ASSUME NEW y \in Elements(q) PROVE y \in Elements(a)
    <3>1. PICK i \in 1..Len(q) : y = q[i]
      BY <1>2 DEF Elements
    <3>2. i \in 1..(Len(q) + 1) /\ y = a[i]
      BY <1>1, <3>1
    <3> QED BY <1>2, <3>2 DEF Elements
  <2>3. x \in Elements(a)
    BY <1>1, <1>2 DEF Elements
  <2> QED BY <2>1, <2>2, <2>3
<1>4. ASSUME Distinct(q), x \notin Elements(q)
      PROVE  Distinct(a)
  <2>1. \A i \in 1..Len(q) : q[i] # x
    BY <1>2, <1>4 DEF Elements
  <2>2. SUFFICES ASSUME NEW i \in 1..(Len(q) + 1), NEW j \in 1..(Len(q) + 1), a[i] = a[j]
                 PROVE  i = j
    BY <1>2 DEF Distinct
  <2>3. CASE i \in 1..Len(q) /\ j \in 1..Len(q)
    BY <1>1, <1>2, <1>4, <2>2, <2>3 DEF Distinct
  <2>4. CASE i = Len(q) + 1 \/ j = Len(q) + 1
    BY <1>1, <2>1, <2>2, <2>4
  <2> QED BY <1>1, <2>3, <2>4
<1> QED BY <1>1, <1>3, <1>4 DEF a

\* A pop takes the first one away.
LEMMA Dequeued ==
  ASSUME NEW S, NEW q \in Seq(S), Len(q) > 0
  PROVE  /\ Head(q) \in S /\ Head(q) = q[1] /\ Head(q) \in Elements(q)
         /\ Tail(q) \in Seq(S) /\ Len(Tail(q)) = Len(q) - 1
         /\ \A i \in 1..(Len(q) - 1) : Tail(q)[i] = q[i + 1]
         /\ Distinct(q) => Distinct(Tail(q)) /\ Elements(Tail(q)) = Elements(q) \ {Head(q)}
<1> DEFINE t == Tail(q)
<1>1. q # <<>> /\ Len(q) \in Nat /\ DOMAIN q = 1..Len(q)
  BY EmptySeq, LenProperties
<1>2. /\ Head(q) \in S /\ Head(q) = q[1]
      /\ t \in Seq(S) /\ Len(t) = Len(q) - 1
      /\ \A i \in 1..(Len(q) - 1) : t[i] = q[i + 1]
  BY <1>1, HeadTailProperties
<1>3. DOMAIN t = 1..(Len(q) - 1)
  BY <1>1, <1>2, LenProperties
<1>4. Head(q) \in Elements(q)
  BY <1>1, <1>2 DEF Elements
<1> HIDE DEF t
<1>5. ASSUME Distinct(q)
      PROVE  Distinct(t) /\ Elements(t) = Elements(q) \ {Head(q)}
  <2>1. Distinct(t)
    <3>1. SUFFICES ASSUME NEW i \in 1..(Len(q) - 1), NEW j \in 1..(Len(q) - 1), t[i] = t[j]
                   PROVE  i = j
      BY <1>3 DEF Distinct
    <3>2. i + 1 \in 1..Len(q) /\ j + 1 \in 1..Len(q) /\ q[i + 1] = q[j + 1]
      BY <1>1, <1>2, <3>1
    <3>3. i + 1 = j + 1
      BY <1>1, <1>5, <3>2 DEF Distinct
    <3> QED BY <3>3
  <2>2. ASSUME NEW y \in Elements(t) PROVE y \in Elements(q) \ {Head(q)}
    <3>1. PICK i \in 1..(Len(q) - 1) : y = t[i]
      BY <1>3 DEF Elements
    <3>2. i + 1 \in 1..Len(q) /\ i + 1 # 1 /\ y = q[i + 1]
      BY <1>1, <1>2, <3>1
    <3> QED BY <1>1, <1>2, <1>5, <3>2 DEF Elements, Distinct
  <2>3. ASSUME NEW y \in Elements(q) \ {Head(q)} PROVE y \in Elements(t)
    <3>1. PICK i \in 1..Len(q) : y = q[i]
      BY <1>1 DEF Elements
    <3>2. i - 1 \in 1..(Len(q) - 1) /\ (i - 1) + 1 = i
      BY <1>1, <1>2, <2>3, <3>1
    <3>3. y = t[i - 1]
      BY <1>2, <3>1, <3>2
    <3> QED BY <1>3, <3>2, <3>3 DEF Elements
  <2> QED BY <2>1, <2>2, <2>3
<1> QED BY <1>2, <1>4, <1>5 DEF t

\* What lies in a queue is one of its elements.
LEMMA Queued ==
  ASSUME NEW S, NEW q \in Seq(S)
  PROVE  \A i \in 1..Len(q) : q[i] \in S /\ q[i] \in Elements(q)
BY LenProperties, ElementOfSeq DEF Elements

\* An empty queue has none.
LEMMA NoElements == Elements(<<>>) = {} /\ Distinct(<<>>)
BY DEF Elements, Distinct

\* A queue without elements is the empty one.
LEMMA EmptyQueue ==
  ASSUME NEW S, NEW q \in Seq(S)
  PROVE  Len(q) \in Nat /\ (Len(q) = 0 <=> q = <<>>)
BY EmptySeq, LenProperties
-----------------------------------------------------------------------------
\* The types of the pipeline, in five parts.
MainTypes ==
  /\ mpc \in {"idle", "spawnConsumer", "spawnProducer", "failed", "started", "joinConsumer"}
  /\ running \in BOOLEAN /\ pJoinable \in BOOLEAN /\ cJoinable \in BOOLEAN
  /\ runs \in 0..MaxRuns /\ outcome \in {"none", "ok", "failed"}
LoopTypes ==
  /\ ppc \in {"off", "reclaim", "allocate", "push", "pushReclaim", "setDone", "drain",
              "checkDone", "lastDrain", "exited"}
  /\ cpc \in {"off", "pop", "checkDone", "popAgain", "stamp", "match", "hand", "record",
              "exited"}
CounterTypes ==
  pushed \in 0..OrderCount /\ consumed \in 0..OrderCount /\ tPush \in 0..OrderCount
SlotTypes ==
  /\ {slot, popped, working, handing} \subseteq Slots \cup {NoSlot}
  /\ used \subseteq Slots /\ held \subseteq Slots /\ abandoned \subseteq Slots
  /\ stamp \in [Slots -> 0..OrderCount]
QueueTypes ==
  /\ oItems \in Seq(Slots) /\ rItems \in Seq(Slots)
  /\ oAvail \in 0..Len(oItems) /\ oRoom \in 0..(OrderQueueSize - Len(oItems))
  /\ rAvail \in 0..Len(rItems) /\ rRoom \in 0..(ReturnQueueSize - Len(rItems))

LEMMA TypeParts ==
  TypeOK <=> MainTypes /\ LoopTypes /\ CounterTypes /\ SlotTypes /\ QueueTypes
BY DEF TypeOK, MainTypes, LoopTypes, CounterTypes, SlotTypes, QueueTypes

\* A step of the producer that changes no data: it moves on, or sees more of the
\* return queue.
LEMMA ProducerLooks ==
  ASSUME TypeOK,
         ppc' \in {"off", "reclaim", "allocate", "push", "pushReclaim", "setDone", "drain",
                   "checkDone", "lastDrain", "exited"},
         rAvail' \in 0..Len(rItems),
         UNCHANGED <<mainVars, consVars, slot, pushed, used, stamp, orderVars, rItems, rRoom,
                     bookVars, abandoned>>
  PROVE  TypeOK'
<1> USE TypeParts DEF mainVars, consVars, orderVars, bookVars
<1>1. MainTypes' /\ LoopTypes'
  BY DEF MainTypes, LoopTypes
<1>2. CounterTypes' /\ SlotTypes'
  BY DEF CounterTypes, SlotTypes
<1>3. QueueTypes'
  BY DEF QueueTypes
<1> QED BY <1>1, <1>2, <1>3, TypeParts, PTL

\* A slot that is not an element of a queue lies nowhere in it.
LEMMA NotQueued ==
  ASSUME NEW S, NEW q \in Seq(S), NEW s, s \notin Elements(q)
  PROVE  \A i \in 1..Len(q) : q[i] # s /\ q[i] \in S
BY Queued

\* The threads of the last run are gone, and with them every pointer to a slot.
LEMMA StartKeeps ==
  ASSUME IInv, Start
  PROVE  IInv'
<1> USE EngineAssumption, NoElements DEF IInv, Start, Pool!Reset, NoSample, mainVars,
     prodVars, consVars, orderVars, retVars, bookVars, flagVars, InHand, Busy, Filling, Draining,
     Reclaiming, TypeOK
<1>a. Len(oItems) = 0 /\ Len(rItems) = 0 /\ oItems = <<>> /\ rItems = <<>>
  BY DEF TypeOK, Phases, Flags
<1>1. TypeOK'
  BY <1>a DEF TypeOK, Phases, Flags, Counted, Pointers, Custody
<1>2. Phases'
  BY <1>a DEF TypeOK, Phases, Flags
<1>3. Flags'
  BY <1>a DEF TypeOK, Phases, Flags, Pointers
<1>4. Pointers'
  BY <1>a DEF TypeOK, Phases, Flags, Pointers
<1>5. Custody'
  BY <1>a DEF TypeOK, Phases, Flags, Pointers, Custody
<1>6. Counted'
  BY <1>a DEF TypeOK, Phases, Flags, Pointers, Counted, Custody
<1>7. Stamped'
  BY <1>a DEF TypeOK, Phases, Flags, Pointers, Custody, Counted, Stamped
<1> QED BY <1>1, <1>2, <1>3, <1>4, <1>5, <1>6, <1>7

\* The consumer starts with no order in sight.
LEMMA SpawnConsumerKeeps ==
  ASSUME IInv, SpawnConsumer
  PROVE  IInv'
<1> USE DEF SpawnConsumer, OrderQueue!SyncConsumer, ReturnQueue!SyncProducer, mainVars,
     prodVars, consVars, orderVars, retVars, bookVars, flagVars, IInv, InHand, Busy, Filling,
     Draining, Reclaiming
<1>1. TypeOK' /\ Phases' /\ Flags' /\ Pointers'
  BY EngineAssumption, EmptyQueue DEF TypeOK, Phases, Flags, Pointers, Counted
<1>2. Custody'
  BY EngineAssumption DEF TypeOK, Phases, Flags, Pointers, Custody
<1>3. Counted' /\ Stamped'
  BY EngineAssumption, EmptyQueue DEF TypeOK, Phases, Flags, Counted, Stamped
<1> QED BY <1>1, <1>2, <1>3

\* The producer starts to count.
LEMMA SpawnProducerKeeps ==
  ASSUME IInv, SpawnProducer
  PROVE  IInv'
<1> USE DEF SpawnProducer, OrderQueue!SyncProducer, ReturnQueue!SyncConsumer, LoopHead,
     mainVars, prodVars, consVars, orderVars, retVars, bookVars, flagVars, IInv, InHand, Busy,
     Filling, Draining, Reclaiming
<1>1. TypeOK' /\ Phases' /\ Flags' /\ Pointers'
  BY EngineAssumption, EmptyQueue DEF TypeOK, Phases, Flags, Pointers, Counted
<1>2. Custody'
  BY EngineAssumption DEF TypeOK, Phases, Flags, Pointers, Custody
<1>3. Counted' /\ Stamped'
  BY EngineAssumption, EmptyQueue DEF TypeOK, Phases, Flags, Counted, Stamped
<1> QED BY <1>1, <1>2, <1>3

\* The catch block lets the consumer go.
LEMMA SpawnFailsKeeps ==
  ASSUME IInv, SpawnFails
  PROVE  IInv'
<1> USE DEF SpawnFails, mainVars, prodVars, consVars, orderVars, retVars, bookVars,
     flagVars, IInv, InHand, Busy, Filling, Draining, Reclaiming
<1>1. TypeOK' /\ Phases' /\ Flags' /\ Pointers'
  BY EngineAssumption, EmptyQueue DEF TypeOK, Phases, Flags, Pointers, Counted
<1>2. Custody'
  BY EngineAssumption DEF TypeOK, Phases, Flags, Pointers, Custody
<1>3. Counted' /\ Stamped'
  BY EngineAssumption, EmptyQueue DEF TypeOK, Phases, Flags, Counted, Stamped
<1> QED BY <1>1, <1>2, <1>3

\* Nothing was produced, so nothing is left.
LEMMA FailedStartKeeps ==
  ASSUME IInv, FailedStart
  PROVE  IInv'
<1> USE DEF FailedStart, mainVars, prodVars, consVars, orderVars, retVars, bookVars,
     flagVars, IInv, InHand, Busy, Filling, Draining, Reclaiming
<1>1. TypeOK' /\ Phases' /\ Flags' /\ Pointers'
  BY EngineAssumption, EmptyQueue DEF TypeOK, Phases, Flags, Pointers, Counted
<1>2. Custody'
  BY EngineAssumption DEF TypeOK, Phases, Flags, Pointers, Custody
<1>3. Counted' /\ Stamped'
  BY EngineAssumption, EmptyQueue DEF TypeOK, Phases, Flags, Counted, Stamped
<1> QED BY <1>1, <1>2, <1>3

\* The producer is gone only when the consumer is.
LEMMA StopJoinsProducerKeeps ==
  ASSUME IInv, StopJoinsProducer
  PROVE  IInv'
<1> USE DEF StopJoinsProducer, mainVars, prodVars, consVars, orderVars, retVars, bookVars,
     flagVars, IInv, InHand, Busy, Filling, Draining, Reclaiming
<1>1. TypeOK' /\ Phases' /\ Flags' /\ Pointers'
  BY EngineAssumption, EmptyQueue DEF TypeOK, Phases, Flags, Pointers, Counted
<1>2. Custody'
  BY EngineAssumption DEF TypeOK, Phases, Flags, Pointers, Custody
<1>3. Counted' /\ Stamped'
  BY EngineAssumption, EmptyQueue DEF TypeOK, Phases, Flags, Counted, Stamped
<1> QED BY <1>1, <1>2, <1>3

\* The run is over: nobody holds a slot but the book that died.
LEMMA StopJoinsConsumerKeeps ==
  ASSUME IInv, StopJoinsConsumer
  PROVE  IInv'
<1> USE DEF StopJoinsConsumer, mainVars, prodVars, consVars, orderVars, retVars, bookVars,
     flagVars, IInv, InHand, Busy, Filling, Draining, Reclaiming
<1>1. TypeOK' /\ Phases' /\ Flags' /\ Pointers'
  BY EngineAssumption, EmptyQueue DEF TypeOK, Phases, Flags, Pointers, Counted
<1>2. Custody'
  BY EngineAssumption DEF TypeOK, Phases, Flags, Pointers, Custody
<1>3. Counted' /\ Stamped'
  BY EngineAssumption, EmptyQueue DEF TypeOK, Phases, Flags, Counted, Stamped
<1> QED BY <1>1, <1>2, <1>3

\* A slot that came back is free.
LEMMA ReclaimOneKeeps ==
  ASSUME IInv, ReclaimOne
  PROVE  IInv'
<1> USE EngineAssumption, NoElements DEF IInv, ReclaimOne, Pool!Deallocate, mainVars,
     prodVars, consVars, orderVars, retVars, bookVars, flagVars, InHand, Busy, Filling, Draining,
     Reclaiming, TypeOK
<1>a. /\ Len(rItems) \in Nat /\ Len(rItems) > 0
      /\ Head(rItems) \in Slots /\ Head(rItems) = rItems[1] /\ Head(rItems) \in Elements(rItems)
      /\ rItems' \in Seq(Slots) /\ Len(rItems') = Len(rItems) - 1
      /\ \A i \in 1..(Len(rItems) - 1) : rItems'[i] = rItems[i + 1]
      /\ Distinct(rItems') /\ Elements(rItems') = Elements(rItems) \ {Head(rItems)}
      /\ rAvail > 0 /\ rAvail' = rAvail - 1 /\ UNCHANGED rRoom
  <2>1. rAvail > 0 /\ rAvail' = rAvail - 1 /\ UNCHANGED rRoom /\ rItems' = Tail(rItems)
    BY DEF ReturnQueue!Pop
  <2>2. rItems \in Seq(Slots) /\ Len(rItems) \in Nat
    BY EmptyQueue DEF TypeOK
  <2>3. Len(rItems) > 0
    BY <2>1, <2>2 DEF TypeOK
  <2>4. Distinct(rItems)
    BY DEF Custody
  <2> QED BY <2>1, <2>2, <2>3, <2>4, Dequeued
<1>b. /\ rAvail' \in 0..Len(rItems') /\ rRoom' \in 0..(ReturnQueueSize - Len(rItems'))
  BY <1>a, EngineAssumption DEF TypeOK
<1>1. TypeOK'
  <2>1. MainTypes' /\ LoopTypes'
    BY <1>a, <1>b DEF TypeOK, MainTypes, LoopTypes, Counted, Pointers
  <2>2. CounterTypes' /\ SlotTypes'
    BY <1>a, <1>b DEF TypeOK, CounterTypes, SlotTypes, Counted, Pointers
  <2>3. QueueTypes'
    BY <1>a, <1>b DEF TypeOK, QueueTypes
  <2> QED BY <2>1, <2>2, <2>3, TypeParts, PTL
<1>2. Phases'
  BY <1>a, <1>b DEF TypeOK, Phases, Flags
<1>3. Flags'
  BY <1>a, <1>b DEF TypeOK, Phases, Flags, Pointers
<1>4. Pointers'
  BY <1>a, <1>b DEF TypeOK, Phases, Flags, Pointers
<1>5. Custody'
  BY <1>a, <1>b DEF TypeOK, Phases, Flags, Pointers, Custody
<1>6. Counted'
  BY <1>a, <1>b DEF TypeOK, Phases, Flags, Pointers, Counted, Custody
<1>7. Stamped'
  BY <1>a, <1>b DEF TypeOK, Phases, Flags, Pointers, Custody, Counted, Stamped
<1> QED BY <1>1, <1>2, <1>3, <1>4, <1>5, <1>6, <1>7

\* After the last drain the return queue is empty.
LEMMA ReclaimEndsKeeps ==
  ASSUME IInv, ReclaimEnds
  PROVE  IInv'
<1> USE DEF ReclaimEnds, AfterReclaim, mainVars, prodVars, consVars, orderVars, retVars,
     bookVars, flagVars, IInv, InHand, Busy, Filling, Draining, Reclaiming
<1>1. TypeOK'
  BY ProducerLooks DEF TypeOK
<1>2. Phases' /\ Flags' /\ Pointers'
  BY DEF TypeOK, Phases, Flags, Pointers
<1>3. Custody'
  BY EngineAssumption DEF TypeOK, Phases, Flags, Pointers, Custody
<1>4. Counted' /\ Stamped'
  BY EngineAssumption, EmptyQueue DEF TypeOK, Phases, Flags, Counted, Stamped
<1> QED BY <1>1, <1>3, <1>4, <1>2

\* The slot taken was nobody's, so no order in flight is stamped anew.
LEMMA FillSlotKeeps ==
  ASSUME IInv, FillSlot
  PROVE  IInv'
<1> USE EngineAssumption, NoElements DEF IInv, FillSlot, Pool!Allocate, mainVars, prodVars,
     consVars, orderVars, retVars, bookVars, flagVars, InHand, Busy, Filling, Draining,
     Reclaiming, TypeOK
<1>a. PICK s \in Slots : /\ s \notin used /\ used' = used \cup {s}
                       /\ slot' = s /\ stamp' = [stamp EXCEPT ![s] = pushed + 1]
  OBVIOUS
<1>b. \A i \in 1..Len(oItems) : oItems[i] # s /\ oItems[i] \in Slots
  <2>1. s \notin Elements(oItems) /\ oItems \in Seq(Slots)
    BY <1>a DEF TypeOK, Custody
  <2> QED BY <2>1, NotQueued
<1>c. cpc = "stamp" => popped # s /\ popped \in Slots
  BY <1>a DEF TypeOK, Custody, Pointers
<1>1. TypeOK'
  <2>1. MainTypes' /\ LoopTypes'
    BY <1>a, <1>b, <1>c DEF TypeOK, MainTypes, LoopTypes, Counted, Pointers
  <2>2. CounterTypes' /\ SlotTypes'
    BY <1>a, <1>b, <1>c DEF TypeOK, CounterTypes, SlotTypes, Counted, Pointers
  <2>3. QueueTypes'
    BY <1>a, <1>b, <1>c DEF TypeOK, QueueTypes
  <2> QED BY <2>1, <2>2, <2>3, TypeParts, PTL
<1>2. Phases'
  BY <1>a, <1>b, <1>c DEF TypeOK, Phases, Flags
<1>3. Flags'
  BY <1>a, <1>b, <1>c DEF TypeOK, Phases, Flags, Pointers
<1>4. Pointers'
  BY <1>a, <1>b, <1>c DEF TypeOK, Phases, Flags, Pointers
<1>5. Custody'
  BY <1>a, <1>b, <1>c DEF TypeOK, Phases, Flags, Pointers, Custody
<1>6. Counted'
  BY <1>a, <1>b, <1>c DEF TypeOK, Phases, Flags, Pointers, Counted, Custody
<1>7. Stamped'
  <2>1. ASSUME NEW i \in 1..Len(oItems)
        PROVE  stamp'[oItems[i]] = stamp[oItems[i]]
    <3>1. oItems[i] \in Slots /\ oItems[i] # s
      BY <1>b
    <3>2. stamp \in [Slots -> 0..OrderCount]
      BY DEF TypeOK
    <3> QED BY <1>a, <3>1, <3>2
  <2>2. stamp'[slot'] = pushed + 1
    BY <1>a DEF TypeOK
  <2>3. cpc = "stamp" => stamp'[popped] = stamp[popped]
    BY <1>a, <1>c DEF TypeOK
  <2> QED BY <2>1, <2>2, <2>3 DEF Stamped, Pointers
<1> QED BY <1>1, <1>2, <1>3, <1>4, <1>5, <1>6, <1>7

\* The producer tries again.
LEMMA NoSlotFreeKeeps ==
  ASSUME IInv, NoSlotFree
  PROVE  IInv'
<1> USE DEF NoSlotFree, Pool!Exhausted, mainVars, prodVars, consVars, orderVars, retVars,
     bookVars, flagVars, IInv, InHand, Busy, Filling, Draining, Reclaiming
<1>1. TypeOK' /\ Phases' /\ Flags' /\ Pointers'
  BY EngineAssumption, EmptyQueue DEF TypeOK, Phases, Flags, Pointers, Counted
<1>2. Custody'
  BY EngineAssumption DEF TypeOK, Phases, Flags, Pointers, Custody
<1>3. Counted' /\ Stamped'
  BY EngineAssumption, EmptyQueue DEF TypeOK, Phases, Flags, Counted, Stamped
<1> QED BY <1>1, <1>2, <1>3

\* The slot goes from the producer to the queue, behind the older orders.
LEMMA PushOrderKeeps ==
  ASSUME IInv, PushOrder
  PROVE  IInv'
<1> USE EngineAssumption, NoElements DEF IInv, PushOrder, LoopHead, mainVars, prodVars,
     consVars, orderVars, retVars, bookVars, flagVars, InHand, Busy, Filling, Draining,
     Reclaiming, TypeOK
<1>a. /\ slot \in Slots /\ Len(oItems) \in Nat
      /\ oItems' \in Seq(Slots) /\ Len(oItems') = Len(oItems) + 1
      /\ Elements(oItems') = Elements(oItems) \cup {slot}
      /\ slot \notin Elements(oItems) /\ Distinct(oItems')
      /\ \A i \in 1..Len(oItems) : oItems'[i] = oItems[i]
      /\ oItems'[Len(oItems) + 1] = slot
      /\ oRoom > 0 /\ oRoom' = oRoom - 1 /\ UNCHANGED oAvail
  <2>1. /\ oRoom > 0 /\ oRoom' = oRoom - 1 /\ UNCHANGED oAvail
        /\ oItems' = Append(oItems, slot)
    BY DEF OrderQueue!Push
  <2>2. slot \in Slots /\ oItems \in Seq(Slots)
    BY DEF TypeOK, Pointers
  <2>3. slot \notin Elements(oItems) /\ Distinct(oItems)
    BY <2>2 DEF Custody
  <2>4. Len(oItems) \in Nat
    BY <2>2, EmptyQueue
  <2> DEFINE a == Append(oItems, slot)
  <2>5. /\ a \in Seq(Slots) /\ Len(a) = Len(oItems) + 1
        /\ Elements(a) = Elements(oItems) \cup {slot} /\ Distinct(a)
        /\ \A i \in 1..Len(oItems) : a[i] = oItems[i]
        /\ a[Len(oItems) + 1] = slot
    BY <2>2, <2>3, Enqueued
  <2> HIDE DEF a
  <2>6. oItems' = a
    BY <2>1 DEF a
  <2> QED BY <2>1, <2>2, <2>3, <2>4, <2>5, <2>6
<1>b. /\ oAvail' \in 0..Len(oItems') /\ oRoom' \in 0..(OrderQueueSize - Len(oItems'))
  BY <1>a, EngineAssumption DEF TypeOK
<1>c. mpc = "started" /\ UNCHANGED mpc
  BY DEF TypeOK, Phases
<1>d. InHand' = InHand /\ InHand \in {0, 1}
  OBVIOUS
<1> HIDE DEF InHand
<1>1. TypeOK'
  <2>1. MainTypes' /\ LoopTypes'
    BY <1>a, <1>c, SMTT(30) DEF TypeOK, MainTypes, LoopTypes, Pointers
  <2>2. CounterTypes' /\ SlotTypes'
    BY <1>a, <1>c, SMTT(30) DEF TypeOK, CounterTypes, SlotTypes, Counted, Pointers
  <2>3. QueueTypes'
    BY <1>a, <1>b, <1>c, <1>d DEF TypeOK, QueueTypes
  <2> QED BY <2>1, <2>2, <2>3, TypeParts, PTL
<1>2. Phases'
  BY <1>a, <1>b, <1>c, <1>d DEF TypeOK, Phases, Flags
<1>3. Flags'
  BY <1>a, <1>b, <1>c, <1>d DEF TypeOK, Phases, Flags, Pointers
<1>4. Pointers'
  BY <1>a, <1>b, <1>c, <1>d DEF TypeOK, Phases, Flags, Pointers
<1>5. Custody'
  BY <1>a, <1>b, <1>c, <1>d DEF TypeOK, Phases, Flags, Pointers, Custody
<1>6. Counted'
  <2>1. consumed \in Nat /\ pushed \in Nat /\ OrderCount \in Nat
    BY EngineAssumption DEF TypeOK
  <2>2. consumed' + InHand' + Len(oItems') = pushed'
    BY <1>a, <1>c, <1>d, <2>1, SMTT(30) DEF Counted
  <2> QED BY <1>c, <2>1, <2>2, SMTT(30) DEF Counted
<1>7. Stamped'
  <2>1. consumed \in Nat /\ pushed \in Nat
    BY EngineAssumption DEF TypeOK
  <2>2. ASSUME NEW i \in 1..Len(oItems')
        PROVE  stamp'[oItems'[i]] = consumed' + InHand' + i
    <3>1. CASE i \in 1..Len(oItems)
      BY <1>a, <1>d, <3>1 DEF Stamped
    <3>2. CASE i = Len(oItems) + 1
      <4>1. stamp[slot] = pushed + 1
        BY DEF Stamped
      <4>2. pushed + 1 = consumed + InHand + i
        BY <1>c, <1>d, <1>a, <2>1, <3>2, SMTT(30) DEF Counted
      <4> QED BY <1>a, <1>d, <3>2, <4>1, <4>2, SMTT(30)
    <3> QED BY <1>a, <3>1, <3>2
  <2> QED BY <2>2 DEF Stamped
<1> QED BY <1>1, <1>2, <1>3, <1>4, <1>5, <1>6, <1>7

\* The producer keeps its slot.
LEMMA PushFailsKeeps ==
  ASSUME IInv, PushFails
  PROVE  IInv'
<1> USE DEF PushFails, WhenFull, mainVars, prodVars, consVars, orderVars, retVars, bookVars,
     flagVars, IInv, InHand, Busy, Filling, Draining, Reclaiming
<1>1. TypeOK'
  <2>1. MainTypes' /\ LoopTypes'
    BY EngineAssumption, EmptyQueue DEF TypeOK, MainTypes, LoopTypes, Phases, Pointers, Counted
  <2>2. CounterTypes'
    BY EngineAssumption, EmptyQueue DEF TypeOK, CounterTypes, Phases, Counted
  <2>3. SlotTypes'
    BY EngineAssumption, EmptyQueue DEF TypeOK, SlotTypes, Phases, Pointers
  <2>4. QueueTypes'
    BY EngineAssumption, EmptyQueue DEF TypeOK, QueueTypes
  <2> QED BY <2>1, <2>2, <2>3, <2>4, TypeParts, PTL
<1>2. Phases'
  BY EngineAssumption, EmptyQueue DEF TypeOK, Phases, Flags, Pointers
<1>3. Flags'
  BY DEF Flags
<1>4. Pointers'
  BY DEF TypeOK, Phases, Pointers
<1>5. Custody'
  BY EngineAssumption DEF TypeOK, Phases, Flags, Pointers, Custody
<1>6. Counted' /\ Stamped'
  BY EngineAssumption, EmptyQueue DEF TypeOK, Phases, Flags, Counted, Stamped
<1> QED BY <1>1, <1>5, <1>6, <1>2, <1>3, <1>4

\* Every order of the run has been pushed.
LEMMA SetProducerDoneKeeps ==
  ASSUME IInv, SetProducerDone
  PROVE  IInv'
<1> USE DEF SetProducerDone, mainVars, prodVars, consVars, orderVars, retVars, bookVars,
     flagVars, IInv, InHand, Busy, Filling, Draining, Reclaiming
<1>1. TypeOK' /\ Phases' /\ Flags' /\ Pointers'
  BY EngineAssumption, EmptyQueue DEF TypeOK, Phases, Flags, Pointers, Counted
<1>2. Custody'
  BY EngineAssumption DEF TypeOK, Phases, Flags, Pointers, Custody
<1>3. Counted' /\ Stamped'
  BY EngineAssumption, EmptyQueue DEF TypeOK, Phases, Flags, Counted, Stamped
<1> QED BY <1>1, <1>2, <1>3

\* With the flag the producer sees every slot that was sent back.
LEMMA SeesConsumerDoneKeeps ==
  ASSUME IInv, SeesConsumerDone
  PROVE  IInv'
<1> USE DEF SeesConsumerDone, ReturnQueue!SyncConsumer, mainVars, prodVars, consVars,
     orderVars, retVars, bookVars, flagVars, IInv, InHand, Busy, Filling, Draining, Reclaiming
<1>1. TypeOK' /\ Phases' /\ Flags' /\ Pointers'
  BY EngineAssumption, EmptyQueue DEF TypeOK, Phases, Flags, Pointers, Counted
<1>2. Custody'
  BY EngineAssumption DEF TypeOK, Phases, Flags, Pointers, Custody
<1>3. Counted' /\ Stamped'
  BY EngineAssumption, EmptyQueue DEF TypeOK, Phases, Flags, Counted, Stamped
<1> QED BY <1>1, <1>2, <1>3

\* The producer waits.
LEMMA NotYetConsumerDoneKeeps ==
  ASSUME IInv, NotYetConsumerDone
  PROVE  IInv'
<1> USE DEF NotYetConsumerDone, mainVars, prodVars, consVars, orderVars, retVars, bookVars,
     flagVars, IInv, InHand, Busy, Filling, Draining, Reclaiming
<1>1. TypeOK'
  <2>1. MainTypes' /\ LoopTypes'
    BY EngineAssumption, EmptyQueue DEF TypeOK, MainTypes, LoopTypes, Phases, Pointers, Counted
  <2>2. CounterTypes'
    BY EngineAssumption, EmptyQueue DEF TypeOK, CounterTypes, Phases, Counted
  <2>3. SlotTypes'
    BY EngineAssumption, EmptyQueue DEF TypeOK, SlotTypes, Phases, Pointers
  <2>4. QueueTypes'
    BY EngineAssumption, EmptyQueue DEF TypeOK, QueueTypes
  <2> QED BY <2>1, <2>2, <2>3, <2>4, TypeParts, PTL
<1>2. Phases'
  BY EngineAssumption, EmptyQueue DEF TypeOK, Phases, Flags, Pointers
<1>3. Flags'
  BY DEF Flags
<1>4. Pointers'
  BY DEF TypeOK, Phases, Pointers
<1>5. Custody'
  BY EngineAssumption DEF TypeOK, Phases, Flags, Pointers, Custody
<1>6. Counted' /\ Stamped'
  BY EngineAssumption, EmptyQueue DEF TypeOK, Phases, Flags, Counted, Stamped
<1> QED BY <1>1, <1>5, <1>6, <1>2, <1>3, <1>4

\* The slot goes from the queue to the matcher: the next order by number.
LEMMA PopOrderKeeps ==
  ASSUME IInv, PopOrder
  PROVE  IInv'
<1> USE EngineAssumption, NoElements DEF IInv, PopOrder, Book!Accept, mainVars, prodVars,
     consVars, orderVars, retVars, bookVars, flagVars, InHand, Busy, Filling, Draining,
     Reclaiming, TypeOK
<1>a. /\ Len(oItems) \in Nat /\ Len(oItems) > 0
      /\ Head(oItems) \in Slots /\ Head(oItems) = oItems[1] /\ Head(oItems) \in Elements(oItems)
      /\ oItems' \in Seq(Slots) /\ Len(oItems') = Len(oItems) - 1
      /\ \A i \in 1..(Len(oItems) - 1) : oItems'[i] = oItems[i + 1]
      /\ Distinct(oItems') /\ Elements(oItems') = Elements(oItems) \ {Head(oItems)}
      /\ oAvail > 0 /\ oAvail' = oAvail - 1 /\ UNCHANGED oRoom
  <2>1. oAvail > 0 /\ oAvail' = oAvail - 1 /\ UNCHANGED oRoom /\ oItems' = Tail(oItems)
    BY DEF OrderQueue!Pop
  <2>2. oItems \in Seq(Slots) /\ Len(oItems) \in Nat
    BY EmptyQueue DEF TypeOK
  <2>3. Len(oItems) > 0
    BY <2>1, <2>2 DEF TypeOK
  <2>4. Distinct(oItems)
    BY DEF Custody
  <2> QED BY <2>1, <2>2, <2>3, <2>4, Dequeued
<1>b. /\ oAvail' \in 0..Len(oItems') /\ oRoom' \in 0..(OrderQueueSize - Len(oItems'))
  BY <1>a, EngineAssumption DEF TypeOK
<1>c. mpc \in {"started", "joinConsumer"} /\ UNCHANGED mpc
  BY <1>a DEF TypeOK, Phases, Flags
<1>d. InHand = 0 /\ InHand' = 1
  OBVIOUS
<1> HIDE DEF InHand
<1>1. TypeOK'
  <2>1. MainTypes' /\ LoopTypes'
    BY <1>a, <1>c, SMTT(30) DEF TypeOK, MainTypes, LoopTypes, Pointers
  <2>2. CounterTypes' /\ SlotTypes'
    BY <1>a, <1>c, SMTT(30) DEF TypeOK, CounterTypes, SlotTypes, Counted, Pointers
  <2>3. QueueTypes'
    BY <1>a, <1>b, <1>c, <1>d DEF TypeOK, QueueTypes
  <2> QED BY <2>1, <2>2, <2>3, TypeParts, PTL
<1>2. Phases'
  BY <1>a, <1>b, <1>c, <1>d DEF TypeOK, Phases, Flags
<1>3. Flags'
  BY <1>a, <1>b, <1>c, <1>d DEF TypeOK, Phases, Flags, Pointers
<1>4. Pointers'
  BY <1>a, <1>b, <1>c, <1>d DEF TypeOK, Phases, Flags, Pointers
<1>5. Custody'
  BY <1>a, <1>b, <1>c, <1>d DEF TypeOK, Phases, Flags, Pointers, Custody
<1>6. Counted'
  <2>1. consumed \in Nat /\ pushed \in Nat
    BY EngineAssumption DEF TypeOK
  <2>2. consumed + Len(oItems) = pushed
    BY <1>a, <1>c, <1>d, <2>1 DEF Counted
  <2>3. consumed + 1 + (Len(oItems) - 1) = pushed
    <3>1. \A a, b, c \in Nat : a + b = c => a + 1 + (b - 1) = c
      OBVIOUS
    <3> QED BY <1>a, <2>1, <2>2, <3>1
  <2>4. UNCHANGED <<consumed, pushed>> /\ InHand' = 1 /\ Len(oItems') = Len(oItems) - 1
    BY <1>a, <1>d
  <2>5. consumed' + InHand' + Len(oItems') = pushed'
    BY <2>3, <2>4
  <2> QED BY <1>c, <2>5 DEF Counted
<1>7. Stamped'
  <2>1. consumed \in Nat
    BY EngineAssumption DEF TypeOK
  <2>2. \A i \in 1..Len(oItems') : stamp'[oItems'[i]] = consumed' + InHand' + i
    <3>1. SUFFICES ASSUME NEW i \in 1..Len(oItems')
                   PROVE  stamp[oItems'[i]] = consumed + 1 + i
      BY <1>d
    <3>2. i + 1 \in 1..Len(oItems) /\ oItems'[i] = oItems[i + 1]
      BY <1>a
    <3>3. stamp[oItems[i + 1]] = consumed + 0 + (i + 1)
      BY <1>d, <3>2 DEF Stamped
    <3> QED BY <2>1, <3>2, <3>3, SMTT(30)
  <2>3. stamp'[popped'] = consumed' + 1
    <3>1. 1 \in 1..Len(oItems) /\ popped' = oItems[1]
      BY <1>a
    <3>2. stamp[oItems[1]] = consumed + 0 + 1
      BY <1>d, <3>1 DEF Stamped
    <3> QED BY <2>1, <3>1, <3>2
  <2> QED BY <2>2, <2>3 DEF Stamped
<1> QED BY <1>1, <1>2, <1>3, <1>4, <1>5, <1>6, <1>7

\* The consumer looks at the flag.
LEMMA PopFailsKeeps ==
  ASSUME IInv, PopFails
  PROVE  IInv'
<1> USE DEF PopFails, mainVars, prodVars, consVars, orderVars, retVars, bookVars, flagVars,
     IInv, InHand, Busy, Filling, Draining, Reclaiming
<1>1. TypeOK' /\ Phases' /\ Flags' /\ Pointers'
  BY EngineAssumption, EmptyQueue DEF TypeOK, Phases, Flags, Pointers, Counted
<1>2. Custody'
  BY EngineAssumption DEF TypeOK, Phases, Flags, Pointers, Custody
<1>3. Counted' /\ Stamped'
  BY EngineAssumption, EmptyQueue DEF TypeOK, Phases, Flags, Counted, Stamped
<1> QED BY <1>1, <1>2, <1>3

\* With the flag the consumer sees every order.
LEMMA SeesProducerDoneKeeps ==
  ASSUME IInv, SeesProducerDone
  PROVE  IInv'
<1> USE DEF SeesProducerDone, OrderQueue!SyncConsumer, mainVars, prodVars, consVars,
     orderVars, retVars, bookVars, flagVars, IInv, InHand, Busy, Filling, Draining, Reclaiming
<1>1. TypeOK' /\ Phases' /\ Flags' /\ Pointers'
  BY EngineAssumption, EmptyQueue DEF TypeOK, Phases, Flags, Pointers, Counted
<1>2. Custody'
  BY EngineAssumption DEF TypeOK, Phases, Flags, Pointers, Custody
<1>3. Counted' /\ Stamped'
  BY EngineAssumption, EmptyQueue DEF TypeOK, Phases, Flags, Counted, Stamped
<1> QED BY <1>1, <1>2, <1>3

\* The consumer waits.
LEMMA NotYetProducerDoneKeeps ==
  ASSUME IInv, NotYetProducerDone
  PROVE  IInv'
<1> USE DEF NotYetProducerDone, mainVars, prodVars, consVars, orderVars, retVars, bookVars,
     flagVars, IInv, InHand, Busy, Filling, Draining, Reclaiming
<1>1. TypeOK' /\ Phases' /\ Flags' /\ Pointers'
  BY EngineAssumption, EmptyQueue DEF TypeOK, Phases, Flags, Pointers, Counted
<1>2. Custody'
  BY EngineAssumption DEF TypeOK, Phases, Flags, Pointers, Custody
<1>3. Counted' /\ Stamped'
  BY EngineAssumption, EmptyQueue DEF TypeOK, Phases, Flags, Counted, Stamped
<1> QED BY <1>1, <1>2, <1>3

\* Nothing is left to pop; what rests dies with the book.
LEMMA ConsumerExitsKeeps ==
  ASSUME IInv, ConsumerExits
  PROVE  IInv'
<1> USE DEF ConsumerExits, Book!Forget, mainVars, prodVars, consVars, orderVars, retVars,
     bookVars, flagVars, IInv, InHand, Busy, Filling, Draining, Reclaiming
<1>1. TypeOK' /\ Phases' /\ Flags' /\ Pointers'
  BY EngineAssumption, EmptyQueue DEF TypeOK, Phases, Flags, Pointers, Counted
<1>2. Custody'
  BY EngineAssumption DEF TypeOK, Phases, Flags, Pointers, Custody
<1>3. Counted' /\ Stamped'
  BY EngineAssumption, EmptyQueue DEF TypeOK, Phases, Flags, Counted, Stamped
<1> QED BY <1>1, <1>2, <1>3

\* The stamp is still the one of the order in hand.
LEMMA ReadStampKeeps ==
  ASSUME IInv, ReadStamp
  PROVE  IInv'
<1> USE DEF ReadStamp, mainVars, prodVars, consVars, orderVars, retVars, bookVars, flagVars,
     IInv, InHand, Busy, Filling, Draining, Reclaiming
<1>1. TypeOK' /\ Phases' /\ Flags' /\ Pointers'
  BY EngineAssumption, EmptyQueue DEF TypeOK, Phases, Flags, Pointers, Counted
<1>2. Custody'
  BY EngineAssumption DEF TypeOK, Phases, Flags, Pointers, Custody
<1>3. Counted' /\ Stamped'
  BY EngineAssumption, EmptyQueue DEF TypeOK, Phases, Flags, Counted, Stamped
<1> QED BY <1>1, <1>2, <1>3

\* A filled or cancelled order goes to the deallocator.
LEMMA MatchReturnsKeeps ==
  ASSUME IInv, MatchReturns
  PROVE  IInv'
<1> USE DEF MatchReturns, Book!Release, Book!Finish, mainVars, prodVars, consVars,
     orderVars, retVars, bookVars, flagVars, IInv, InHand, Busy, Filling, Draining, Reclaiming
<1>1. TypeOK'
  <2>1. MainTypes' /\ LoopTypes'
    BY EngineAssumption, EmptyQueue DEF TypeOK, MainTypes, LoopTypes, Phases, Pointers, Counted
  <2>2. CounterTypes'
    BY EngineAssumption, EmptyQueue DEF TypeOK, CounterTypes, Phases, Counted
  <2>3. SlotTypes'
    BY EngineAssumption, EmptyQueue DEF TypeOK, SlotTypes, Phases, Pointers
  <2>4. QueueTypes'
    BY EngineAssumption, EmptyQueue DEF TypeOK, QueueTypes
  <2> QED BY <2>1, <2>2, <2>3, <2>4, TypeParts, PTL
<1>2. Phases'
  BY EngineAssumption, EmptyQueue DEF TypeOK, Phases, Flags, Pointers
<1>3. Flags'
  BY DEF Flags
<1>4. held \subseteq Slots /\ NoSlot \notin Slots /\ working # NoSlot /\ handing = NoSlot
  BY EngineAssumption DEF TypeOK, Pointers
<1>5. ASSUME NEW s \in held, Book!Release(s) PROVE Pointers' /\ Custody'
  BY <1>4, <1>5 DEF Pointers, Custody
<1>6. ASSUME Book!Finish PROVE Pointers' /\ Custody'
  BY <1>4, <1>6 DEF Pointers, Custody
<1>7. Pointers' /\ Custody'
  BY <1>5, <1>6
<1>8. Counted' /\ Stamped'
  BY EngineAssumption, EmptyQueue DEF TypeOK, Phases, Flags, Counted, Stamped
<1> QED BY <1>1, <1>7, <1>8, <1>2, <1>3

\* The order goes from the matcher to the book.
LEMMA MatchRestsKeeps ==
  ASSUME IInv, MatchRests
  PROVE  IInv'
<1> USE DEF MatchRests, Book!Keep, mainVars, prodVars, consVars, orderVars, retVars,
     bookVars, flagVars, IInv, InHand, Busy, Filling, Draining, Reclaiming
<1>1. TypeOK'
  <2>1. MainTypes' /\ LoopTypes'
    BY EngineAssumption, EmptyQueue DEF TypeOK, MainTypes, LoopTypes, Phases, Pointers, Counted
  <2>2. CounterTypes'
    BY EngineAssumption, EmptyQueue DEF TypeOK, CounterTypes, Phases, Counted
  <2>3. SlotTypes'
    BY EngineAssumption, EmptyQueue DEF TypeOK, SlotTypes, Phases, Pointers
  <2>4. QueueTypes'
    BY EngineAssumption, EmptyQueue DEF TypeOK, QueueTypes
  <2> QED BY <2>1, <2>2, <2>3, <2>4, TypeParts, PTL
<1>2. Phases'
  BY EngineAssumption, EmptyQueue DEF TypeOK, Phases, Flags, Pointers
<1>3. Flags'
  BY DEF Flags
<1>4. Pointers'
  BY DEF TypeOK, Phases, Pointers
<1>5. Custody'
  BY EngineAssumption DEF TypeOK, Phases, Flags, Pointers, Custody
<1>6. Counted' /\ Stamped'
  BY EngineAssumption, EmptyQueue DEF TypeOK, Phases, Flags, Counted, Stamped
<1> QED BY <1>1, <1>5, <1>6, <1>2, <1>3, <1>4

\* The slot goes from the deallocator to the return queue.
LEMMA ReturnOrderKeeps ==
  ASSUME IInv, ReturnOrder
  PROVE  IInv'
<1> USE EngineAssumption, NoElements DEF IInv, ReturnOrder, Book!HandBack, mainVars,
     prodVars, consVars, orderVars, retVars, bookVars, flagVars, InHand, Busy, Filling, Draining,
     Reclaiming, TypeOK
<1>a. /\ handing \in Slots /\ Len(rItems) \in Nat
      /\ rItems' \in Seq(Slots) /\ Len(rItems') = Len(rItems) + 1
      /\ Elements(rItems') = Elements(rItems) \cup {handing}
      /\ handing \notin Elements(rItems) /\ Distinct(rItems')
      /\ \A i \in 1..Len(rItems) : rItems'[i] = rItems[i]
      /\ rItems'[Len(rItems) + 1] = handing
      /\ rRoom > 0 /\ rRoom' = rRoom - 1 /\ UNCHANGED rAvail
  <2>1. /\ rRoom > 0 /\ rRoom' = rRoom - 1 /\ UNCHANGED rAvail
        /\ rItems' = Append(rItems, handing)
    BY DEF ReturnQueue!Push
  <2>2. handing \in Slots /\ rItems \in Seq(Slots)
    BY DEF TypeOK, Pointers
  <2>3. handing \notin Elements(rItems) /\ Distinct(rItems)
    BY <2>2 DEF Custody
  <2>4. Len(rItems) \in Nat
    BY <2>2, EmptyQueue
  <2> DEFINE a == Append(rItems, handing)
  <2>5. /\ a \in Seq(Slots) /\ Len(a) = Len(rItems) + 1
        /\ Elements(a) = Elements(rItems) \cup {handing} /\ Distinct(a)
        /\ \A i \in 1..Len(rItems) : a[i] = rItems[i]
        /\ a[Len(rItems) + 1] = handing
    BY <2>2, <2>3, Enqueued
  <2> HIDE DEF a
  <2>6. rItems' = a
    BY <2>1 DEF a
  <2> QED BY <2>1, <2>2, <2>3, <2>4, <2>5, <2>6
<1>b. /\ rAvail' \in 0..Len(rItems') /\ rRoom' \in 0..(ReturnQueueSize - Len(rItems'))
  BY <1>a, EngineAssumption DEF TypeOK
<1>1. TypeOK'
  <2>1. MainTypes' /\ LoopTypes'
    BY <1>a, <1>b DEF TypeOK, MainTypes, LoopTypes, Counted, Pointers
  <2>2. CounterTypes' /\ SlotTypes'
    BY <1>a, <1>b DEF TypeOK, CounterTypes, SlotTypes, Counted, Pointers
  <2>3. QueueTypes'
    BY <1>a, <1>b DEF TypeOK, QueueTypes
  <2> QED BY <2>1, <2>2, <2>3, TypeParts, PTL
<1>2. Phases'
  BY <1>a, <1>b DEF TypeOK, Phases, Flags
<1>3. Flags'
  BY <1>a, <1>b DEF TypeOK, Phases, Flags, Pointers
<1>4. Pointers'
  BY <1>a, <1>b DEF TypeOK, Phases, Flags, Pointers
<1>5. Custody'
  BY <1>a, <1>b DEF TypeOK, Phases, Flags, Pointers, Custody
<1>6. Counted'
  BY <1>a, <1>b DEF TypeOK, Phases, Flags, Pointers, Counted, Custody
<1>7. Stamped'
  BY <1>a, <1>b DEF TypeOK, Phases, Flags, Pointers, Custody, Counted, Stamped
<1> QED BY <1>1, <1>2, <1>3, <1>4, <1>5, <1>6, <1>7

\* The order is counted.
LEMMA RecordKeeps ==
  ASSUME IInv, Record
  PROVE  IInv'
<1> USE DEF Record, SampledStamp, mainVars, prodVars, consVars, orderVars, retVars,
     bookVars, flagVars, IInv, InHand, Busy, Filling, Draining, Reclaiming
<1>1. TypeOK'
  <2>1. MainTypes' /\ LoopTypes'
    BY EngineAssumption, EmptyQueue DEF TypeOK, MainTypes, LoopTypes, Phases, Pointers, Counted
  <2>2. CounterTypes'
    BY EngineAssumption, EmptyQueue DEF TypeOK, CounterTypes, Phases, Counted
  <2>3. SlotTypes'
    BY EngineAssumption, EmptyQueue DEF TypeOK, SlotTypes, Phases, Pointers
  <2>4. QueueTypes'
    BY EngineAssumption, EmptyQueue DEF TypeOK, QueueTypes
  <2> QED BY <2>1, <2>2, <2>3, <2>4, TypeParts, PTL
<1>2. Phases' /\ Flags' /\ Pointers'
  BY DEF TypeOK, Phases, Flags, Pointers
<1>3. Custody'
  BY EngineAssumption DEF TypeOK, Phases, Flags, Pointers, Custody
<1>4. Counted' /\ Stamped'
  BY EngineAssumption, EmptyQueue DEF TypeOK, Phases, Flags, Counted, Stamped
<1> QED BY <1>1, <1>3, <1>4, <1>2

\* Orders become visible to the consumer.
LEMMA SeeOrderPushesKeeps ==
  ASSUME IInv, SeeOrderPushes
  PROVE  IInv'
<1> USE EngineAssumption, NoElements DEF IInv, SeeOrderPushes, OrderQueue!SeePushes,
     mainVars, prodVars, consVars, orderVars, retVars, bookVars, flagVars, InHand, Busy, Filling,
     Draining, Reclaiming, TypeOK
<1>a. oAvail' \in 0..Len(oItems)
  <2>1. oItems \in Seq(Slots) /\ oAvail \in 0..Len(oItems)
    BY DEF TypeOK
  <2>2. Len(oItems) \in Nat
    BY <2>1, EmptyQueue
  <2> QED BY <2>1, <2>2
<1>1. TypeOK'
  BY <1>a DEF TypeOK, Phases, Flags, Counted, Pointers, Custody
<1>2. Phases'
  BY <1>a DEF TypeOK, Phases, Flags
<1>3. Flags'
  BY <1>a DEF TypeOK, Phases, Flags, Pointers
<1>4. Pointers'
  BY <1>a DEF TypeOK, Phases, Flags, Pointers
<1>5. Custody'
  BY <1>a DEF TypeOK, Phases, Flags, Pointers, Custody
<1>6. Counted'
  BY <1>a DEF TypeOK, Phases, Flags, Pointers, Counted, Custody
<1>7. Stamped'
  BY <1>a DEF TypeOK, Phases, Flags, Pointers, Custody, Counted, Stamped
<1> QED BY <1>1, <1>2, <1>3, <1>4, <1>5, <1>6, <1>7

\* Room becomes visible to the producer.
LEMMA SeeOrderPopsKeeps ==
  ASSUME IInv, SeeOrderPops
  PROVE  IInv'
<1> USE DEF SeeOrderPops, OrderQueue!SeePops, mainVars, prodVars, consVars, orderVars,
     retVars, bookVars, flagVars, IInv, InHand, Busy, Filling, Draining, Reclaiming
<1>1. TypeOK' /\ Phases' /\ Flags' /\ Pointers'
  BY EngineAssumption, EmptyQueue DEF TypeOK, Phases, Flags, Pointers, Counted
<1>2. Custody'
  BY EngineAssumption DEF TypeOK, Phases, Flags, Pointers, Custody
<1>3. Counted' /\ Stamped'
  BY EngineAssumption, EmptyQueue DEF TypeOK, Phases, Flags, Counted, Stamped
<1> QED BY <1>1, <1>2, <1>3

\* Returned slots become visible to the producer.
LEMMA SeeReturnPushesKeeps ==
  ASSUME IInv, SeeReturnPushes
  PROVE  IInv'
<1> USE EngineAssumption, NoElements DEF IInv, SeeReturnPushes, ReturnQueue!SeePushes,
     mainVars, prodVars, consVars, orderVars, retVars, bookVars, flagVars, InHand, Busy, Filling,
     Draining, Reclaiming, TypeOK
<1>a. rAvail' \in 0..Len(rItems)
  <2>1. rItems \in Seq(Slots) /\ rAvail \in 0..Len(rItems)
    BY DEF TypeOK
  <2>2. Len(rItems) \in Nat
    BY <2>1, EmptyQueue
  <2> QED BY <2>1, <2>2
<1>1. TypeOK'
  BY <1>a, ProducerLooks DEF TypeOK
<1>2. Phases'
  BY <1>a DEF TypeOK, Phases, Flags
<1>3. Flags'
  BY <1>a DEF TypeOK, Phases, Flags, Pointers
<1>4. Pointers'
  BY <1>a DEF TypeOK, Phases, Flags, Pointers
<1>5. Custody'
  BY <1>a DEF TypeOK, Phases, Flags, Pointers, Custody
<1>6. Counted'
  BY <1>a DEF TypeOK, Phases, Flags, Pointers, Counted, Custody
<1>7. Stamped'
  BY <1>a DEF TypeOK, Phases, Flags, Pointers, Custody, Counted, Stamped
<1> QED BY <1>1, <1>2, <1>3, <1>4, <1>5, <1>6, <1>7

\* Room becomes visible to the consumer.
LEMMA SeeReturnPopsKeeps ==
  ASSUME IInv, SeeReturnPops
  PROVE  IInv'
<1> USE DEF SeeReturnPops, ReturnQueue!SeePops, mainVars, prodVars, consVars, orderVars,
     retVars, bookVars, flagVars, IInv, InHand, Busy, Filling, Draining, Reclaiming
<1>1. TypeOK' /\ Phases' /\ Flags' /\ Pointers'
  BY EngineAssumption, EmptyQueue DEF TypeOK, Phases, Flags, Pointers, Counted
<1>2. Custody'
  BY EngineAssumption DEF TypeOK, Phases, Flags, Pointers, Custody
<1>3. Counted' /\ Stamped'
  BY EngineAssumption, EmptyQueue DEF TypeOK, Phases, Flags, Counted, Stamped
<1> QED BY <1>1, <1>2, <1>3

\* The flag becomes visible.
LEMMA SeeProducerDoneKeeps ==
  ASSUME IInv, SeeProducerDone
  PROVE  IInv'
<1> USE DEF SeeProducerDone, mainVars, prodVars, consVars, orderVars, retVars, bookVars,
     flagVars, IInv, InHand, Busy, Filling, Draining, Reclaiming
<1>1. TypeOK'
  <2>1. MainTypes' /\ LoopTypes'
    BY EngineAssumption, EmptyQueue DEF TypeOK, MainTypes, LoopTypes, Phases, Pointers, Counted
  <2>2. CounterTypes'
    BY EngineAssumption, EmptyQueue DEF TypeOK, CounterTypes, Phases, Counted
  <2>3. SlotTypes'
    BY EngineAssumption, EmptyQueue DEF TypeOK, SlotTypes, Phases, Pointers
  <2>4. QueueTypes'
    BY EngineAssumption, EmptyQueue DEF TypeOK, QueueTypes
  <2> QED BY <2>1, <2>2, <2>3, <2>4, TypeParts, PTL
<1>2. Phases'
  BY EngineAssumption, EmptyQueue DEF TypeOK, Phases, Flags, Pointers
<1>3. Flags'
  BY DEF Flags
<1>4. Pointers'
  BY DEF TypeOK, Phases, Pointers
<1>5. Custody'
  BY EngineAssumption DEF TypeOK, Phases, Flags, Pointers, Custody
<1>6. Counted' /\ Stamped'
  BY EngineAssumption, EmptyQueue DEF TypeOK, Phases, Flags, Counted, Stamped
<1> QED BY <1>1, <1>5, <1>6, <1>2, <1>3, <1>4

\* The flag becomes visible.
LEMMA SeeConsumerDoneKeeps ==
  ASSUME IInv, SeeConsumerDone
  PROVE  IInv'
<1> USE DEF SeeConsumerDone, mainVars, prodVars, consVars, orderVars, retVars, bookVars,
     flagVars, IInv, InHand, Busy, Filling, Draining, Reclaiming
<1>1. TypeOK' /\ Phases' /\ Flags' /\ Pointers'
  BY EngineAssumption, EmptyQueue DEF TypeOK, Phases, Flags, Pointers, Counted
<1>2. Custody'
  BY EngineAssumption DEF TypeOK, Phases, Flags, Pointers, Custody
<1>3. Counted' /\ Stamped'
  BY EngineAssumption, EmptyQueue DEF TypeOK, Phases, Flags, Counted, Stamped
<1> QED BY <1>1, <1>2, <1>3

-----------------------------------------------------------------------------
\* Before the first run.
LEMMA InitInvariant == Init => IInv
<1> SUFFICES ASSUME Init PROVE IInv
  OBVIOUS
<1> USE DEF Init, Pool!Init, OrderQueue!Init, ReturnQueue!Init, Book!Init
<1>1. TypeOK
  <2>1. <<>> \in Seq(Slots) /\ Len(<<>>) = 0
    BY EmptySeq
  <2>2. stamp \in [Slots -> 0..OrderCount] /\ pushed \in 0..OrderCount /\ runs \in 0..MaxRuns
    BY EngineAssumption
  <2>3. oAvail \in 0..0 /\ oRoom \in 0..(OrderQueueSize - 0)
        /\ rAvail \in 0..0 /\ rRoom \in 0..(ReturnQueueSize - 0)
    BY EngineAssumption
  <2>4. oItems = <<>> /\ rItems = <<>>
    OBVIOUS
  <2> QED BY <2>1, <2>2, <2>3, <2>4 DEF TypeOK
<1>2. Phases /\ Flags /\ Pointers
  BY DEF Phases, Flags, Pointers
<1>3. Custody
  BY EngineAssumption, NoElements DEF Custody
<1>4. Counted /\ Stamped
  BY EmptySeq DEF Counted, Stamped, Filling, NoSample
<1> QED BY <1>1, <1>2, <1>3, <1>4 DEF IInv

\* Whoever moves.
LEMMA StepInvariant == IInv /\ [Next]_vars => IInv'
<1> SUFFICES ASSUME IInv, [Next]_vars PROVE IInv'
  OBVIOUS
<1>1. CASE Main
  BY <1>1, StartKeeps, SpawnConsumerKeeps, SpawnProducerKeeps, SpawnFailsKeeps,
       FailedStartKeeps,
     StopJoinsProducerKeeps, StopJoinsConsumerKeeps DEF Main
<1>2. CASE Producer
  BY <1>2, ReclaimOneKeeps, ReclaimEndsKeeps, FillSlotKeeps, NoSlotFreeKeeps,
       PushOrderKeeps,
     PushFailsKeeps, SetProducerDoneKeeps, SeesConsumerDoneKeeps, NotYetConsumerDoneKeeps DEF Producer
<1>3. CASE Consumer
  BY <1>3, PopOrderKeeps, PopFailsKeeps, SeesProducerDoneKeeps, NotYetProducerDoneKeeps,
     ConsumerExitsKeeps, ReadStampKeeps, MatchReturnsKeeps, MatchRestsKeeps, ReturnOrderKeeps,
     RecordKeeps DEF Consumer
<1>4. CASE Visibility
  BY <1>4, SeeOrderPushesKeeps, SeeOrderPopsKeeps, SeeReturnPushesKeeps, SeeReturnPopsKeeps,
     SeeProducerDoneKeeps, SeeConsumerDoneKeeps DEF Visibility
<1>5. CASE UNCHANGED vars
  <2> USE <1>5 DEF vars, mainVars, prodVars, consVars, orderVars, retVars, bookVars, flagVars, IInv
  <2>1. MainTypes' /\ LoopTypes' /\ CounterTypes'
    BY TypeParts DEF MainTypes, LoopTypes, CounterTypes
  <2>2. SlotTypes' /\ QueueTypes'
    BY TypeParts DEF SlotTypes, QueueTypes
  <2>3. Phases' /\ Flags'
    BY DEF Phases, Flags
  <2>4. Pointers' /\ Custody' /\ Counted' /\ Stamped'
    BY DEF Pointers, Custody, Counted, Stamped, InHand
  <2>5. TypeOK'
    BY <2>1, <2>2, TypeParts, PTL
  <2> QED BY <2>3, <2>4, <2>5
<1> QED BY <1>1, <1>2, <1>3, <1>4, <1>5 DEF Next, Rest

\* The invariant holds of every behaviour.
LEMMA Invariance == Spec => []IInv
<1> QED BY InitInvariant, StepInvariant, PTL DEF Spec

\* No thread sees more of a queue than it holds, and the counts of a run stay
\* within order_count.
THEOREM TypeCorrect == Spec => []TypeOK
<1>1. IInv => TypeOK
  BY DEF IInv
<1> QED BY <1>1, Invariance, PTL

\* Every slot has one owner at every moment, so neither thread touches an order
\* the other one owns, and none is lost.
THEOREM OneOwner == Spec => []EverySlotHasOneOwner
<1>1. ASSUME IInv PROVE EverySlotHasOneOwner
  <2>1. ASSUME NEW s \in Slots PROVE Cardinality(Owners(s)) = 1
    <3>1. \E w : Owners(s) = {w}
      <4>1. CASE s \notin used
        <5>1. Owners(s) = {"pool"}
          BY <1>1, <4>1 DEF IInv, Custody, Owners
        <5> QED BY <5>1
      <4>2. CASE s = slot
        <5>1. Owners(s) = {"producer"}
          BY <1>1, <4>2 DEF IInv, Custody, Owners
        <5> QED BY <5>1
      <4>3. CASE s \in Elements(oItems)
        <5>1. Owners(s) = {"orderQueue"}
          BY <1>1, <4>3 DEF IInv, Custody, Owners
        <5> QED BY <5>1
      <4>4. CASE s = working
        <5>1. Owners(s) = {"matcher"}
          BY <1>1, <4>4 DEF IInv, Custody, Owners
        <5> QED BY <5>1
      <4>5. CASE s \in held
        <5>1. Owners(s) = {"book"}
          BY <1>1, <4>5 DEF IInv, Custody, Owners
        <5> QED BY <5>1
      <4>6. CASE s = handing
        <5>1. Owners(s) = {"deallocator"}
          BY <1>1, <4>6 DEF IInv, Custody, Owners
        <5> QED BY <5>1
      <4>7. CASE s \in Elements(rItems)
        <5>1. Owners(s) = {"returnQueue"}
          BY <1>1, <4>7 DEF IInv, Custody, Owners
        <5> QED BY <5>1
      <4>8. CASE s \in abandoned
        <5>1. Owners(s) = {"abandoned"}
          BY <1>1, <4>8 DEF IInv, Custody, Owners
        <5> QED BY <5>1
      <4> QED BY <1>1, <4>1, <4>2, <4>3, <4>4, <4>5, <4>6, <4>7, <4>8 DEF IInv, Custody
    <3> QED BY <3>1, FS_Singleton
  <2> QED BY <1>1, <2>1 DEF EverySlotHasOneOwner, IInv, Custody
<1> QED BY <1>1, Invariance, PTL

\* The sample of the n-th order consumed is the stamp of the n-th order made,
\* though slots are reused while others are matched.
THEOREM OwnSamples == Spec => []SamplesAreOwn
<1>1. IInv => SamplesAreOwn
  BY DEF IInv, Stamped, SamplesAreOwn
<1> QED BY <1>1, Invariance, PTL

\* A run that ends leaves both queues empty, has consumed every order, and
\* lacks only the slots of the orders that rested.
THEOREM CleanShutdown == Spec => []ShutdownIsClean
<1>1. ASSUME IInv PROVE ShutdownIsClean
  <2> USE <1>1 DEF IInv
  <2>1. consumerDone => producerDone /\ oItems = <<>> /\ handing = NoSlot
    BY DEF Flags, Pointers, Phases, TypeOK
  <2>2. mpc = "idle" => oItems = <<>> /\ rItems = <<>>
    BY DEF Flags, Phases
  <2>3. ASSUME mpc = "idle", outcome = "ok" PROVE consumed = OrderCount /\ used = abandoned
    <3>1. consumed = OrderCount
      BY <2>3 DEF Counted
    <3>2. /\ Elements(oItems) = {} /\ Elements(rItems) = {} /\ held = {}
          /\ slot = NoSlot /\ working = NoSlot /\ handing = NoSlot
      BY <2>2, <2>3, NoElements DEF Phases, Pointers
    <3>3. used = abandoned
      BY <3>2, EngineAssumption DEF Custody, TypeOK
    <3> QED BY <3>1, <3>3
  <2> QED BY <2>1, <2>2, <2>3 DEF ShutdownIsClean
<1> QED BY <1>1, Invariance, PTL

\* start() assigns only to threads that were joined, and resets the pool while
\* no thread runs.
THEOREM NeverOverwritten == Spec => []ThreadsNeverOverwritten
<1>1. IInv => ThreadsNeverOverwritten
  BY DEF IInv, Phases, ThreadsNeverOverwritten, ProducerRuns, ConsumerRuns
<1> QED BY <1>1, Invariance, PTL
=============================================================================
