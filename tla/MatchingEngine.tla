--------------------------- MODULE MatchingEngine ---------------------------
(***************************************************************************)
(* The pipeline of src/matching_engine.cpp: a main thread that starts and  *)
(* stops runs, a producer thread that fills order slots from a pool and    *)
(* pushes them through order_queue_, and a consumer thread that matches    *)
(* them and sends finished orders back through return_queue_.              *)
(*                                                                         *)
(* The parts come from their abstract specifications: the queues from      *)
(* SPSCQueue (stale loads included), the pool from SlotPool, the order     *)
(* book from BookContract.  An atomic flag has its value and, for the      *)
(* thread that polls it, whether the value is visible there yet.  The      *)
(* trades, which only the consumer writes and which are read between runs, *)
(* are the matter of TradeRingBuffer.                                      *)
(***************************************************************************)
EXTENDS Naturals, Sequences, FiniteSets

CONSTANTS
  Slots,           \* the slots of order_pool_
  NoSlot,          \* nullptr
  OrderCount,      \* order_count of every run
  OrderQueueSize,  \* elements order_queue_ holds, kOrderQueueCap - 1
  ReturnQueueSize, \* elements return_queue_ holds, kReturnQueueCap - 1
  MaxRuns          \* bound of the model: calls of start()

ASSUME EngineAssumption ==
  /\ IsFiniteSet(Slots) /\ Slots # {} /\ NoSlot \notin Slots
  /\ OrderCount \in Nat /\ MaxRuns \in Nat
  /\ OrderQueueSize \in Nat \ {0} /\ ReturnQueueSize \in Nat \ {0}

VARIABLES
  mpc, running, runs, outcome,      \* main: where it is, running_, starts, last result
  pJoinable, cJoinable,             \* producer_thread_ and consumer_thread_ joinable
  ppc, slot, pushed,                \* producer_loop: where it is, slot, pushed
  cpc, popped, tPush,               \* consumer_loop: where it is, order, t_push
  consumed, sample,                 \* consumed_count_, the last latency sample
  used,                             \* order_pool_
  stamp,                            \* timestamp_ns of each slot: which order it is for
  oItems, oAvail, oRoom,            \* order_queue_
  rItems, rAvail, rRoom,            \* return_queue_
  held, working, handing,           \* the book and its deallocator
  abandoned,                        \* slots the last book died with
  producerDone, producerDoneSeen,   \* producer_done_, and its value for the consumer
  consumerDone, consumerDoneSeen    \* consumer_done_, and its value for the producer

mainVars  == <<mpc, running, runs, outcome, pJoinable, cJoinable>>
prodVars  == <<ppc, slot, pushed>>
consVars  == <<cpc, popped, tPush, consumed, sample>>
orderVars == <<oItems, oAvail, oRoom>>
retVars   == <<rItems, rAvail, rRoom>>
bookVars  == <<held, working, handing>>
flagVars  == <<producerDone, producerDoneSeen, consumerDone, consumerDoneSeen>>
vars == <<mainVars, prodVars, consVars, used, stamp, orderVars, retVars, bookVars,
          abandoned, flagVars>>

OrderQueue == INSTANCE SPSCQueue WITH
  Items <- Slots, Bound <- OrderQueueSize,
  items <- oItems, avail <- oAvail, room <- oRoom
ReturnQueue == INSTANCE SPSCQueue WITH
  Items <- Slots, Bound <- ReturnQueueSize,
  items <- rItems, avail <- rAvail, room <- rRoom
Pool == INSTANCE SlotPool
Book == INSTANCE BookContract WITH Objects <- Slots, None <- NoSlot
-----------------------------------------------------------------------------
NoSample == [order |-> 0, stamp |-> 0]

Init ==
  /\ mpc = "idle" /\ running = FALSE /\ runs = 0 /\ outcome = "none"
  /\ pJoinable = FALSE /\ cJoinable = FALSE
  /\ ppc = "off" /\ slot = NoSlot /\ pushed = 0
  /\ cpc = "off" /\ popped = NoSlot /\ tPush = 0 /\ consumed = 0 /\ sample = NoSample
  /\ Pool!Init /\ OrderQueue!Init /\ ReturnQueue!Init /\ Book!Init
  /\ stamp = [s \in Slots |-> 0]
  /\ abandoned = {}
  /\ producerDone = FALSE /\ producerDoneSeen = FALSE
  /\ consumerDone = FALSE /\ consumerDoneSeen = FALSE
-----------------------------------------------------------------------------
(* Main thread *)

StartKeepsPool ==
  /\ mpc = "idle" /\ ~running
  /\ runs < MaxRuns
  /\ UNCHANGED used /\ abandoned' = {}
  /\ producerDone' = FALSE /\ producerDoneSeen' = FALSE
  /\ consumerDone' = FALSE /\ consumerDoneSeen' = FALSE
  /\ consumed' = 0 /\ sample' = NoSample
  /\ running' = TRUE /\ runs' = runs + 1
  /\ mpc' = "spawnConsumer"
  /\ UNCHANGED <<outcome, pJoinable, cJoinable, prodVars, cpc, popped, tPush, stamp,
                 orderVars, retVars, bookVars>>

(* start(), up to the creation of the threads; a call while running_ throws *)
(* before it changes anything.                                              *)
Start ==
  /\ mpc = "idle" /\ ~running
  /\ runs < MaxRuns
  /\ Pool!Reset /\ abandoned' = {}
  /\ producerDone' = FALSE /\ producerDoneSeen' = FALSE
  /\ consumerDone' = FALSE /\ consumerDoneSeen' = FALSE
  /\ consumed' = 0 /\ sample' = NoSample
  /\ running' = TRUE /\ runs' = runs + 1
  /\ mpc' = "spawnConsumer"
  /\ UNCHANGED <<outcome, pJoinable, cJoinable, prodVars, cpc, popped, tPush, stamp,
                 orderVars, retVars, bookVars>>

(* Creating a thread makes what came before it visible to the thread. *)
SpawnConsumer ==
  /\ mpc = "spawnConsumer"
  /\ OrderQueue!SyncConsumer /\ ReturnQueue!SyncProducer
  /\ cpc' = "pop" /\ popped' = NoSlot
  /\ cJoinable' = TRUE
  /\ mpc' = "spawnProducer"
  /\ UNCHANGED <<running, runs, outcome, pJoinable, prodVars, tPush, consumed, sample,
                 used, stamp, oItems, oRoom, rItems, rAvail, bookVars, abandoned,
                 flagVars>>

LoopHeadOneMore(n) == IF n <= OrderCount THEN "reclaim" ELSE "setDone"

(* The head of the loop of producer_loop. *)
LoopHead(n) == IF n < OrderCount THEN "reclaim" ELSE "setDone"

SpawnProducer ==
  /\ mpc = "spawnProducer"
  /\ OrderQueue!SyncProducer /\ ReturnQueue!SyncConsumer
  /\ ppc' = LoopHead(0) /\ slot' = NoSlot /\ pushed' = 0
  /\ pJoinable' = TRUE
  /\ mpc' = "started"
  /\ UNCHANGED <<running, runs, outcome, cJoinable, consVars, used, stamp, oItems, oAvail,
                 rItems, rRoom, bookVars, abandoned, flagVars>>

(* A PinnedThread constructor throws: the catch block sets producer_done_. *)
SpawnFails ==
  /\ mpc \in {"spawnConsumer", "spawnProducer"}
  /\ producerDone' = TRUE
  /\ mpc' = "failed"
  /\ UNCHANGED <<running, runs, outcome, pJoinable, cJoinable, prodVars, consVars, used,
                 stamp, orderVars, retVars, bookVars, abandoned, producerDoneSeen,
                 consumerDone, consumerDoneSeen>>

FailedStartNoJoin ==
  /\ mpc = "failed"
  /\ running' = FALSE /\ outcome' = "failed"
  /\ mpc' = "idle"
  /\ UNCHANGED <<runs, pJoinable, cJoinable, prodVars, consVars, used, stamp, orderVars,
                 retVars, bookVars, abandoned, flagVars>>

(* The rest of the catch block: joins the consumer if there is one. *)
FailedStart ==
  /\ mpc = "failed"
  /\ cJoinable => cpc = "exited"
  /\ cJoinable' = FALSE
  /\ running' = FALSE /\ outcome' = "failed"
  /\ mpc' = "idle"
  /\ UNCHANGED <<runs, pJoinable, prodVars, consVars, used, stamp, orderVars, retVars,
                 bookVars, abandoned, flagVars>>

(* stop() *)
StopJoinsProducer ==
  /\ mpc = "started"
  /\ ppc = "exited"
  /\ pJoinable' = FALSE
  /\ mpc' = "joinConsumer"
  /\ UNCHANGED <<running, runs, outcome, cJoinable, prodVars, consVars, used, stamp,
                 orderVars, retVars, bookVars, abandoned, flagVars>>

StopJoinsConsumer ==
  /\ mpc = "joinConsumer"
  /\ cpc = "exited"
  /\ cJoinable' = FALSE
  /\ running' = FALSE /\ outcome' = "ok"
  /\ mpc' = "idle"
  /\ UNCHANGED <<runs, pJoinable, prodVars, consVars, used, stamp, orderVars, retVars,
                 bookVars, abandoned, flagVars>>

(* The engine may rest between runs, and after the last one. *)
Rest == mpc = "idle" /\ runs = MaxRuns /\ UNCHANGED vars

Main == \/ Start \/ SpawnConsumer \/ SpawnProducer \/ SpawnFails \/ FailedStart
        \/ StopJoinsProducer \/ StopJoinsConsumer
-----------------------------------------------------------------------------
(* Producer thread *)

(* One iteration of `while (return_queue_.try_pop(ret)) deallocate(ret)`. *)
ReclaimOne ==
  /\ ppc \in {"reclaim", "pushReclaim", "drain", "lastDrain"}
  /\ ReturnQueue!Pop
  /\ Pool!Deallocate(Head(rItems))
  /\ UNCHANGED <<mainVars, prodVars, consVars, stamp, orderVars, bookVars, abandoned,
                 flagVars>>

(* The pop fails: on to what follows the loop. *)
AfterReclaim(at) ==
  CASE at = "reclaim"     -> "allocate"
    [] at = "pushReclaim" -> "push"
    [] at = "drain"       -> "checkDone"
    [] at = "lastDrain"   -> "exited"

ReclaimEnds ==
  /\ ppc \in {"reclaim", "pushReclaim", "drain", "lastDrain"}
  /\ rAvail = 0
  /\ ppc' = AfterReclaim(ppc)
  /\ UNCHANGED <<mainVars, slot, pushed, consVars, used, stamp, orderVars, retVars,
                 bookVars, abandoned, flagVars>>

(* allocate, generate_into and the timestamp of the slot *)
FillSlot ==
  /\ ppc = "allocate"
  /\ \E s \in Slots : /\ Pool!Allocate(s)
                      /\ slot' = s
                      /\ stamp' = [stamp EXCEPT ![s] = pushed + 1]
  /\ ppc' = "push"
  /\ UNCHANGED <<mainVars, pushed, consVars, orderVars, retVars, bookVars, abandoned,
                 flagVars>>

NoSlotFree ==
  /\ ppc = "allocate"
  /\ Pool!Exhausted
  /\ ppc' = "reclaim"
  /\ UNCHANGED <<mainVars, slot, pushed, consVars, used, stamp, orderVars, retVars,
                 bookVars, abandoned, flagVars>>

PushOrder ==
  /\ ppc = "push"
  /\ OrderQueue!Push(slot)
  /\ pushed' = pushed + 1
  /\ slot' = NoSlot
  /\ ppc' = LoopHead(pushed + 1)
  /\ UNCHANGED <<mainVars, consVars, used, stamp, retVars, bookVars, abandoned, flagVars>>

WhenFullRetry == "push"

(* order_queue_ is full: reclaim before the next try, so that the consumer  *)
(* cannot be stuck on a full return_queue_ meanwhile.                       *)
WhenFull == "pushReclaim"

PushFails ==
  /\ ppc = "push"
  /\ oRoom = 0
  /\ ppc' = WhenFull
  /\ UNCHANGED <<mainVars, slot, pushed, consVars, used, stamp, orderVars, retVars,
                 bookVars, abandoned, flagVars>>

SetProducerDone ==
  /\ ppc = "setDone"
  /\ producerDone' = TRUE
  /\ ppc' = "drain"
  /\ UNCHANGED <<mainVars, slot, pushed, consVars, used, stamp, orderVars, retVars,
                 bookVars, abandoned, producerDoneSeen, consumerDone, consumerDoneSeen>>

SeesConsumerDoneLeaves ==
  /\ ppc = "checkDone"
  /\ consumerDoneSeen
  /\ ReturnQueue!SyncConsumer
  /\ ppc' = "exited"
  /\ UNCHANGED <<mainVars, slot, pushed, consVars, used, stamp, orderVars, rItems, rRoom,
                 bookVars, abandoned, flagVars>>

(* consumer_done_.load(acquire) returning true *)
SeesConsumerDone ==
  /\ ppc = "checkDone"
  /\ consumerDoneSeen
  /\ ReturnQueue!SyncConsumer
  /\ ppc' = "lastDrain"
  /\ UNCHANGED <<mainVars, slot, pushed, consVars, used, stamp, orderVars, rItems, rRoom,
                 bookVars, abandoned, flagVars>>

NotYetConsumerDone ==
  /\ ppc = "checkDone"
  /\ ~consumerDoneSeen
  /\ ppc' = "drain"
  /\ UNCHANGED <<mainVars, slot, pushed, consVars, used, stamp, orderVars, retVars,
                 bookVars, abandoned, flagVars>>

Producer ==
  \/ ReclaimOne \/ ReclaimEnds \/ FillSlot \/ NoSlotFree \/ PushOrder \/ PushFails
  \/ SetProducerDone \/ SeesConsumerDone \/ NotYetConsumerDone
-----------------------------------------------------------------------------
(* Consumer thread *)

PopOrder ==
  /\ cpc \in {"pop", "popAgain"}
  /\ OrderQueue!Pop
  /\ popped' = Head(oItems)
  /\ Book!Accept(Head(oItems))
  /\ cpc' = "stamp"
  /\ UNCHANGED <<mainVars, prodVars, tPush, consumed, sample, used, stamp, retVars,
                 abandoned, flagVars>>

PopFails ==
  /\ cpc = "pop"
  /\ oAvail = 0
  /\ cpc' = "checkDone"
  /\ UNCHANGED <<mainVars, prodVars, popped, tPush, consumed, sample, used, stamp,
                 orderVars, retVars, bookVars, abandoned, flagVars>>

(* producer_done_.load(acquire) returning true *)
SeesProducerDone ==
  /\ cpc = "checkDone"
  /\ producerDoneSeen
  /\ OrderQueue!SyncConsumer
  /\ cpc' = "popAgain"
  /\ UNCHANGED <<mainVars, prodVars, popped, tPush, consumed, sample, used, stamp,
                 oItems, oRoom, retVars, bookVars, abandoned, flagVars>>

NotYetProducerDone ==
  /\ cpc = "checkDone"
  /\ ~producerDoneSeen
  /\ cpc' = "pop"
  /\ UNCHANGED <<mainVars, prodVars, popped, tPush, consumed, sample, used, stamp,
                 orderVars, retVars, bookVars, abandoned, flagVars>>

(* The second pop fails too: the consumer leaves, and its book dies with    *)
(* the orders that rest in it.                                              *)
ConsumerExits ==
  /\ cpc = "popAgain"
  /\ oAvail = 0
  /\ Book!Forget
  /\ abandoned' = held
  /\ consumerDone' = TRUE
  /\ cpc' = "exited"
  /\ UNCHANGED <<mainVars, prodVars, popped, tPush, consumed, sample, used, stamp,
                 orderVars, retVars, producerDone, producerDoneSeen, consumerDoneSeen>>

(* consume: the timestamp is read before matching *)
ReadStamp ==
  /\ cpc = "stamp"
  /\ tPush' = stamp[popped]
  /\ cpc' = "match"
  /\ UNCHANGED <<mainVars, prodVars, popped, consumed, sample, used, stamp, orderVars,
                 retVars, bookVars, abandoned, flagVars>>

(* add_order_noalloc, between two calls of the deallocator *)
MatchReturns ==
  /\ cpc = "match"
  /\ (\E s \in held : Book!Release(s)) \/ Book!Finish
  /\ cpc' = "hand"
  /\ UNCHANGED <<mainVars, prodVars, popped, tPush, consumed, sample, used, stamp,
                 orderVars, retVars, abandoned, flagVars>>

MatchRests ==
  /\ cpc = "match"
  /\ Book!Keep
  /\ cpc' = "record"
  /\ UNCHANGED <<mainVars, prodVars, popped, tPush, consumed, sample, used, stamp,
                 orderVars, retVars, abandoned, flagVars>>

(* The deallocator: it spins until return_queue_ takes the order. *)
ReturnOrder ==
  /\ cpc = "hand"
  /\ ReturnQueue!Push(handing)
  /\ Book!HandBack
  /\ cpc' = IF working = NoSlot THEN "record" ELSE "match"
  /\ UNCHANGED <<mainVars, prodVars, popped, tPush, consumed, sample, used, stamp,
                 orderVars, abandoned, flagVars>>

(* queue_latency_.record, and the count *)
SampledStampLate == stamp[popped]
SampledStamp == tPush

Record ==
  /\ cpc = "record"
  /\ consumed' = consumed + 1
  /\ sample' = [order |-> consumed + 1, stamp |-> SampledStamp]
  /\ cpc' = "pop"
  /\ UNCHANGED <<mainVars, prodVars, popped, tPush, used, stamp, orderVars, retVars,
                 bookVars, abandoned, flagVars>>

Consumer ==
  \/ PopOrder \/ PopFails \/ SeesProducerDone \/ NotYetProducerDone \/ ConsumerExits
  \/ ReadStamp \/ MatchReturns \/ MatchRests \/ ReturnOrder \/ Record
-----------------------------------------------------------------------------
(* Stores becoming visible to the other thread *)

SeeOrderPushes ==
  /\ OrderQueue!SeePushes
  /\ UNCHANGED <<mainVars, prodVars, consVars, used, stamp, retVars, bookVars, abandoned,
                 flagVars>>
SeeOrderPops ==
  /\ OrderQueue!SeePops
  /\ UNCHANGED <<mainVars, prodVars, consVars, used, stamp, retVars, bookVars, abandoned,
                 flagVars>>
SeeReturnPushes ==
  /\ ReturnQueue!SeePushes
  /\ UNCHANGED <<mainVars, prodVars, consVars, used, stamp, orderVars, bookVars,
                 abandoned, flagVars>>
SeeReturnPops ==
  /\ ReturnQueue!SeePops
  /\ UNCHANGED <<mainVars, prodVars, consVars, used, stamp, orderVars, bookVars,
                 abandoned, flagVars>>
SeeProducerDone ==
  /\ producerDone /\ ~producerDoneSeen
  /\ producerDoneSeen' = TRUE
  /\ UNCHANGED <<mainVars, prodVars, consVars, used, stamp, orderVars, retVars, bookVars,
                 abandoned, producerDone, consumerDone, consumerDoneSeen>>
SeeConsumerDone ==
  /\ consumerDone /\ ~consumerDoneSeen
  /\ consumerDoneSeen' = TRUE
  /\ UNCHANGED <<mainVars, prodVars, consVars, used, stamp, orderVars, retVars, bookVars,
                 abandoned, producerDone, producerDoneSeen, consumerDone>>

Visibility == \/ SeeOrderPushes \/ SeeOrderPops \/ SeeReturnPushes \/ SeeReturnPops
              \/ SeeProducerDone \/ SeeConsumerDone

Next == Main \/ Producer \/ Consumer \/ Visibility \/ Rest

Spec == Init /\ [][Next]_vars

(* Every thread keeps running, a run that was started is also stopped, and  *)
(* a store becomes visible to the other thread in a finite time.            *)
Fairness ==
  /\ WF_vars(Producer) /\ WF_vars(Consumer)
  /\ WF_vars(SpawnConsumer) /\ WF_vars(SpawnProducer) /\ WF_vars(FailedStart)
  /\ WF_vars(StopJoinsProducer) /\ WF_vars(StopJoinsConsumer)
  /\ WF_vars(SeeOrderPushes) /\ WF_vars(SeeOrderPops)
  /\ WF_vars(SeeReturnPushes) /\ WF_vars(SeeReturnPops)
  /\ WF_vars(SeeProducerDone) /\ WF_vars(SeeConsumerDone)

LiveSpec == Spec /\ Fairness
-----------------------------------------------------------------------------
Elements(q) == {q[i] : i \in DOMAIN q}
Distinct(q) == \A i, j \in DOMAIN q : q[i] = q[j] => i = j
ProducerRuns == ppc \notin {"off", "exited"}
ConsumerRuns == cpc \notin {"off", "exited"}

(* TypeOK: what each thread may see of a queue is within what the queue holds. *)
TypeOK ==
  /\ mpc \in {"idle", "spawnConsumer", "spawnProducer", "failed", "started", "joinConsumer"}
  /\ running \in BOOLEAN /\ pJoinable \in BOOLEAN /\ cJoinable \in BOOLEAN
  /\ runs \in 0..MaxRuns /\ outcome \in {"none", "ok", "failed"}
  /\ ppc \in {"off", "reclaim", "allocate", "push", "pushReclaim", "setDone", "drain",
              "checkDone", "lastDrain", "exited"}
  /\ cpc \in {"off", "pop", "checkDone", "popAgain", "stamp", "match", "hand", "record",
              "exited"}
  /\ slot \in Slots \cup {NoSlot} /\ popped \in Slots \cup {NoSlot}
  /\ pushed \in 0..OrderCount /\ consumed \in 0..OrderCount /\ tPush \in 0..OrderCount
  /\ used \subseteq Slots /\ held \subseteq Slots /\ abandoned \subseteq Slots
  /\ working \in Slots \cup {NoSlot} /\ handing \in Slots \cup {NoSlot}
  /\ stamp \in [Slots -> 0..OrderCount]
  /\ oItems \in Seq(Slots) /\ rItems \in Seq(Slots)
  /\ oAvail \in 0..Len(oItems) /\ oRoom \in 0..(OrderQueueSize - Len(oItems))
  /\ rAvail \in 0..Len(rItems) /\ rRoom \in 0..(ReturnQueueSize - Len(rItems))

(* EverySlotHasOneOwner: a slot is free, or with the producer, or on its way   *)
(* to the consumer, or being matched, or resting, or with the deallocator, or  *)
(* on its way back, or abandoned with the last book, and never two of these:   *)
(* "the two SPSC queues transfer ownership of each slot".  So no thread        *)
(* touches an order the other one owns, and none is lost.                      *)
Owners(s) ==
  {w \in {"pool", "producer", "orderQueue", "matcher", "book", "deallocator",
          "returnQueue", "abandoned"} :
     \/ w = "pool" /\ s \notin used
     \/ w = "producer" /\ s = slot
     \/ w = "orderQueue" /\ s \in Elements(oItems)
     \/ w = "matcher" /\ s = working
     \/ w = "book" /\ s \in held
     \/ w = "deallocator" /\ s = handing
     \/ w = "returnQueue" /\ s \in Elements(rItems)
     \/ w = "abandoned" /\ s \in abandoned}

EverySlotHasOneOwner ==
  /\ Distinct(oItems) /\ Distinct(rItems)
  /\ \A s \in Slots : Cardinality(Owners(s)) = 1

(* SamplesAreOwn: the latency sample of the n-th order consumed is taken from  *)
(* the timestamp of the n-th order produced, though its slot may be reused     *)
(* while it is matched; orders reach the book in the order they were made.     *)
SamplesAreOwn == sample.stamp = sample.order

(* ShutdownIsClean: the consumer leaves only after every order, and when the   *)
(* threads are joined no pointer is left in a queue, every order was consumed, *)
(* and the pool lacks only the orders that rested ("a run that returned every  *)
(* order leaves the pool full").                                               *)
ShutdownIsClean ==
  /\ consumerDone => producerDone /\ oItems = <<>> /\ handing = NoSlot
  /\ mpc = "idle" => oItems = <<>> /\ rItems = <<>>
  /\ mpc = "idle" /\ outcome = "ok" => consumed = OrderCount /\ used = abandoned

(* ThreadsNeverOverwritten: start() assigns only to threads that were joined,  *)
(* where PinnedThread would terminate the program, and it resets the pool      *)
(* while no thread runs.                                                       *)
ThreadsNeverOverwritten ==
  /\ mpc = "spawnConsumer" => ~cJoinable /\ ~pJoinable
  /\ mpc = "spawnProducer" => ~pJoinable
  /\ mpc \in {"idle", "spawnConsumer"} => ~ProducerRuns /\ ~ConsumerRuns

(* EveryRunEnds: a run that was started comes to its end.                      *)
EveryRunEnds == running ~> ~running
=============================================================================
