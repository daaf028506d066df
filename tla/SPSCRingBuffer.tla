--------------------------- MODULE SPSCRingBuffer ---------------------------
(***************************************************************************)
(* include/spsc_ring_buffer.h: the lock-free ring for one producer thread  *)
(* and one consumer thread, at the grain of its atomic accesses.           *)
(*                                                                         *)
(* An atomic index has one newest value (head, tail) and, for the thread   *)
(* that does not write it, the newest of its values that has become        *)
(* visible to that thread (headSeen, tailSeen): a load returns that one,   *)
(* so a load may be stale but never goes back in time.                     *)
(*                                                                         *)
(* Visibility of an index is not yet visibility of the slots.  writesKnown *)
(* (readsKnown) counts the slot writes (reads) that happen before the      *)
(* consumer's (producer's) next slot access; only an acquire load that     *)
(* reads a release store raises it.  A slot access the other side's last   *)
(* access does not happen before is a data race, and what it reads is then *)
(* any value.                                                              *)
(***************************************************************************)
EXTENDS Naturals, Sequences

CONSTANTS
  Items,      \* values of T; the engine's are Order*
  NoItem,     \* what a default-initialised slot holds
  Capacity,   \* the template parameter, a power of two
  MaxPushes   \* bound of the model: try_push is not called after so many

(* The two static_asserts. *)
ASSUME CapacityAssumption ==
  /\ Capacity \in Nat
  /\ Capacity >= 2
  /\ \E n \in 1..Capacity : Capacity = 2^n

ASSUME BoundAssumption == MaxPushes \in Nat

VARIABLES
  head, tail,               \* head_, tail_: the newest values stored
  headSeen, tailSeen,       \* the values visible to the producer, the consumer
  buffer,                   \* buffer_
  ppc, item, nextTail,      \* try_push: where it is, its argument, next_tail
  cpc, taken,               \* try_pop: where it is, the item it has read
  readsKnown, writesKnown,  \* slot accesses of the other side that happen before
  sent, got                 \* history: what was pushed, what was popped

indices == <<head, tail, headSeen, tailSeen>>
pvars   == <<ppc, item, nextTail, readsKnown>>
cvars   == <<cpc, taken, writesKnown>>
vars    == <<indices, buffer, pvars, cvars, sent, got>>

Index == 0..(Capacity - 1)
-----------------------------------------------------------------------------
(* Arithmetic of the indices: & mask_ is the remainder by Capacity.        *)

NextIndexUnmasked(i) == i + 1
NextIndex(i) == (i + 1) % Capacity

(* How many increments lead from index i to index j, less than Capacity. *)
Dist(i, j) == IF i <= j THEN j - i ELSE j + Capacity - i

(* The index n increments after i, n less than Capacity. *)
Shift(i, n) == IF i + n < Capacity THEN i + n ELSE i + n - Capacity

(* Length of the modification order of tail_ (head_) up to a value that is *)
(* visible to the other side: how many pushes (pops) that value tells of.  *)
PushesSeen == Len(sent) - Dist(tailSeen, tail)
PopsSeen   == Len(got) - Dist(headSeen, head)

(* The full and the empty test, on the values the two loads returned. *)
FullTestOneEarly == nextTail = headSeen \/ NextIndex(nextTail) = headSeen
FullTestMissing == FALSE
FullTest == nextTail = headSeen

EmptyTestMissing == FALSE
EmptyTestOneEarly == head = tailSeen \/ NextIndex(head) = tailSeen
EmptyTest == head = tailSeen

(* What an acquire load that reads a release store makes of the accesses   *)
(* known to happen before: those that precede the store.                   *)
AcquireRelaxed(known, preceding) == known
Acquire(known, preceding) == preceding

(* The values reading the slot at head may give. *)
SlotRead == IF writesKnown > Len(got) THEN {buffer[head]}
                                      ELSE Items \cup {NoItem}
-----------------------------------------------------------------------------
Init ==
  /\ head = 0 /\ tail = 0 /\ headSeen = 0 /\ tailSeen = 0
  /\ buffer = [i \in Index |-> NoItem]
  /\ ppc = "idle" /\ item = NoItem /\ nextTail = 0
  /\ cpc = "idle" /\ taken = NoItem
  /\ readsKnown = 0 /\ writesKnown = 0
  /\ sent = <<>> /\ got = <<>>

(* try_push(x): load the own index, which only this thread writes *)
PushBegin(x) ==
  /\ ppc = "idle"
  /\ Len(sent) < MaxPushes
  /\ item' = x
  /\ nextTail' = NextIndex(tail)
  /\ ppc' = "check"
  /\ UNCHANGED <<indices, buffer, readsKnown, cvars, sent, got>>

(* next_tail == head_.load(acquire): full, return false *)
PushRefused ==
  /\ ppc = "check"
  /\ FullTest
  /\ readsKnown' = Acquire(readsKnown, PopsSeen)
  /\ ppc' = "idle"
  /\ UNCHANGED <<indices, buffer, item, nextTail, cvars, sent, got>>

PushAccepted ==
  /\ ppc = "check"
  /\ ~FullTest
  /\ readsKnown' = Acquire(readsKnown, PopsSeen)
  /\ ppc' = "write"
  /\ UNCHANGED <<indices, buffer, item, nextTail, cvars, sent, got>>

(* buffer_[tail] = item *)
PushWrite ==
  /\ ppc = "write"
  /\ buffer' = [buffer EXCEPT ![tail] = item]
  /\ ppc' = "publish"
  /\ UNCHANGED <<indices, item, nextTail, readsKnown, cvars, sent, got>>

(* tail_.store(next_tail, release) *)
PushPublish ==
  /\ ppc = "publish"
  /\ tail' = nextTail
  /\ sent' = Append(sent, item)
  /\ ppc' = "idle"
  /\ UNCHANGED <<head, headSeen, tailSeen, buffer, item, nextTail, readsKnown,
                 cvars, got>>

PopBegin ==
  /\ cpc = "idle"
  /\ cpc' = "check"
  /\ UNCHANGED <<indices, buffer, pvars, taken, writesKnown, sent, got>>

(* head == tail_.load(acquire): empty, return false *)
PopRefused ==
  /\ cpc = "check"
  /\ EmptyTest
  /\ writesKnown' = Acquire(writesKnown, PushesSeen)
  /\ cpc' = "idle"
  /\ UNCHANGED <<indices, buffer, pvars, taken, sent, got>>

PopAccepted ==
  /\ cpc = "check"
  /\ ~EmptyTest
  /\ writesKnown' = Acquire(writesKnown, PushesSeen)
  /\ cpc' = "read"
  /\ UNCHANGED <<indices, buffer, pvars, taken, sent, got>>

(* item = buffer_[head] *)
PopRead ==
  /\ cpc = "read"
  /\ taken' \in SlotRead
  /\ cpc' = "release"
  /\ UNCHANGED <<indices, buffer, pvars, writesKnown, sent, got>>

(* head_.store((head + 1) & mask_, release) *)
PopRelease ==
  /\ cpc = "release"
  /\ head' = NextIndex(head)
  /\ got' = Append(got, taken)
  /\ cpc' = "idle"
  /\ UNCHANGED <<tail, headSeen, tailSeen, buffer, pvars, taken, writesKnown,
                 sent>>

(* A newer value of an index becomes visible to the other side. *)
SeeHead ==
  /\ \E n \in 1..Dist(headSeen, head) : headSeen' = Shift(headSeen, n)
  /\ UNCHANGED <<head, tail, tailSeen, buffer, pvars, cvars, sent, got>>

SeeTail ==
  /\ \E n \in 1..Dist(tailSeen, tail) : tailSeen' = Shift(tailSeen, n)
  /\ UNCHANGED <<head, tail, headSeen, buffer, pvars, cvars, sent, got>>

Producer == \/ \E x \in Items : PushBegin(x)
            \/ PushRefused \/ PushAccepted \/ PushWrite \/ PushPublish
Consumer == PopBegin \/ PopRefused \/ PopAccepted \/ PopRead \/ PopRelease
Next == Producer \/ Consumer \/ SeeHead \/ SeeTail

Spec == Init /\ [][Next]_vars

(* The consumer keeps polling, and a store becomes visible to the other    *)
(* thread in a finite time.                                                *)
LiveSpec == Spec /\ WF_vars(Consumer) /\ WF_vars(SeeTail)
-----------------------------------------------------------------------------
(* TypeOK: indices stay inside buffer_, and no count of known accesses runs *)
(* ahead of the accesses themselves.                                        *)
TypeOK ==
  /\ head \in Index /\ tail \in Index
  /\ headSeen \in Index /\ tailSeen \in Index
  /\ buffer \in [Index -> Items \cup {NoItem}]
  /\ ppc \in {"idle", "check", "write", "publish"}
  /\ item \in Items \cup {NoItem}
  /\ ppc # "idle" => item \in Items
  /\ nextTail \in Index
  /\ cpc \in {"idle", "check", "read", "release"}
  /\ taken \in Items \cup {NoItem}
  /\ readsKnown \in Nat /\ writesKnown \in Nat
  /\ sent \in Seq(Items)
  /\ got \in Seq(Items \cup {NoItem})

(* FifoDelivery: the items try_pop returned are the items try_push took, in *)
(* the same order, none lost, none twice and none made up.                  *)
FifoDelivery ==
  /\ Len(got) <= Len(sent)
  /\ \A i \in 1..Len(got) : got[i] = sent[i]

(* NoSlotRace: the producer overwrites a slot only when the read of its     *)
(* previous occupant happens before the write, and the consumer reads a     *)
(* slot only when its write happens before the read; "a slot is reused only *)
(* after its pop".                                                          *)
NoSlotRace ==
  /\ ppc = "write" => Len(sent) < readsKnown + Capacity
  /\ cpc = "read" => Len(got) < writesKnown

(* OneSlotStaysEmpty: the ring holds at most Capacity - 1 elements, and the *)
(* distance from head_ to tail_ is how many it holds, so that equal indices *)
(* mean empty and never full.                                               *)
OneSlotStaysEmpty ==
  Len(sent) - Len(got) = Dist(head, tail)

JustifiedRefusal ==
  /\ PushRefused => Len(sent) - PopsSeen = Capacity - 1
  /\ PopRefused => PushesSeen = Len(got)

(* RefusalsJustified: try_push returns false only when Capacity - 1 pushes  *)
(* have no pop visible to the producer, and try_pop only when every push    *)
(* visible to the consumer is popped.                                       *)
RefusalsJustified == [][JustifiedRefusal]_vars

(* EveryPushDelivered: what is pushed is popped by a consumer that keeps    *)
(* polling, whatever the staleness of its loads.                            *)
EveryPushDelivered ==
  \A n \in 1..MaxPushes : Len(sent) >= n ~> Len(got) >= n
-----------------------------------------------------------------------------
(* The queue the ring stands for: the slots from head_ to tail_, and how    *)
(* much of it the two stale indices show.                                   *)
Contents == [i \in 1..Dist(head, tail) |-> buffer[Shift(head, i - 1)]]

Queue == INSTANCE SPSCQueue WITH
           Bound <- Capacity - 1,
           items <- Contents,
           avail <- Dist(head, tailSeen),
           room  <- Capacity - 1 - Dist(headSeen, tail)

(* ImplementsQueue: every step of the ring is a step of SPSCQueue, or none; *)
(* in particular the slot reads and writes and the failed calls are none.   *)
ImplementsQueue == Queue!Spec
-----------------------------------------------------------------------------
(* The inductive invariant behind the safety properties. *)

(* The four indices lie around the ring in this order: the oldest head_ the *)
(* producer may act on, head_, the tail_ the consumer may act on, tail_.    *)
InOrder ==
  Dist(headSeen, head) + Dist(head, tailSeen) + Dist(tailSeen, tail)
    = Dist(headSeen, tail)

(* A visible index is one that was stored: it tells of no more pushes or     *)
(* pops than there were.                                                     *)
SeenIsPast == PushesSeen \in Nat /\ PopsSeen \in Nat

(* The occupied slots hold the items sent and not yet got. *)
SlotsHoldSent ==
  \A n \in 0..(Dist(head, tail) - 1) :
    buffer[Shift(head, n)] = sent[Len(got) + 1 + n]

(* What try_push knows between its steps. *)
PushInFlight ==
  /\ ppc # "idle" => nextTail = NextIndex(tail)
  /\ ppc \in {"write", "publish"} => nextTail # headSeen
  /\ ppc = "publish" => buffer[tail] = item

(* What try_pop knows between its steps. *)
PopInFlight ==
  /\ cpc \in {"read", "release"} => head # tailSeen
  /\ cpc = "release" => taken = buffer[head]

IInv ==
  /\ TypeOK
  /\ OneSlotStaysEmpty
  /\ InOrder
  /\ SeenIsPast
  /\ SlotsHoldSent
  /\ PushInFlight
  /\ PopInFlight
  /\ FifoDelivery
  /\ NoSlotRace
=============================================================================
