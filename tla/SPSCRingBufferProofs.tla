----------------------- MODULE SPSCRingBufferProofs -------------------------
(***************************************************************************)
(* Proofs about SPSCRingBuffer, for every capacity, set of items and       *)
(* number of pushes.  First the arithmetic of the ring, then the inductive *)
(* invariant IInv, the safety theorems, and last that the ring implements  *)
(* the abstract queue the pipeline is built on.                            *)
(***************************************************************************)
EXTENDS SPSCRingBuffer, SequenceTheorems, TLAPS

(* & mask_ on an index plus one increments it, and wraps to 0 at the end. *)
LEMMA NextIndexWraps ==
  ASSUME NEW i \in Index
  PROVE  /\ NextIndex(i) = IF i + 1 = Capacity THEN 0 ELSE i + 1
         /\ NextIndex(i) \in Index
<1>1. CASE i + 1 = Capacity
  <2>1. Capacity % Capacity = 0
    BY CapacityAssumption, SMT
  <2> QED BY <1>1, <2>1, CapacityAssumption DEF NextIndex, Index
<1>2. CASE i + 1 < Capacity
  <2>1. (i + 1) % Capacity = i + 1
    BY <1>2, CapacityAssumption, SMT DEF Index
  <2> QED BY <1>2, <2>1, CapacityAssumption DEF NextIndex, Index
<1> QED BY <1>1, <1>2, CapacityAssumption DEF Index

(* Dist counts fewer than Capacity increments, none from an index to itself. *)
LEMMA DistRange ==
  ASSUME NEW i \in Index, NEW j \in Index
  PROVE  /\ Dist(i, j) \in 0..(Capacity - 1)
         /\ Dist(i, j) = 0 <=> i = j
BY CapacityAssumption DEF Dist, Index

(* Incrementing the far index adds one, unless it meets the near one. *)
LEMMA DistNextFar ==
  ASSUME NEW i \in Index, NEW j \in Index, NextIndex(j) # i
  PROVE  Dist(i, NextIndex(j)) = Dist(i, j) + 1
BY NextIndexWraps, CapacityAssumption DEF Dist, Index

(* Incrementing the near index takes one away, unless it is the far one. *)
LEMMA DistNextNear ==
  ASSUME NEW i \in Index, NEW j \in Index, i # j
  PROVE  Dist(NextIndex(i), j) = Dist(i, j) - 1
BY NextIndexWraps, CapacityAssumption DEF Dist, Index

(* The slot before the near index is the last one to reach. *)
LEMMA DistMeets ==
  ASSUME NEW i \in Index, NEW j \in Index
  PROVE  NextIndex(j) = i <=> Dist(i, j) = Capacity - 1
BY NextIndexWraps, CapacityAssumption DEF Dist, Index

(* Shift is the inverse of Dist. *)
LEMMA ShiftDist ==
  ASSUME NEW i \in Index, NEW n \in 0..(Capacity - 1)
  PROVE  /\ Shift(i, n) \in Index
         /\ Dist(i, Shift(i, n)) = n
         /\ \A j \in Index : n <= Dist(i, j) =>
              Dist(Shift(i, n), j) = Dist(i, j) - n
BY CapacityAssumption DEF Shift, Dist, Index

(* Dist is the inverse of Shift. *)
LEMMA ShiftToFar ==
  ASSUME NEW i \in Index, NEW j \in Index
  PROVE  Shift(i, Dist(i, j)) = j
BY CapacityAssumption DEF Shift, Dist, Index

(* Shifting from the next index is shifting by one more. *)
LEMMA ShiftNext ==
  ASSUME NEW i \in Index, NEW n \in 0..(Capacity - 2)
  PROVE  Shift(NextIndex(i), n) = Shift(i, n + 1)
BY NextIndexWraps, CapacityAssumption DEF Shift, Index
-----------------------------------------------------------------------------
(* The empty ring satisfies the invariant. *)
LEMMA InitInvariant == Init => IInv
<1> SUFFICES ASSUME Init PROVE IInv
  OBVIOUS
<1>1. 0 \in Index /\ Dist(0, 0) = 0
  BY CapacityAssumption DEF Index, Dist
<1>2. sent = <<>> /\ got = <<>> /\ Len(sent) = 0 /\ Len(got) = 0
  BY DEF Init
<1>3. TypeOK
  BY <1>1, <1>2 DEF Init, TypeOK
<1>4. OneSlotStaysEmpty /\ InOrder /\ SeenIsPast /\ SlotsHoldSent
  BY <1>1, <1>2
  DEF Init, OneSlotStaysEmpty, InOrder, SeenIsPast, SlotsHoldSent, PushesSeen, PopsSeen
<1>5. PushInFlight /\ PopInFlight /\ FifoDelivery /\ NoSlotRace
  BY <1>2 DEF Init, PushInFlight, PopInFlight, FifoDelivery, NoSlotRace
<1> QED BY <1>3, <1>4, <1>5 DEF IInv

(* The four distances the invariant orders, as numbers. *)
LEMMA Distances ==
  ASSUME TypeOK
  PROVE  /\ Dist(headSeen, head) \in 0..(Capacity - 1)
         /\ Dist(head, tailSeen) \in 0..(Capacity - 1)
         /\ Dist(tailSeen, tail) \in 0..(Capacity - 1)
         /\ Dist(headSeen, tail) \in 0..(Capacity - 1)
         /\ Dist(head, tail) \in 0..(Capacity - 1)
         /\ Len(sent) \in Nat /\ Len(got) \in Nat
<1>1. Len(sent) \in Nat /\ Len(got) \in Nat
  BY DEF TypeOK
<1>2. head \in Index /\ tail \in Index /\ headSeen \in Index /\ tailSeen \in Index
  BY DEF TypeOK
<1> QED BY <1>1, <1>2, DistRange

(* The consumer's stretch of the ring lies inside the producer's. *)
LEMMA OccupiedSlots ==
  ASSUME TypeOK, InOrder
  PROVE  /\ Dist(head, tail) = Dist(head, tailSeen) + Dist(tailSeen, tail)
         /\ Dist(headSeen, tail) = Dist(headSeen, head) + Dist(head, tail)
BY CapacityAssumption DEF TypeOK, InOrder, Dist, Index
-----------------------------------------------------------------------------
(* The invariant is inductive: one lemma per action of each thread. *)

(* A call that begins touches nothing the other thread sees. *)
LEMMA PushBeginInvariant ==
  ASSUME IInv, NEW x \in Items, PushBegin(x)
  PROVE  IInv'
<1>1. TypeOK'
  BY NextIndexWraps DEF IInv, TypeOK, PushBegin, indices, cvars
<1>2. PushInFlight'
  BY DEF IInv, PushInFlight, PushBegin, indices
<1>3. OneSlotStaysEmpty' /\ InOrder' /\ SeenIsPast' /\ SlotsHoldSent' /\ FifoDelivery'
  BY DEF IInv, OneSlotStaysEmpty, InOrder, SeenIsPast, PushesSeen, PopsSeen,
         SlotsHoldSent, FifoDelivery, PushBegin, indices
<1>4. PopInFlight' /\ NoSlotRace'
  BY DEF IInv, PopInFlight, NoSlotRace, PushBegin, indices, cvars
<1> QED BY <1>1, <1>2, <1>3, <1>4 DEF IInv

(* A refused push has learnt of pops, and that is all. *)
LEMMA PushRefusedInvariant ==
  ASSUME IInv, PushRefused
  PROVE  IInv'
<1>1. TypeOK'
  BY DEF IInv, TypeOK, SeenIsPast, PushRefused, Acquire, indices, cvars
<1>2. OneSlotStaysEmpty' /\ InOrder' /\ SeenIsPast' /\ SlotsHoldSent' /\ FifoDelivery'
  BY DEF IInv, OneSlotStaysEmpty, InOrder, SeenIsPast, PushesSeen, PopsSeen,
         SlotsHoldSent, FifoDelivery, PushRefused, indices
<1>3. PushInFlight' /\ PopInFlight' /\ NoSlotRace'
  BY DEF IInv, PushInFlight, PopInFlight, NoSlotRace, PushRefused, indices, cvars
<1> QED BY <1>1, <1>2, <1>3 DEF IInv

(* The acquire load of a head_ that leaves room brings the reads of every    *)
(* occupant of the slot at tail_.                                            *)
LEMMA PushAcceptedInvariant ==
  ASSUME IInv, PushAccepted
  PROVE  IInv'
<1>1. TypeOK'
  BY DEF IInv, TypeOK, SeenIsPast, PushAccepted, Acquire, indices, cvars
<1>2. OneSlotStaysEmpty' /\ InOrder' /\ SeenIsPast' /\ SlotsHoldSent' /\ FifoDelivery'
  BY DEF IInv, OneSlotStaysEmpty, InOrder, SeenIsPast, PushesSeen, PopsSeen,
         SlotsHoldSent, FifoDelivery, PushAccepted, indices
<1>3. PushInFlight' /\ PopInFlight'
  BY DEF IInv, PushInFlight, PopInFlight, PushAccepted, FullTest, indices, cvars
<1>4. NoSlotRace'
  <2>1. Dist(headSeen, tail) < Capacity - 1
    <3>1. NextIndex(tail) # headSeen
      BY DEF IInv, PushInFlight, PushAccepted, FullTest
    <3> QED BY <3>1, DistMeets, Distances, CapacityAssumption DEF IInv, TypeOK
  <2>2. Len(sent) - PopsSeen = Dist(headSeen, tail)
    BY OccupiedSlots, Distances DEF IInv, OneSlotStaysEmpty, PopsSeen
  <2>3. Len(sent) < PopsSeen + Capacity
    BY <2>1, <2>2, Distances, CapacityAssumption DEF IInv, SeenIsPast
  <2> QED BY <2>3 DEF IInv, NoSlotRace, PushAccepted, Acquire, cvars
<1> QED BY <1>1, <1>2, <1>3, <1>4 DEF IInv

(* The slot written is none of the occupied ones. *)
LEMMA PushWriteInvariant ==
  ASSUME IInv, PushWrite
  PROVE  IInv'
<1>1. TypeOK'
  BY DEF IInv, TypeOK, PushWrite, indices, cvars
<1>2. OneSlotStaysEmpty' /\ InOrder' /\ SeenIsPast' /\ FifoDelivery' /\ NoSlotRace'
  BY DEF IInv, OneSlotStaysEmpty, InOrder, SeenIsPast, PushesSeen, PopsSeen,
         FifoDelivery, NoSlotRace, PushWrite, indices, cvars
<1>3. SlotsHoldSent'
  <2> SUFFICES ASSUME NEW n \in 0..(Dist(head, tail) - 1)
               PROVE  buffer'[Shift(head, n)] = sent[Len(got) + 1 + n]
    BY DEF SlotsHoldSent, PushWrite, indices
  <2>1. Shift(head, n) \in Index /\ Shift(head, n) # tail
    <3>1. n \in 0..(Capacity - 1) /\ n # Dist(head, tail)
      BY Distances, CapacityAssumption DEF IInv
    <3> QED BY <3>1, ShiftDist DEF IInv, TypeOK
  <2> QED BY <2>1 DEF IInv, TypeOK, SlotsHoldSent, PushWrite
<1>4. PushInFlight'
  BY DEF IInv, TypeOK, PushInFlight, PushWrite, indices
<1>5. PopInFlight'
  <2>1. cpc = "release" => head # tail
    BY OccupiedSlots, Distances, DistRange, SMTT(30) DEF IInv, TypeOK, PopInFlight
  <2> QED BY <2>1 DEF IInv, TypeOK, PopInFlight, PushWrite, indices, cvars
<1> QED BY <1>1, <1>2, <1>3, <1>4, <1>5 DEF IInv

(* tail_ moves on: one more element between head_ and tail_. *)
LEMMA PushPublishInvariant ==
  ASSUME IInv, PushPublish
  PROVE  IInv'
<1>1. /\ tail' = NextIndex(tail) /\ head' = head
      /\ headSeen' = headSeen /\ tailSeen' = tailSeen
      /\ buffer' = buffer /\ got' = got /\ sent' = Append(sent, item)
      /\ item \in Items /\ buffer[tail] = item /\ NextIndex(tail) # headSeen
  BY DEF IInv, TypeOK, PushInFlight, PushPublish
<1>2. Len(sent') = Len(sent) + 1
  BY <1>1 DEF IInv, TypeOK
<1>3. /\ Dist(headSeen, tail') = Dist(headSeen, tail) + 1
      /\ Dist(head, tail') = Dist(head, tail) + 1
      /\ Dist(tailSeen, tail') = Dist(tailSeen, tail) + 1
  <2>1. Dist(headSeen, tail) < Capacity - 1
    BY <1>1, DistMeets, Distances, CapacityAssumption DEF IInv, TypeOK
  <2>2. Dist(head, tail) < Capacity - 1 /\ Dist(tailSeen, tail) < Capacity - 1
    BY <2>1, OccupiedSlots, Distances, CapacityAssumption DEF IInv
  <2>3. NextIndex(tail) # head /\ NextIndex(tail) # tailSeen
    BY <2>2, DistMeets, Distances, CapacityAssumption DEF IInv, TypeOK
  <2> QED BY <1>1, <2>3, DistNextFar DEF IInv, TypeOK
<1>4. TypeOK'
  BY <1>1, NextIndexWraps DEF IInv, TypeOK, PushPublish, cvars
<1>5. OneSlotStaysEmpty' /\ InOrder' /\ SeenIsPast'
  <2>1. OneSlotStaysEmpty'
    BY <1>1, <1>2, <1>3, Distances DEF IInv, OneSlotStaysEmpty
  <2>2. InOrder'
    BY <1>1, <1>2, <1>3, Distances, CapacityAssumption, SMTT(30) DEF IInv, InOrder
  <2>3. SeenIsPast'
    BY <1>1, <1>2, <1>3, Distances, SMTT(30) DEF IInv, SeenIsPast, PushesSeen, PopsSeen
  <2> QED BY <2>1, <2>2, <2>3
<1>6. SlotsHoldSent'
  <2> SUFFICES ASSUME NEW n \in 0..(Dist(head, tail') - 1)
               PROVE  buffer[Shift(head, n)] = sent'[Len(got) + 1 + n]
    BY <1>1 DEF SlotsHoldSent
  <2>0. n \in 0..Dist(head, tail)
    BY <1>3, Distances DEF IInv
  <2>1. CASE n < Dist(head, tail)
    <3>1. n \in 0..(Dist(head, tail) - 1) /\ Len(got) + 1 + n \in 1..Len(sent)
      BY <2>0, <2>1, Distances DEF IInv, OneSlotStaysEmpty
    <3> QED BY <1>1, <3>1 DEF IInv, TypeOK, SlotsHoldSent
  <2>2. CASE n = Dist(head, tail)
    <3>1. Shift(head, n) = tail /\ Len(got) + 1 + n = Len(sent) + 1
      BY <2>2, ShiftToFar, Distances DEF IInv, TypeOK, OneSlotStaysEmpty
    <3> QED BY <1>1, <3>1 DEF IInv, TypeOK
  <2> QED BY <2>0, <2>1, <2>2, Distances DEF IInv
<1>7. PushInFlight' /\ PopInFlight'
  BY <1>1 DEF IInv, PushInFlight, PopInFlight, PushPublish, cvars
<1>8. FifoDelivery'
  BY <1>1, <1>2 DEF IInv, TypeOK, FifoDelivery
<1>9. NoSlotRace'
  BY <1>1 DEF IInv, NoSlotRace, PushPublish, cvars
<1> QED BY <1>4, <1>5, <1>6, <1>7, <1>8, <1>9 DEF IInv

(* As for PushBegin. *)
LEMMA PopBeginInvariant ==
  ASSUME IInv, PopBegin
  PROVE  IInv'
<1>1. TypeOK'
  BY DEF IInv, TypeOK, PopBegin, indices, pvars
<1>2. OneSlotStaysEmpty' /\ InOrder' /\ SeenIsPast' /\ SlotsHoldSent' /\ FifoDelivery'
  BY DEF IInv, OneSlotStaysEmpty, InOrder, SeenIsPast, PushesSeen, PopsSeen,
         SlotsHoldSent, FifoDelivery, PopBegin, indices
<1>3. PushInFlight' /\ PopInFlight' /\ NoSlotRace'
  BY DEF IInv, PushInFlight, PopInFlight, NoSlotRace, PopBegin, indices, pvars
<1> QED BY <1>1, <1>2, <1>3 DEF IInv

(* A refused pop has learnt of pushes, and that is all. *)
LEMMA PopRefusedInvariant ==
  ASSUME IInv, PopRefused
  PROVE  IInv'
<1>1. TypeOK'
  BY DEF IInv, TypeOK, SeenIsPast, PopRefused, Acquire, indices, pvars
<1>2. OneSlotStaysEmpty' /\ InOrder' /\ SeenIsPast' /\ SlotsHoldSent' /\ FifoDelivery'
  BY DEF IInv, OneSlotStaysEmpty, InOrder, SeenIsPast, PushesSeen, PopsSeen,
         SlotsHoldSent, FifoDelivery, PopRefused, indices
<1>3. PushInFlight' /\ PopInFlight' /\ NoSlotRace'
  BY DEF IInv, PushInFlight, PopInFlight, NoSlotRace, PopRefused, indices, pvars
<1> QED BY <1>1, <1>2, <1>3 DEF IInv

(* The acquire load of a tail_ beyond head_ brings the write of the slot at  *)
(* head_.                                                                    *)
LEMMA PopAcceptedInvariant ==
  ASSUME IInv, PopAccepted
  PROVE  IInv'
<1>1. TypeOK'
  BY DEF IInv, TypeOK, SeenIsPast, PopAccepted, Acquire, indices, pvars
<1>2. OneSlotStaysEmpty' /\ InOrder' /\ SeenIsPast' /\ SlotsHoldSent' /\ FifoDelivery'
  BY DEF IInv, OneSlotStaysEmpty, InOrder, SeenIsPast, PushesSeen, PopsSeen,
         SlotsHoldSent, FifoDelivery, PopAccepted, indices
<1>3. PushInFlight' /\ PopInFlight'
  BY DEF IInv, PushInFlight, PopInFlight, PopAccepted, EmptyTest, indices, pvars
<1>4. NoSlotRace'
  <2>1. Dist(head, tailSeen) > 0
    <3>1. Dist(head, tailSeen) # 0
      BY DistRange DEF IInv, TypeOK, PopAccepted, EmptyTest
    <3> QED BY <3>1, Distances DEF IInv
  <2>2. PushesSeen - Len(got) = Dist(head, tailSeen)
    BY OccupiedSlots, Distances, SMTT(30) DEF IInv, OneSlotStaysEmpty, PushesSeen
  <2>3. Len(got) < PushesSeen
    BY <2>1, <2>2, Distances DEF IInv, SeenIsPast
  <2> QED BY <2>3 DEF IInv, NoSlotRace, PopAccepted, Acquire, pvars
<1> QED BY <1>1, <1>2, <1>3, <1>4 DEF IInv

(* The read is not a race, so it gives what the slot holds. *)
LEMMA PopReadInvariant ==
  ASSUME IInv, PopRead
  PROVE  IInv'
<1>1. taken' = buffer[head]
  BY DEF IInv, TypeOK, NoSlotRace, PopRead, SlotRead
<1>2. TypeOK'
  BY <1>1 DEF IInv, TypeOK, PopRead, indices, pvars
<1>3. OneSlotStaysEmpty' /\ InOrder' /\ SeenIsPast' /\ SlotsHoldSent' /\ FifoDelivery'
  BY DEF IInv, OneSlotStaysEmpty, InOrder, SeenIsPast, PushesSeen, PopsSeen,
         SlotsHoldSent, FifoDelivery, PopRead, indices
<1>4. PushInFlight' /\ PopInFlight' /\ NoSlotRace'
  BY <1>1 DEF IInv, PushInFlight, PopInFlight, NoSlotRace, PopRead, indices, pvars
<1> QED BY <1>2, <1>3, <1>4 DEF IInv

(* head_ moves on: one element fewer between head_ and tail_. *)
LEMMA PopReleaseInvariant ==
  ASSUME IInv, PopRelease
  PROVE  IInv'
<1>1. /\ head' = NextIndex(head) /\ tail' = tail
      /\ headSeen' = headSeen /\ tailSeen' = tailSeen
      /\ buffer' = buffer /\ sent' = sent /\ got' = Append(got, taken)
      /\ taken = buffer[head] /\ head # tailSeen
  BY DEF IInv, PopInFlight, PopRelease
<1>2. Len(got') = Len(got) + 1
  BY <1>1 DEF IInv, TypeOK
<1>3. head # tail /\ NextIndex(head) # headSeen
  <2>1. Dist(head, tailSeen) # 0
    BY <1>1, DistRange DEF IInv, TypeOK
  <2>2. Dist(head, tail) # 0
    BY <2>1, OccupiedSlots, Distances DEF IInv
  <2>3. Dist(headSeen, head) # Capacity - 1
    BY <2>2, OccupiedSlots, Distances, CapacityAssumption DEF IInv
  <2> QED BY <2>2, <2>3, DistRange, DistMeets DEF IInv, TypeOK
<1>4. /\ Dist(head', tail) = Dist(head, tail) - 1
      /\ Dist(head', tailSeen) = Dist(head, tailSeen) - 1
      /\ Dist(headSeen, head') = Dist(headSeen, head) + 1
  BY <1>1, <1>3, DistNextNear, DistNextFar DEF IInv, TypeOK
<1>5. TypeOK'
  BY <1>1, NextIndexWraps DEF IInv, TypeOK, PopRelease, pvars
<1>6. OneSlotStaysEmpty'
  BY <1>1, <1>2, <1>4, Distances DEF IInv, OneSlotStaysEmpty
<1>7. InOrder'
  BY <1>1, <1>4, Distances DEF IInv, InOrder
<1>8. SeenIsPast'
  BY <1>1, <1>2, <1>4, Distances, SMTT(30) DEF IInv, SeenIsPast, PushesSeen, PopsSeen
<1>9. SlotsHoldSent'
  <2> SUFFICES ASSUME NEW n \in 0..(Dist(head', tail) - 1)
               PROVE  buffer[Shift(head', n)] = sent[Len(got') + 1 + n]
    BY <1>1 DEF SlotsHoldSent
  <2>1. n \in 0..(Capacity - 2) /\ n + 1 \in 0..(Dist(head, tail) - 1)
    BY <1>4, Distances, CapacityAssumption DEF IInv
  <2>2. Shift(head', n) = Shift(head, n + 1)
    BY <1>1, <2>1, ShiftNext DEF IInv, TypeOK
  <2>3. buffer[Shift(head, n + 1)] = sent[Len(got) + 1 + (n + 1)]
    BY <2>1 DEF IInv, SlotsHoldSent
  <2>4. Len(got') + 1 + n = Len(got) + 1 + (n + 1)
    BY <1>2, <2>1, Distances, CapacityAssumption DEF IInv
  <2> QED BY <2>2, <2>3, <2>4
<1>10. FifoDelivery'
  <2>1. Len(got) + 1 <= Len(sent)
    <3>1. Dist(head, tail) # 0
      BY <1>3, DistRange DEF IInv, TypeOK
    <3> QED BY <3>1, Distances DEF IInv, OneSlotStaysEmpty
  <2>2. taken = sent[Len(got) + 1]
    <3>1. 0 \in 0..(Dist(head, tail) - 1) /\ Shift(head, 0) = head
      BY <2>1, Distances, CapacityAssumption
      DEF IInv, OneSlotStaysEmpty, TypeOK, Shift, Index
    <3> QED BY <1>1, <3>1, Distances DEF IInv, SlotsHoldSent
  <2> QED BY <1>1, <1>2, <2>1, <2>2 DEF IInv, TypeOK, FifoDelivery
<1>11. PushInFlight'
  BY <1>1 DEF IInv, PushInFlight, PopRelease, pvars
<1>12. PopInFlight' /\ NoSlotRace'
  BY <1>1 DEF IInv, PopInFlight, NoSlotRace, PopRelease, pvars
<1> QED
  BY <1>5, <1>6, <1>7, <1>8, <1>9, <1>10, <1>11, <1>12 DEF IInv

(* A newer head_ visible to the producer is still at most head_. *)
LEMMA SeeHeadInvariant ==
  ASSUME IInv, SeeHead
  PROVE  IInv'
<1>1. PICK n \in 1..Dist(headSeen, head) : headSeen' = Shift(headSeen, n)
  BY DEF SeeHead
<1>2. n \in 0..(Capacity - 1) /\ n \in 0..Dist(headSeen, tail)
  BY <1>1, Distances, OccupiedSlots, CapacityAssumption DEF IInv
<1>3. /\ headSeen' \in Index
      /\ Dist(headSeen, headSeen') = n
      /\ Dist(headSeen', head) = Dist(headSeen, head) - n
      /\ Dist(headSeen', tail) = Dist(headSeen, tail) - n
  BY <1>1, <1>2, ShiftDist, Distances DEF IInv, TypeOK
<1>4. TypeOK'
  BY <1>3 DEF IInv, TypeOK, SeeHead, pvars, cvars
<1>5. InOrder'
  BY <1>1, <1>3, Distances DEF IInv, InOrder, SeeHead
<1>6. SeenIsPast'
  BY <1>1, <1>3, Distances DEF IInv, SeenIsPast, PushesSeen, PopsSeen, SeeHead
<1>7. PushInFlight'
  <2>1. ASSUME NextIndex(tail) # headSeen
        PROVE  NextIndex(tail) # headSeen'
    <3>1. Dist(headSeen, NextIndex(tail)) = Dist(headSeen, tail) + 1
      BY <2>1, DistNextFar DEF IInv, TypeOK
    <3>2. Dist(headSeen, NextIndex(tail)) # n
      BY <1>2, <3>1, Distances DEF IInv
    <3> QED BY <1>3, <3>2
  <2> QED BY <2>1 DEF IInv, PushInFlight, SeeHead, pvars
<1>8. OneSlotStaysEmpty' /\ SlotsHoldSent' /\ PopInFlight' /\ FifoDelivery' /\ NoSlotRace'
  BY DEF IInv, OneSlotStaysEmpty, SlotsHoldSent, PopInFlight, FifoDelivery,
         NoSlotRace, SeeHead, pvars, cvars
<1> QED BY <1>4, <1>5, <1>6, <1>7, <1>8 DEF IInv

(* A newer tail_ visible to the consumer is still at most tail_. *)
LEMMA SeeTailInvariant ==
  ASSUME IInv, SeeTail
  PROVE  IInv'
<1>1. PICK n \in 1..Dist(tailSeen, tail) : tailSeen' = Shift(tailSeen, n)
  BY DEF SeeTail
<1>2. n \in 0..(Capacity - 1)
  BY <1>1, Distances, CapacityAssumption DEF IInv
<1>3. /\ tailSeen' \in Index
      /\ Dist(tailSeen', tail) = Dist(tailSeen, tail) - n
  BY <1>1, <1>2, ShiftDist, Distances DEF IInv, TypeOK
<1>4. Dist(head, tailSeen') = Dist(head, tailSeen) + n
  BY <1>1, <1>2, OccupiedSlots, CapacityAssumption
  DEF IInv, TypeOK, Shift, Dist, Index
<1>5. TypeOK'
  BY <1>3 DEF IInv, TypeOK, SeeTail, pvars, cvars
<1>6. InOrder'
  BY <1>1, <1>3, <1>4, Distances DEF IInv, InOrder, SeeTail
<1>7. SeenIsPast'
  BY <1>1, <1>3, Distances DEF IInv, SeenIsPast, PushesSeen, PopsSeen, SeeTail
<1>8. PopInFlight'
  <2>1. head # tailSeen'
    <3>1. Dist(head, tailSeen') # 0
      BY <1>1, <1>4, Distances DEF IInv
    <3> QED BY <1>3, <3>1, DistRange DEF IInv, TypeOK
  <2> QED BY <2>1 DEF IInv, PopInFlight, SeeTail, cvars
<1>9. OneSlotStaysEmpty' /\ SlotsHoldSent' /\ PushInFlight' /\ FifoDelivery' /\ NoSlotRace'
  BY DEF IInv, OneSlotStaysEmpty, SlotsHoldSent, PushInFlight, FifoDelivery,
         NoSlotRace, SeeTail, pvars, cvars
<1> QED BY <1>5, <1>6, <1>7, <1>8, <1>9 DEF IInv
-----------------------------------------------------------------------------
(* Every step preserves the invariant. *)
LEMMA NextInvariant == IInv /\ [Next]_vars => IInv'
<1> SUFFICES ASSUME IInv, [Next]_vars PROVE IInv'
  OBVIOUS
<1>1. ASSUME Producer PROVE IInv'
  BY <1>1, PushBeginInvariant, PushRefusedInvariant, PushAcceptedInvariant,
     PushWriteInvariant, PushPublishInvariant DEF Producer
<1>2. ASSUME Consumer PROVE IInv'
  BY <1>2, PopBeginInvariant, PopRefusedInvariant, PopAcceptedInvariant,
     PopReadInvariant, PopReleaseInvariant DEF Consumer
<1>3. CASE UNCHANGED vars
  BY <1>3 DEF vars, indices, pvars, cvars, IInv, TypeOK, OneSlotStaysEmpty, InOrder,
    SeenIsPast, SlotsHoldSent, PushInFlight, PopInFlight, FifoDelivery, NoSlotRace,
    PushesSeen, PopsSeen
<1> QED
  BY <1>1, <1>2, <1>3, SeeHeadInvariant, SeeTailInvariant DEF Next

\* The inductive invariant, which the run checks too, holds in every reachable state:
\* head_ and tail_ never pass what the other side has seen of them, and between them
\* lies what was pushed and not popped, at every step of try_push and try_pop.
THEOREM Invariance == Spec => []IInv
<1>1. Init => IInv
  BY InitInvariant
<1>2. IInv /\ [Next]_vars => IInv'
  BY NextInvariant
<1> QED BY <1>1, <1>2, PTL DEF Spec

(* Indices stay inside buffer_ whatever the interleaving and the staleness  *)
(* of the loads.                                                            *)
THEOREM TypeCorrect == Spec => []TypeOK
<1>1. IInv => TypeOK
  BY DEF IInv
<1> QED BY <1>1, Invariance, PTL

(* try_pop returns what try_push took, in order, nothing lost or repeated.  *)
THEOREM Fifo == Spec => []FifoDelivery
<1>1. IInv => FifoDelivery
  BY DEF IInv
<1> QED BY <1>1, Invariance, PTL

(* Release on the store and acquire on the load of each index order every   *)
(* pair of accesses to a slot.                                              *)
THEOREM RaceFree == Spec => []NoSlotRace
<1>1. IInv => NoSlotRace
  BY DEF IInv
<1> QED BY <1>1, Invariance, PTL

(* Equal indices mean an empty ring: it never holds Capacity elements.      *)
THEOREM NeverFullToTheLastSlot == Spec => []OneSlotStaysEmpty
<1>1. IInv => OneSlotStaysEmpty
  BY DEF IInv
<1> QED BY <1>1, Invariance, PTL

(* A call returns false only when the queue is full, or empty, as far as    *)
(* the caller can see.                                                      *)
THEOREM Refusals == Spec => RefusalsJustified
<1>1. IInv /\ [Next]_vars => [JustifiedRefusal]_vars
  <2> SUFFICES ASSUME IInv PROVE JustifiedRefusal
    OBVIOUS
  <2>1. ASSUME PushRefused PROVE Len(sent) - PopsSeen = Capacity - 1
    <3>1. NextIndex(tail) = headSeen
      BY <2>1 DEF IInv, PushInFlight, PushRefused, FullTest
    <3>2. Dist(headSeen, tail) = Capacity - 1
      BY <3>1, DistMeets DEF IInv, TypeOK
    <3> QED BY <3>2, OccupiedSlots, Distances DEF IInv, OneSlotStaysEmpty, PopsSeen
  <2>2. ASSUME PopRefused PROVE PushesSeen = Len(got)
    <3>1. Dist(head, tailSeen) = 0
      BY <2>2, DistRange DEF IInv, TypeOK, PopRefused, EmptyTest
    <3> QED BY <3>1, OccupiedSlots, Distances DEF IInv, OneSlotStaysEmpty, PushesSeen
  <2> QED BY <2>1, <2>2 DEF JustifiedRefusal
<1> QED BY <1>1, Invariance, PTL DEF Spec, RefusalsJustified
-----------------------------------------------------------------------------
(* The ring implements the abstract queue. *)

(* The slots of b from index h up to index t. *)
Window(b, h, t) == [i \in 1..Dist(h, t) |-> b[Shift(h, i - 1)]]

Values == Items \cup {NoItem}

(* A window is a sequence as long as the distance of its ends. *)
LEMMA WindowSequence ==
  ASSUME NEW b \in [Index -> Values], NEW h \in Index, NEW t \in Index
  PROVE  /\ Dist(h, t) \in Nat
         /\ Window(b, h, t) \in Seq(Values)
         /\ Len(Window(b, h, t)) = Dist(h, t)
         /\ \A i \in 1..Dist(h, t) : Window(b, h, t)[i] = b[Shift(h, i - 1)]
<1>1. Dist(h, t) \in 0..(Capacity - 1)
  BY DistRange
<1>2. ASSUME NEW i \in 1..Dist(h, t)
      PROVE  b[Shift(h, i - 1)] \in Values
  <2>1. i - 1 \in 0..(Capacity - 1)
    BY <1>1, CapacityAssumption
  <2> QED BY <2>1, ShiftDist
<1>3. Window(b, h, t) \in [1..Dist(h, t) -> Values]
  BY <1>2 DEF Window
<1>4. Window(b, h, t) \in Seq(Values)
  BY <1>1, <1>3
<1>5. Len(Window(b, h, t)) = Dist(h, t)
  BY <1>1, <1>3, <1>4, LenProperties
<1> QED BY <1>1, <1>4, <1>5 DEF Window

(* Moving the far end over slot t appends what it holds. *)
LEMMA WindowNextFar ==
  ASSUME NEW b \in [Index -> Values], NEW h \in Index, NEW t \in Index,
         NextIndex(t) # h
  PROVE  Window(b, h, NextIndex(t)) = Append(Window(b, h, t), b[t])
<1> DEFINE W == Window(b, h, t)
           V == Window(b, h, NextIndex(t))
           A == Append(W, b[t])
           n == Dist(h, t)
<1>1. /\ n \in Nat /\ W \in Seq(Values) /\ Len(W) = n
      /\ \A i \in 1..n : W[i] = b[Shift(h, i - 1)]
  BY WindowSequence
<1>2. NextIndex(t) \in Index /\ Dist(h, NextIndex(t)) = n + 1
  BY NextIndexWraps, DistNextFar
<1>3. /\ V \in Seq(Values) /\ Len(V) = n + 1
      /\ \A i \in 1..(n + 1) : V[i] = b[Shift(h, i - 1)]
  <2> DEFINE t1 == NextIndex(t)
  <2>1. t1 \in Index /\ Dist(h, t1) = n + 1 /\ V = Window(b, h, t1)
    BY <1>2
  <2> HIDE DEF t1
  <2>2. /\ Window(b, h, t1) \in Seq(Values) /\ Len(Window(b, h, t1)) = Dist(h, t1)
        /\ \A i \in 1..Dist(h, t1) : Window(b, h, t1)[i] = b[Shift(h, i - 1)]
    BY <2>1, WindowSequence
  <2> HIDE DEF n, V
  <2> QED BY <2>1, <2>2
<1>4. b[t] \in Values
  OBVIOUS
<1>5. /\ A \in Seq(Values) /\ Len(A) = n + 1
      /\ \A i \in 1..n : A[i] = W[i]
      /\ A[n + 1] = b[t]
  BY <1>1, <1>4, AppendProperties
<1>6. Shift(h, n) = t
  BY ShiftToFar
<1> HIDE DEF W, V, A, n
<1>7. ASSUME NEW i \in 1..(n + 1) PROVE V[i] = A[i]
  <2>1. CASE i \in 1..n
    BY <1>1, <1>3, <1>5, <2>1
  <2>2. CASE i = n + 1
    <3>1. i - 1 = n
      BY <1>1, <2>2
    <3> QED BY <1>3, <1>5, <1>6, <2>2, <3>1
  <2> QED BY <1>1, <2>1, <2>2
<1>8. V = A
  BY <1>3, <1>5, <1>7, SeqEqual
<1> QED BY <1>8 DEF V, A, W

(* Moving the near end over slot h takes the first element away. *)
LEMMA WindowNextNear ==
  ASSUME NEW b \in [Index -> Values], NEW h \in Index, NEW t \in Index, h # t
  PROVE  Window(b, NextIndex(h), t) = Tail(Window(b, h, t))
<1> DEFINE W == Window(b, h, t)
           V == Window(b, NextIndex(h), t)
           n == Dist(h, t)
<1>1. /\ n \in 1..(Capacity - 1) /\ W \in Seq(Values) /\ Len(W) = n
      /\ \A i \in 1..n : W[i] = b[Shift(h, i - 1)]
  <2>1. n \in 1..(Capacity - 1)
    BY DistRange, CapacityAssumption
  <2>2. /\ W \in Seq(Values) /\ Len(W) = n
        /\ \A i \in 1..n : W[i] = b[Shift(h, i - 1)]
    BY WindowSequence
  <2> QED BY <2>1, <2>2
<1>2. NextIndex(h) \in Index /\ Dist(NextIndex(h), t) = n - 1
  BY NextIndexWraps, DistNextNear
<1>3. /\ V \in Seq(Values) /\ Len(V) = n - 1
      /\ \A i \in 1..(n - 1) : V[i] = b[Shift(NextIndex(h), i - 1)]
  <2> DEFINE g == NextIndex(h)
             m == Dist(g, t)
  <2>1. g \in Index /\ m = n - 1
    BY <1>2
  <2> HIDE DEF g
  <2>2. /\ Window(b, g, t) \in Seq(Values) /\ Len(Window(b, g, t)) = m
        /\ \A i \in 1..m : Window(b, g, t)[i] = b[Shift(g, i - 1)]
    BY <2>1, WindowSequence
  <2> HIDE DEF m, n
  <2> QED BY <2>1, <2>2 DEF g
<1> HIDE DEF W, V, n
<1>4. W # <<>>
  BY <1>1, EmptySeq
<1>5. /\ Tail(W) \in Seq(Values) /\ Len(Tail(W)) = n - 1
      /\ \A i \in 1..(n - 1) : Tail(W)[i] = W[i + 1]
  BY <1>1, <1>4, HeadTailProperties
<1>6. ASSUME NEW i \in 1..(n - 1) PROVE V[i] = Tail(W)[i]
  <2>1. i + 1 \in 1..n /\ i - 1 \in 0..(Capacity - 2) /\ (i - 1) + 1 = (i + 1) - 1
    BY <1>1, CapacityAssumption
  <2>2. Shift(NextIndex(h), i - 1) = Shift(h, (i + 1) - 1)
    BY <2>1, ShiftNext
  <2> QED BY <1>1, <1>3, <1>5, <2>1, <2>2
<1>7. V = Tail(W)
  BY <1>3, <1>5, <1>6, SeqEqual
<1> QED BY <1>7 DEF V, W

(* Writing the slot at the far end is not seen in the window. *)
LEMMA WindowWrite ==
  ASSUME NEW b \in [Index -> Values], NEW h \in Index, NEW t \in Index,
         NEW x \in Values
  PROVE  Window([b EXCEPT ![t] = x], h, t) = Window(b, h, t)
<1>1. ASSUME NEW i \in 1..Dist(h, t)
      PROVE  [b EXCEPT ![t] = x][Shift(h, i - 1)] = b[Shift(h, i - 1)]
  <2>1. i - 1 \in 0..(Capacity - 1) /\ i - 1 < Dist(h, t)
    BY DistRange, CapacityAssumption
  <2>2. Shift(h, i - 1) \in Index /\ Dist(Shift(h, i - 1), t) = Dist(h, t) - (i - 1)
    BY <2>1, DistRange, ShiftDist
  <2>3. Shift(h, i - 1) # t
    BY <2>1, <2>2, DistRange
  <2> QED BY <2>2, <2>3
<1> QED BY <1>1 DEF Window
-----------------------------------------------------------------------------
(* The queue of the refinement mapping is the window from head_ to tail_. *)
LEMMA ContentsWindow ==
  ASSUME IInv
  PROVE  /\ Contents = Window(buffer, head, tail)
         /\ buffer \in [Index -> Values] /\ head \in Index /\ tail \in Index
         /\ headSeen \in Index /\ tailSeen \in Index
         /\ Len(Contents) = Dist(head, tail)
<1>1. /\ buffer \in [Index -> Values] /\ head \in Index /\ tail \in Index
      /\ headSeen \in Index /\ tailSeen \in Index
  BY DEF IInv, TypeOK, Values
<1>2. Contents = Window(buffer, head, tail)
  BY DEF Contents, Window
<1> QED BY <1>1, <1>2, WindowSequence

(* The empty ring is the empty queue. *)
LEMMA InitRefines == Init => Queue!Init
<1> SUFFICES ASSUME Init PROVE Queue!Init
  OBVIOUS
<1>1. head = 0 /\ tail = 0 /\ headSeen = 0 /\ tailSeen = 0
  BY DEF Init
<1>2. Dist(0, 0) = 0
  BY DEF Dist
<1>3. Contents = <<>>
  <2>1. Contents \in Seq(Values) /\ Len(Contents) = 0
    BY <1>1, <1>2, InitInvariant, ContentsWindow, WindowSequence
  <2> QED BY <2>1, EmptySeq
<1> QED BY <1>1, <1>2, <1>3, CapacityAssumption DEF Queue!Init

(* The release store of tail_ is where an element enters the queue. *)
LEMMA PushPublishRefines ==
  ASSUME IInv, PushPublish
  PROVE  item \in Items /\ Queue!Push(item)
<1>1. /\ tail' = NextIndex(tail) /\ UNCHANGED <<head, headSeen, tailSeen, buffer>>
      /\ item \in Items /\ buffer[tail] = item /\ NextIndex(tail) # headSeen
  BY DEF IInv, TypeOK, PushInFlight, PushPublish
<1>2. Dist(headSeen, tail) < Capacity - 1
  BY <1>1, DistMeets, Distances, CapacityAssumption DEF IInv, TypeOK
<1>3. NextIndex(tail) # head
  <2>1. Dist(head, tail) < Capacity - 1
    BY <1>2, OccupiedSlots, Distances, CapacityAssumption DEF IInv
  <2> QED BY <2>1, DistMeets, CapacityAssumption, ContentsWindow
<1>4. Contents' = Append(Contents, item)
  <2>1. Contents' = Window(buffer, head, NextIndex(tail))
    BY <1>1 DEF Contents, Window
  <2> QED BY <1>1, <1>3, <2>1, WindowNextFar, ContentsWindow
<1>5. Dist(headSeen, tail') = Dist(headSeen, tail) + 1
  BY <1>1, DistNextFar, ContentsWindow
<1> QED
  BY <1>1, <1>2, <1>4, <1>5, Distances, CapacityAssumption, SMTT(30) DEF Queue!Push, IInv

(* The release store of head_ is where an element leaves the queue. *)
LEMMA PopReleaseRefines ==
  ASSUME IInv, PopRelease
  PROVE  Queue!Pop
<1>1. /\ head' = NextIndex(head) /\ UNCHANGED <<tail, headSeen, tailSeen, buffer>>
      /\ head # tailSeen
  BY DEF IInv, PopInFlight, PopRelease
<1>2. Dist(head, tailSeen) > 0 /\ Dist(head', tailSeen) = Dist(head, tailSeen) - 1
  BY <1>1, DistRange, DistNextNear, CapacityAssumption, ContentsWindow
<1>3. head # tail
  <2>1. Dist(head, tail) # 0
    BY <1>2, OccupiedSlots, Distances DEF IInv
  <2> QED BY <2>1, DistRange, ContentsWindow
<1>4. Contents' = Tail(Contents)
  <2>1. Contents' = Window(buffer, NextIndex(head), tail)
    BY <1>1 DEF Contents, Window
  <2> QED BY <1>3, <2>1, WindowNextNear, ContentsWindow
<1> QED BY <1>1, <1>2, <1>4 DEF Queue!Pop

(* The slot written before a push is published is not in the queue yet. *)
LEMMA PushWriteRefines ==
  ASSUME IInv, PushWrite
  PROVE  UNCHANGED Queue!vars
<1>1. /\ buffer' = [buffer EXCEPT ![tail] = item] /\ item \in Values
      /\ UNCHANGED <<head, tail, headSeen, tailSeen>>
  BY DEF IInv, TypeOK, PushWrite, indices, Values
<1>2. Contents' = Window([buffer EXCEPT ![tail] = item], head, tail)
  BY <1>1 DEF Contents, Window
<1>3. Contents' = Contents
  BY <1>1, <1>2, WindowWrite, ContentsWindow
<1> QED BY <1>1, <1>3 DEF Queue!vars

(* A newer head_ in sight of the producer gives it room, never more than there *)
(* is.                                                                         *)
LEMMA SeeHeadRefines ==
  ASSUME IInv, SeeHead
  PROVE  Queue!SeePops
<1>1. PICK n \in 1..Dist(headSeen, head) : headSeen' = Shift(headSeen, n)
  BY DEF SeeHead
<1>2. n \in 0..(Capacity - 1) /\ n <= Dist(headSeen, tail)
  BY <1>1, Distances, OccupiedSlots, CapacityAssumption DEF IInv
<1>3. Dist(headSeen', tail) = Dist(headSeen, tail) - n
  BY <1>1, <1>2, ShiftDist, ContentsWindow
<1>4. UNCHANGED <<head, tail, tailSeen, buffer>>
  BY DEF SeeHead
<1>5. UNCHANGED <<Contents, Dist(head, tailSeen)>>
  BY <1>4 DEF Contents
<1> DEFINE room == Capacity - 1 - Dist(headSeen, tail)
<1>6. room' = Capacity - 1 - (Dist(headSeen, tail) - n)
  BY <1>3, <1>4
<1>7. room' \in (room + 1)..(Capacity - 1 - Len(Contents))
  <2>1. /\ Len(Contents) = Dist(head, tail)
        /\ Dist(headSeen, tail) = Dist(headSeen, head) + Dist(head, tail)
        /\ Dist(headSeen, head) \in Nat /\ Dist(head, tail) \in Nat
    BY Distances, OccupiedSlots, ContentsWindow DEF IInv
  <2> HIDE DEF room
  <2>2. n \in 1..Dist(headSeen, head)
    OBVIOUS
  <2>3. room' \in Int /\ room' >= Capacity - Dist(headSeen, tail)
        /\ room' <= Capacity - 1 - Dist(head, tail)
    BY <1>6, <2>1, <2>2, CapacityAssumption
  <2> QED BY <2>1, <2>3, CapacityAssumption DEF room
<1> QED BY <1>5, <1>7 DEF Queue!SeePops

(* A newer tail_ in sight of the consumer shows it elements that are there. *)
LEMMA SeeTailRefines ==
  ASSUME IInv, SeeTail
  PROVE  Queue!SeePushes
<1>1. PICK n \in 1..Dist(tailSeen, tail) : tailSeen' = Shift(tailSeen, n)
  BY DEF SeeTail
<1>2. n \in 0..(Capacity - 1)
  BY <1>1, Distances, CapacityAssumption DEF IInv
<1>3. Dist(head, tailSeen') = Dist(head, tailSeen) + n
  BY <1>1, <1>2, OccupiedSlots, CapacityAssumption
  DEF IInv, TypeOK, Shift, Dist, Index
<1>4. UNCHANGED <<head, tail, headSeen, buffer>>
  BY DEF SeeTail
<1>5. UNCHANGED <<Contents, Capacity - 1 - Dist(headSeen, tail)>>
  BY <1>4 DEF Contents
<1> DEFINE avail == Dist(head, tailSeen)
<1>6. avail' = avail + n /\ avail' \in (avail + 1)..Len(Contents)
  BY <1>1, <1>3, <1>4, Distances, OccupiedSlots, ContentsWindow DEF IInv
<1> QED BY <1>5, <1>6 DEF Queue!SeePushes

(* Every step of the ring is a step of the queue or none. *)
LEMMA NextRefines == IInv /\ [Next]_vars => [Queue!Next]_(Queue!vars)
<1> SUFFICES ASSUME IInv, [Next]_vars
             PROVE  Queue!Next \/ UNCHANGED Queue!vars
  OBVIOUS
<1>1. ASSUME UNCHANGED <<indices, buffer>> PROVE UNCHANGED Queue!vars
  BY <1>1 DEF Queue!vars, Contents, indices
<1>2. ASSUME Producer PROVE Queue!Next \/ UNCHANGED Queue!vars
  <2>1. CASE PushPublish
    BY <2>1, PushPublishRefines DEF Queue!Next
  <2>2. CASE PushWrite
    BY <2>2, PushWriteRefines
  <2>3. CASE PushRefused \/ PushAccepted \/ \E x \in Items : PushBegin(x)
    BY <1>1, <2>3 DEF PushRefused, PushAccepted, PushBegin
  <2> QED BY <1>2, <2>1, <2>2, <2>3 DEF Producer
<1>3. ASSUME Consumer PROVE Queue!Next \/ UNCHANGED Queue!vars
  <2>1. CASE PopRelease
    BY <2>1, PopReleaseRefines DEF Queue!Next
  <2>2. CASE PopBegin \/ PopRefused \/ PopAccepted \/ PopRead
    BY <1>1, <2>2 DEF PopBegin, PopRefused, PopAccepted, PopRead
  <2> QED BY <1>3, <2>1, <2>2 DEF Consumer
<1>4. CASE SeeHead
  BY <1>4, SeeHeadRefines DEF Queue!Next
<1>5. CASE SeeTail
  BY <1>5, SeeTailRefines DEF Queue!Next
<1>6. CASE UNCHANGED vars
  BY <1>1, <1>6 DEF vars
<1> QED BY <1>2, <1>3, <1>4, <1>5, <1>6 DEF Next

(* The ring is a bounded FIFO queue whose two sides see each other's work    *)
(* late and never wrongly: what MatchingEngine assumes of order_queue_ and   *)
(* return_queue_.                                                            *)
THEOREM RingImplementsQueue == Spec => ImplementsQueue
<1>1. Init => Queue!Init
  BY InitRefines
<1>2. IInv /\ [Next]_vars => [Queue!Next]_(Queue!vars)
  BY NextRefines
<1> QED BY <1>1, <1>2, Invariance, PTL DEF Spec, ImplementsQueue, Queue!Spec
=============================================================================
