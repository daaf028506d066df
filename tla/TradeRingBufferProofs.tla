------------------------ MODULE TradeRingBufferProofs -----------------------
(***************************************************************************)
(* The trade ring buffer keeps the most recent trades, for every capacity  *)
(* and however many trades are written and drained.                        *)
(***************************************************************************)
EXTENDS TradeRingBuffer, SequenceTheorems, TLAPS

\* write_pos_ has passed each trade since the last drain; until the buffer is
\* full the two counters agree.
Positions ==
  /\ writePos <= totalWritten /\ count <= writePos
  /\ count < Capacity => writePos = count

\* From the oldest record on there are the last count trades, in order.
HeldAreLatest ==
  \A i \in 1..count : buffer[Masked(Oldest + i - 1)] = totalWritten - count + i

IInv == TypeOK /\ Positions /\ HeldAreLatest
-----------------------------------------------------------------------------
(* The arithmetic of the mask. *)

\* A position is a number of turns and an index.
LEMMA Turns ==
  ASSUME NEW p \in Nat
  PROVE  \E k \in Int : /\ p = Capacity * k + Masked(p)
                        /\ Masked(p) \in 0..(Capacity - 1)
<1>1. /\ p = Capacity * (p \div Capacity) + (p % Capacity)
      /\ p \div Capacity \in Int /\ p % Capacity \in 0..(Capacity - 1)
  BY CapacityAssumption, SMT
<1> QED BY <1>1 DEF Masked

\* Masking gives an index of the buffer.
LEMMA MaskedRange ==
  ASSUME NEW p \in Nat
  PROVE  Masked(p) \in 0..(Capacity - 1)
BY Turns

\* Masking forgets the turns.
LEMMA MaskedIndex ==
  ASSUME NEW k \in Int, NEW r \in 0..(Capacity - 1)
  PROVE  Masked(Capacity * k + r) = r
BY CapacityAssumption, SMT DEF Masked

\* Masking leaves an index alone, and gives the same one turn later.
LEMMA MaskedTurn ==
  /\ \A p \in 0..(Capacity - 1) : Masked(p) = p
  /\ \A p \in Nat : Masked(p + Capacity) = Masked(p)
<1>1. ASSUME NEW p \in 0..(Capacity - 1) PROVE Masked(p) = p
  BY CapacityAssumption DEF Masked
<1>2. ASSUME NEW p \in Nat PROVE Masked(p + Capacity) = Masked(p)
  <2>1. PICK k \in Int : p = Capacity * k + Masked(p) /\ Masked(p) \in 0..(Capacity - 1)
    BY Turns
  <2> DEFINE r == Masked(p)
  <2>2. Masked(Capacity * (k + 1) + r) = r
    BY <2>1, MaskedIndex
  <2>3. Capacity * (k + 1) = Capacity * k + Capacity /\ Capacity * k \in Int
    BY CapacityAssumption
  <2> HIDE DEF r
  <2>4. Capacity * (k + 1) + r = p + Capacity
    BY <2>1, <2>3, CapacityAssumption DEF r
  <2> QED BY <2>2, <2>4 DEF r
<1> QED BY <1>1, <1>2

\* Positions less than a turn apart have slots of their own.
LEMMA MaskedApart ==
  ASSUME NEW p \in Nat, NEW d \in 1..(Capacity - 1)
  PROVE  Masked(p + d) # Masked(p)
<1>1. PICK k \in Int : p = Capacity * k + Masked(p) /\ Masked(p) \in 0..(Capacity - 1)
  BY Turns
<1> DEFINE r == Masked(p)
           t == Capacity * k
<1>2. Capacity * (k + 1) = t + Capacity /\ t \in Int /\ Capacity \in Nat
  BY CapacityAssumption
<1>3. CASE r + d < Capacity
  <2>1. r + d \in 0..(Capacity - 1)
    BY <1>1, <1>2, <1>3
  <2>2. Masked(t + (r + d)) = r + d
    BY <2>1, MaskedIndex
  <2> HIDE DEF r, t
  <2>3. t + (r + d) = p + d
    BY <1>1, <1>2 DEF r, t
  <2> QED BY <1>1, <2>2, <2>3 DEF r
<1>4. CASE r + d >= Capacity
  <2>1. r + d - Capacity \in 0..(Capacity - 1)
    BY <1>1, <1>2, <1>4
  <2>2. Masked(Capacity * (k + 1) + (r + d - Capacity)) = r + d - Capacity
    BY <2>1, MaskedIndex
  <2> HIDE DEF r, t
  <2>3. Capacity * (k + 1) + (r + d - Capacity) = p + d
    BY <1>1, <1>2 DEF r, t
  <2>4. r + d - Capacity # r
    BY <1>1, <1>2 DEF r
  <2> QED BY <2>2, <2>3, <2>4 DEF r
<1> QED BY <1>1, <1>2, <1>3, <1>4
-----------------------------------------------------------------------------
(* The invariant is inductive. *)

\* The empty buffer.
LEMMA InitInvariant == Init => IInv
<1> SUFFICES ASSUME Init PROVE IInv
  OBVIOUS
<1>1. <<>> \in Seq(1..MaxTrades)
  BY EmptySeq
<1>2. TypeOK
  BY <1>1, CapacityAssumption, BoundAssumption DEF Init, TypeOK, NoTrade
<1> QED BY <1>2 DEF Init, IInv, Positions, HeldAreLatest

\* What operator[] and drain read is the last count trades.
HeldIsTail ==
  /\ Held \in Seq(1..MaxTrades) /\ Len(Held) = count
  /\ \A i \in 1..count : Held[i] = totalWritten - count + i

\* The invariant says so of every state.
LEMMA HeldIsASequence == IInv => HeldIsTail
<1> SUFFICES ASSUME IInv PROVE HeldIsTail
  OBVIOUS
<1>1. /\ count \in Nat /\ totalWritten \in 0..MaxTrades /\ MaxTrades \in Nat
      /\ count <= totalWritten
  BY CapacityAssumption, BoundAssumption DEF IInv, TypeOK, Positions
<1>2. ASSUME NEW i \in 1..count
      PROVE  /\ buffer[Masked(Oldest + i - 1)] = totalWritten - count + i
             /\ totalWritten - count + i \in 1..MaxTrades
  BY <1>1 DEF IInv, HeldAreLatest
<1>3. Held \in [1..count -> 1..MaxTrades]
  BY <1>2 DEF Held
<1>4. Held \in Seq(1..MaxTrades)
  BY <1>1, <1>3
<1>5. Len(Held) = count
  BY <1>1, <1>3, <1>4, LenProperties
<1> QED BY <1>2, <1>4, <1>5 DEF Held, HeldIsTail

\* And of the state after a step.
LEMMA HeldStaysASequence == IInv' => HeldIsTail'
BY HeldIsASequence, PTL

\* A new trade goes over the oldest one, and over no other.
LEMMA PushTradeKeeps ==
  ASSUME IInv, PushTrade
  PROVE  IInv'
<1>1. /\ Capacity \in Nat \ {0} /\ MaxTrades \in Nat
      /\ count \in 0..Capacity /\ writePos \in 0..MaxTrades /\ totalWritten \in 0..MaxTrades
      /\ buffer \in [0..(Capacity - 1) -> 0..MaxTrades] /\ drained \in Seq(1..MaxTrades)
  BY CapacityAssumption, BoundAssumption DEF IInv, TypeOK
<1>2. /\ totalWritten < MaxTrades /\ totalWritten' = totalWritten + 1
      /\ writePos' = writePos + 1 /\ UNCHANGED drained
      /\ buffer' = [buffer EXCEPT ![Masked(writePos)] = totalWritten + 1]
      /\ count' = IF count < Capacity THEN count + 1 ELSE count
  BY DEF PushTrade, CountUp
<1>3. /\ writePos <= totalWritten /\ count <= writePos
      /\ count < Capacity => writePos = count
      /\ \A i \in 1..count : buffer[Masked(Oldest + i - 1)] = totalWritten - count + i
  BY DEF IInv, Positions, HeldAreLatest
<1>4. Masked(writePos) \in 0..(Capacity - 1)
  <2>1. writePos \in Nat
    BY <1>1
  <2> QED BY <2>1, MaskedRange
<1>5. TypeOK' /\ Positions'
  BY <1>1, <1>2, <1>3, <1>4 DEF TypeOK, Positions
<1>6. CASE count < Capacity
  <2>1. ASSUME NEW i \in 1..(count + 1)
        PROVE  Masked(Oldest' + i - 1) = i - 1
    <3>1. i - 1 \in 0..(Capacity - 1)
      BY <1>1, <1>6
    <3>2. Masked(i - 1) = i - 1 /\ Masked((i - 1) + Capacity) = i - 1
      <4>1. i - 1 \in Nat
        BY <3>1
      <4> QED BY <3>1, <4>1, MaskedTurn
    <3>3. Oldest' + i - 1 = i - 1 \/ Oldest' + i - 1 = (i - 1) + Capacity
      BY <1>1, <1>2, <1>3, <1>6 DEF Oldest
    <3> QED BY <3>2, <3>3
  <2>2. ASSUME NEW i \in 1..count
        PROVE  buffer[i - 1] = totalWritten - count + i
    <3>1. Oldest + i - 1 = i - 1 /\ i - 1 \in 0..(Capacity - 1)
      BY <1>1, <1>6 DEF Oldest
    <3> QED BY <1>3, <3>1, MaskedTurn
  <2>3. Masked(writePos) = count
    BY <1>1, <1>3, <1>6, MaskedTurn
  <2>4. ASSUME NEW i \in 1..(count + 1)
        PROVE  buffer'[i - 1] = totalWritten - count + i
    <3>1. CASE i = count + 1
      BY <1>1, <1>2, <1>6, <2>3, <3>1
    <3>2. CASE i \in 1..count
      BY <1>1, <1>2, <1>6, <2>2, <2>3, <3>2
    <3> QED BY <1>1, <3>1, <3>2
  <2>5. count' = count + 1
    BY <1>2, <1>6
  <2>6. \A i \in 1..(count + 1) : totalWritten - count + i = totalWritten' - count' + i
    BY <1>1, <1>2, <2>5
  <2>7. HeldAreLatest'
    BY <2>1, <2>4, <2>5, <2>6 DEF HeldAreLatest
  <2> QED BY <1>5, <2>7 DEF IInv
<1>7. CASE count = Capacity
  <2>1. Oldest = writePos /\ Oldest' = writePos + 1 /\ count' = Capacity
    BY <1>1, <1>2, <1>7 DEF Oldest
  <2>2. ASSUME NEW i \in 1..Capacity
        PROVE  buffer'[Masked(Oldest' + i - 1)] = totalWritten' - count' + i
    <3>1. CASE i = Capacity
      <4>1. Masked(writePos + 1 + i - 1) = Masked(writePos)
        <5>1. writePos + 1 + i - 1 = writePos + Capacity
          BY <1>1, <3>1
        <5> QED BY <1>1, <5>1, MaskedTurn
      <4>2. totalWritten' - count' + i = totalWritten + 1
        BY <1>1, <1>2, <2>1, <3>1, SMTT(30)
      <4> QED BY <1>1, <1>2, <1>4, <2>1, <4>1, <4>2
    <3>2. CASE i \in 1..(Capacity - 1)
      <4>1. /\ Masked(writePos + i) # Masked(writePos)
            /\ Masked(writePos + i) \in 0..(Capacity - 1)
        <5>1. writePos \in Nat /\ writePos + i \in Nat
          BY <1>1, <3>2
        <5> QED BY <3>2, <5>1, MaskedApart, MaskedRange
      <4>2. buffer[Masked(writePos + i)] = totalWritten - Capacity + (i + 1)
        <5>1. i + 1 \in 1..count /\ writePos + (i + 1) - 1 = writePos + i
          BY <1>1, <1>7, <3>2
        <5> QED BY <1>3, <1>7, <2>1, <5>1
      <4>3. writePos + 1 + i - 1 = writePos + i
        BY <1>1
      <4>4. totalWritten' - count' + i = totalWritten - Capacity + (i + 1)
        BY <1>1, <1>2, <2>1, <3>2
      <4> QED BY <1>1, <1>2, <2>1, <4>1, <4>2, <4>3, <4>4
    <3> QED BY <1>1, <3>1, <3>2
  <2>3. HeldAreLatest'
    BY <2>1, <2>2 DEF HeldAreLatest
  <2> QED BY <1>5, <2>3 DEF IInv
<1> QED BY <1>1, <1>6, <1>7

\* Draining starts over.
LEMMA DrainKeeps ==
  ASSUME IInv, Drain
  PROVE  IInv'
<1>1. Held \in Seq(1..MaxTrades)
  BY HeldIsASequence DEF HeldIsTail
<1>2. count' = 0 /\ writePos' = 0 /\ drained' = Held /\ UNCHANGED <<buffer, totalWritten>>
  BY DEF Drain, ClearPositions
<1>3. TypeOK' /\ Positions'
  BY <1>1, <1>2, CapacityAssumption, BoundAssumption DEF IInv, TypeOK, Positions
<1>4. HeldAreLatest'
  BY <1>2 DEF HeldAreLatest
<1> QED BY <1>3, <1>4 DEF IInv

\* The invariant holds of every behaviour.
LEMMA Invariance == Spec => []IInv
<1>1. IInv /\ UNCHANGED vars => IInv'
  BY DEF vars, IInv, TypeOK, Positions, HeldAreLatest, Oldest
<1>2. IInv /\ [Next]_vars => IInv'
  BY <1>1, PushTradeKeeps, DrainKeeps DEF Next, Stop
<1> QED BY InitInvariant, <1>2, PTL DEF Spec
-----------------------------------------------------------------------------
\* count_ never exceeds the capacity, and every record drained was written.
THEOREM TypeCorrect == Spec => []TypeOK
<1>1. IInv => TypeOK
  BY DEF IInv
<1> QED BY <1>1, Invariance, PTL

\* A push is a push of the list: the oldest trade gives way when the buffer is
\* full.
LEMMA PushRefines ==
  ASSUME IInv, IInv', PushTrade
  PROVE  Recent!Push(totalWritten + 1)
<1> DEFINE t == totalWritten + 1
           q == Append(Held, t)
           r == Held'
<1>1. /\ Capacity \in Nat \ {0} /\ MaxTrades \in Nat
      /\ count \in 0..Capacity /\ totalWritten \in 0..MaxTrades
  BY CapacityAssumption, BoundAssumption DEF IInv, TypeOK
<1>2. /\ totalWritten < MaxTrades /\ totalWritten' = totalWritten + 1 /\ UNCHANGED drained
      /\ count' = IF count < Capacity THEN count + 1 ELSE count
  BY DEF PushTrade, CountUp
<1>3. /\ Held \in Seq(1..MaxTrades) /\ Len(Held) = count
      /\ \A i \in 1..count : Held[i] = totalWritten - count + i
  BY HeldIsASequence DEF HeldIsTail
<1>4. /\ r \in Seq(1..MaxTrades) /\ Len(r) = count'
      /\ \A i \in 1..count' : r[i] = totalWritten' - count' + i
  BY HeldStaysASequence DEF HeldIsTail
<1>5. /\ q \in Seq(1..MaxTrades) /\ Len(q) = count + 1
      /\ \A i \in 1..(count + 1) : q[i] = totalWritten - count + i
  <2>1. t \in 1..MaxTrades
    BY <1>1, <1>2
  <2>2. /\ q \in Seq(1..MaxTrades) /\ Len(q) = count + 1
        /\ \A i \in 1..count : q[i] = Held[i]
        /\ q[count + 1] = t
    BY <1>3, <2>1, AppendProperties
  <2> HIDE DEF q
  <2>3. t = totalWritten - count + (count + 1)
    BY <1>1
  <2> QED BY <1>1, <1>3, <2>2, <2>3
<1> HIDE DEF q, r
<1>6. CASE count < Capacity
  <2>1. Len(q) = Len(r) /\ \A i \in 1..Len(q) : q[i] = r[i]
    BY <1>1, <1>2, <1>4, <1>5, <1>6
  <2>2. q = r
    BY <1>4, <1>5, <2>1, SeqEqual
  <2>3. Recent!Latest(q) = q
    BY <1>1, <1>5, <1>6 DEF Recent!Latest
  <2> QED BY <1>2, <2>2, <2>3 DEF Recent!Push, q, r
<1>7. CASE count = Capacity
  <2> DEFINE u == SubSeq(q, 2, Capacity + 1)
  <2>1. Recent!Latest(q) = u
    <3>1. Len(q) > Capacity /\ Len(q) - Capacity + 1 = 2 /\ Len(q) = Capacity + 1
      BY <1>1, <1>5, <1>7
    <3> QED BY <3>1 DEF Recent!Latest
  <2>2. \A i \in 2..(Capacity + 1) : q[i] \in 1..MaxTrades
    BY <1>1, <1>2, <1>5, <1>7
  <2>3. /\ u \in Seq(1..MaxTrades) /\ Len(u) = Capacity
        /\ \A i \in 1..Capacity : u[i] = q[i + 1]
    BY <1>1, <2>2, SubSeqProperties
  <2> HIDE DEF u
  <2>4. count' = Capacity /\ Len(r) = Capacity
    BY <1>1, <1>2, <1>4, <1>7
  <2>5. ASSUME NEW i \in 1..Capacity PROVE u[i] = r[i]
    <3>1. i \in 1..count' /\ i + 1 \in 1..(count + 1)
      BY <1>1, <1>7, <2>4
    <3>2. r[i] = totalWritten' - count' + i /\ q[i + 1] = totalWritten - count + (i + 1)
      BY <1>4, <1>5, <3>1
    <3> QED BY <1>1, <1>2, <1>7, <2>3, <2>4, <3>2
  <2>6. Len(u) = Len(r) /\ \A i \in 1..Len(u) : u[i] = r[i]
    BY <2>3, <2>4, <2>5
  <2>7. u = r
    BY <1>4, <2>3, <2>6, SeqEqual
  <2> QED BY <1>2, <2>1, <2>7 DEF Recent!Push, q, r
<1> QED BY <1>1, <1>6, <1>7

\* A drain passes on the list and empties it.
LEMMA DrainRefines ==
  ASSUME IInv, Drain
  PROVE  Recent!Drain
<1>1. count > 0 /\ count' = 0 /\ drained' = Held
  BY DEF Drain, ClearPositions
<1>2. Held # <<>>
  BY <1>1, HeldIsASequence, EmptySeq DEF HeldIsTail
<1>3. Held' = <<>>
  BY <1>1 DEF Held
<1> QED BY <1>1, <1>2, <1>3 DEF Recent!Drain

\* What operator[] and drain read is the list of the most recent trades, at most
\* Capacity of them, whatever the counters have become.
THEOREM BufferImplementsRecent == Spec => ImplementsRecent
<1>1. Init => Recent!Init
  BY DEF Init, Recent!Init, Held
<1>2. ASSUME IInv, IInv', [Next]_vars
      PROVE  [Recent!Next]_<<Held, drained>>
  <2>1. CASE PushTrade
    <3>1. totalWritten + 1 \in 1..MaxTrades
      BY <1>2, <2>1, BoundAssumption DEF PushTrade, IInv, TypeOK
    <3> QED BY <1>2, <2>1, <3>1, PushRefines DEF Recent!Next
  <2>2. CASE Drain
    BY <1>2, <2>2, DrainRefines DEF Recent!Next
  <2>3. CASE UNCHANGED vars
    <3>1. UNCHANGED <<count, writePos, buffer, drained>>
      BY <2>3 DEF vars
    <3>2. UNCHANGED Oldest
      BY <3>1 DEF Oldest
    <3>3. UNCHANGED Held
      BY <3>1, <3>2 DEF Held
    <3> QED BY <3>1, <3>3
  <2> QED BY <1>2, <2>1, <2>2, <2>3 DEF Next, Stop
<1> QED BY <1>1, <1>2, Invariance, PTL DEF Spec, ImplementsRecent, Recent!Spec
=============================================================================
