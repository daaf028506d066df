-------------------------- MODULE OrderBookProofs ---------------------------
(***************************************************************************)
(* The order book, for any number of orders, prices, quantities and any    *)
(* threshold of compaction: first what the operations of a level do to the *)
(* orders that rest in it, then the invariant of the book.                 *)
(***************************************************************************)
EXTENDS OrderBook, FiniteSetTheorems, SequenceTheorems, TLAPS

Slot  == Ids \cup {Hole}
Level == [orders : Seq(Slot), head : Nat]
Span(lv) == (lv.head + 1)..Len(lv.orders)

\* A level: behind the cursor the orders stand as they came, earliest first.
Queue(lv) ==
  /\ lv \in Level /\ lv.head <= Len(lv.orders)
  /\ \A i, j \in Span(lv) :
       i < j /\ lv.orders[i] # Hole /\ lv.orders[j] # Hole => lv.orders[i] < lv.orders[j]

Servable(lv) == ~LevelEmpty(lv) /\ LevelFront(lv) # Hole
-----------------------------------------------------------------------------
(* Least elements. *)

\* A set of naturals that is not empty has a least element.
LEMMA LeastNatural ==
  ASSUME NEW S \in SUBSET Nat, S # {}
  PROVE  /\ Min(S) \in S
         /\ \A x \in S : Min(S) <= x
<1> DEFINE T == {0..m : m \in S}
           R == StrictSubsetOrdering(Nat)
<1>1. T \subseteq FiniteSubsetsOf(Nat) /\ T # {}
  <2>1. ASSUME NEW m \in Nat PROVE 0..m \subseteq Nat /\ IsFiniteSet(0..m)
    BY FS_Interval
  <2> QED BY <2>1 DEF FiniteSubsetsOf
<1>2. PICK x \in T : \A y \in T : <<y, x>> \notin R
  <2>1. IsWellFoundedOn(R, FiniteSubsetsOf(Nat))
    BY FS_StrictSubsetOrderingWellFounded
  <2> HIDE DEF T, R
  <2> QED BY <1>1, <2>1, WFMin
<1>3. PICK m \in S : x = 0..m
  OBVIOUS
<1>4. ASSUME NEW y \in S PROVE m <= y
  <2>1. SUFFICES ASSUME y < m PROVE FALSE
    OBVIOUS
  <2>2. 0..y \subseteq 0..m /\ m \in 0..m /\ m \notin 0..y /\ 0..m \subseteq Nat
    BY <2>1
  <2>3. <<0..y, x>> \in R
    BY <1>3, <2>2 DEF StrictSubsetOrdering
  <2> QED BY <1>2, <2>3
<1> QED BY <1>4, Zenon DEF Min

\* Among finitely many prices one is served first.
LEMMA BestExists ==
  ASSUME NEW s \in Sides, NEW P \in SUBSET Prices, P # {}
  PROVE  \E p \in P : \A q \in P \ {p} : BetterPrice(s, p, q)
<1> DEFINE Best(U) == \E p \in U : \A q \in U \ {p} : BetterPrice(s, p, q)
           T == {U \in SUBSET P : U # {} /\ ~Best(U)}
           R == StrictSubsetOrdering(P)
<1>a. \A p \in P : p \in Nat
  BY OrderAssumption
<1> SUFFICES ASSUME ~Best(P) PROVE FALSE
  OBVIOUS
<1>1. IsFiniteSet(P) /\ \A U \in SUBSET P : IsFiniteSet(U)
  <2>1. IsFiniteSet(P)
    BY OrderAssumption, FS_Subset
  <2> QED BY <2>1, FS_Subset
<1>2. T \subseteq FiniteSubsetsOf(P) /\ T # {}
  BY <1>1 DEF FiniteSubsetsOf
<1>3. PICK U \in T : \A V \in T : <<V, U>> \notin R
  <2>1. IsWellFoundedOn(R, FiniteSubsetsOf(P))
    BY FS_StrictSubsetOrderingWellFounded
  <2> HIDE DEF T, R
  <2> QED BY <1>2, <2>1, WFMin
<1>4. PICK x \in U : TRUE
  OBVIOUS
<1> DEFINE V == U \ {x}
<1>5. V # {}
  OBVIOUS
<1>6. V \notin T
  <2>1. <<V, U>> \in R
    BY <1>4 DEF StrictSubsetOrdering
  <2> QED BY <1>3, <2>1
<1>7. Best(V)
  BY <1>5, <1>6
<1>8. PICK p \in V : \A q \in V \ {p} : BetterPrice(s, p, q)
  BY <1>7
<1>9. p \in Nat /\ x \in Nat /\ p # x /\ \A q \in U : q \in Nat
  BY <1>a, <1>4, <1>8
<1>10. CASE BetterPrice(s, p, x)
  <2>1. \A q \in U \ {p} : BetterPrice(s, p, q)
    BY <1>8, <1>10
  <2> QED BY <2>1
<1>11. CASE BetterPrice(s, x, p)
  <2>1. \A q \in U \ {x} : BetterPrice(s, x, q)
    BY <1>8, <1>9, <1>11 DEF BetterPrice
  <2> QED BY <2>1
<1> QED BY <1>9, <1>10, <1>11 DEF BetterPrice
-----------------------------------------------------------------------------
(* PriceLevel *)

\* What rests in a level, place by place.
LEMMA LiveByPlace ==
  ASSUME NEW lv \in Level
  PROVE  /\ LiveIn(lv) \subseteq Ids
         /\ \A o : o \in LiveIn(lv) <=> o # Hole /\ \E i \in Span(lv) : lv.orders[i] = o
<1>1. \A i \in Span(lv) : lv.orders[i] \in Slot
  BY LenProperties DEF Level, Span
<1> QED BY <1>1 DEF LiveIn, Span, Slot

\* A level at its end is empty.
LEMMA EmptyHasNone ==
  ASSUME NEW lv, Queue(lv), LevelEmpty(lv)
  PROVE  LiveIn(lv) = {}
<1>1. lv \in Level /\ Len(lv.orders) \in Nat /\ lv.head \in Nat
  BY LenProperties DEF Queue, Level
<1>2. Span(lv) = {}
  BY <1>1 DEF Span, LevelEmpty
<1> QED BY <1>1, <1>2, LiveByPlace

\* A servable level has its front, the earliest of all.
LEMMA FrontIsFirst ==
  ASSUME NEW lv, Queue(lv), Servable(lv)
  PROVE  /\ lv.head + 1 \in Span(lv)
         /\ LevelFront(lv) \in LiveIn(lv) /\ LevelFront(lv) \in Ids
         /\ \A o \in LiveIn(lv) \ {LevelFront(lv)} : LevelFront(lv) < o
         /\ FrontLive(lv) = lv
<1>1. lv \in Level /\ Len(lv.orders) \in Nat /\ lv.head \in Nat
  BY LenProperties DEF Queue, Level
<1>2. lv.head + 1 \in Span(lv) /\ LevelFront(lv) = lv.orders[lv.head + 1]
  BY <1>1 DEF Span, Servable, LevelEmpty, LevelFront
<1>3. LevelFront(lv) \in LiveIn(lv)
  BY <1>1, <1>2, LiveByPlace DEF Servable
<1>4. ASSUME NEW o \in LiveIn(lv), o # LevelFront(lv) PROVE LevelFront(lv) < o
  <2>1. PICK i \in Span(lv) : lv.orders[i] = o /\ o # Hole
    BY <1>1, LiveByPlace
  <2>2. lv.head + 1 < i
    BY <1>1, <1>2, <1>4, <2>1 DEF Span
  <2> QED BY <1>2, <2>1, <2>2 DEF Queue, Servable
<1>5. FrontLive(lv) = lv
  BY DEF FrontLive, Servable
<1> QED BY <1>1, <1>2, <1>3, <1>4, <1>5, LiveByPlace

\* The cursor comes to rest at the end or at an order, past holes only.
LEMMA PastHolesStops ==
  ASSUME NEW v \in Seq(Slot), NEW h \in 0..Len(v)
  PROVE  /\ PastHoles(v, h) \in h..Len(v)
         /\ PastHoles(v, h) = Len(v) \/ v[PastHoles(v, h) + 1] # Hole
         /\ \A i \in (h + 1)..PastHoles(v, h) : v[i] = Hole
<1> DEFINE S == {i \in h..Len(v) : i = Len(v) \/ v[i + 1] # Hole}
           k == Min(S)
<1>1. Len(v) \in Nat /\ h \in Nat
  BY LenProperties
<1>2. Len(v) \in S /\ S \subseteq Nat
  BY <1>1
<1>3. k \in S /\ \A x \in S : k <= x
  <2> HIDE DEF S
  <2> QED BY <1>2, LeastNatural
<1>4. ASSUME NEW i \in (h + 1)..k PROVE v[i] = Hole
  <2>1. i - 1 \in h..Len(v) /\ i - 1 < k /\ (i - 1) + 1 = i /\ i - 1 # Len(v)
    BY <1>1, <1>3
  <2>2. i - 1 \notin S
    BY <1>3, <2>1
  <2> QED BY <2>1, <2>2
<1>5. PastHoles(v, h) = k
  BY DEF PastHoles
<1> QED BY <1>3, <1>4, <1>5

\* Moving the cursor to h and past the holes leaves what lies behind h.
LEMMA CursorMoves ==
  ASSUME NEW lv, Queue(lv), NEW h \in lv.head..Len(lv.orders)
  PROVE  LET n == [lv EXCEPT !.head = PastHoles(lv.orders, h)] IN
         /\ Queue(n)
         /\ Servable(n) \/ LevelEmpty(n)
         /\ \A o : o \in LiveIn(n) <=>
                     o # Hole /\ \E i \in (h + 1)..Len(lv.orders) : lv.orders[i] = o
<1> DEFINE k == PastHoles(lv.orders, h)
           n == [lv EXCEPT !.head = k]
<1>1. lv \in Level /\ lv.orders \in Seq(Slot) /\ Len(lv.orders) \in Nat /\ lv.head \in Nat
  BY LenProperties DEF Queue, Level
<1>2. h \in 0..Len(lv.orders)
  BY <1>1
<1>3. /\ k \in h..Len(lv.orders)
      /\ k = Len(lv.orders) \/ lv.orders[k + 1] # Hole
      /\ \A i \in (h + 1)..k : lv.orders[i] = Hole
  BY <1>1, <1>2, PastHolesStops
<1> HIDE DEF k
<1>4. n \in Level /\ n.orders = lv.orders /\ n.head = k
  BY <1>1, <1>2, <1>3 DEF Level
<1> HIDE DEF n
<1>5. \A i \in Span(n) : i \in Span(lv)
  BY <1>1, <1>3, <1>4 DEF Span
<1>6. Queue(n)
  BY <1>1, <1>3, <1>4, <1>5 DEF Queue
<1>7. Servable(n) \/ LevelEmpty(n)
  BY <1>1, <1>3, <1>4 DEF Servable, LevelEmpty, LevelFront
<1>8. ASSUME NEW o
      PROVE  o \in LiveIn(n) <=> o # Hole /\ \E i \in (h + 1)..Len(lv.orders) : lv.orders[i] = o
  <2>1. o \in LiveIn(n) <=> o # Hole /\ \E i \in (k + 1)..Len(lv.orders) : lv.orders[i] = o
    BY <1>4, LiveByPlace DEF Span
  <2>2. ASSUME NEW i \in (h + 1)..Len(lv.orders), lv.orders[i] # Hole
        PROVE  i \in (k + 1)..Len(lv.orders)
    BY <1>1, <1>2, <1>3, <2>2
  <2>3. ASSUME NEW i \in (k + 1)..Len(lv.orders) PROVE i \in (h + 1)..Len(lv.orders)
    BY <1>1, <1>2, <1>3
  <2> QED BY <2>1, <2>2, <2>3
<1> QED BY <1>6, <1>7, <1>8 DEF n, k

\* Erasing the dead prefix changes no order that rests.
LEMMA CompactKeeps ==
  ASSUME NEW lv, Queue(lv), Servable(lv) \/ LevelEmpty(lv)
  PROVE  /\ Queue(Compact(lv)) /\ LiveIn(Compact(lv)) = LiveIn(lv)
         /\ Servable(Compact(lv)) \/ LevelEmpty(Compact(lv))
<1> DEFINE h == lv.head
           m == Len(lv.orders)
           v == SubSeq(lv.orders, h + 1, m)
           n == Compact(lv)
<1>1. lv \in Level /\ lv.orders \in Seq(Slot) /\ m \in Nat /\ h \in Nat /\ h <= m
  BY LenProperties DEF Queue, Level
<1>2. /\ v \in Seq(Slot) /\ Len(v) = m - h
      /\ \A i \in 1..(m - h) : v[i] = lv.orders[h + i]
  <2>1. \A i \in (h + 1)..m : lv.orders[i] \in Slot
    BY <1>1, LenProperties
  <2>2. h + 1 \in Int /\ m \in Int
    BY <1>1
  <2>3. /\ v \in Seq(Slot) /\ Len(v) = IF h + 1 <= m THEN m - (h + 1) + 1 ELSE 0
        /\ \A i \in 1..(m - (h + 1) + 1) : v[i] = lv.orders[h + 1 + i - 1]
    <3> HIDE DEF h, m
    <3> QED BY <2>1, <2>2, SubSeqProperties
  <2>4. m - (h + 1) + 1 = m - h
    BY <1>1
  <2>5. \A i \in 1..(m - h) : h + 1 + i - 1 = h + i
    BY <1>1
  <2> HIDE DEF v, h, m
  <2> QED BY <1>1, <2>3, <2>4, <2>5
<1>3. n = [orders |-> v, head |-> 0]
  BY DEF Compact
<1> HIDE DEF n, v
<1>4. n \in Level /\ n.orders = v /\ n.head = 0
  BY <1>2, <1>3 DEF Level
<1>5. \A i \in Span(n) : i \in 1..(m - h) /\ h + i \in Span(lv) /\ n.orders[i] = lv.orders[h + i]
  BY <1>1, <1>2, <1>4 DEF Span
<1>6. ASSUME NEW i \in Span(lv)
      PROVE  i - h \in Span(n) /\ h + (i - h) = i
  BY <1>1, <1>2, <1>4 DEF Span
<1>7. Queue(n)
  <2>1. ASSUME NEW i \in Span(n), NEW j \in Span(n), i < j,
               n.orders[i] # Hole, n.orders[j] # Hole
        PROVE  n.orders[i] < n.orders[j]
    <3>1. h + i < h + j
      BY <1>1, <1>5, <2>1
    <3> QED BY <1>5, <2>1, <3>1 DEF Queue
  <2>2. 0 <= m - h
    BY <1>1
  <2> QED BY <1>2, <1>4, <2>1, <2>2 DEF Queue
<1>8. LiveIn(n) = LiveIn(lv)
  <2>1. ASSUME NEW o \in LiveIn(n) PROVE o \in LiveIn(lv)
    <3>1. PICK i \in Span(n) : n.orders[i] = o /\ o # Hole
      BY <1>4, LiveByPlace
    <3>2. h + i \in Span(lv) /\ lv.orders[h + i] = o
      BY <1>5, <3>1
    <3> QED BY <1>1, <3>1, <3>2, LiveByPlace
  <2>2. ASSUME NEW o \in LiveIn(lv) PROVE o \in LiveIn(n)
    <3>1. PICK i \in Span(lv) : lv.orders[i] = o /\ o # Hole
      BY <1>1, LiveByPlace
    <3>2. i - h \in Span(n) /\ n.orders[i - h] = o
      BY <1>5, <1>6, <3>1
    <3> QED BY <1>4, <3>1, <3>2, LiveByPlace
  <2> QED BY <2>1, <2>2
<1>9. Servable(n) \/ LevelEmpty(n)
  <2>1. CASE LevelEmpty(lv)
    <3>1. m - h <= 0
      BY <1>1, <2>1 DEF LevelEmpty
    <3> QED BY <1>1, <1>2, <1>4, <3>1 DEF LevelEmpty
  <2>2. CASE Servable(lv)
    <3>1. ~(h >= m) /\ lv.orders[h + 1] # Hole
      BY <2>2 DEF Servable, LevelEmpty, LevelFront
    <3>2. 1 \in 1..(m - h) /\ 0 < m - h
      BY <1>1, <3>1
    <3>3. n.orders[0 + 1] # Hole /\ ~(0 >= Len(n.orders))
      BY <1>2, <1>4, <3>1, <3>2
    <3> QED BY <1>4, <3>3 DEF Servable, LevelEmpty, LevelFront
  <2> QED BY <2>1, <2>2
<1> QED BY <1>7, <1>8, <1>9 DEF n

\* pop_front takes the front away and leaves the level servable or empty.
LEMMA PopFrontTakesFront ==
  ASSUME NEW lv, Queue(lv), Servable(lv)
  PROVE  /\ Queue(LevelPopFront(lv))
         /\ Servable(LevelPopFront(lv)) \/ LevelEmpty(LevelPopFront(lv))
         /\ LiveIn(LevelPopFront(lv)) = LiveIn(lv) \ {LevelFront(lv)}
<1> DEFINE h == lv.head
           m == Len(lv.orders)
           adv == [lv EXCEPT !.head = PastHoles(lv.orders, h + 1)]
<1>1. lv \in Level /\ m \in Nat /\ h \in Nat /\ h < m
  BY LenProperties DEF Queue, Level, Servable, LevelEmpty
<1>2. h + 1 \in lv.head..Len(lv.orders)
  BY <1>1
<1>3. /\ Queue(adv)
      /\ Servable(adv) \/ LevelEmpty(adv)
      /\ \A o : o \in LiveIn(adv) <=> o # Hole /\ \E i \in (h + 1 + 1)..m : lv.orders[i] = o
  BY <1>2, CursorMoves
<1>4. LiveIn(adv) = LiveIn(lv) \ {LevelFront(lv)}
  <2> DEFINE f == LevelFront(lv)
  <2>1. f = lv.orders[h + 1] /\ f # Hole /\ h + 1 \in Span(lv)
    BY <1>1 DEF Servable, LevelFront, Span
  <2>2. ASSUME NEW o, o \in LiveIn(adv) PROVE o \in LiveIn(lv) /\ o # f
    <3>1. PICK i \in (h + 1 + 1)..m : lv.orders[i] = o /\ o # Hole
      BY <1>3, <2>2
    <3>2. i \in Span(lv) /\ h + 1 < i
      BY <1>1, <3>1 DEF Span
    <3>3. f \in Ids /\ o \in Ids /\ f < o
      <4>1. lv.orders[h + 1] < lv.orders[i]
        BY <2>1, <3>1, <3>2 DEF Queue
      <4>2. o \in LiveIn(lv) /\ f \in LiveIn(lv)
        BY <1>1, <2>1, <3>1, <3>2, LiveByPlace
      <4> QED BY <1>1, <2>1, <3>1, <4>1, <4>2, LiveByPlace
    <3> QED BY <1>1, <3>1, <3>2, <3>3, LiveByPlace DEF Ids
  <2>3. ASSUME NEW o, o \in LiveIn(lv), o # f PROVE o \in LiveIn(adv)
    <3>1. PICK i \in Span(lv) : lv.orders[i] = o /\ o # Hole
      BY <1>1, <2>3, LiveByPlace
    <3>2. i # h + 1
      BY <2>1, <2>3, <3>1
    <3>3. i \in (h + 1 + 1)..m
      BY <1>1, <3>1, <3>2 DEF Span
    <3> QED BY <1>3, <3>1, <3>3
  <2> QED BY <2>2, <2>3
<1>5. LevelPopFront(lv) = adv \/ LevelPopFront(lv) = Compact(adv)
  BY DEF LevelPopFront
<1>6. /\ Queue(Compact(adv)) /\ LiveIn(Compact(adv)) = LiveIn(adv)
      /\ Servable(Compact(adv)) \/ LevelEmpty(Compact(adv))
  <2> HIDE DEF adv
  <2> QED BY <1>3, CompactKeeps
<1> HIDE DEF adv
<1> QED BY <1>3, <1>4, <1>5, <1>6

\* push puts a later order behind the others, and makes an empty level servable.
LEMMA PushPutsLast ==
  ASSUME NEW lv, Queue(lv), Servable(lv) \/ LevelEmpty(lv),
         NEW o \in Ids, \A x \in LiveIn(lv) : x < o
  PROVE  /\ Queue(LevelPush(lv, o)) /\ Servable(LevelPush(lv, o))
         /\ LiveIn(LevelPush(lv, o)) = LiveIn(lv) \cup {o}
<1> DEFINE h == lv.head
           m == Len(lv.orders)
           v == Append(lv.orders, o)
           n == LevelPush(lv, o)
<1>1. lv \in Level /\ lv.orders \in Seq(Slot) /\ m \in Nat /\ h \in Nat /\ h <= m
  BY LenProperties DEF Queue, Level
<1>2. o # Hole /\ o \in Slot
  BY DEF Hole, None, Slot, Ids
<1>3. /\ v \in Seq(Slot) /\ Len(v) = m + 1
      /\ \A i \in 1..m : v[i] = lv.orders[i]
      /\ v[m + 1] = o
  BY <1>1, <1>2, AppendProperties
<1>4. n \in Level /\ n.orders = v /\ n.head = h
  BY <1>1, <1>3 DEF LevelPush, Level
<1> HIDE DEF n, v
<1>5. /\ \A i \in Span(n) : i = m + 1 \/ (i \in Span(lv) /\ i < m + 1)
      /\ \A i \in Span(lv) : i \in Span(n) /\ n.orders[i] = lv.orders[i]
      /\ m + 1 \in Span(n) /\ n.orders[m + 1] = o
  BY <1>1, <1>3, <1>4 DEF Span
<1>6. ASSUME NEW i \in Span(lv), lv.orders[i] # Hole PROVE lv.orders[i] < o
  BY <1>1, <1>6, LiveByPlace
<1>7. Queue(n)
  <2>1. ASSUME NEW i \in Span(n), NEW j \in Span(n), i < j,
               n.orders[i] # Hole, n.orders[j] # Hole
        PROVE  n.orders[i] < n.orders[j]
    <3>1. i \in Span(lv)
      BY <1>1, <1>5, <2>1 DEF Span
    <3>2. CASE j = m + 1
      BY <1>5, <1>6, <2>1, <3>1, <3>2
    <3>3. CASE j \in Span(lv)
      BY <1>5, <2>1, <3>1, <3>3 DEF Queue
    <3> QED BY <1>5, <3>2, <3>3
  <2>2. h <= m + 1
    BY <1>1
  <2> QED BY <1>3, <1>4, <2>1, <2>2 DEF Queue
<1>8. LiveIn(n) = LiveIn(lv) \cup {o}
  BY <1>1, <1>2, <1>4, <1>5, LiveByPlace
<1>9. Servable(n)
  <2>1. ~(h >= m + 1)
    BY <1>1
  <2>2. n.orders[h + 1] # Hole
    <3>1. CASE LevelEmpty(lv)
      <4>1. h = m
        BY <1>1, <3>1 DEF LevelEmpty
      <4> QED BY <1>2, <1>5, <4>1
    <3>2. CASE Servable(lv)
      <4>1. h + 1 \in Span(lv) /\ lv.orders[h + 1] # Hole
        BY <1>1, <3>2 DEF Servable, LevelEmpty, LevelFront, Span
      <4> QED BY <1>5, <4>1
    <3> QED BY <3>1, <3>2
  <2> QED BY <1>3, <1>4, <2>1, <2>2 DEF Servable, LevelEmpty, LevelFront
<1> QED BY <1>7, <1>8, <1>9 DEF n

\* A level just opened is empty.
LEMMA NewLevelEmpty == Queue(NewLevel) /\ LevelEmpty(NewLevel) /\ LiveIn(NewLevel) = {}
<1>1. <<>> \in Seq(Slot) /\ Len(<<>>) = 0
  BY EmptySeq
<1>2. NewLevel.orders = <<>> /\ NewLevel.head = 0 /\ NewLevel \in Level
  BY <1>1 DEF NewLevel, Level
<1>3. Queue(NewLevel)
  BY <1>1, <1>2 DEF Queue, Span
<1>4. LevelEmpty(NewLevel)
  BY <1>1, <1>2 DEF LevelEmpty
<1> QED BY <1>3, <1>4, EmptyHasNone

\* remove_from_level takes one order out, wherever it lies.
LEMMA RemoveTakesOne ==
  ASSUME NEW lv, Queue(lv), NEW o \in Ids
  PROVE  /\ Queue(RemoveFromLevel(lv, o))
         /\ Servable(RemoveFromLevel(lv, o)) \/ LevelEmpty(RemoveFromLevel(lv, o))
         /\ LiveIn(RemoveFromLevel(lv, o)) = LiveIn(lv) \ {o}
<1> DEFINE h == lv.head
           m == Len(lv.orders)
           v == [i \in DOMAIN lv.orders |-> IF i > h /\ lv.orders[i] = o THEN Hole
                                            ELSE lv.orders[i]]
           w == [lv EXCEPT !.orders = v]
           n == RemoveFromLevel(lv, o)
<1>1. /\ lv \in Level /\ lv.orders \in Seq(Slot) /\ m \in Nat /\ h \in Nat /\ h <= m
      /\ DOMAIN lv.orders = 1..m /\ \A i \in 1..m : lv.orders[i] \in Slot
  BY LenProperties DEF Queue, Level
<1>2. v \in [1..m -> Slot] /\ Hole \in Slot
  BY <1>1 DEF Slot
<1>3. v \in Seq(Slot) /\ Len(v) = m
  <2>1. v \in Seq(Slot)
    BY <1>1, <1>2
  <2> QED BY <1>1, <1>2, <2>1, LenProperties
<1>4. w \in Level /\ w.orders = v /\ w.head = h
  BY <1>1, <1>3 DEF Level
<1>5. n = [w EXCEPT !.head = PastHoles(w.orders, w.head)]
  BY <1>4 DEF RemoveFromLevel, SkipHoles
<1>6. \A i \in Span(lv) : v[i] = IF lv.orders[i] = o THEN Hole ELSE lv.orders[i]
  BY <1>1 DEF Span
<1> HIDE DEF v, w, n
<1>7. Span(w) = Span(lv)
  BY <1>3, <1>4 DEF Span
<1>8. Queue(w)
  <2>1. ASSUME NEW i \in Span(w), NEW j \in Span(w), i < j,
               w.orders[i] # Hole, w.orders[j] # Hole
        PROVE  w.orders[i] < w.orders[j]
    BY <1>4, <1>6, <1>7, <2>1 DEF Queue
  <2> QED BY <1>1, <1>3, <1>4, <2>1 DEF Queue
<1>9. w.head \in w.head..Len(w.orders)
  BY <1>1, <1>3, <1>4
<1>10. /\ Queue(n)
       /\ Servable(n) \/ LevelEmpty(n)
       /\ \A x : x \in LiveIn(n) <=>
                   x # Hole /\ \E i \in (h + 1)..Len(w.orders) : w.orders[i] = x
  BY <1>4, <1>5, <1>8, <1>9, CursorMoves
<1>11. \A x : x \in LiveIn(n) <=> x # Hole /\ \E i \in Span(lv) : v[i] = x
  BY <1>3, <1>4, <1>10 DEF Span
<1>12. LiveIn(n) = LiveIn(lv) \ {o}
  BY <1>1, <1>6, <1>11, LiveByPlace
<1> QED BY <1>10, <1>12 DEF n
-----------------------------------------------------------------------------
(* Both sides of a book: L is a value of levels, ord one of order. *)

\* o is a limit order of side s at price p.
Home(ord, o, s, p) == ord[o] \in Limits /\ ord[o].side = s /\ ord[o].price = p

\* Every level is a queue of orders of its own side and price.
Shape(L, ord) ==
  /\ DOMAIN L = Sides
  /\ \A s \in Sides : DOMAIN L[s] \subseteq Prices
  /\ \A s \in Sides : \A p \in DOMAIN L[s] :
       /\ Queue(L[s][p])
       /\ \A o \in LiveIn(L[s][p]) : Home(ord, o, s, p)

\* What rests at a price, and in the whole book.
At(L, s, p) == IF p \in DOMAIN L[s] THEN LiveIn(L[s][p]) ELSE {}
LiveOf(L) == {o \in Ids : \E s \in Sides, p \in Prices : o \in At(L, s, p)}

\* An order that rests is where its own side and price lead to.
LEMMA InPlace ==
  ASSUME NEW L, NEW ord, Shape(L, ord)
  PROVE  /\ \A s \in Sides, p \in Prices : \A o \in At(L, s, p) :
              Home(ord, o, s, p) /\ o \in LiveOf(L)
         /\ \A o \in LiveOf(L) :
              /\ ord[o] \in Limits /\ ord[o].side \in Sides /\ ord[o].price \in Prices
              /\ o \in At(L, ord[o].side, ord[o].price)
<1>1. ASSUME NEW s \in Sides, NEW p \in Prices, NEW o \in At(L, s, p)
      PROVE  Home(ord, o, s, p) /\ o \in Ids
  <2>1. p \in DOMAIN L[s] /\ o \in LiveIn(L[s][p])
    BY DEF At
  <2>2. Queue(L[s][p]) /\ Home(ord, o, s, p)
    BY <2>1 DEF Shape
  <2>3. L[s][p] \in Level
    BY <2>2 DEF Queue
  <2> QED BY <2>1, <2>2, <2>3, LiveByPlace
<1> QED BY <1>1 DEF LiveOf, Home

\* Levels hold orders of their own side and price, in the order they came.
Homes == Shape(levels, order)

\* Live is what rests in the levels.
LEMMA LiveIsLiveOf == Homes => Live = LiveOf(levels)
<1> SUFFICES ASSUME Shape(levels, order) PROVE Live = LiveOf(levels)
  BY DEF Homes
<1>1. ASSUME NEW o \in Live PROVE o \in LiveOf(levels)
  <2>1. PICK s \in Sides : \E p \in DOMAIN levels[s] : o \in LiveIn(levels[s][p])
    BY DEF Live, LiveOn, Sides
  <2>2. PICK p \in DOMAIN levels[s] : o \in LiveIn(levels[s][p])
    BY <2>1
  <2>3. p \in Prices /\ o \in At(levels, s, p)
    BY <2>2 DEF Shape, At
  <2> QED BY <2>3, InPlace
<1>2. ASSUME NEW o \in LiveOf(levels) PROVE o \in Live
  <2>1. PICK s \in Sides : \E p \in Prices : o \in At(levels, s, p)
    BY DEF LiveOf
  <2>2. PICK p \in Prices : o \in At(levels, s, p)
    BY <2>1
  <2>3. p \in DOMAIN levels[s] /\ o \in LiveIn(levels[s][p])
    BY <2>2 DEF At
  <2>4. o \in LiveOn(s)
    BY <2>3 DEF LiveOn
  <2> QED BY <2>4 DEF Live, Sides
<1> QED BY <1>1, <1>2

\* One order less at one price is one order less in the book.
LEMMA OneLess ==
  ASSUME NEW L, NEW N, NEW ord, Shape(L, ord), Shape(N, ord),
         NEW s \in Sides, NEW p \in Prices, NEW x,
         Home(ord, x, s, p),
         \A t \in Sides, q \in Prices :
           At(N, t, q) = IF t = s /\ q = p THEN At(L, s, p) \ {x} ELSE At(L, t, q)
  PROVE  LiveOf(N) = LiveOf(L) \ {x}
<1>1. ASSUME NEW o \in LiveOf(N) PROVE o \in LiveOf(L) /\ o # x
  <2>1. PICK t \in Sides, q \in Prices : o \in At(N, t, q)
    BY DEF LiveOf
  <2>2. Home(ord, o, t, q)
    BY <2>1, InPlace
  <2>3. o \in At(L, t, q) /\ (t = s /\ q = p => o # x)
    BY <2>1
  <2> QED BY <2>2, <2>3, InPlace DEF Home
<1>2. ASSUME NEW o \in LiveOf(L), o # x PROVE o \in LiveOf(N)
  <2>1. PICK t \in Sides, q \in Prices : o \in At(L, t, q)
    BY DEF LiveOf
  <2>2. o \in At(N, t, q)
    BY <1>2, <2>1
  <2> QED BY <2>2, InPlace
<1> QED BY <1>1, <1>2

\* One order more at one price is one order more in the book.
LEMMA OneMore ==
  ASSUME NEW L, NEW N, NEW ord, Shape(L, ord), Shape(N, ord),
         NEW s \in Sides, NEW p \in Prices, NEW x,
         \A t \in Sides, q \in Prices :
           At(N, t, q) = IF t = s /\ q = p THEN At(L, s, p) \cup {x} ELSE At(L, t, q)
  PROVE  LiveOf(N) = LiveOf(L) \cup {x}
<1>1. ASSUME NEW o \in LiveOf(N) PROVE o \in LiveOf(L) \cup {x}
  <2>1. PICK t \in Sides, q \in Prices : o \in At(N, t, q)
    BY DEF LiveOf
  <2>2. o = x \/ o \in At(L, t, q)
    BY <2>1
  <2> QED BY <2>2, InPlace
<1>2. ASSUME NEW o \in LiveOf(L) PROVE o \in LiveOf(N)
  <2>1. PICK t \in Sides, q \in Prices : o \in At(L, t, q)
    BY DEF LiveOf
  <2>2. o \in At(N, t, q)
    BY <2>1
  <2> QED BY <2>2, InPlace
<1>3. x \in LiveOf(N)
  <2>1. x \in At(N, s, p)
    OBVIOUS
  <2> QED BY <2>1, InPlace
<1> QED BY <1>1, <1>2, <1>3

\* Nothing moves when no price changes.
LEMMA NoneMoves ==
  ASSUME NEW L, NEW N, \A t \in Sides, q \in Prices : At(N, t, q) = At(L, t, q)
  PROVE  LiveOf(N) = LiveOf(L)
BY DEF LiveOf

\* The book with another level at a price, or with none.
WithLevel(L, s, p, lv) == [L EXCEPT ![s] = Put(@, p, lv)]
WithoutLevel(L, s, p)  == [L EXCEPT ![s] = Drop(@, p)]

\* A level put at a price.
LEMMA PutLevel ==
  ASSUME NEW L, NEW ord, Shape(L, ord), NEW s \in Sides, NEW p \in Prices,
         NEW lv, Queue(lv), \A o \in LiveIn(lv) : Home(ord, o, s, p),
         NEW N, N = WithLevel(L, s, p, lv)
  PROVE  /\ Shape(N, ord)
         /\ DOMAIN N[s] = DOMAIN L[s] \cup {p} /\ N[s][p] = lv
         /\ \A t \in Sides : t # s => N[t] = L[t]
         /\ \A q \in DOMAIN L[s] : q # p => N[s][q] = L[s][q]
         /\ \A t \in Sides, q \in Prices :
              At(N, t, q) = IF t = s /\ q = p THEN LiveIn(lv) ELSE At(L, t, q)
<1>1. /\ DOMAIN N = Sides /\ N[s] = Put(L[s], p, lv)
      /\ \A t \in Sides : t # s => N[t] = L[t]
  BY DEF Shape, WithLevel
<1>2. DOMAIN N[s] = DOMAIN L[s] \cup {p} /\ N[s][p] = lv
  BY <1>1 DEF Put
<1>3. \A q \in DOMAIN L[s] : q # p => N[s][q] = L[s][q]
  BY <1>1 DEF Put
<1>4. Shape(N, ord)
  <2>1. \A t \in Sides : DOMAIN N[t] \subseteq Prices
    BY <1>1, <1>2 DEF Shape
  <2>2. ASSUME NEW t \in Sides, NEW q \in DOMAIN N[t]
        PROVE  Queue(N[t][q]) /\ \A o \in LiveIn(N[t][q]) : Home(ord, o, t, q)
    <3>1. CASE t = s /\ q = p
      BY <1>2, <3>1
    <3>2. CASE t # s
      BY <1>1, <3>2 DEF Shape
    <3>3. CASE t = s /\ q # p
      <4>1. q \in DOMAIN L[s] /\ N[s][q] = L[s][q]
        BY <1>2, <1>3, <2>2, <3>3
      <4> QED BY <3>3, <4>1 DEF Shape
    <3> QED BY <3>1, <3>2, <3>3
  <2> QED BY <1>1, <2>1, <2>2 DEF Shape
<1>5. ASSUME NEW t \in Sides, NEW q \in Prices
      PROVE  At(N, t, q) = IF t = s /\ q = p THEN LiveIn(lv) ELSE At(L, t, q)
  BY <1>1, <1>2, <1>3 DEF At
<1> QED BY <1>1, <1>2, <1>3, <1>4, <1>5

\* A level dropped.
LEMMA DropLevel ==
  ASSUME NEW L, NEW ord, Shape(L, ord), NEW s \in Sides, NEW p \in Prices,
         NEW N, N = WithoutLevel(L, s, p)
  PROVE  /\ Shape(N, ord)
         /\ DOMAIN N[s] = DOMAIN L[s] \ {p}
         /\ \A t \in Sides : t # s => N[t] = L[t]
         /\ \A q \in DOMAIN N[s] : N[s][q] = L[s][q]
         /\ \A t \in Sides, q \in Prices :
              At(N, t, q) = IF t = s /\ q = p THEN {} ELSE At(L, t, q)
<1>1. /\ DOMAIN N = Sides /\ N[s] = Drop(L[s], p)
      /\ \A t \in Sides : t # s => N[t] = L[t]
  BY DEF Shape, WithoutLevel
<1>2. DOMAIN N[s] = DOMAIN L[s] \ {p} /\ \A q \in DOMAIN N[s] : N[s][q] = L[s][q]
  BY <1>1 DEF Drop
<1>3. Shape(N, ord)
  <2>1. \A t \in Sides : DOMAIN N[t] \subseteq Prices
    BY <1>1, <1>2 DEF Shape
  <2>2. ASSUME NEW t \in Sides, NEW q \in DOMAIN N[t]
        PROVE  Queue(N[t][q]) /\ \A o \in LiveIn(N[t][q]) : Home(ord, o, t, q)
    <3>1. q \in DOMAIN L[t] /\ N[t][q] = L[t][q]
      BY <1>1, <1>2, <2>2
    <3> QED BY <3>1 DEF Shape
  <2> QED BY <1>1, <2>1, <2>2 DEF Shape
<1>4. ASSUME NEW t \in Sides, NEW q \in Prices
      PROVE  At(N, t, q) = IF t = s /\ q = p THEN {} ELSE At(L, t, q)
  BY <1>1, <1>2 DEF At
<1> QED BY <1>1, <1>2, <1>3, <1>4

\* Sweeping drops the empty levels, and with them no order.
LEMMA SweepLevels ==
  ASSUME NEW L, NEW ord, Shape(L, ord), NEW N, N = [s \in Sides |-> Swept(L[s])]
  PROVE  /\ Shape(N, ord)
         /\ \A s \in Sides : \A p \in DOMAIN N[s] :
              p \in DOMAIN L[s] /\ N[s][p] = L[s][p] /\ ~LevelEmpty(N[s][p])
         /\ LiveOf(N) = LiveOf(L)
<1>1. DOMAIN N = Sides /\ \A s \in Sides : N[s] = Swept(L[s])
  OBVIOUS
<1>2. ASSUME NEW s \in Sides
      PROVE  /\ DOMAIN N[s] = {q \in DOMAIN L[s] : ~LevelEmpty(L[s][q])}
             /\ \A p \in DOMAIN N[s] :
                  p \in DOMAIN L[s] /\ N[s][p] = L[s][p] /\ ~LevelEmpty(N[s][p])
  BY <1>1 DEF Swept
<1>3. Shape(N, ord)
  <2>1. \A t \in Sides : DOMAIN N[t] \subseteq Prices
    BY <1>2 DEF Shape
  <2>2. ASSUME NEW t \in Sides, NEW q \in DOMAIN N[t]
        PROVE  Queue(N[t][q]) /\ \A o \in LiveIn(N[t][q]) : Home(ord, o, t, q)
    BY <1>2 DEF Shape
  <2> QED BY <1>1, <2>1, <2>2 DEF Shape
<1>4. ASSUME NEW t \in Sides, NEW q \in Prices PROVE At(N, t, q) = At(L, t, q)
  <2>1. CASE q \in DOMAIN N[t]
    BY <1>2, <2>1 DEF At
  <2>2. CASE q \in DOMAIN L[t] /\ q \notin DOMAIN N[t]
    <3>1. q \notin {u \in DOMAIN L[t] : ~LevelEmpty(L[t][u])}
      BY <1>2, <2>2
    <3>2. LevelEmpty(L[t][q])
      BY <2>2, <3>1
    <3>3. Queue(L[t][q])
      BY <2>2 DEF Shape
    <3> QED BY <2>2, <3>2, <3>3, EmptyHasNone DEF At
  <2>3. CASE q \notin DOMAIN L[t]
    BY <1>2, <2>3 DEF At
  <2> QED BY <2>1, <2>2, <2>3
<1>5. LiveOf(N) = LiveOf(L)
  BY <1>4, NoneMoves
<1> QED BY <1>2, <1>3, <1>5
-----------------------------------------------------------------------------
(* The invariant of the book. *)

Fields ==
  /\ order \in [Ids -> OrderRecords]
  /\ filled \in [Ids -> 0..MaxQty]
  /\ status \in [Ids -> Statuses]
  /\ index \subseteq Ids
  /\ incoming \in Ids \cup {None} /\ handing \in Ids \cup {None}
  /\ handed \in [Ids -> Nat]

\* The limit order that is being matched.
Working == {o \in {incoming} \ {None} : order[o].type = "LIMIT"}
Indexed == index = Live \cup Working

\* At every moment, also while an order is matched, bids lie below asks.
Uncrossed == \A b \in DOMAIN levels["BUY"], a \in DOMAIN levels["SELL"] : b < a

\* A submitted object is in exactly one place, another one in none.
OnePlace ==
  \A o \in Ids :
    /\ handed[o] \in {0, 1}
    /\ order[o] = NotSubmitted
         <=> o \notin Live /\ o # incoming /\ o # handing /\ handed[o] = 0
    /\ o \in Live => o # incoming /\ o # handing /\ handed[o] = 0
    /\ o = incoming => o # handing /\ handed[o] = 0
    /\ o = handing => handed[o] = 0

\* Objects come one after the other, and the one being processed came last.
Numbered ==
  /\ \A x, y \in Ids : x < y /\ order[y] # NotSubmitted => order[x] # NotSubmitted
  /\ incoming # None => \A y \in Ids : incoming < y => order[y] = NotSubmitted

\* No order is filled beyond its quantity, and what rests has a remainder.
Accounts ==
  \A o \in Ids :
    /\ order[o] \in Limits => filled[o] <= order[o].qty
    /\ o \in Live => filled[o] < order[o].qty
    /\ o \in index => status[o] \in {"NEW", "PARTIAL"}
    /\ order[o] = NotSubmitted => filled[o] = 0 /\ status[o] = "NEW"

IInv ==
  /\ Fields
  /\ Homes
  /\ LevelsServable
  /\ Indexed
  /\ Uncrossed
  /\ OnePlace
  /\ Numbered
  /\ Accounts

\* The kinds of records, told apart by their type.
LEMMA Kinds ==
  ASSUME NEW rec \in OrderRecords
  PROVE  /\ rec.type = "LIMIT" <=> rec \in Limits
         /\ rec.type = "CANCEL" <=> rec \in Cancels
         /\ rec = NotSubmitted <=> rec \notin Limits /\ rec \notin Cancels
         /\ rec \in Limits => /\ rec.side \in Sides /\ rec.price \in Prices
                              /\ rec.qty \in 1..MaxQty
         /\ rec \in Cancels => rec.target \in Ids
<1>1. \A l \in Limits : /\ l.type = "LIMIT" /\ l.side \in Sides /\ l.price \in Prices
                        /\ l.qty \in 1..MaxQty
  BY DEF Limits
<1>2. \A c \in Cancels : c.type = "CANCEL" /\ c.target \in Ids
  BY DEF Cancels
<1>3. NotSubmitted.type = "NONE"
  BY DEF NotSubmitted
<1> QED BY <1>1, <1>2, <1>3 DEF OrderRecords

\* What the invariant says of the orders that rest.
LEMMA Resting ==
  ASSUME IInv
  PROVE  /\ Live = LiveOf(levels) /\ Live \subseteq Ids
         /\ \A o \in Live :
              /\ order[o] \in Limits /\ order[o].side \in Sides /\ order[o].price \in Prices
              /\ o \in At(levels, order[o].side, order[o].price)
         /\ \A s \in Sides : \A p \in DOMAIN levels[s] : \A o \in LiveIn(levels[s][p]) :
              o \in Live /\ Home(order, o, s, p)
<1>1. Shape(levels, order)
  BY DEF IInv, Homes
<1>2. Live = LiveOf(levels)
  BY LiveIsLiveOf DEF IInv
<1>3. ASSUME NEW s \in Sides, NEW p \in DOMAIN levels[s], NEW o \in LiveIn(levels[s][p])
      PROVE  o \in Live /\ Home(order, o, s, p)
  <2>1. p \in Prices /\ o \in At(levels, s, p)
    BY <1>1 DEF Shape, At
  <2> QED BY <1>1, <1>2, <2>1, InPlace
<1> QED BY <1>1, <1>2, <1>3, InPlace DEF LiveOf

\* When nothing is with the deallocator every level can be served.
LEMMA AllServable ==
  ASSUME IInv, handing = None
  PROVE  \A s \in Sides : \A p \in DOMAIN levels[s] : Servable(levels[s][p])
BY DEF IInv, LevelsServable, Servable

\* The object being processed.
LEMMA Incoming ==
  ASSUME IInv, incoming # None
  PROVE  /\ incoming \in Ids /\ incoming \notin Live /\ incoming # handing
         /\ handed[incoming] = 0 /\ order[incoming] # NotSubmitted
         /\ order[incoming] \in Limits \/ order[incoming] \in Cancels
         /\ Working = IF order[incoming] \in Limits THEN {incoming} ELSE {}
<1>1. incoming \in Ids /\ order[incoming] \in OrderRecords
  BY DEF IInv, Fields
<1>2. incoming \notin Live /\ incoming # handing /\ handed[incoming] = 0
  BY <1>1 DEF IInv, OnePlace
<1>3. order[incoming] # NotSubmitted
  BY <1>1 DEF IInv, OnePlace
<1>4. order[incoming].type = "LIMIT" <=> order[incoming] \in Limits
  BY <1>1, Kinds
<1>5. Working = IF order[incoming] \in Limits THEN {incoming} ELSE {}
  BY <1>4 DEF Working
<1> QED BY <1>1, <1>2, <1>3, <1>5, Kinds

\* The book as it is made.
LEMMA Initially == Init => IInv
<1> SUFFICES ASSUME Init PROVE IInv
  OBVIOUS
<1>1. /\ DOMAIN levels = Sides
      /\ \A s \in Sides : DOMAIN levels[s] = {}
  BY DEF Init
<1>2. Live = {}
  BY <1>1 DEF Live, LiveOn, Sides
<1>3. NotSubmitted \in OrderRecords /\ NotSubmitted \notin Limits
  BY DEF NotSubmitted, OrderRecords, Limits
<1>4. Fields
  BY <1>3, OrderAssumption DEF Init, Fields, Statuses
<1>5. Homes
  BY <1>1 DEF Homes, Shape
<1>6. LevelsServable
  BY <1>1 DEF LevelsServable
<1>7. Indexed
  BY <1>2 DEF Init, Indexed, Working
<1>8. Uncrossed
  BY <1>1 DEF Uncrossed, Sides
<1>9. OnePlace
  BY <1>2 DEF Init, OnePlace, Ids, None
<1>10. Numbered
  BY DEF Init, Numbered
<1>11. Accounts
  BY <1>2, <1>3 DEF Init, Accounts
<1> QED BY <1>4, <1>5, <1>6, <1>7, <1>8, <1>9, <1>10, <1>11 DEF IInv

\* A new object is submitted, a limit order or a cancel request.
LEMMA SubmitStep ==
  ASSUME IInv, NEW o \in Ids, NEW rec \in Limits \cup Cancels, Idle, NextObject(o),
         order' = [order EXCEPT ![o] = rec],
         index' = IF rec \in Limits THEN index \cup {o} ELSE index,
         incoming' = o,
         UNCHANGED <<filled, status, levels, handing, handed>>
  PROVE  IInv'
<1>1. incoming = None /\ handing = None /\ order[o] = NotSubmitted
  BY DEF Idle, NextObject
<1>2. o \notin Live /\ handed[o] = 0 /\ o # None
  BY <1>1 DEF IInv, OnePlace, Ids, None
<1>3. Live' = Live
  BY DEF Live, LiveOn
<1>4. rec \in OrderRecords /\ rec # NotSubmitted
  BY Kinds DEF OrderRecords
<1>5. Fields'
  BY <1>4 DEF IInv, Fields
<1>6. order'[o] = rec /\ \A x \in Ids : x # o => order'[x] = order[x]
  BY DEF IInv, Fields
<1>7. Homes'
  <2>1. ASSUME NEW s \in Sides, NEW p \in DOMAIN levels[s], NEW x \in LiveIn(levels[s][p])
        PROVE  Home(order', x, s, p)
    <3>1. x \in Ids /\ x # o /\ Home(order, x, s, p)
      BY <1>2, Resting
    <3> QED BY <1>6, <3>1 DEF Home
  <2>2. Shape(levels, order')
    BY <2>1 DEF IInv, Homes, Shape
  <2> QED BY <2>2 DEF Homes
<1>8. LevelsServable'
  BY <1>1 DEF IInv, LevelsServable
<1>9. Indexed'
  <2>1. Working = {}
    BY <1>1 DEF Working
  <2>2. Working' = {x \in {o} \ {None} : order'[x].type = "LIMIT"}
    BY DEF Working
  <2>3. Working' = IF rec \in Limits THEN {o} ELSE {}
    BY <1>2, <1>4, <1>6, <2>2, Kinds
  <2> QED BY <1>3, <2>1, <2>3 DEF IInv, Indexed
<1>10. Uncrossed'
  BY DEF IInv, Uncrossed
<1>11. OnePlace'
  BY <1>1, <1>2, <1>3, <1>4, <1>6 DEF IInv, OnePlace
<1>12. Numbered'
  <2>1. \A x \in Ids : x < o => order[x] # NotSubmitted
    BY DEF NextObject, Ids
  <2>2. \A x \in Ids : o < x => order[x] = NotSubmitted
    BY <1>1 DEF IInv, Numbered
  <2> QED BY <1>4, <1>6, <2>1, <2>2 DEF IInv, Numbered
<1>13. Accounts'
  <2>1. filled[o] = 0 /\ status[o] = "NEW"
    BY <1>1 DEF IInv, Accounts
  <2>2. rec \in Limits => rec.qty \in 1..MaxQty
    BY <1>4, Kinds
  <2> QED BY <1>2, <1>3, <1>4, <1>6, <2>1, <2>2, OrderAssumption DEF IInv, Accounts
<1> QED BY <1>5, <1>7, <1>8, <1>9, <1>10, <1>11, <1>12, <1>13 DEF IInv

\* The incoming order is filled and goes to the deallocator.
LEMMA EndFilledStep == IInv /\ EndFilled => IInv'
<1> SUFFICES ASSUME IInv, EndFilled PROVE IInv'
  OBVIOUS
<1>1. incoming # None /\ handing = None /\ order[incoming].type = "LIMIT"
  BY DEF EndFilled, Matching
<1>2. /\ incoming \in Ids /\ incoming \notin Live /\ handed[incoming] = 0
      /\ order[incoming] # NotSubmitted
  BY <1>1, Incoming
<1>3. index = Live \cup {incoming}
  BY <1>1 DEF IInv, Indexed, Working
<1>4. Live' = Live
  BY DEF EndFilled, Live, LiveOn
<1>5. index' = Live
  BY <1>2, <1>3 DEF EndFilled
<1>6. Fields'
  BY <1>2 DEF IInv, Fields, EndFilled, Statuses
<1>7. Homes'
  BY DEF IInv, Homes, EndFilled
<1>8. LevelsServable'
  BY <1>1 DEF IInv, LevelsServable, EndFilled
<1>9. Indexed'
  BY <1>4, <1>5 DEF Indexed, Working, EndFilled
<1>10. Uncrossed'
  BY DEF IInv, Uncrossed, EndFilled
<1>11. OnePlace'
  BY <1>1, <1>2, <1>4 DEF IInv, OnePlace, EndFilled, Ids, None
<1>12. Numbered'
  BY DEF IInv, Numbered, EndFilled
<1>13. Accounts'
  BY <1>2, <1>3, <1>4, <1>5 DEF IInv, Fields, Accounts, EndFilled
<1> QED BY <1>6, <1>7, <1>8, <1>9, <1>10, <1>11, <1>12, <1>13 DEF IInv

\* The remainder of the incoming order rests, and crosses nothing.
LEMMA EndRestingStep ==
  ASSUME IInv, EndResting
  PROVE  IInv' /\ Live' = Live \cup {incoming}
<1> DEFINE o == incoming
           s == order[o].side
           p == order[o].price
           lv == IF p \in DOMAIN levels[s] THEN levels[s][p] ELSE NewLevel
           new == LevelPush(lv, o)
<1>1. incoming # None /\ handing = None /\ order[incoming].type = "LIMIT"
  BY DEF EndResting, Matching
<1>2. /\ o \in Ids /\ o \notin Live /\ handed[o] = 0
      /\ order[o] # NotSubmitted /\ order[o] \in OrderRecords
  BY <1>1, Incoming DEF IInv, Fields
<1>3. order[o] \in Limits /\ s \in Sides /\ p \in Prices /\ order[o].qty \in 1..MaxQty
  BY <1>1, <1>2, Kinds
<1>4. index = Live \cup {o}
  BY <1>1 DEF IInv, Indexed, Working
<1>5. /\ Queue(lv) /\ LiveIn(lv) = At(levels, s, p)
      /\ Servable(lv) \/ LevelEmpty(lv)
      /\ \A x \in LiveIn(lv) : x \in Live /\ Home(order, x, s, p)
  <2>1. CASE p \in DOMAIN levels[s]
    <3>1. Queue(levels[s][p])
      BY <1>3, <2>1 DEF IInv, Homes, Shape
    <3>2. Servable(levels[s][p])
      BY <1>1, <1>3, <2>1, AllServable
    <3> QED BY <1>3, <2>1, <3>1, <3>2, Resting DEF At
  <2>2. CASE p \notin DOMAIN levels[s]
    BY <2>2, NewLevelEmpty DEF At
  <2> QED BY <2>1, <2>2
<1>6. \A x \in LiveIn(lv) : x < o
  <2>1. ASSUME NEW x \in LiveIn(lv) PROVE x < o
    <3>1. x \in Ids /\ x # o /\ order[x] # NotSubmitted
      BY <1>2, <1>5, Resting DEF IInv, OnePlace
    <3>2. ~(o < x)
      BY <1>1, <3>1 DEF IInv, Numbered
    <3> QED BY <1>2, <3>1, <3>2 DEF Ids
  <2> QED BY <2>1
<1>7. Queue(new) /\ Servable(new) /\ LiveIn(new) = LiveIn(lv) \cup {o}
  <2> HIDE DEF lv, o
  <2> QED BY <1>2, <1>5, <1>6, PushPutsLast
<1>8. levels' = WithLevel(levels, s, p, new)
  BY DEF EndResting, Rested, WithLevel
<1>9. /\ Shape(levels', order)
      /\ DOMAIN levels'[s] = DOMAIN levels[s] \cup {p} /\ levels'[s][p] = new
      /\ \A t \in Sides : t # s => levels'[t] = levels[t]
      /\ \A q \in DOMAIN levels[s] : q # p => levels'[s][q] = levels[s][q]
      /\ \A t \in Sides, q \in Prices :
           At(levels', t, q) = IF t = s /\ q = p THEN LiveIn(new) ELSE At(levels, t, q)
  <2>1. \A x \in LiveIn(new) : Home(order, x, s, p)
    BY <1>3, <1>5, <1>7 DEF Home
  <2>2. Shape(levels, order) /\ s \in Sides /\ p \in Prices /\ Queue(new)
    BY <1>3, <1>7 DEF IInv, Homes
  <2> HIDE DEF new, s, p, o
  <2> QED BY <1>8, <2>1, <2>2, PutLevel
<1> HIDE DEF new, lv
<1>10. order' = order /\ handing' = handing /\ handed' = handed /\ index' = index
       /\ filled' = filled /\ incoming' = None
  BY DEF EndResting
<1>11. Homes'
  BY <1>9, <1>10 DEF Homes
<1>12. Live' = Live \cup {o}
  <2>1. Shape(levels, order)
    BY DEF IInv, Homes
  <2>2. LiveOf(levels') = LiveOf(levels) \cup {o}
    <3>1. \A t \in Sides, q \in Prices :
            At(levels', t, q) = IF t = s /\ q = p THEN At(levels, s, p) \cup {o}
                                ELSE At(levels, t, q)
      BY <1>5, <1>7, <1>9
    <3> HIDE DEF o, s, p
    <3> QED BY <1>3, <1>9, <2>1, <3>1, OneMore
  <2>3. (Live = LiveOf(levels))'
    BY <1>11, LiveIsLiveOf, PTL
  <2> QED BY <2>2, <2>3, Resting
<1>13. Fields'
  BY <1>2, <1>10 DEF IInv, Fields, EndResting, Statuses
<1>14. LevelsServable'
  <2>1. ASSUME NEW t \in Sides, NEW q \in DOMAIN levels'[t] PROVE Servable(levels'[t][q])
    BY <1>1, <1>3, <1>7, <1>9, AllServable
  <2> QED BY <2>1 DEF LevelsServable, Servable
<1>15. Indexed'
  BY <1>4, <1>10, <1>12 DEF Indexed, Working
<1>16. Uncrossed'
  <2>1. ASSUME NEW q \in DOMAIN levels[Opposite(s)]
        PROVE  IF s = "BUY" THEN p < q ELSE p > q
    <3> DEFINE P == DOMAIN levels[Opposite(s)]
               best == BestPrice(Opposite(s))
    <3>1. Opposite(s) \in Sides /\ P \subseteq Prices /\ P # {}
      BY <1>3, <2>1 DEF Opposite, Sides, IInv, Homes, Shape
    <3>2. best \in P /\ \A x \in P \ {best} : BetterPrice(Opposite(s), best, x)
      <4>1. \E x \in P : \A y \in P \ {x} : BetterPrice(Opposite(s), x, y)
        BY <3>1, BestExists
      <4> QED BY <4>1 DEF BestPrice
    <3>3. ~Crosses(s, p, best)
      BY <2>1 DEF EndResting, CanTrade
    <3>4. p \in Nat /\ q \in Nat /\ best \in Nat
      BY <1>3, <2>1, <3>1, <3>2, OrderAssumption
    <3>5. q = best \/ BetterPrice(Opposite(s), best, q)
      BY <2>1, <3>2
    <3> HIDE DEF best
    <3> QED BY <1>3, <3>3, <3>4, <3>5 DEF Crosses, BetterPrice, Opposite, Sides
  <2>2. CASE s = "BUY"
    <3>1. /\ DOMAIN levels'["BUY"] = DOMAIN levels["BUY"] \cup {p}
          /\ levels'["SELL"] = levels["SELL"]
          /\ \A q \in DOMAIN levels["SELL"] : p < q
      BY <1>9, <2>1, <2>2 DEF Sides, Opposite
    <3> QED BY <3>1 DEF IInv, Uncrossed
  <2>3. CASE s = "SELL"
    <3>1. /\ DOMAIN levels'["SELL"] = DOMAIN levels["SELL"] \cup {p}
          /\ levels'["BUY"] = levels["BUY"]
          /\ \A q \in DOMAIN levels["BUY"] : p > q
      BY <1>9, <2>1, <2>3 DEF Sides, Opposite
    <3>2. p \in Nat /\ \A q \in DOMAIN levels["BUY"] : q \in Nat
      BY <1>3, OrderAssumption DEF IInv, Homes, Shape, Sides
    <3> QED BY <3>1, <3>2 DEF IInv, Uncrossed
  <2> QED BY <1>3, <2>2, <2>3 DEF Sides
<1>17. OnePlace'
  BY <1>1, <1>2, <1>10, <1>12 DEF IInv, OnePlace, Ids, None
<1>18. Numbered'
  BY <1>10 DEF IInv, Numbered
<1>19. Accounts'
  <2>1. filled[o] < order[o].qty
    BY <1>2, <1>3, OrderAssumption DEF EndResting, IsFilled, IInv, Fields
  <2>2. \A x \in Ids : x # o => status'[x] = status[x]
    BY DEF EndResting, IInv, Fields
  <2>3. status'[o] \in {"NEW", "PARTIAL"}
    BY <1>2, <1>4 DEF EndResting, IInv, Fields, Accounts
  <2> QED BY <1>2, <1>10, <1>12, <2>1, <2>2, <2>3 DEF IInv, Accounts
<1> QED BY <1>11, <1>12, <1>13, <1>14, <1>15, <1>16, <1>17, <1>18, <1>19 DEF IInv

\* A resting order is cancelled and goes to the deallocator.
LEMMA CancelRestingStep ==
  ASSUME IInv, NEW id \in Ids, handing = None, incoming # id, CancelResting(id)
  PROVE  IInv' /\ id \in Live /\ Live' = Live \ {id}
<1> DEFINE s == order[id].side
           p == order[id].price
           new == RemoveFromLevel(levels[s][p], id)
<1>1. /\ id \in index /\ handing' = id /\ index' = index \ {id}
      /\ order' = order /\ filled' = filled /\ incoming' = incoming /\ handed' = handed
  BY DEF CancelResting, Cancellable
<1>2. id \in Live
  BY <1>1 DEF IInv, Indexed, Working
<1>3. /\ order[id] \in Limits /\ s \in Sides /\ p \in Prices
      /\ id \in At(levels, s, p)
  BY <1>2, Resting
<1>4. p \in DOMAIN levels[s] /\ Queue(levels[s][p])
  <2>1. p \in DOMAIN levels[s]
    BY <1>3 DEF At
  <2> QED BY <1>3, <2>1 DEF IInv, Homes, Shape
<1>5. /\ Queue(new)
      /\ Servable(new) \/ LevelEmpty(new)
      /\ LiveIn(new) = LiveIn(levels[s][p]) \ {id}
  BY <1>4, RemoveTakesOne
<1>6. LiveIn(levels[s][p]) = At(levels, s, p)
  BY <1>4 DEF At
<1>7. levels' = IF LevelEmpty(new) THEN WithoutLevel(levels, s, p)
                ELSE WithLevel(levels, s, p, new)
  BY <1>4 DEF CancelResting, Removed, PutOrDrop, WithoutLevel, WithLevel
<1>8. Shape(levels, order) /\ \A x \in LiveIn(new) : Home(order, x, s, p)
  BY <1>3, <1>4, <1>5, Resting DEF IInv, Homes
<1>9. LevelEmpty(new) => LiveIn(new) = {}
  BY <1>5, EmptyHasNone
<1> HIDE DEF new, s, p
<1>10. /\ Shape(levels', order)
       /\ \A t \in Sides, q \in Prices :
            At(levels', t, q) = IF t = s /\ q = p THEN LiveIn(new) ELSE At(levels, t, q)
       /\ \A t \in Sides : DOMAIN levels'[t] \subseteq DOMAIN levels[t]
       /\ \A t \in Sides : \A q \in DOMAIN levels'[t] : Servable(levels'[t][q])
  <2>1. CASE LevelEmpty(new)
    <3>1. levels' = WithoutLevel(levels, s, p)
      BY <1>7, <2>1
    <3>2. /\ Shape(levels', order)
          /\ DOMAIN levels'[s] = DOMAIN levels[s] \ {p}
          /\ \A t \in Sides : t # s => levels'[t] = levels[t]
          /\ \A q \in DOMAIN levels'[s] : levels'[s][q] = levels[s][q]
          /\ \A t \in Sides, q \in Prices :
               At(levels', t, q) = IF t = s /\ q = p THEN {} ELSE At(levels, t, q)
      BY <1>3, <1>8, <3>1, DropLevel
    <3> QED BY <1>3, <1>9, <2>1, <3>2, AllServable
  <2>2. CASE ~LevelEmpty(new)
    <3>1. levels' = WithLevel(levels, s, p, new)
      BY <1>7, <2>2
    <3>2. /\ Shape(levels', order)
          /\ DOMAIN levels'[s] = DOMAIN levels[s] \cup {p} /\ levels'[s][p] = new
          /\ \A t \in Sides : t # s => levels'[t] = levels[t]
          /\ \A q \in DOMAIN levels[s] : q # p => levels'[s][q] = levels[s][q]
          /\ \A t \in Sides, q \in Prices :
               At(levels', t, q) = IF t = s /\ q = p THEN LiveIn(new) ELSE At(levels, t, q)
      BY <1>3, <1>5, <1>8, <3>1, PutLevel
    <3> QED BY <1>3, <1>4, <1>5, <2>2, <3>2, AllServable
  <2> QED BY <2>1, <2>2
<1>11. Homes'
  BY <1>1, <1>10 DEF Homes
<1>12. Live' = Live \ {id}
  <2>1. \A t \in Sides, q \in Prices :
          At(levels', t, q) = IF t = s /\ q = p THEN At(levels, s, p) \ {id}
                              ELSE At(levels, t, q)
    BY <1>5, <1>6, <1>10
  <2>2. Home(order, id, s, p)
    BY <1>3 DEF Home, s, p
  <2>3. LiveOf(levels') = LiveOf(levels) \ {id}
    BY <1>3, <1>8, <1>10, <2>1, <2>2, OneLess
  <2>4. (Live = LiveOf(levels))'
    BY <1>11, LiveIsLiveOf, PTL
  <2> QED BY <2>3, <2>4, Resting
<1>13. Fields'
  BY <1>1 DEF IInv, Fields, CancelResting, Statuses
<1>14. LevelsServable'
  BY <1>10 DEF LevelsServable, Servable
<1>15. Indexed'
  <2>1. id \notin Working
    BY DEF Working
  <2>2. Working' = Working
    BY <1>1 DEF Working
  <2> QED BY <1>1, <1>12, <2>1, <2>2 DEF IInv, Indexed
<1>16. Uncrossed'
  BY <1>10 DEF IInv, Uncrossed, Sides
<1>17. OnePlace'
  BY <1>1, <1>2, <1>12 DEF IInv, OnePlace, Ids, None
<1>18. Numbered'
  BY <1>1 DEF IInv, Numbered
<1>19. Accounts'
  <2>1. \A x \in Ids : x # id => status'[x] = status[x]
    BY DEF CancelResting, IInv, Fields
  <2>2. order[id] # NotSubmitted
    BY <1>2 DEF IInv, OnePlace
  <2> QED BY <1>1, <1>12, <2>1, <2>2 DEF IInv, Accounts
<1> QED BY <1>2, <1>11, <1>12, <1>13, <1>14, <1>15, <1>16, <1>17, <1>18, <1>19 DEF IInv

\* A cancel request names an object that is not the request.
LEMMA RequestNamesAnother ==
  ASSUME IInv, Cancelling
  PROVE  /\ handing = None /\ incoming \in Ids /\ order[incoming] \in Cancels
         /\ order[incoming].target \in Ids
         /\ Cancellable(order[incoming].target) => incoming # order[incoming].target
<1>1. incoming # None /\ handing = None /\ order[incoming].type = "CANCEL"
  BY DEF Cancelling
<1>2. incoming \in Ids /\ incoming \notin Live /\ order[incoming] \in OrderRecords
  BY <1>1, Incoming DEF IInv, Fields
<1>3. order[incoming] \in Cancels /\ order[incoming].target \in Ids
  BY <1>1, <1>2, Kinds
<1>4. index = Live
  BY <1>1 DEF IInv, Indexed, Working
<1> QED BY <1>1, <1>2, <1>3, <1>4 DEF Cancellable

\* A cancel request goes to the deallocator.
LEMMA EndCancelStep == IInv /\ EndCancel => IInv'
<1> SUFFICES ASSUME IInv, EndCancel PROVE IInv'
  OBVIOUS
<1>1. incoming # None /\ handing = None /\ order[incoming].type = "CANCEL"
  BY DEF EndCancel, Cancelling
<1>2. /\ incoming \in Ids /\ incoming \notin Live /\ handed[incoming] = 0
      /\ order[incoming] # NotSubmitted
  BY <1>1, Incoming
<1>3. index = Live
  BY <1>1 DEF IInv, Indexed, Working
<1>4. Live' = Live
  BY DEF EndCancel, Live, LiveOn
<1>5. Fields'
  BY <1>2 DEF IInv, Fields, EndCancel
<1>6. Homes'
  BY DEF IInv, Homes, EndCancel
<1>7. LevelsServable'
  BY <1>1 DEF IInv, LevelsServable, EndCancel
<1>8. Indexed'
  BY <1>3, <1>4 DEF Indexed, Working, EndCancel
<1>9. Uncrossed'
  BY DEF IInv, Uncrossed, EndCancel
<1>10. OnePlace'
  BY <1>1, <1>2, <1>4 DEF IInv, OnePlace, EndCancel, Ids, None
<1>11. Numbered'
  BY DEF IInv, Numbered, EndCancel
<1>12. Accounts'
  BY <1>4 DEF IInv, Accounts, EndCancel
<1> QED BY <1>5, <1>6, <1>7, <1>8, <1>9, <1>10, <1>11, <1>12 DEF IInv

\* The deallocator returns, and a level it left empty is erased.
LEMMA HandBackStep == IInv /\ HandBack => IInv' /\ Live' = Live
<1> SUFFICES ASSUME IInv, HandBack PROVE IInv' /\ Live' = Live
  OBVIOUS
<1>1. /\ handing \in Ids /\ handing # None /\ handing' = None
      /\ handed' = [handed EXCEPT ![handing] = @ + 1]
      /\ order' = order /\ filled' = filled /\ status' = status
      /\ index' = index /\ incoming' = incoming
  BY DEF IInv, Fields, HandBack
<1>2. /\ Shape(levels', order)
      /\ \A s \in Sides : \A p \in DOMAIN levels'[s] :
           p \in DOMAIN levels[s] /\ levels'[s][p] = levels[s][p] /\ ~LevelEmpty(levels'[s][p])
      /\ LiveOf(levels') = LiveOf(levels)
  BY SweepLevels DEF IInv, Homes, HandBack
<1>3. Homes'
  BY <1>1, <1>2 DEF Homes
<1>4. Live' = Live
  <2>1. (Live = LiveOf(levels))'
    BY <1>3, LiveIsLiveOf, PTL
  <2> QED BY <1>2, <2>1, Resting
<1>5. Fields'
  BY <1>1 DEF IInv, Fields
<1>6. LevelsServable'
  BY <1>2 DEF IInv, LevelsServable
<1>7. Indexed'
  BY <1>1, <1>4 DEF IInv, Indexed, Working
<1>8. Uncrossed'
  <2>1. /\ DOMAIN levels'["BUY"] \subseteq DOMAIN levels["BUY"]
        /\ DOMAIN levels'["SELL"] \subseteq DOMAIN levels["SELL"]
    BY <1>2 DEF Sides
  <2> QED BY <2>1 DEF IInv, Uncrossed
<1>9. OnePlace'
  <2>1. /\ handed[handing] = 0 /\ handing \notin Live /\ handing # incoming
        /\ order[handing] # NotSubmitted
    BY <1>1 DEF IInv, OnePlace
  <2>2. handed'[handing] = 1 /\ \A x \in Ids : x # handing => handed'[x] = handed[x]
    BY <1>1, <2>1 DEF IInv, Fields
  <2> QED BY <1>1, <1>4, <2>1, <2>2 DEF IInv, OnePlace, Ids, None
<1>10. Numbered'
  BY <1>1 DEF IInv, Numbered
<1>11. Accounts'
  BY <1>1, <1>4 DEF IInv, Accounts
<1> QED BY <1>3, <1>4, <1>5, <1>6, <1>7, <1>8, <1>9, <1>10, <1>11 DEF IInv

\* clear() leaves an empty book.
LEMMA ClearStep == IInv /\ Clear => IInv' /\ Live' = {}
<1> SUFFICES ASSUME IInv, Clear PROVE IInv' /\ Live' = {}
  OBVIOUS
<1>1. /\ incoming = None /\ handing = None /\ incoming' = None /\ handing' = None
      /\ order' = order /\ filled' = filled /\ status' = status /\ index' = {}
      /\ handed' = [o \in Ids |-> IF o \in Live THEN handed[o] + 1 ELSE handed[o]]
  BY DEF Clear, Idle
<1>2. DOMAIN levels' = Sides /\ \A s \in Sides : DOMAIN levels'[s] = {}
  BY DEF Clear
<1>3. Live' = {}
  BY <1>2 DEF Live, LiveOn, Sides
<1>4. Fields'
  BY <1>1 DEF IInv, Fields
<1>5. Homes'
  BY <1>2 DEF Homes, Shape
<1>6. LevelsServable'
  BY <1>2 DEF LevelsServable
<1>7. Indexed'
  BY <1>1, <1>3 DEF Indexed, Working
<1>8. Uncrossed'
  BY <1>2 DEF Uncrossed, Sides
<1>9. OnePlace'
  BY <1>1, <1>3 DEF IInv, OnePlace, Ids, None
<1>10. Numbered'
  BY <1>1 DEF IInv, Numbered
<1>11. Accounts'
  BY <1>1, <1>3 DEF IInv, Accounts
<1> QED BY <1>3, <1>4, <1>5, <1>6, <1>7, <1>8, <1>9, <1>10, <1>11 DEF IInv
-----------------------------------------------------------------------------
(* One trade. *)

\* The level match serves, its first order, and how much they trade.
Opposing == Opposite(order[incoming].side)
Best     == BestPrice(Opposing)
Served   == levels[Opposing][Best]
First    == LevelFront(Served)
Traded   == Lesser(Remaining(incoming), Remaining(First))

\* Whom match serves: the first order of the best level, which rests there.
LEMMA Serves ==
  ASSUME IInv, Matching, CanTrade(incoming)
  PROVE  /\ incoming \in Ids /\ incoming \notin Live /\ order[incoming] \in Limits
         /\ order[incoming].side \in Sides /\ order[incoming].price \in Prices
         /\ Opposing \in Sides /\ Best \in Prices /\ Best \in DOMAIN levels[Opposing]
         /\ \A q \in DOMAIN levels[Opposing] \ {Best} : BetterPrice(Opposing, Best, q)
         /\ Queue(Served) /\ Servable(Served) /\ FrontLive(Served) = Served
         /\ First \in Ids /\ First \in Live /\ First # incoming
         /\ Home(order, First, Opposing, Best)
         /\ \A o \in LiveIn(Served) : Home(order, o, Opposing, Best)
         /\ \A o \in LiveIn(Served) \ {First} : First < o
<1>1. incoming # None /\ handing = None /\ order[incoming].type = "LIMIT"
  BY DEF Matching
<1>2. /\ incoming \in Ids /\ incoming \notin Live /\ order[incoming] \in OrderRecords
  BY <1>1, Incoming DEF IInv, Fields
<1>3. /\ order[incoming] \in Limits /\ order[incoming].side \in Sides
      /\ order[incoming].price \in Prices
  BY <1>1, <1>2, Kinds
<1>4. Opposing \in Sides
  BY DEF Opposing, Opposite, Sides
<1>5. DOMAIN levels[Opposing] # {} /\ DOMAIN levels[Opposing] \subseteq Prices
  BY <1>4 DEF CanTrade, Opposing, IInv, Homes, Shape
<1>6. /\ Best \in DOMAIN levels[Opposing]
      /\ \A q \in DOMAIN levels[Opposing] \ {Best} : BetterPrice(Opposing, Best, q)
  <2>1. \E x \in DOMAIN levels[Opposing] :
          \A y \in DOMAIN levels[Opposing] \ {x} : BetterPrice(Opposing, x, y)
    BY <1>4, <1>5, BestExists
  <2> QED BY <2>1 DEF Best, BestPrice
<1>7. Queue(Served) /\ Servable(Served)
  BY <1>1, <1>4, <1>6, AllServable DEF Served, IInv, Homes, Shape
<1>8. /\ First \in Ids /\ First \in LiveIn(Served)
      /\ FrontLive(Served) = Served
      /\ \A o \in LiveIn(Served) \ {First} : First < o
  BY <1>7, FrontIsFirst DEF First
<1>9. \A o \in LiveIn(Served) : o \in Live /\ Home(order, o, Opposing, Best)
  BY <1>4, <1>6, Resting DEF Served
<1> QED BY <1>2, <1>3, <1>4, <1>5, <1>6, <1>7, <1>8, <1>9

\* The quantity both can give: more than nothing, and no more than either has.
LEMMA TradedFits ==
  ASSUME IInv, Matching, CanTrade(incoming)
  PROVE  /\ Traded \in Nat /\ Traded > 0
         /\ filled[incoming] \in Nat /\ filled[First] \in Nat
         /\ order[incoming].qty \in 1..MaxQty /\ order[First].qty \in 1..MaxQty
         /\ filled[incoming] + Traded <= order[incoming].qty
         /\ filled[First] + Traded <= order[First].qty
         /\ Remaining(First) \in Nat
         /\ filled[First] + Traded >= order[First].qty <=> Traded = Remaining(First)
<1>1. /\ incoming \in Ids /\ order[incoming] \in Limits
      /\ First \in Ids /\ First \in Live /\ order[First] \in Limits
  BY Serves DEF Home
<1>2. /\ filled[incoming] \in Nat /\ filled[First] \in Nat /\ MaxQty \in Nat
  BY <1>1, OrderAssumption DEF IInv, Fields
<1>3. order[incoming].qty \in 1..MaxQty /\ order[First].qty \in 1..MaxQty
  BY <1>1 DEF Limits
<1>4. filled[First] < order[First].qty
  BY <1>1 DEF IInv, Accounts
<1>5. filled[incoming] < order[incoming].qty
  BY <1>2, <1>3 DEF CanTrade, IsFilled
<1>6. /\ Remaining(incoming) = order[incoming].qty - filled[incoming]
      /\ Remaining(First) = order[First].qty - filled[First]
  BY DEF Remaining
<1>7. Traded = Remaining(incoming) \/ Traded = Remaining(First)
  BY DEF Traded, Lesser
<1>8. Traded <= Remaining(incoming) /\ Traded <= Remaining(First)
  BY <1>2, <1>3, <1>6 DEF Traded, Lesser
<1> HIDE DEF Traded, Remaining
<1> QED BY <1>2, <1>3, <1>4, <1>5, <1>6, <1>7, <1>8

\* A step of match is a trade with the first order, which leaves when it is filled.
LEMMA MatchTrades ==
  ASSUME IInv, Match
  PROVE  /\ order' = order /\ incoming' = incoming /\ handed' = handed
         /\ filled' = [filled EXCEPT ![incoming] = @ + Traded, ![First] = @ + Traded]
         /\ trades' = Append(trades, TradeRecord(incoming, First, Best, Traded))
         /\ \/ /\ Traded = Remaining(First)
               /\ status' = [status EXCEPT ![First] = "FILLED"]
               /\ index' = index \ {First} /\ handing' = First
               /\ levels' = WithLevel(levels, Opposing, Best, LevelPopFront(Served))
            \/ /\ Traded # Remaining(First)
               /\ status' = [status EXCEPT ![First] = "PARTIAL"]
               /\ index' = index /\ handing' = handing
               /\ levels' = WithLevel(levels, Opposing, Best, Served)
<1>1. Matching /\ CanTrade(incoming)
  BY DEF Match
<1>2. FrontLive(Served) = Served /\ ~LevelEmpty(Served)
  BY <1>1, Serves DEF Servable
<1>3. TradeWithFront(incoming, Opposing, Best, Served)
  BY <1>2 DEF Match, Opposing, Best, Served
<1>4. filled[First] + Traded >= order[First].qty <=> Traded = Remaining(First)
  BY <1>1, TradedFits
<1>5. order' = order /\ incoming' = incoming /\ handed' = handed
  BY DEF Match
<1> QED BY <1>3, <1>4, <1>5 DEF TradeWithFront, First, Traded, WithLevel

LEMMA MatchStep ==
  ASSUME IInv, Match
  PROVE  IInv' /\ Live' = IF Traded = Remaining(First) THEN Live \ {First} ELSE Live
<1> DEFINE s == Opposing
           p == Best
           r == First
           new == IF Traded = Remaining(First) THEN LevelPopFront(Served) ELSE Served
<1>1. Matching /\ CanTrade(incoming) /\ incoming # None /\ handing = None
  BY DEF Match, Matching
<1>2. /\ incoming \in Ids /\ incoming \notin Live /\ order[incoming] \in Limits
      /\ s \in Sides /\ p \in Prices /\ p \in DOMAIN levels[s]
      /\ Queue(Served) /\ Servable(Served) /\ r \in Ids /\ r \in Live /\ r # incoming
      /\ Home(order, r, s, p)
      /\ \A o \in LiveIn(Served) : Home(order, o, s, p)
  BY <1>1, Serves
<1>3. /\ Queue(new)
      /\ Servable(new) \/ (Traded = Remaining(First) /\ LevelEmpty(new))
      /\ LiveIn(new) = IF Traded = Remaining(First) THEN LiveIn(Served) \ {r} ELSE LiveIn(Served)
  BY <1>2, PopFrontTakesFront DEF First
<1>4. /\ order' = order /\ incoming' = incoming /\ handed' = handed
      /\ filled' = [filled EXCEPT ![incoming] = @ + Traded, ![r] = @ + Traded]
      /\ status' = [status EXCEPT ![r] =
                      IF Traded = Remaining(First) THEN "FILLED" ELSE "PARTIAL"]
      /\ index' = IF Traded = Remaining(First) THEN index \ {r} ELSE index
      /\ handing' = IF Traded = Remaining(First) THEN r ELSE None
      /\ levels' = WithLevel(levels, s, p, new)
  BY <1>1, MatchTrades
<1>5. LiveIn(Served) = At(levels, s, p)
  BY <1>2 DEF At, Served
<1>6. Shape(levels, order) /\ \A x \in LiveIn(new) : Home(order, x, s, p)
  BY <1>2, <1>3 DEF IInv, Homes
<1>7. r # None
  BY <1>2 DEF Ids, None
<1> HIDE DEF new, s, p, r
<1>8. /\ Shape(levels', order)
      /\ DOMAIN levels'[s] = DOMAIN levels[s] \cup {p} /\ levels'[s][p] = new
      /\ \A t \in Sides : t # s => levels'[t] = levels[t]
      /\ \A q \in DOMAIN levels[s] : q # p => levels'[s][q] = levels[s][q]
      /\ \A t \in Sides, q \in Prices :
           At(levels', t, q) = IF t = s /\ q = p THEN LiveIn(new) ELSE At(levels, t, q)
  BY <1>2, <1>3, <1>4, <1>6, PutLevel
<1>9. Homes'
  BY <1>4, <1>8 DEF Homes
<1>10. Live' = IF Traded = Remaining(First) THEN Live \ {r} ELSE Live
  <2>1. (Live = LiveOf(levels))'
    BY <1>9, LiveIsLiveOf, PTL
  <2>2. CASE Traded = Remaining(First)
    <3>1. \A t \in Sides, q \in Prices :
            At(levels', t, q) = IF t = s /\ q = p THEN At(levels, s, p) \ {r}
                                ELSE At(levels, t, q)
      BY <1>3, <1>5, <1>8, <2>2
    <3>2. LiveOf(levels') = LiveOf(levels) \ {r}
      BY <1>2, <1>6, <1>8, <3>1, OneLess
    <3> QED BY <2>1, <2>2, <3>2, Resting
  <2>3. CASE Traded # Remaining(First)
    <3>1. \A t \in Sides, q \in Prices : At(levels', t, q) = At(levels, t, q)
      BY <1>3, <1>5, <1>8, <2>3
    <3>2. LiveOf(levels') = LiveOf(levels)
      BY <3>1, NoneMoves
    <3> QED BY <2>1, <2>3, <3>2, Resting
  <2> QED BY <2>2, <2>3
<1>11. /\ Traded \in Nat
       /\ filled[incoming] \in Nat /\ filled[r] \in Nat
       /\ order[incoming].qty \in 1..MaxQty /\ order[r].qty \in 1..MaxQty
       /\ filled[incoming] + Traded <= order[incoming].qty
       /\ filled[r] + Traded <= order[r].qty
       /\ Traded # Remaining(First) => filled[r] + Traded < order[r].qty
  <2>1. order[r].qty \in Int /\ filled[r] \in Int
    BY <1>1, TradedFits DEF r
  <2> QED BY <1>1, <2>1, TradedFits DEF r
<1>12. /\ filled'[incoming] = filled[incoming] + Traded
       /\ filled'[r] = filled[r] + Traded
       /\ \A x \in Ids : x # incoming /\ x # r => filled'[x] = filled[x]
       /\ DOMAIN filled' = Ids
  BY <1>2, <1>4 DEF IInv, Fields
<1>13. Fields'
  <2>1. filled' \in [Ids -> 0..MaxQty]
    <3>1. \A x \in Ids : filled'[x] \in 0..MaxQty
      <4>1. MaxQty \in Nat /\ \A x \in Ids : filled[x] \in 0..MaxQty
        BY OrderAssumption DEF IInv, Fields
      <4>2. filled'[incoming] \in 0..MaxQty /\ filled'[r] \in 0..MaxQty
        BY <1>11, <1>12, <4>1
      <4> QED BY <1>12, <4>1, <4>2
    <3>2. filled' = [x \in Ids |-> filled'[x]]
      BY <1>4 DEF IInv, Fields
    <3> QED BY <3>1, <3>2
  <2>2. status' \in [Ids -> Statuses]
    BY <1>4 DEF IInv, Fields, Statuses
  <2> QED BY <1>2, <1>4, <2>1, <2>2 DEF IInv, Fields
<1>14. LevelsServable'
  <2>1. ASSUME NEW t \in Sides, NEW q \in DOMAIN levels'[t],
               ~Servable(levels'[t][q])
        PROVE  /\ LevelEmpty(levels'[t][q]) /\ incoming' # None /\ handing' # None
               /\ order'[handing'].side = t /\ order'[handing'].price = q
    <3>1. t = s /\ q = p
      BY <1>1, <1>2, <1>8, <2>1, AllServable
    <3> QED BY <1>1, <1>2, <1>3, <1>4, <1>7, <1>8, <2>1, <3>1 DEF Home
  <2>2. SUFFICES ASSUME NEW t \in Sides, NEW q \in DOMAIN levels'[t]
                 PROVE  \/ Servable(levels'[t][q])
                        \/ /\ LevelEmpty(levels'[t][q]) /\ incoming' # None /\ handing' # None
                           /\ order'[handing'].side = t /\ order'[handing'].price = q
    BY Zenon DEF LevelsServable, Servable
  <2>3. CASE Servable(levels'[t][q])
    BY <2>3
  <2>4. CASE ~Servable(levels'[t][q])
    BY <2>1, <2>4
  <2> QED BY <2>3, <2>4
<1>15. Indexed'
  <2>1. Working' = Working
    BY <1>4 DEF Working
  <2>2. r \notin Working
    BY <1>2 DEF Working
  <2> QED BY <1>4, <1>10, <2>1, <2>2 DEF IInv, Indexed
<1>16. Uncrossed'
  <2>1. \A t \in Sides : DOMAIN levels'[t] = DOMAIN levels[t]
    BY <1>2, <1>8
  <2> QED BY <2>1 DEF IInv, Uncrossed, Sides
<1>17. OnePlace'
  <2>1. handed[r] = 0 /\ order[r] # NotSubmitted /\ order[incoming] # NotSubmitted
    BY <1>2 DEF IInv, OnePlace
  <2>2. /\ r \in Live /\ r # incoming /\ \A x \in Ids : x # None
        /\ order' = order /\ incoming' = incoming /\ handed' = handed
    BY <1>2, <1>4 DEF Ids, None
  <2>3. CASE Traded = Remaining(First)
    <3>1. handing' = r /\ Live' = Live \ {r}
      BY <1>4, <1>10, <2>3
    <3> QED BY <1>1, <2>1, <2>2, <3>1 DEF IInv, OnePlace
  <2>4. CASE Traded # Remaining(First)
    <3>1. handing' = handing /\ Live' = Live
      BY <1>1, <1>4, <1>10, <2>4
    <3> QED BY <2>2, <3>1 DEF IInv, OnePlace
  <2> QED BY <2>3, <2>4
<1>18. Numbered'
  BY <1>4 DEF IInv, Numbered
<1>19. Accounts'
  <2>1. order[r] # NotSubmitted /\ order[incoming] # NotSubmitted
    BY <1>2 DEF IInv, OnePlace
  <2>2. \A x \in Ids : x # r => status'[x] = status[x]
    BY <1>4 DEF IInv, Fields
  <2>3. Traded # Remaining(First) => status'[r] = "PARTIAL"
    BY <1>2, <1>4 DEF IInv, Fields
  <2>4. ASSUME NEW x \in Ids
        PROVE  /\ order'[x] \in Limits => filled'[x] <= order'[x].qty
               /\ x \in Live' => filled'[x] < order'[x].qty
    BY <1>2, <1>4, <1>10, <1>11, <1>12, <2>4 DEF IInv, Accounts
  <2>5. ASSUME NEW x \in Ids
        PROVE  /\ x \in index' => status'[x] \in {"NEW", "PARTIAL"}
               /\ order'[x] = NotSubmitted => filled'[x] = 0 /\ status'[x] = "NEW"
    BY <1>2, <1>4, <1>12, <2>1, <2>2, <2>3 DEF IInv, Accounts
  <2> QED BY <2>4, <2>5 DEF Accounts
<1> QED BY <1>9, <1>10, <1>13, <1>14, <1>15, <1>16, <1>17, <1>18, <1>19 DEF IInv, r
-----------------------------------------------------------------------------
(* Every step keeps the invariant. *)

LEMMA AddLimitStep ==
  ASSUME IInv, NEW o \in Ids, NEW rec \in Limits, AddLimit(o, rec)
  PROVE  IInv' /\ Live' = Live
<1>1. IInv'
  BY SubmitStep DEF AddLimit
<1>2. Live' = Live
  BY DEF AddLimit, Live, LiveOn
<1> QED BY <1>1, <1>2

LEMMA AddCancelStep ==
  ASSUME IInv, NEW o \in Ids, NEW rec \in Cancels, AddCancel(o, rec)
  PROVE  IInv' /\ Live' = Live
<1>1. rec \notin Limits
  BY Kinds DEF OrderRecords, Limits, Cancels
<1>2. IInv'
  BY <1>1, SubmitStep DEF AddCancel
<1>3. Live' = Live
  BY DEF AddCancel, Live, LiveOn
<1> QED BY <1>2, <1>3

\* A cancel request takes the order it names out.
LEMMA CancelRequestedStep ==
  ASSUME IInv, CancelRequested
  PROVE  LET id == order[incoming].target IN
         IInv' /\ id \in Ids /\ id \in Live /\ Live' = Live \ {id}
<1> DEFINE id == order[incoming].target
<1>1. Cancelling /\ CancelResting(id)
  BY DEF CancelRequested
<1>2. handing = None /\ id \in Ids /\ incoming # id
  BY <1>1, RequestNamesAnother DEF CancelResting
<1> HIDE DEF id
<1>3. IInv' /\ id \in Live /\ Live' = Live \ {id}
  BY <1>1, <1>2, CancelRestingStep
<1> QED BY <1>2, <1>3 DEF id

\* So does a call of cancel_order.
LEMMA CancelOrderStep ==
  ASSUME IInv, NEW id \in Ids, CancelOrder(id)
  PROVE  IInv' /\ id \in Live /\ Live' = Live \ {id}
<1>1. handing = None /\ incoming # id /\ CancelResting(id)
  BY DEF CancelOrder, Idle, Ids, None
<1> QED BY <1>1, CancelRestingStep

LEMMA Stutter == IInv /\ UNCHANGED vars => IInv' /\ Live' = Live
<1> SUFFICES ASSUME IInv, UNCHANGED vars PROVE IInv' /\ Live' = Live
  OBVIOUS
<1>1. Live' = Live
  BY DEF vars, Live, LiveOn
<1>2. Fields' /\ Homes' /\ Numbered' /\ Uncrossed'
  BY DEF vars, IInv, Fields, Homes, Numbered, Uncrossed
<1>3. LevelsServable'
  BY DEF vars, IInv, LevelsServable
<1>4. Indexed' /\ OnePlace' /\ Accounts'
  BY <1>1 DEF vars, IInv, Indexed, Working, OnePlace, Accounts
<1> QED BY <1>1, <1>2, <1>3, <1>4 DEF IInv

LEMMA Inductive == IInv /\ [Next]_vars => IInv'
<1> SUFFICES ASSUME IInv, [Next]_vars PROVE IInv'
  OBVIOUS
<1>1. ASSUME NEW o \in Ids, NEW rec \in Limits, AddLimit(o, rec) PROVE IInv'
  BY <1>1, AddLimitStep
<1>2. ASSUME NEW o \in Ids, NEW rec \in Cancels, AddCancel(o, rec) PROVE IInv'
  BY <1>2, AddCancelStep
<1>3. CASE Match
  BY <1>3, MatchStep
<1>4. CASE EndFilled
  BY <1>4, EndFilledStep
<1>5. CASE EndResting
  BY <1>5, EndRestingStep
<1>6. CASE CancelRequested
  BY <1>6, CancelRequestedStep
<1>7. CASE EndCancel
  BY <1>7, EndCancelStep
<1>8. CASE HandBack
  BY <1>8, HandBackStep
<1>9. ASSUME NEW id \in Ids, CancelOrder(id) PROVE IInv'
  BY <1>9, CancelOrderStep
<1>10. CASE Clear
  BY <1>10, ClearStep
<1>11. CASE UNCHANGED vars
  BY <1>11, Stutter
<1> QED BY <1>1, <1>2, <1>3, <1>4, <1>5, <1>6, <1>7, <1>8, <1>9, <1>10, <1>11
        DEF Next, Process

(* The invariant holds in every reachable state. *)
LEMMA Invariance == Spec => []IInv
BY Initially, Inductive, PTL DEF Spec
-----------------------------------------------------------------------------
(* What follows from the invariant. *)

LEMMA TypeOKFollows == IInv => TypeOK
<1> SUFFICES ASSUME IInv PROVE TypeOK
  OBVIOUS
<1>1. ASSUME NEW s \in Sides, NEW p \in DOMAIN levels[s]
      PROVE  /\ levels[s][p].orders \in Seq(Ids \cup {Hole})
             /\ levels[s][p].head \in 0..Len(levels[s][p].orders)
  <2>1. Queue(levels[s][p])
    BY DEF IInv, Homes, Shape
  <2>2. /\ levels[s][p].orders \in Seq(Slot) /\ levels[s][p].head \in Nat
        /\ levels[s][p].head <= Len(levels[s][p].orders)
    BY <2>1 DEF Queue, Level
  <2>3. Len(levels[s][p].orders) \in Nat
    BY <2>2, LenProperties
  <2> QED BY <2>2, <2>3 DEF Slot
<1>2. DOMAIN levels = Sides /\ \A s \in Sides : DOMAIN levels[s] \subseteq Prices
  BY DEF IInv, Homes, Shape
<1> QED BY <1>1, <1>2 DEF IInv, Fields, TypeOK

LEMMA IndexFollows == IInv => IndexMatchesLevels
<1> SUFFICES ASSUME IInv PROVE IndexMatchesLevels
  OBVIOUS
<1>1. ASSUME NEW s \in Sides, NEW p \in DOMAIN levels[s],
             NEW i \in Span(levels[s][p]), levels[s][p].orders[i] # Hole
      PROVE  /\ order[levels[s][p].orders[i]].side = s
             /\ order[levels[s][p].orders[i]].price = p
             /\ \A j \in Span(levels[s][p]) :
                  levels[s][p].orders[j] = levels[s][p].orders[i] => j = i
  <2> DEFINE lv == levels[s][p]
             o == lv.orders[i]
  <2>1. Queue(lv) /\ lv \in Level /\ Len(lv.orders) \in Nat /\ lv.head \in Nat
    BY LenProperties DEF IInv, Homes, Shape, Queue, Level
  <2>2. o \in LiveIn(lv) /\ o \in Ids
    BY <1>1, <2>1, LiveByPlace
  <2>3. Home(order, o, s, p)
    BY <2>2, Resting
  <2>4. ASSUME NEW j \in Span(lv), lv.orders[j] = o PROVE j = i
    <3>1. i \in Nat /\ j \in Nat /\ o \in Nat
      BY <2>1, <2>2 DEF Span, Ids
    <3>2. ~(i < j) /\ ~(j < i)
      BY <1>1, <2>1, <2>4, <3>1 DEF Queue
    <3> QED BY <3>1, <3>2
  <2> QED BY <2>3, <2>4 DEF Home
<1>2. \A s \in Sides : \A p \in DOMAIN levels[s] : \A i \in Span(levels[s][p]) :
        levels[s][p].orders[i] # Hole =>
          /\ order[levels[s][p].orders[i]].side = s
          /\ order[levels[s][p].orders[i]].price = p
          /\ \A j \in Span(levels[s][p]) :
               levels[s][p].orders[j] = levels[s][p].orders[i] => j = i
  BY <1>1
<1>3. index = Live \cup {o \in {incoming} \ {None} : order[o].type = "LIMIT"}
  BY DEF IInv, Indexed, Working
<1> QED BY <1>2, <1>3 DEF IndexMatchesLevels, Span

LEMMA HandedBackFollows == IInv => HandedBackOnce
<1> SUFFICES ASSUME IInv PROVE HandedBackOnce
  OBVIOUS
<1>1. ASSUME NEW o \in Ids
      PROVE  Places(o) = IF order[o] = NotSubmitted THEN 0 ELSE 1
  BY DEF IInv, OnePlace, Places
<1>2. handing \notin index
  <2>1. handing \in Ids => handing \notin Live /\ handing # incoming
    BY DEF IInv, OnePlace
  <2>2. Working \subseteq {incoming}
    BY DEF Working
  <2> QED BY <2>1, <2>2 DEF IInv, Fields, Indexed
<1>3. ASSUME NEW o \in index PROVE handed[o] = 0
  <2>1. o \in Ids /\ (o \in Live \/ o = incoming)
    BY DEF IInv, Fields, Indexed, Working
  <2> QED BY <2>1 DEF IInv, OnePlace
<1> QED BY <1>1, <1>2, <1>3 DEF HandedBackOnce

\* Type correctness of the book.
THEOREM TypeCorrect == Spec => []TypeOK
BY Invariance, TypeOKFollows, PTL

\* best_bid and best_ask are prices at which somebody rests, for any sequence
\* of orders, cancels and compactions.
THEOREM AlwaysServable == Spec => []LevelsServable
<1>1. IInv => LevelsServable
  BY DEF IInv
<1> QED BY <1>1, Invariance, PTL

\* order_index_ and the levels never disagree, so a cancel finds its order.
THEOREM IndexExact == Spec => []IndexMatchesLevels
BY Invariance, IndexFollows, PTL

\* Between two orders the book is not crossed.
THEOREM NeverCrossed == Spec => []NotCrossed
<1>1. IInv => NotCrossed
  BY DEF IInv, Uncrossed, NotCrossed
<1> QED BY <1>1, Invariance, PTL

\* Every object goes back exactly once, and nothing leads to it afterwards.
THEOREM BackOnce == Spec => []HandedBackOnce
BY Invariance, HandedBackFollows, PTL
-----------------------------------------------------------------------------
(* The book implements the contract of its objects. *)

LEMMA ContractInit == Init => Contract!Init
<1> SUFFICES ASSUME Init PROVE Contract!Init
  OBVIOUS
<1>1. Live = {}
  BY DEF Init, Live, LiveOn, Sides
<1> QED BY <1>1 DEF Init, Contract!Init

\* Every step of the book is a step of the contract, or none.
LEMMA ContractStep == IInv /\ [Next]_vars => [Contract!Next]_(Contract!vars)
<1> SUFFICES ASSUME IInv, [Next]_vars PROVE [Contract!Next]_(Contract!vars)
  OBVIOUS
<1> USE DEF Contract!Next, Contract!vars
<1>1. ASSUME NEW o \in Ids, Idle, NextObject(o), incoming' = o, handing' = handing,
             Live' = Live
      PROVE  Contract!Accept(o)
  <2>1. o \notin Live
    BY <1>1 DEF IInv, OnePlace, NextObject
  <2> QED BY <1>1, <2>1 DEF Contract!Accept, Idle
<1>2. ASSUME NEW o \in Ids, NEW rec \in Limits, AddLimit(o, rec) PROVE Contract!Accept(o)
  BY <1>1, <1>2, AddLimitStep DEF AddLimit
<1>3. ASSUME NEW o \in Ids, NEW rec \in Cancels, AddCancel(o, rec) PROVE Contract!Accept(o)
  BY <1>1, <1>3, AddCancelStep DEF AddCancel
<1>4. ASSUME Match PROVE [Contract!Next]_(Contract!vars)
  <2>1. /\ handing = None /\ First \in Ids /\ First \in Live
        /\ Live' = IF Traded = Remaining(First) THEN Live \ {First} ELSE Live
        /\ incoming' = incoming
        /\ handing' = IF Traded = Remaining(First) THEN First ELSE handing
    BY <1>4, Serves, MatchStep, MatchTrades DEF Match, Matching
  <2>2. CASE Traded = Remaining(First)
    <3>1. Contract!Release(First)
      BY <2>1, <2>2 DEF Contract!Release
    <3> QED BY <2>1, <3>1
  <2>3. CASE Traded # Remaining(First)
    BY <2>1, <2>3
  <2> QED BY <2>2, <2>3
<1>5. ASSUME EndFilled PROVE Contract!Finish
  <2>1. Live' = Live
    BY <1>5 DEF EndFilled, Live, LiveOn
  <2> QED BY <1>5, <2>1 DEF EndFilled, Matching, Contract!Finish
<1>6. ASSUME EndResting PROVE Contract!Keep
  <2>1. Live' = Live \cup {incoming}
    BY <1>6, EndRestingStep
  <2> QED BY <1>6, <2>1 DEF EndResting, Matching, Contract!Keep
<1>7. ASSUME NEW id \in Ids, id \in Live, Live' = Live \ {id}, CancelResting(id),
             handing = None
      PROVE  Contract!Release(id)
  BY <1>7 DEF CancelResting, Contract!Release
<1>8. ASSUME CancelRequested PROVE \E o \in Ids : Contract!Release(o)
  <2> DEFINE id == order[incoming].target
  <2>1. id \in Ids /\ id \in Live /\ Live' = Live \ {id}
    BY <1>8, CancelRequestedStep
  <2>2. CancelResting(id) /\ handing = None
    BY <1>8 DEF CancelRequested, Cancelling
  <2> HIDE DEF id
  <2> QED BY <1>7, <2>1, <2>2
<1>9. ASSUME EndCancel PROVE Contract!Finish
  <2>1. Live' = Live
    BY <1>9 DEF EndCancel, Live, LiveOn
  <2> QED BY <1>9, <2>1 DEF EndCancel, Cancelling, Contract!Finish
<1>10. ASSUME HandBack PROVE Contract!HandBack
  BY <1>10, HandBackStep DEF HandBack, Contract!HandBack
<1>11. ASSUME NEW id \in Ids, CancelOrder(id) PROVE Contract!Release(id)
  BY <1>7, <1>11, CancelOrderStep DEF CancelOrder, Idle
<1>12. ASSUME Clear PROVE Contract!Forget
  BY <1>12, ClearStep DEF Clear, Idle, Contract!Forget
<1>13. ASSUME UNCHANGED vars PROVE UNCHANGED Contract!vars
  BY <1>13, Stutter DEF vars
<1> QED BY <1>2, <1>3, <1>4, <1>5, <1>6, <1>8, <1>9, <1>10, <1>11, <1>12, <1>13
        DEF Next, Process

\* Objects enter and leave the book one at a time, as the code that feeds it expects.
THEOREM BookImplementsContract == Spec => ImplementsContract
<1>1. Spec => Contract!Spec
  BY Invariance, ContractInit, ContractStep, PTL DEF Spec, Contract!Spec
<1> QED BY <1>1 DEF ImplementsContract
-----------------------------------------------------------------------------
(* The book implements price-time priority. *)

\* Both modules have the same orders and prices.
LEMMA SameData ==
  /\ PriceTime!None = None /\ PriceTime!Ids = Ids
  /\ PriceTime!Limits = Limits /\ PriceTime!Cancels = Cancels
  /\ PriceTime!NotSubmitted = NotSubmitted
  /\ \A s : PriceTime!Opposite(s) = Opposite(s)
  /\ \A s, p, q : PriceTime!Crosses(s, p, q) = Crosses(s, p, q)
  /\ \A s, p, q : PriceTime!BetterPrice(s, p, q) = BetterPrice(s, p, q)
  /\ \A m, n : PriceTime!Lesser(m, n) = Lesser(m, n)
BY DEF None, PriceTime!None, Ids, PriceTime!Ids, Sides, PriceTime!Sides,
       Limits, PriceTime!Limits, Cancels, PriceTime!Cancels,
       NotSubmitted, PriceTime!NotSubmitted, Opposite, PriceTime!Opposite,
       Crosses, PriceTime!Crosses, BetterPrice, PriceTime!BetterPrice,
       Lesser, PriceTime!Lesser

LEMMA PriceTimeInit == Init => PriceTime!Init
<1> SUFFICES ASSUME Init PROVE PriceTime!Init
  OBVIOUS
<1>1. Live = {}
  BY DEF Init, Live, LiveOn, Sides
<1> QED BY <1>1, SameData DEF Init, PriceTime!Init

\* The orders an incoming one could trade with rest in levels of the other side.
LEMMA CounterpartsRest ==
  ASSUME IInv, NEW o, NEW x \in PriceTime!Counterparts(o)
  PROVE  LET opp == Opposite(order[o].side) IN
         /\ x \in Live /\ x \in Ids /\ order[x].side = opp /\ opp \in Sides
         /\ order[x].price \in DOMAIN levels[opp] /\ order[x].price \in Prices
         /\ x \in LiveIn(levels[opp][order[x].price])
         /\ Crosses(order[o].side, order[o].price, order[x].price)
<1>1. /\ x \in Live /\ order[x].side = Opposite(order[o].side)
      /\ Crosses(order[o].side, order[o].price, order[x].price)
  BY SameData DEF PriceTime!Counterparts
<1>2. /\ x \in Ids /\ order[x].side \in Sides /\ order[x].price \in Prices
      /\ x \in At(levels, order[x].side, order[x].price)
  BY <1>1, Resting
<1> QED BY <1>1, <1>2 DEF At

\* match serves the order that price-time priority serves first.
LEMMA TradeIsPriceTime == IInv /\ Match => PriceTime!Trade
<1> SUFFICES ASSUME IInv, Match PROVE PriceTime!Trade
  OBVIOUS
<1>1. Matching /\ CanTrade(incoming) /\ incoming # None /\ order[incoming].type = "LIMIT"
  BY DEF Match, Matching
<1>2. /\ First \in Live /\ Home(order, First, Opposing, Best) /\ Opposing \in Sides
      /\ incoming \in Ids
  BY <1>1, Serves
<1>3. First \in PriceTime!Counterparts(incoming)
  BY <1>1, <1>2, SameData DEF PriceTime!Counterparts, Home, Opposing, Best, CanTrade
<1>4. PriceTime!FirstServed(First, PriceTime!Counterparts(incoming))
  <2>1. ASSUME NEW x \in PriceTime!Counterparts(incoming) \ {First}
        PROVE  \/ BetterPrice(Opposing, Best, order[x].price)
               \/ Best = order[x].price /\ First < x
    <3>1. /\ order[x].price \in DOMAIN levels[Opposing]
          /\ x \in LiveIn(levels[Opposing][order[x].price])
      BY CounterpartsRest DEF Opposing
    <3>2. CASE order[x].price = Best
      BY <1>1, <3>1, <3>2, Serves DEF Served
    <3>3. CASE order[x].price # Best
      BY <1>1, <3>1, <3>3, Serves
    <3> QED BY <3>2, <3>3
  <2> QED BY <1>2, <2>1, SameData DEF PriceTime!FirstServed, Home
<1>5. PriceTime!Remaining(incoming) > 0
  <2>1. filled[incoming] + Traded <= order[incoming].qty /\ Traded > 0 /\ Traded \in Nat
        /\ filled[incoming] \in Nat /\ order[incoming].qty \in Nat
    BY <1>1, TradedFits
  <2> QED BY <2>1 DEF PriceTime!Remaining
<1>6. Traded = Lesser(PriceTime!Remaining(incoming), PriceTime!Remaining(First))
  BY SameData DEF Traded, Remaining, PriceTime!Remaining
<1>7. TradeRecord(incoming, First, Best, Traded) = PriceTime!TradeRecord(incoming, First, Traded)
  BY <1>2 DEF TradeRecord, PriceTime!TradeRecord, Home
<1>8. /\ order' = order /\ incoming' = incoming
      /\ filled' = [filled EXCEPT ![incoming] = @ + Traded, ![First] = @ + Traded]
      /\ trades' = Append(trades, PriceTime!TradeRecord(incoming, First, Traded))
      /\ Live' = IF Traded = PriceTime!Remaining(First) THEN Live \ {First} ELSE Live
  BY <1>7, MatchTrades, MatchStep DEF Remaining, PriceTime!Remaining
<1> QED BY <1>1, <1>3, <1>4, <1>5, <1>6, <1>8, SameData
        DEF PriceTime!Trade, PriceTime!IncomingLimit

\* An order comes to rest when nothing that rests is within its limit.
LEMMA RestIsPriceTime == IInv /\ EndResting => PriceTime!Rest
<1> SUFFICES ASSUME IInv, EndResting PROVE PriceTime!Rest
  OBVIOUS
<1> DEFINE s == order[incoming].side
           p == order[incoming].price
           best == BestPrice(Opposite(s))
<1>1. incoming # None /\ order[incoming].type = "LIMIT" /\ ~IsFilled(incoming)
      /\ ~CanTrade(incoming)
  BY DEF EndResting, Matching
<1>2. incoming \in Ids /\ order[incoming] \in OrderRecords
  BY <1>1, Incoming DEF IInv, Fields
<1>3. order[incoming] \in Limits /\ s \in Sides /\ p \in Prices
      /\ order[incoming].qty \in 1..MaxQty
  BY <1>1, <1>2, Kinds
<1>4. PriceTime!Remaining(incoming) > 0
  <2>1. filled[incoming] \in Nat /\ order[incoming].qty \in Nat
    BY <1>2, <1>3, OrderAssumption DEF IInv, Fields
  <2> QED BY <1>1, <2>1 DEF IsFilled, PriceTime!Remaining
<1>5. PriceTime!Counterparts(incoming) = {}
  <2>1. SUFFICES ASSUME NEW x \in PriceTime!Counterparts(incoming) PROVE FALSE
    OBVIOUS
  <2> DEFINE P == DOMAIN levels[Opposite(s)]
             q == order[x].price
  <2>2. Opposite(s) \in Sides /\ q \in P /\ q \in Prices /\ Crosses(s, p, q)
    BY CounterpartsRest
  <2>3. P \subseteq Prices /\ P # {}
    BY <2>2 DEF IInv, Homes, Shape
  <2>4. best \in P /\ \A y \in P \ {best} : BetterPrice(Opposite(s), best, y)
    <3>1. \E y \in P : \A z \in P \ {y} : BetterPrice(Opposite(s), y, z)
      BY <2>2, <2>3, BestExists
    <3> QED BY <3>1 DEF BestPrice
  <2>5. ~Crosses(s, p, best)
    BY <1>1, <2>3 DEF CanTrade
  <2>6. p \in Nat /\ q \in Nat /\ best \in Nat
    BY <1>3, <2>2, <2>3, <2>4, OrderAssumption
  <2>7. q = best \/ BetterPrice(Opposite(s), best, q)
    BY <2>2, <2>4
  <2> HIDE DEF best, q, P, p
  <2> QED BY <1>3, <2>2, <2>5, <2>6, <2>7 DEF Crosses, BetterPrice, Opposite, Sides
<1>6. Live' = Live \cup {incoming}
  BY EndRestingStep
<1> QED BY <1>1, <1>4, <1>5, <1>6, SameData
        DEF PriceTime!Rest, PriceTime!IncomingLimit, EndResting

LEMMA CompleteIsPriceTime == IInv /\ EndFilled => PriceTime!Complete
<1> SUFFICES ASSUME IInv, EndFilled PROVE PriceTime!Complete
  OBVIOUS
<1>1. incoming # None /\ order[incoming].type = "LIMIT" /\ IsFilled(incoming)
  BY DEF EndFilled, Matching
<1>2. incoming \in Ids /\ order[incoming] \in OrderRecords
  BY <1>1, Incoming DEF IInv, Fields
<1>3. order[incoming] \in Limits /\ order[incoming].qty \in 1..MaxQty
  BY <1>1, <1>2, Kinds
<1>4. filled[incoming] \in Nat /\ filled[incoming] <= order[incoming].qty
  BY <1>2, <1>3, OrderAssumption DEF IInv, Fields, Accounts
<1>5. PriceTime!Remaining(incoming) = 0
  BY <1>1, <1>3, <1>4, OrderAssumption DEF IsFilled, PriceTime!Remaining
<1>6. Live' = Live
  BY DEF EndFilled, Live, LiveOn
<1> QED BY <1>1, <1>5, <1>6, SameData
        DEF PriceTime!Complete, PriceTime!IncomingLimit, EndFilled

\* Every step of the book is a step of price-time priority, or none.
LEMMA PriceTimeStep == IInv /\ [Next]_vars => [PriceTime!Next]_(PriceTime!vars)
<1> SUFFICES ASSUME IInv, [Next]_vars PROVE [PriceTime!Next]_(PriceTime!vars)
  OBVIOUS
<1> USE DEF PriceTime!Next, PriceTime!vars
<1>1. ASSUME NEW o \in Ids, NEW rec \in Limits, AddLimit(o, rec) PROVE PriceTime!Submit(o, rec)
  BY <1>1, AddLimitStep, SameData DEF AddLimit, Idle, NextObject, PriceTime!Submit
<1>2. ASSUME NEW o \in Ids, NEW rec \in Cancels, AddCancel(o, rec) PROVE PriceTime!Submit(o, rec)
  BY <1>2, AddCancelStep, SameData DEF AddCancel, Idle, NextObject, PriceTime!Submit
<1>3. ASSUME CancelRequested PROVE \E r \in Ids : PriceTime!Withdraw(r)
  <2> DEFINE id == order[incoming].target
  <2>1. id \in Ids /\ id \in Live /\ Live' = Live \ {id}
    BY <1>3, CancelRequestedStep
  <2>2. Cancelling /\ CancelResting(id) /\ incoming # None
    BY <1>3 DEF CancelRequested, Cancelling
  <2>3. order[incoming] = [type |-> "CANCEL", target |-> id]
    BY <2>2, RequestNamesAnother DEF Cancels
  <2>4. PriceTime!Withdraw(id)
    BY <2>1, <2>2, <2>3, SameData DEF PriceTime!Withdraw, CancelResting
  <2> QED BY <2>1, <2>4
<1>4. ASSUME EndCancel PROVE PriceTime!EndCancel
  <2> DEFINE id == order[incoming].target
  <2>1. Cancelling /\ ~Cancellable(id) /\ incoming # None /\ order[incoming].type = "CANCEL"
    BY <1>4 DEF EndCancel, Cancelling
  <2>2. id \in Ids
    BY <2>1, RequestNamesAnother
  <2>3. id \notin Live
    <3>1. id \in index => status[id] \notin {"FILLED", "CANCELLED"}
      BY <2>2 DEF IInv, Accounts
    <3> QED BY <2>1, <3>1 DEF Cancellable, IInv, Indexed
  <2>4. Live' = Live
    BY <1>4 DEF EndCancel, Live, LiveOn
  <2> QED BY <1>4, <2>1, <2>3, <2>4, SameData DEF PriceTime!EndCancel, EndCancel
<1>5. ASSUME HandBack PROVE UNCHANGED PriceTime!vars
  BY <1>5, HandBackStep DEF HandBack
<1>6. ASSUME NEW id \in Ids, CancelOrder(id) PROVE PriceTime!Withdraw(id)
  BY <1>6, CancelOrderStep, SameData DEF CancelOrder, CancelResting, Idle, PriceTime!Withdraw
<1>7. ASSUME Clear PROVE PriceTime!Clear
  BY <1>7, ClearStep, SameData DEF Clear, Idle, PriceTime!Clear
<1>8. ASSUME UNCHANGED vars PROVE UNCHANGED PriceTime!vars
  BY <1>8, Stutter DEF vars
<1> QED BY <1>1, <1>2, <1>3, <1>4, <1>5, <1>6, <1>7, <1>8, TradeIsPriceTime,
           CompleteIsPriceTime, RestIsPriceTime, SameData
        DEF Next, Process

\* Levels, holes, compaction and index serve orders by price and then by arrival.
THEOREM BookImplementsPriceTime == Spec => ImplementsPriceTime
<1>1. Spec => PriceTime!Spec
  BY Invariance, PriceTimeInit, PriceTimeStep, PTL DEF Spec, PriceTime!Spec
<1> QED BY <1>1 DEF ImplementsPriceTime
-----------------------------------------------------------------------------
(* Sums over finite sets: q is a sequence of trades, whose quantities are   *)
(* added by MapThenSumSet in an order that nobody knows.                    *)

\* What holds of a finite set when it holds of its proper subsets holds of all.
LEMMA SubsetInduction ==
  ASSUME NEW D, IsFiniteSet(D), NEW G,
         \A U \in SUBSET D : (\A V \in SUBSET U : V # U => V \in G) => U \in G
  PROVE  SUBSET D \subseteq G
<1> SUFFICES ASSUME NEW W \in SUBSET D, W \notin G PROVE FALSE
  OBVIOUS
<1> DEFINE T == {U \in SUBSET D : U \notin G}
           R == StrictSubsetOrdering(D)
<1>1. T \subseteq FiniteSubsetsOf(D) /\ T # {}
  BY FS_Subset DEF FiniteSubsetsOf
<1>2. PICK U \in T : \A V \in T : <<V, U>> \notin R
  <2>1. IsWellFoundedOn(R, FiniteSubsetsOf(D))
    BY FS_StrictSubsetOrderingWellFounded
  <2> HIDE DEF T, R
  <2> QED BY <1>1, <2>1, WFMin
<1>3. ASSUME NEW V \in SUBSET U, V # U PROVE V \in G
  <2>1. <<V, U>> \in R
    BY <1>3 DEF StrictSubsetOrdering
  <2> QED BY <1>2, <2>1
<1> QED BY <1>3

Sum(q, S) == MapThenSumSet(LAMBDA i : q[i].qty, S)
Pick(s)   == CHOOSE x \in s : TRUE

\* g gives every subset of D its sum, taking its elements as Pick does.
AddUp(q, D, g) ==
  [s \in SUBSET D |-> IF s = {} THEN 0 ELSE q[Pick(s)].qty + g[s \ {Pick(s)}]]
Adds(q, D, g) == g = AddUp(q, D, g)

LEMMA PickIn == \A s : s # {} => Pick(s) \in s
BY DEF Pick

LEMMA AddsSteps ==
  ASSUME NEW q, NEW D, NEW g, Adds(q, D, g), NEW s \in SUBSET D
  PROVE  g[s] = IF s = {} THEN 0 ELSE q[Pick(s)].qty + g[s \ {Pick(s)}]
<1>1. AddUp(q, D, g)[s] = IF s = {} THEN 0 ELSE q[Pick(s)].qty + g[s \ {Pick(s)}]
  BY DEF AddUp
<1> QED BY <1>1 DEF Adds

\* Sums of the same quantities agree.
LEMMA AddsAgree ==
  ASSUME NEW q, NEW D, NEW g, Adds(q, D, g),
         NEW r, NEW E, NEW h, Adds(r, E, h),
         IsFiniteSet(D), D \subseteq E, \A i \in D : q[i].qty = r[i].qty
  PROVE  \A U \in SUBSET D : g[U] = h[U]
<1> DEFINE G == {U \in SUBSET D : g[U] = h[U]}
<1>1. ASSUME NEW U \in SUBSET D, \A V \in SUBSET U : V # U => V \in G PROVE U \in G
  <2>1. CASE U = {}
    BY <2>1, AddsSteps
  <2>2. CASE U # {}
    <3>1. Pick(U) \in U /\ U \ {Pick(U)} \in SUBSET U /\ U \ {Pick(U)} # U
      BY <2>2, PickIn
    <3>2. g[U \ {Pick(U)}] = h[U \ {Pick(U)}]
      BY <1>1, <3>1
    <3>3. g[U] = q[Pick(U)].qty + g[U \ {Pick(U)}]
      BY <2>2, AddsSteps
    <3>4. h[U] = r[Pick(U)].qty + h[U \ {Pick(U)}]
      <4>1. U \in SUBSET E
        OBVIOUS
      <4>2. Adds(r, E, h)
        OBVIOUS
      <4>3. \A s \in SUBSET E :
              h[s] = IF s = {} THEN 0 ELSE r[Pick(s)].qty + h[s \ {Pick(s)}]
        BY <4>2, AddsSteps
      <4> QED BY <2>2, <4>1, <4>3
    <3>5. q[Pick(U)].qty = r[Pick(U)].qty
      BY <3>1
    <3> QED BY <3>2, <3>3, <3>4, <3>5
  <2> QED BY <2>1, <2>2
<1>2. SUBSET D \subseteq G
  <2> HIDE DEF G
  <2> QED BY <1>1, SubsetInduction
<1> QED BY <1>2

\* Every finite set has sums.
LEMMA AddsExist ==
  ASSUME NEW q, NEW D, IsFiniteSet(D)
  PROVE  \E g : Adds(q, D, g)
<1> DEFINE G == {U \in SUBSET D : \E g : Adds(q, U, g)}
           Table(V) == CHOOSE h : Adds(q, V, h)
           Val(V) == Table(V)[V]
<1>1. ASSUME NEW U \in SUBSET D, \A V \in SUBSET U : V # U => V \in G PROVE U \in G
  <2> DEFINE g == [s \in SUBSET U |-> IF s = {} THEN 0
                                      ELSE q[Pick(s)].qty + Val(s \ {Pick(s)})]
  <2>1. ASSUME NEW V \in SUBSET U, V # U PROVE Adds(q, V, Table(V))
    BY <1>1, <2>1
  <2> HIDE DEF Table
  <2>2. ASSUME NEW V \in SUBSET U, V # U PROVE g[V] = Val(V)
    <3>1. CASE V = {}
      <4>1. Table(V)[V] = 0
        BY <2>1, <2>2, <3>1, AddsSteps
      <4> QED BY <3>1, <4>1
    <3>2. CASE V # {}
      <4> DEFINE W == V \ {Pick(V)}
      <4>1. Pick(V) \in V /\ W \subseteq V /\ W \in SUBSET U /\ W # U
        BY <3>2, PickIn
      <4>2. Adds(q, W, Table(W)) /\ Adds(q, V, Table(V)) /\ IsFiniteSet(W)
        BY <2>1, <2>2, <4>1, FS_Subset
      <4>3. Table(W)[W] = Table(V)[W]
        <5> HIDE DEF W
        <5> QED BY <4>1, <4>2, AddsAgree
      <4>4. Table(V)[V] = q[Pick(V)].qty + Table(V)[W]
        BY <3>2, <4>2, AddsSteps
      <4>5. g[V] = q[Pick(V)].qty + Table(W)[W]
        BY <3>2
      <4> QED BY <4>3, <4>4, <4>5
    <3> QED BY <3>1, <3>2
  <2>3. ASSUME NEW s \in SUBSET U, s # {}
        PROVE  Val(s \ {Pick(s)}) = g[s \ {Pick(s)}]
    <3>1. s \ {Pick(s)} \in SUBSET U /\ s \ {Pick(s)} # U
      BY <2>3, PickIn
    <3> QED BY <2>2, <3>1
  <2>4. g = AddUp(q, U, g)
    <3> DEFINE a(s) == IF s = {} THEN 0 ELSE q[Pick(s)].qty + Val(s \ {Pick(s)})
               b(s) == IF s = {} THEN 0 ELSE q[Pick(s)].qty + g[s \ {Pick(s)}]
    <3>1. \A s \in SUBSET U : a(s) = b(s)
      BY <2>3
    <3>2. g = [s \in SUBSET U |-> a(s)] /\ AddUp(q, U, g) = [s \in SUBSET U |-> b(s)]
      BY Zenon DEF AddUp
    <3> HIDE DEF a, b, g
    <3> QED BY <3>1, <3>2
  <2> QED BY <2>4 DEF Adds
<1>2. SUBSET D \subseteq G
  <2> HIDE DEF G
  <2> QED BY <1>1, SubsetInduction
<1> QED BY <1>2

\* A sum does not depend on what is taken first.
LEMMA AddsAnyFirst ==
  ASSUME NEW q, NEW D, NEW g, Adds(q, D, g), IsFiniteSet(D),
         \A i \in D : q[i].qty \in Nat
  PROVE  \A U \in SUBSET D :
           /\ g[U] \in Nat
           /\ \A x \in U : g[U] = q[x].qty + g[U \ {x}]
<1> DEFINE P(U) == /\ g[U] \in Nat
                   /\ \A x \in U : g[U] = q[x].qty + g[U \ {x}]
           G == {U \in SUBSET D : P(U)}
<1>1. ASSUME NEW U \in SUBSET D, \A V \in SUBSET U : V # U => V \in G PROVE U \in G
  <2>1. CASE U = {}
    <3>1. g[U] = 0
      BY <2>1, AddsSteps
    <3> QED BY <2>1, <3>1
  <2>2. CASE U # {}
    <3> DEFINE c == Pick(U)
    <3>1. c \in U /\ U \ {c} \in SUBSET U /\ U \ {c} # U /\ q[c].qty \in Nat
      BY <2>2, PickIn
    <3>2. g[U] = q[c].qty + g[U \ {c}] /\ g[U \ {c}] \in Nat
      BY <1>1, <2>2, <3>1, AddsSteps
    <3>3. ASSUME NEW x \in U, x # c PROVE g[U] = q[x].qty + g[U \ {x}]
      <4> DEFINE W == (U \ {c}) \ {x}
      <4>1. /\ U \ {x} \in SUBSET U /\ U \ {x} # U
            /\ W \in SUBSET U /\ W # U /\ (U \ {x}) \ {c} = W
            /\ x \in U \ {c} /\ c \in U \ {x} /\ q[x].qty \in Nat
        BY <3>1, <3>3
      <4>2. U \ {c} \in G /\ U \ {x} \in G /\ W \in G
        BY <1>1, <3>1, <4>1
      <4>3. g[U \ {c}] = q[x].qty + g[W]
        BY <4>1, <4>2
      <4>4. g[U \ {x}] = q[c].qty + g[W]
        BY <4>1, <4>2
      <4>5. g[W] \in Nat
        BY <4>2
      <4> HIDE DEF W, c, G
      <4>6. q[c].qty + (q[x].qty + g[W]) = q[x].qty + (q[c].qty + g[W])
        BY <3>1, <4>1, <4>5
      <4> QED BY <3>2, <4>3, <4>4, <4>6
    <3>4. \A x \in U : g[U] = q[x].qty + g[U \ {x}]
      BY <3>2, <3>3
    <3>5. g[U] \in Nat
      BY <3>1, <3>2
    <3> QED BY <3>4, <3>5
  <2> QED BY <2>1, <2>2
<1>2. SUBSET D \subseteq G
  <2> HIDE DEF G
  <2> QED BY <1>1, SubsetInduction
<1> QED BY <1>2

\* MapThenSumSet adds up.
LEMMA SumAdds ==
  ASSUME NEW q, NEW D, IsFiniteSet(D)
  PROVE  \E g : Adds(q, D, g) /\ Sum(q, D) = g[D]
<1> DEFINE P(f) == f = [s \in SUBSET D |-> IF s = {} THEN 0
                          ELSE LET x == CHOOSE x \in s : TRUE IN q[x].qty + f[s \ {x}]]
<1>0. PICK h : Adds(q, D, h)
  BY AddsExist
<1>1. P(h)
  BY <1>0 DEF Adds, AddUp, Pick
<1>2. Sum(q, D) = (CHOOSE f : P(f))[D]
  BY Zenon DEF Sum, MapThenSumSet, MapThenFoldSet
<1> HIDE DEF P
<1>3. P(CHOOSE f : P(f))
  BY <1>1, Zenon
<1>4. Adds(q, D, CHOOSE f : P(f))
  BY <1>3 DEF P, Adds, AddUp, Pick
<1> QED BY <1>2, <1>4

LEMMA SumOfNone == ASSUME NEW q PROVE Sum(q, {}) = 0
<1>1. PICK g : Adds(q, {}, g) /\ Sum(q, {}) = g[{}]
  BY SumAdds, FS_EmptySet
<1> QED BY <1>1, AddsSteps

\* Later trades do not change the sum of earlier ones.
LEMMA SumOfSame ==
  ASSUME NEW q, NEW r, NEW S, IsFiniteSet(S), \A i \in S : q[i].qty = r[i].qty
  PROVE  Sum(q, S) = Sum(r, S)
<1>1. PICK g : Adds(q, S, g) /\ Sum(q, S) = g[S]
  BY SumAdds
<1>2. PICK h : Adds(r, S, h) /\ Sum(r, S) = h[S]
  BY SumAdds
<1>3. \A U \in SUBSET S : g[U] = h[U]
  BY <1>1, <1>2, AddsAgree
<1> QED BY <1>1, <1>2, <1>3

\* One trade more adds its quantity.
LEMMA SumOfOneMore ==
  ASSUME NEW q, NEW S, IsFiniteSet(S), NEW n, n \notin S,
         \A i \in S \cup {n} : q[i].qty \in Nat
  PROVE  Sum(q, S \cup {n}) = Sum(q, S) + q[n].qty /\ Sum(q, S) \in Nat
<1> DEFINE E == S \cup {n}
<1>1. IsFiniteSet(E)
  BY FS_AddElement
<1>2. PICK h : Adds(q, E, h) /\ Sum(q, E) = h[E]
  BY <1>1, SumAdds
<1>3. PICK g : Adds(q, S, g) /\ Sum(q, S) = g[S]
  BY SumAdds
<1>4. g[S] = h[S]
  <2>1. S \subseteq E
    OBVIOUS
  <2> HIDE DEF E
  <2>2. \A U \in SUBSET S : g[U] = h[U]
    BY <1>2, <1>3, <2>1, AddsAgree
  <2> QED BY <2>2
<1>5. h[E] = q[n].qty + h[E \ {n}] /\ h[S] \in Nat
  <2>1. E \in SUBSET E /\ n \in E /\ S \in SUBSET E /\ \A i \in E : q[i].qty \in Nat
    OBVIOUS
  <2> HIDE DEF E
  <2> QED BY <1>1, <1>2, <2>1, AddsAnyFirst
<1>6. E \ {n} = S /\ q[n].qty \in Nat
  OBVIOUS
<1> HIDE DEF E
<1>7. Sum(q, E) = Sum(q, S) + q[n].qty /\ Sum(q, S) \in Nat
  <2>1. h[E] = q[n].qty + h[S]
    BY <1>5, <1>6
  <2>2. Sum(q, E) = h[E] /\ Sum(q, S) = h[S]
    BY <1>2, <1>3, <1>4
  <2>3. h[E] = h[S] + q[n].qty
    BY <1>5, <1>6, <2>1
  <2> QED BY <1>5, <2>2, <2>3
<1> QED BY <1>7 DEF E
-----------------------------------------------------------------------------
(* filled_qty and the trades. *)

TradeRecords == [buy : Ids, sell : Ids, price : Prices, qty : Nat \ {0}]

\* Every trade is between two limit orders and within both limits, and an
\* order is filled by what its trades add up to.
Ledger ==
  /\ trades \in Seq(TradeRecords)
  /\ \A i \in DOMAIN trades :
       /\ order[trades[i].buy] \in Limits /\ order[trades[i].sell] \in Limits
       /\ order[trades[i].buy].price >= trades[i].price
       /\ order[trades[i].sell].price <= trades[i].price
  /\ \A o \in Ids : filled[o] = Sum(trades, TradesOf(o))

LEMMA Entries ==
  ASSUME Ledger, NEW i \in DOMAIN trades
  PROVE  trades[i].buy \in Ids /\ trades[i].sell \in Ids /\ trades[i].qty \in Nat \ {0}
<1>1. trades \in Seq(TradeRecords)
  BY DEF Ledger
<1>2. DOMAIN trades = 1..Len(trades) /\ Len(trades) \in Nat
  BY <1>1, LenProperties
<1>3. trades[i] \in TradeRecords
  BY <1>1, <1>2
<1> QED BY <1>3 DEF TradeRecords

LEMMA LedgerInit == Init => Ledger
<1> SUFFICES ASSUME Init PROVE Ledger
  OBVIOUS
<1>1. trades \in Seq(TradeRecords) /\ DOMAIN trades = {}
  BY EmptySeq DEF Init
<1>2. \A o \in Ids : TradesOf(o) = {} /\ filled[o] = 0
  BY <1>1 DEF TradesOf, Init
<1> QED BY <1>1, <1>2, SumOfNone DEF Ledger

\* Nothing but a trade changes the ledger.
LEMMA LedgerKept ==
  ASSUME Ledger, trades' = trades, filled' = filled,
         \A o \in Ids : order[o] \in Limits => order'[o] = order[o]
  PROVE  Ledger'
<1>1. \A o : TradesOf(o)' = TradesOf(o)
  BY DEF TradesOf
<1>2. \A i \in DOMAIN trades : trades[i].buy \in Ids /\ trades[i].sell \in Ids
  BY Entries
<1> QED BY <1>1, <1>2 DEF Ledger

LEMMA LedgerTrade == IInv /\ Ledger /\ Match => Ledger'
<1> SUFFICES ASSUME IInv, Ledger, Match PROVE Ledger'
  OBVIOUS
<1> DEFINE n == Len(trades) + 1
           t == TradeRecord(incoming, First, Best, Traded)
<1>1. Matching /\ CanTrade(incoming)
  BY DEF Match
<1>2. /\ incoming \in Ids /\ First \in Ids /\ First # incoming
      /\ order[incoming] \in Limits /\ order[incoming].side \in Sides
      /\ order[incoming].price \in Prices /\ Best \in Prices
      /\ Home(order, First, Opposing, Best)
  BY <1>1, Serves
<1>3. Traded \in Nat /\ Traded > 0
  BY <1>1, TradedFits
<1>4. t \in TradeRecords /\ {t.buy, t.sell} = {incoming, First} /\ t.qty = Traded
  BY <1>2, <1>3 DEF TradeRecord, TradeRecords
<1>5. /\ order[t.buy] \in Limits /\ order[t.sell] \in Limits
      /\ order[t.buy].price >= t.price /\ order[t.sell].price <= t.price
  <2>1. Crosses(order[incoming].side, order[incoming].price, Best)
    BY <1>1 DEF CanTrade, Best, Opposing
  <2>2. order[incoming].price \in Nat /\ Best \in Nat
    BY <1>2, OrderAssumption
  <2> QED BY <1>2, <2>1, <2>2 DEF TradeRecord, Crosses, Home
<1>6. /\ trades' = Append(trades, t) /\ order' = order
      /\ filled' = [filled EXCEPT ![incoming] = @ + Traded, ![First] = @ + Traded]
  BY MatchTrades
<1>7. trades \in Seq(TradeRecords)
  BY DEF Ledger
<1> HIDE DEF t
<1>8. /\ trades' \in Seq(TradeRecords)
      /\ DOMAIN trades = 1..Len(trades) /\ DOMAIN trades' = 1..n /\ Len(trades) \in Nat
      /\ \A i \in DOMAIN trades : trades'[i] = trades[i] /\ trades[i] \in TradeRecords
      /\ trades'[n] = t
  BY <1>4, <1>6, <1>7, AppendProperties, LenProperties
<1>9. DOMAIN trades' = DOMAIN trades \cup {n} /\ n \notin DOMAIN trades
  BY <1>8
<1>10. ASSUME NEW i \in DOMAIN trades'
       PROVE  /\ order'[trades'[i].buy] \in Limits /\ order'[trades'[i].sell] \in Limits
              /\ order'[trades'[i].buy].price >= trades'[i].price
              /\ order'[trades'[i].sell].price <= trades'[i].price
  <2>1. CASE i \in DOMAIN trades
    BY <1>6, <1>8, <2>1 DEF Ledger
  <2>2. CASE i = n
    BY <1>5, <1>6, <1>8, <2>2
  <2> QED BY <1>9, <2>1, <2>2
<1>11. ASSUME NEW o \in Ids PROVE filled'[o] = Sum(trades', TradesOf(o)')
  <2>1. /\ IsFiniteSet(TradesOf(o)) /\ TradesOf(o) \subseteq DOMAIN trades
        /\ n \notin TradesOf(o)
    <3>1. IsFiniteSet(DOMAIN trades) /\ TradesOf(o) \subseteq DOMAIN trades
      BY <1>8, FS_Interval DEF TradesOf
    <3> QED BY <1>9, <3>1, FS_Subset
  <2>2. filled[o] = Sum(trades, TradesOf(o)) /\ filled[o] \in Nat
    BY OrderAssumption DEF Ledger, IInv, Fields
  <2>3. \A i \in TradesOf(o) : trades[i].qty = trades'[i].qty /\ trades'[i].qty \in Nat
    BY <1>8, <2>1 DEF TradeRecords
  <2>4. Sum(trades, TradesOf(o)) = Sum(trades', TradesOf(o))
    BY <2>1, <2>3, SumOfSame
  <2>5. CASE o \in {incoming, First}
    <3>1. TradesOf(o)' = TradesOf(o) \cup {n}
      BY <1>4, <1>8, <1>9, <2>5 DEF TradesOf
    <3>2. trades'[n].qty = Traded
      BY <1>4, <1>8
    <3>3. Sum(trades', TradesOf(o) \cup {n}) = Sum(trades', TradesOf(o)) + trades'[n].qty
      <4>1. \A i \in TradesOf(o) \cup {n} : trades'[i].qty \in Nat
        BY <1>3, <2>3, <3>2
      <4> HIDE DEF n
      <4> QED BY <2>1, <4>1, SumOfOneMore
    <3>4. filled'[o] = filled[o] + Traded
      BY <1>2, <1>6, <2>5 DEF IInv, Fields
    <3> QED BY <2>2, <2>4, <3>1, <3>2, <3>3, <3>4
  <2>6. CASE o \notin {incoming, First}
    <3>1. TradesOf(o)' = TradesOf(o)
      BY <1>4, <1>8, <1>9, <2>6 DEF TradesOf
    <3>2. filled'[o] = filled[o]
      BY <1>2, <1>6, <2>6 DEF IInv, Fields
    <3> QED BY <2>2, <2>4, <3>1, <3>2
  <2> QED BY <2>5, <2>6
<1> QED BY <1>8, <1>10, <1>11 DEF Ledger

LEMMA LedgerStep == IInv /\ Ledger /\ [Next]_vars => Ledger'
<1> SUFFICES ASSUME IInv, Ledger, [Next]_vars PROVE Ledger'
  OBVIOUS
<1>1. ASSUME NEW o \in Ids, NEW rec, NextObject(o), order' = [order EXCEPT ![o] = rec],
             trades' = trades, filled' = filled
      PROVE  Ledger'
  <2>1. order[o] \notin Limits
    BY <1>1 DEF NextObject, NotSubmitted, Limits
  <2>2. \A x \in Ids : order[x] \in Limits => order'[x] = order[x]
    BY <1>1, <2>1 DEF IInv, Fields
  <2> QED BY <1>1, <2>2, LedgerKept
<1>2. ASSUME order' = order, trades' = trades, filled' = filled PROVE Ledger'
  BY <1>2, LedgerKept
<1>3. ASSUME NEW o \in Ids, NEW rec \in Limits, AddLimit(o, rec) PROVE Ledger'
  BY <1>1, <1>3 DEF AddLimit
<1>4. ASSUME NEW o \in Ids, NEW rec \in Cancels, AddCancel(o, rec) PROVE Ledger'
  BY <1>1, <1>4 DEF AddCancel
<1>5. CASE EndFilled \/ EndResting \/ CancelRequested \/ EndCancel \/ HandBack \/ Clear
  BY <1>2, <1>5 DEF EndFilled, EndResting, CancelRequested, CancelResting, EndCancel,
                    HandBack, Clear
<1>6. ASSUME NEW id \in Ids, CancelOrder(id) PROVE Ledger'
  BY <1>2, <1>6 DEF CancelOrder, CancelResting
<1>7. CASE UNCHANGED vars
  BY <1>2, <1>7 DEF vars
<1> QED BY <1>3, <1>4, <1>5, <1>6, <1>7, LedgerTrade DEF Next, Process

\* filled_qty is what the trades of an order add up to, and never more than its
\* quantity; every trade is within both limits and moves something.
THEOREM Balanced == Spec => []QuantitiesBalance
<1>1. IInv /\ Ledger => QuantitiesBalance
  <2> SUFFICES ASSUME IInv, Ledger PROVE QuantitiesBalance
    OBVIOUS
  <2>1. ASSUME NEW o \in Ids, order[o] \in Limits
        PROVE  /\ filled[o] = MapThenSumSet(LAMBDA i : trades[i].qty, TradesOf(o))
               /\ filled[o] <= order[o].qty
               /\ o \in Live => filled[o] < order[o].qty
    <3>1. filled[o] = Sum(trades, TradesOf(o))
      BY DEF Ledger
    <3>2. filled[o] = MapThenSumSet(LAMBDA i : trades[i].qty, TradesOf(o))
      BY <3>1, Zenon DEF Sum
    <3>3. filled[o] <= order[o].qty /\ (o \in Live => filled[o] < order[o].qty)
      BY <2>1 DEF IInv, Accounts
    <3> QED BY <3>2, <3>3, Zenon
  <2>2. ASSUME NEW i \in DOMAIN trades
        PROVE  /\ order[trades[i].buy].price >= trades[i].price
               /\ order[trades[i].sell].price <= trades[i].price
               /\ trades[i].qty > 0
    <3>1. trades[i].qty \in Nat \ {0}
      BY Entries
    <3>2. trades[i].qty > 0
      BY <3>1
    <3> QED BY <3>2 DEF Ledger
  <2> QED BY <2>1, <2>2, Zenon DEF QuantitiesBalance
<1>2. Spec => []Ledger
  BY Invariance, LedgerInit, LedgerStep, PTL DEF Spec
<1> QED BY <1>1, <1>2, Invariance, PTL
=============================================================================
