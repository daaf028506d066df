-------------------------- MODULE MemoryPoolProofs --------------------------
(***************************************************************************)
(* The free list of the pool is exact, for any number of slots.  The       *)
(* invariant names the chain of free slots that the links make; induction  *)
(* over the naturals, as sets, says that walking the links follows it.     *)
(***************************************************************************)
EXTENDS MemoryPool, FiniteSetTheorems, TLAPS

\* The chain c is the free list: every free slot once, linked in this order.
FreeChain(c) ==
  /\ c \in [1..available -> Slots]
  /\ \A i, j \in 1..available : c[i] = c[j] => i = j
  /\ \A s \in Slots : s \notin inUse <=> \E i \in 1..available : c[i] = s
  /\ freeHead = IF available = 0 THEN Null ELSE c[1]
  /\ \A i \in 1..available : freeList[c[i]] = IF i = available THEN Null ELSE c[i + 1]

IInv == TypeOK /\ \E c \in [1..available -> Slots] : FreeChain(c)
-----------------------------------------------------------------------------
(* Counting and induction. *)

\* Slots are numbers, Null is none, and there are MaxObjects of them.
LEMMA SlotsAreNumbers ==
  /\ MaxObjects \in Nat \ {0} /\ Null \notin Slots
  /\ \A s \in Slots : s \in Nat
  /\ IsFiniteSet(Slots) /\ Cardinality(Slots) = MaxObjects
<1>1. MaxObjects \in Nat \ {0} /\ Null \notin Slots /\ \A s \in Slots : s \in Nat
  BY PoolAssumption DEF Slots
<1>2. IsFiniteSet(0..(MaxObjects - 1)) /\ Cardinality(0..(MaxObjects - 1)) = MaxObjects
  BY <1>1, FS_Interval
<1> QED BY <1>1, <1>2 DEF Slots

\* A set of naturals with 0 and the successors of its elements has them all: a
\* least interval that ends outside it would have a smaller one.
LEMMA SetInduction ==
  ASSUME NEW D, 0 \in D, \A n \in Nat : n \in D => n + 1 \in D
  PROVE  Nat \subseteq D
<1> SUFFICES ASSUME NEW n \in Nat, n \notin D PROVE FALSE
  OBVIOUS
<1> DEFINE T == {0..m : m \in Nat \ D}
           R == StrictSubsetOrdering(Nat)
<1>1. T \subseteq FiniteSubsetsOf(Nat) /\ T # {}
  <2>1. ASSUME NEW m \in Nat PROVE 0..m \subseteq Nat /\ IsFiniteSet(0..m)
    BY FS_Interval
  <2> QED BY <2>1 DEF FiniteSubsetsOf
<1>2. PICK x \in T : \A y \in T : <<y, x>> \notin R
  <2>1. IsWellFoundedOn(R, FiniteSubsetsOf(Nat))
    BY FS_StrictSubsetOrderingWellFounded
  <2> HIDE DEF T, R
  <2> QED BY <1>1, <2>1, WFMin
<1>3. PICK m \in Nat \ D : x = 0..m
  OBVIOUS
<1>4. m - 1 \in Nat \ D
  <2>1. m - 1 \in Nat /\ (m - 1) + 1 = m
    OBVIOUS
  <2> QED BY <2>1
<1>5. 0..(m - 1) \in T
  BY <1>4
<1>6. <<0..(m - 1), x>> \in R
  <2>1. 0..(m - 1) \subseteq 0..m /\ m \in 0..m /\ m \notin 0..(m - 1) /\ 0..m \subseteq Nat
    BY <1>4
  <2> QED BY <1>3, <2>1 DEF StrictSubsetOrdering
<1> QED BY <1>2, <1>5, <1>6

\* available_ is the length of the chain, so it counts the free slots.
LEMMA ChainCounts ==
  ASSUME TypeOK, NEW c, FreeChain(c)
  PROVE  available = Cardinality(Slots \ inUse)
<1> DEFINE F == Slots \ inUse
<1>1. available \in Nat
  BY DEF TypeOK
<1>2. c \in [1..available -> F]
  <2>1. \A i \in 1..available : c[i] \in F
    BY DEF FreeChain
  <2> QED BY <2>1 DEF FreeChain
<1>3. c \in Bijection(1..available, F)
  BY <1>2 DEF FreeChain, Bijection, Injection, Surjection, IsInjective
<1>4. ExistsBijection(1..available, F)
  BY <1>3 DEF ExistsBijection
<1> QED BY <1>1, <1>4, FS_CountingElements
-----------------------------------------------------------------------------
(* The invariant is inductive. *)

\* What init_free_list leaves.
Fresh ==
  /\ freeList = [i \in Slots |-> InitialLink(i)] /\ freeHead = 0
  /\ available = MaxObjects /\ given \in Slots \cup {Null} /\ inUse = {}

\* It links every slot to the next one.
LEMMA InitialChain == Fresh => IInv
<1> SUFFICES ASSUME Fresh PROVE IInv
  OBVIOUS
<1> USE DEF Fresh
<1> DEFINE c == [i \in 1..MaxObjects |-> i - 1]
<1>1. \A i \in 1..MaxObjects : i - 1 \in Slots
  BY SlotsAreNumbers DEF Slots
<1>2. \A s \in Slots : s + 1 \in 1..MaxObjects /\ (s + 1) - 1 = s
  BY SlotsAreNumbers DEF Slots
<1>3. c \in [1..available -> Slots]
  BY <1>1
<1>4. \A i, j \in 1..available : c[i] = c[j] => i = j
  BY SlotsAreNumbers
<1>5. \A s \in Slots : \E i \in 1..available : c[i] = s
  BY <1>2
<1>6. freeHead = c[1] /\ available # 0
  BY SlotsAreNumbers
<1>7. ASSUME NEW i \in 1..available
      PROVE  freeList[c[i]] = IF i = available THEN Null ELSE c[i + 1]
  BY <1>1, SlotsAreNumbers DEF InitialLink
<1>8. FreeChain(c)
  <2> HIDE DEF c
  <2> QED BY <1>3, <1>4, <1>5, <1>6, <1>7 DEF FreeChain
<1>9. TypeOK
  <2>1. \A i \in Slots : InitialLink(i) \in Slots \cup {Null}
    BY SlotsAreNumbers DEF InitialLink, Slots
  <2>2. 0 \in Slots /\ MaxObjects \in 0..MaxObjects
    BY SlotsAreNumbers DEF Slots
  <2> QED BY <2>1, <2>2 DEF TypeOK
<1> QED BY <1>3, <1>8, <1>9 DEF IInv

\* The first free slot goes out, and the chain starts with the next.
LEMMA AllocateKeeps ==
  ASSUME IInv, Allocate
  PROVE  IInv'
<1>1. TypeOK /\ \E c \in [1..available -> Slots] : FreeChain(c)
  BY DEF IInv
<1>2. PICK c \in [1..available -> Slots] : FreeChain(c)
  BY <1>1
<1>3. /\ freeHead # Null /\ freeHead' = freeList[freeHead] /\ available' = available - 1
      /\ given' = freeHead /\ inUse' = inUse \cup {freeHead} /\ freeList' = freeList
  BY DEF Allocate
<1>4. available \in Nat \ {0} /\ freeHead = c[1] /\ 1 \in 1..available
  BY <1>1, <1>2, <1>3 DEF TypeOK, FreeChain
<1>d. PICK d : d = [i \in 1..(available - 1) |-> c[i + 1]]
  OBVIOUS
<1> USE <1>d
<1>5. \A i \in 1..(available - 1) : i + 1 \in 1..available
  BY <1>4
<1>6. d \in [1..available' -> Slots]
  BY <1>2, <1>3, <1>5
<1>7. \A i, j \in 1..available' : d[i] = d[j] => i = j
  BY <1>2, <1>3, <1>4, <1>5 DEF FreeChain
<1>8. ASSUME NEW s \in Slots
      PROVE  s \notin inUse' <=> \E i \in 1..available' : d[i] = s
  <2>1. ASSUME s \notin inUse' PROVE \E i \in 1..available' : d[i] = s
    <3>1. PICK i \in 1..available : c[i] = s
      BY <1>2, <1>3, <2>1 DEF FreeChain
    <3>2. i # 1
      BY <1>3, <1>4, <2>1, <3>1
    <3>3. i - 1 \in 1..(available - 1) /\ (i - 1) + 1 = i
      BY <1>4, <3>1, <3>2
    <3> QED BY <1>3, <3>1, <3>3
  <2>2. ASSUME NEW i \in 1..available', d[i] = s PROVE s \notin inUse'
    <3>1. i + 1 \in 1..available /\ i + 1 # 1 /\ c[i + 1] = s
      BY <1>3, <1>4, <1>5, <2>2
    <3> QED BY <1>2, <1>3, <1>4, <3>1 DEF FreeChain
  <2> QED BY <2>1, <2>2
<1>9. freeHead' = IF available' = 0 THEN Null ELSE d[1]
  <2>1. freeHead' = IF 1 = available THEN Null ELSE c[1 + 1]
    BY <1>2, <1>3, <1>4 DEF FreeChain
  <2> QED BY <1>3, <1>4, <2>1
<1>10. ASSUME NEW i \in 1..available'
       PROVE  freeList'[d[i]] = IF i = available' THEN Null ELSE d[i + 1]
  <2>1. i + 1 \in 1..available /\ d[i] = c[i + 1]
    BY <1>3, <1>5
  <2>2. freeList[c[i + 1]] = IF i + 1 = available THEN Null ELSE c[(i + 1) + 1]
    BY <1>2, <2>1 DEF FreeChain
  <2> QED BY <1>3, <1>4, <2>1, <2>2
<1>11. FreeChain(d)'
  BY <1>6, <1>7, <1>8, <1>9, <1>10 DEF FreeChain
<1>12. TypeOK'
  BY <1>1, <1>3, <1>4, SlotsAreNumbers DEF TypeOK
<1> QED BY <1>6, <1>11, <1>12 DEF IInv

\* A slot given back comes first.
LEMMA DeallocateKeeps ==
  ASSUME IInv, NEW s \in Slots, Deallocate(s)
  PROVE  IInv'
<1>1. TypeOK /\ \E c \in [1..available -> Slots] : FreeChain(c)
  BY DEF IInv
<1>2. PICK c \in [1..available -> Slots] : FreeChain(c)
  BY <1>1
<1>3. /\ s \in inUse /\ freeList' = [freeList EXCEPT ![s] = freeHead] /\ freeHead' = s
      /\ available' = available + 1 /\ inUse' = inUse \ {s} /\ given' = given
  BY DEF Deallocate, LinkFirst
<1>4. available \in Nat /\ freeList \in [Slots -> Slots \cup {Null}] /\ inUse \subseteq Slots
  BY <1>1 DEF TypeOK
<1>d. PICK d : d = [i \in 1..(available + 1) |-> IF i = 1 THEN s ELSE c[i - 1]]
  OBVIOUS
<1> USE <1>d
<1>5. \A i \in 1..(available + 1) : i # 1 => i - 1 \in 1..available
  BY <1>4
<1>6. d \in [1..available' -> Slots]
  BY <1>2, <1>3, <1>5
<1>7. \A i \in 1..available : c[i] # s
  BY <1>2, <1>3 DEF FreeChain
<1>8. ASSUME NEW i \in 1..available', NEW j \in 1..available', d[i] = d[j]
      PROVE  i = j
  <2>1. CASE i = 1 \/ j = 1
    BY <1>3, <1>4, <1>5, <1>7, <1>8, <2>1
  <2>2. CASE i # 1 /\ j # 1
    <3>1. i - 1 \in 1..available /\ j - 1 \in 1..available /\ c[i - 1] = c[j - 1]
      BY <1>3, <1>5, <1>8, <2>2
    <3>2. i - 1 = j - 1
      BY <1>2, <3>1 DEF FreeChain
    <3> QED BY <1>3, <1>4, <3>2
  <2> QED BY <2>1, <2>2
<1>9. ASSUME NEW t \in Slots
      PROVE  t \notin inUse' <=> \E i \in 1..available' : d[i] = t
  <2>1. ASSUME t \notin inUse' PROVE \E i \in 1..available' : d[i] = t
    <3>1. CASE t = s
      BY <1>3, <1>4, <3>1
    <3>2. CASE t # s
      <4>1. PICK i \in 1..available : c[i] = t
        BY <1>2, <1>3, <2>1, <3>2 DEF FreeChain
      <4>2. i + 1 \in 1..(available + 1) /\ i + 1 # 1 /\ (i + 1) - 1 = i
        BY <1>4, <4>1
      <4> QED BY <1>3, <4>1, <4>2
    <3> QED BY <3>1, <3>2
  <2>2. ASSUME NEW i \in 1..available', d[i] = t PROVE t \notin inUse'
    <3>1. CASE i = 1
      BY <1>3, <2>2, <3>1
    <3>2. CASE i # 1
      <4>1. i - 1 \in 1..available /\ c[i - 1] = t
        BY <1>3, <1>5, <2>2, <3>2
      <4> QED BY <1>2, <1>3, <4>1 DEF FreeChain
    <3> QED BY <3>1, <3>2
  <2> QED BY <2>1, <2>2
<1>10. freeHead' = IF available' = 0 THEN Null ELSE d[1]
  BY <1>3, <1>4
<1>11. ASSUME NEW i \in 1..available'
       PROVE  freeList'[d[i]] = IF i = available' THEN Null ELSE d[i + 1]
  <2>1. CASE i = 1
    <3>1. freeList'[d[i]] = freeHead
      BY <1>3, <1>4, <2>1
    <3>2. CASE available = 0
      BY <1>2, <1>3, <2>1, <3>1, <3>2 DEF FreeChain
    <3>3. CASE available # 0
      <4>1. freeHead = c[1] /\ 1 + 1 \in 1..(available + 1) /\ 1 # available + 1
        BY <1>2, <1>4, <3>3 DEF FreeChain
      <4> QED BY <1>3, <2>1, <3>1, <4>1
    <3> QED BY <3>2, <3>3
  <2>2. CASE i # 1
    <3>1. i - 1 \in 1..available /\ d[i] = c[i - 1]
      BY <1>3, <1>5, <2>2
    <3>2. freeList[c[i - 1]] = IF i - 1 = available THEN Null ELSE c[(i - 1) + 1]
      BY <1>2, <3>1 DEF FreeChain
    <3>3. freeList'[d[i]] = freeList[c[i - 1]]
      BY <1>2, <1>3, <1>4, <1>7, <3>1
    <3>4. CASE i = available'
      BY <1>3, <1>4, <3>2, <3>3, <3>4
    <3>5. CASE i # available'
      <4>1. i + 1 \in 1..(available + 1) /\ i + 1 # 1 /\ (i + 1) - 1 = i /\ (i - 1) + 1 = i
            /\ i - 1 # available
        BY <1>3, <1>4, <3>5
      <4> QED BY <1>3, <3>2, <3>3, <3>5, <4>1
    <3> QED BY <3>4, <3>5
  <2> QED BY <2>1, <2>2
<1>12. FreeChain(d)'
  BY <1>6, <1>8, <1>9, <1>10, <1>11 DEF FreeChain
<1>13. available + 1 <= MaxObjects
  <2>1. available = Cardinality(Slots \ inUse)
    BY <1>1, <1>2, ChainCounts
  <2>2. IsFiniteSet(Slots \ inUse) /\ Cardinality((Slots \ inUse) \cup {s}) = available + 1
    <3>1. IsFiniteSet(Slots \ inUse)
      BY SlotsAreNumbers, FS_Difference
    <3> QED BY <1>3, <2>1, <3>1, FS_AddElement
  <2>3. Cardinality((Slots \ inUse) \cup {s}) <= Cardinality(Slots)
    <3>1. (Slots \ inUse) \cup {s} \in SUBSET Slots
      OBVIOUS
    <3> QED BY <3>1, SlotsAreNumbers, FS_Subset
  <2> QED BY <2>2, <2>3, SlotsAreNumbers
<1>14. TypeOK'
  BY <1>1, <1>3, <1>4, <1>13, SlotsAreNumbers DEF TypeOK
<1> QED BY <1>6, <1>12, <1>14 DEF IInv

\* The fresh pool is one chain of all its slots.
LEMMA InitInvariant == Init => IInv
BY InitialChain DEF Init, Fresh

\* reset() makes the first chain again, whatever was out.
LEMMA ResetKeeps ==
  ASSUME IInv, Reset
  PROVE  IInv'
<1>1. Fresh'
  BY DEF Fresh, Reset, InitFreeList, IInv, TypeOK
<1>2. Fresh' => IInv'
  BY InitialChain, PTL
<1> QED BY <1>1, <1>2

\* The invariant holds of every behaviour.
LEMMA Invariance == Spec => []IInv
<1>1. IInv /\ [Next]_vars => IInv'
  <2> SUFFICES ASSUME IInv, [Next]_vars PROVE IInv'
    OBVIOUS
  <2>1. ASSUME UNCHANGED <<freeList, freeHead, available, inUse>>,
               given' \in Slots \cup {Null}
        PROVE  IInv'
    BY <2>1 DEF IInv, TypeOK, FreeChain
  <2>2. CASE AllocateFails
    BY <2>1, <2>2 DEF AllocateFails
  <2>3. CASE UNCHANGED vars
    BY <2>1, <2>3 DEF vars, IInv, TypeOK
  <2> QED BY <2>2, <2>3, AllocateKeeps, DeallocateKeeps, ResetKeeps DEF Next
<1> QED BY <1>1, InitInvariant, PTL DEF Spec
-----------------------------------------------------------------------------
(* Walking the links. *)

\* What NthFree is defined to be, for some function g.
Walk(g) ==
  [n \in Nat |-> IF n <= 1 THEN freeHead
                 ELSE LET before == g[n - 1]
                      IN IF before = Null THEN Null ELSE freeList[before]]

\* When some function satisfies the equation of NthFree, NthFree does.
LEMMA NthFreeUnfolds ==
  ASSUME NEW g, g = Walk(g)
  PROVE  NthFree = Walk(NthFree)
<1> DEFINE P(f) == f = [n \in Nat |-> IF n <= 1 THEN freeHead
                                      ELSE LET before == f[n - 1]
                                           IN IF before = Null THEN Null ELSE freeList[before]]
<1>1. P(g)
  BY DEF Walk
<1>2. NthFree = CHOOSE f : P(f)
  BY DEF NthFree
<1> HIDE DEF P
<1>3. P(CHOOSE f : P(f))
  BY <1>1, Zenon
<1>4. P(NthFree)
  BY <1>2, <1>3, Zenon
<1> QED BY <1>4 DEF P, Walk

\* Following the links from free_head_ follows the chain to its end.
LEMMA WalkFollowsChain ==
  ASSUME TypeOK, NEW c, FreeChain(c)
  PROVE  \A n \in Nat \ {0} : NthFree[n] = IF n <= available THEN c[n] ELSE Null
<1>a. available \in Nat /\ Null \notin Slots /\ \A i \in 1..available : c[i] \in Slots
  BY SlotsAreNumbers DEF TypeOK, FreeChain
<1>b. PICK g : g = [n \in Nat |-> IF n = 0 THEN freeHead
                                  ELSE IF n <= available THEN c[n] ELSE Null]
  OBVIOUS
<1>1. ASSUME NEW n \in Nat
      PROVE  g[n] = Walk(g)[n]
  <2>1. CASE n <= 1
    <3>1. Walk(g)[n] = freeHead
      BY <2>1 DEF Walk
    <3>2. g[n] = freeHead
      BY <1>a, <1>b, <2>1 DEF FreeChain
    <3> QED BY <3>1, <3>2
  <2>2. CASE n > 1
    <3>1. n - 1 \in Nat \ {0} /\ (n - 1) + 1 = n
      BY <2>2
    <3>2. g[n - 1] = IF n - 1 <= available THEN c[n - 1] ELSE Null
      BY <1>b, <3>1
    <3>3. Walk(g)[n] = IF g[n - 1] = Null THEN Null ELSE freeList[g[n - 1]]
      BY <2>2 DEF Walk
    <3>4. CASE n - 1 <= available
      <4>1. n - 1 \in 1..available
        BY <1>a, <3>1, <3>4
      <4>2. g[n - 1] = c[n - 1] /\ c[n - 1] # Null
        BY <1>a, <3>2, <3>4, <4>1
      <4>3. freeList[c[n - 1]] = IF n - 1 = available THEN Null ELSE c[n]
        BY <3>1, <4>1 DEF FreeChain
      <4>4. g[n] = IF n <= available THEN c[n] ELSE Null
        BY <1>b, <2>2
      <4> QED BY <1>a, <3>3, <3>4, <4>2, <4>3, <4>4
    <3>5. CASE n - 1 > available
      BY <1>a, <1>b, <2>2, <3>2, <3>3, <3>5
    <3> QED BY <1>a, <3>4, <3>5
  <2> QED BY <2>1, <2>2
<1>2. g = Walk(g)
  BY <1>1, <1>b DEF Walk
<1>3. NthFree = Walk(NthFree)
  BY <1>2, NthFreeUnfolds
<1> DEFINE D == {n \in Nat : NthFree[n] = g[n]}
<1>4. 0 \in D
  <2>1. NthFree[0] = freeHead
    <3>1. Walk(NthFree)[0] = freeHead
      BY DEF Walk
    <3> QED BY <1>3, <3>1
  <2> QED BY <1>b, <2>1
<1>5. ASSUME NEW n \in Nat, n \in D PROVE n + 1 \in D
  <2>1. NthFree[n] = g[n] /\ n + 1 \in Nat /\ (n + 1) - 1 = n
    BY <1>5
  <2>2. Walk(NthFree)[n + 1] = Walk(g)[n + 1]
    BY <2>1 DEF Walk
  <2>3. NthFree[n + 1] = Walk(NthFree)[n + 1]
    BY <1>3
  <2>4. g[n + 1] = Walk(g)[n + 1]
    BY <1>1, <2>1
  <2> QED BY <2>1, <2>2, <2>3, <2>4
<1>6. Nat \subseteq D
  <2> HIDE DEF D
  <2> QED BY <1>4, <1>5, SetInduction
<1> QED BY <1>6, <1>b

\* The invariant says the list is exact.
LEMMA ChainIsExact == IInv => FreeListIsExact /\ FreeSlots = Slots \ inUse
<1> SUFFICES ASSUME IInv PROVE FreeListIsExact /\ FreeSlots = Slots \ inUse
  OBVIOUS
<1>1. TypeOK /\ \E c \in [1..available -> Slots] : FreeChain(c)
  BY DEF IInv
<1>2. PICK c \in [1..available -> Slots] : FreeChain(c)
  BY <1>1
<1>3. \A n \in Nat \ {0} : NthFree[n] = IF n <= available THEN c[n] ELSE Null
  BY <1>1, <1>2, WalkFollowsChain
<1>4. /\ available \in Nat /\ MaxObjects \in Nat /\ available <= MaxObjects
      /\ Null \notin Slots
  BY <1>1, SlotsAreNumbers DEF TypeOK
<1>5. FreeSlots = Slots \ inUse
  <2>1. ASSUME NEW s \in FreeSlots PROVE s \in Slots \ inUse
    <3>1. PICK n \in 1..MaxObjects : s = NthFree[n] /\ s # Null
      BY DEF FreeSlots
    <3>2. n \in 1..available /\ s = c[n]
      BY <1>3, <1>4, <3>1
    <3> QED BY <1>2, <3>2 DEF FreeChain
  <2>2. ASSUME NEW s \in Slots \ inUse PROVE s \in FreeSlots
    <3>1. PICK i \in 1..available : c[i] = s
      BY <1>2 DEF FreeChain
    <3>2. i \in 1..MaxObjects /\ NthFree[i] = s /\ s # Null
      BY <1>3, <1>4, <3>1
    <3> QED BY <3>2 DEF FreeSlots
  <2> QED BY <2>1, <2>2
<1>6. available = Cardinality(FreeSlots)
  BY <1>1, <1>2, <1>5, ChainCounts
<1>7. NthFree[available + 1] = Null
  BY <1>3, <1>4
<1> QED BY <1>5, <1>6, <1>7 DEF FreeListIsExact
-----------------------------------------------------------------------------
\* free_list_ links slots to slots, and available_ stays within max_objects_.
THEOREM TypeCorrect == Spec => []TypeOK
<1>1. IInv => TypeOK
  BY DEF IInv
<1> QED BY <1>1, Invariance, PTL

\* In every state, the links from free_head_ visit each slot the caller does not
\* have, once, and end; available_ counts them.  No slot is lost, and none is
\* given out twice, however allocate, deallocate and reset follow each other.
THEOREM FreeListExact == Spec => []FreeListIsExact
<1>1. IInv => FreeListIsExact
  BY ChainIsExact
<1> QED BY <1>1, Invariance, PTL

\* The free list alone tells what is in use: the pool is the set of slots that
\* MatchingEngine assumes.
THEOREM PoolImplementsSlotPool == Spec => ImplementsPool
<1> DEFINE Used == Slots \ FreeSlots
           Exact == inUse \subseteq Slots /\ FreeSlots = Slots \ inUse
<1>1. IInv => Exact
  BY ChainIsExact DEF IInv, TypeOK
<1>2. Init /\ Exact => Pool!Init
  BY DEF Init, Pool!Init
<1>3. ASSUME IInv, Exact, Exact', [Next]_vars
      PROVE  [Pool!Next]_Used
  <2>1. Used = inUse /\ Used' = inUse'
    BY <1>3
  <2>2. CASE Allocate
    <3>1. PICK c \in [1..available -> Slots] : FreeChain(c)
      BY <1>3 DEF IInv
    <3>2. freeHead \in Slots /\ freeHead \notin inUse
      <4>1. available # 0 /\ available \in Nat /\ freeHead = c[1]
        BY <1>3, <2>2, <3>1 DEF Allocate, FreeChain, IInv, TypeOK
      <4>2. 1 \in 1..available
        BY <4>1
      <4> QED BY <3>1, <4>1, <4>2 DEF FreeChain
    <3>3. Used' = Used \cup {freeHead} /\ freeHead \notin Used
      BY <2>1, <2>2, <3>2 DEF Allocate
    <3> HIDE DEF Used
    <3> QED BY <3>2, <3>3 DEF Pool!Next, Pool!Allocate, Used
  <2>3. CASE \E s \in Slots : Deallocate(s)
    <3>1. PICK s \in Slots : s \in Used /\ Used' = Used \ {s}
      BY <2>1, <2>3 DEF Deallocate
    <3> HIDE DEF Used
    <3> QED BY <3>1 DEF Pool!Next, Pool!Deallocate, Used
  <2>4. CASE Reset
    BY <2>1, <2>4 DEF Reset, Pool!Next, Pool!Reset
  <2>5. CASE AllocateFails \/ UNCHANGED vars
    BY <2>1, <2>5 DEF AllocateFails, vars
  <2> QED BY <1>3, <2>2, <2>3, <2>4, <2>5 DEF Next
<1> QED BY <1>1, <1>2, <1>3, Invariance, InitInvariant, PTL DEF Spec, ImplementsPool, Pool!Spec
=============================================================================
