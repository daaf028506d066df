----------------------------- MODULE MemoryPool -----------------------------
(***************************************************************************)
(* include/memory_pool.h: a pool of fixed slots with an index free list.   *)
(* freeList[i] is the free slot after slot i, and keeps a stale value      *)
(* while slot i is in use.  The caller gives back only what it was given   *)
(* and not yet gave back, as the comment of deallocate requires.           *)
(***************************************************************************)
EXTENDS Naturals, Sequences, FiniteSets

CONSTANTS MaxObjects,  \* max_objects_
          Null         \* kNull and nullptr

ASSUME PoolAssumption == MaxObjects \in Nat \ {0} /\ Null \notin Nat

Slots == 0..(MaxObjects - 1)

VARIABLES
  freeList, freeHead, available,  \* free_list_, free_head_, available_
  given,                          \* what the last allocate returned
  inUse                           \* history: the slots the caller has

vars == <<freeList, freeHead, available, given, inUse>>

(* init_free_list *)
InitialLinkPastEnd(i) == i + 1
InitialLink(i) == IF i < MaxObjects - 1 THEN i + 1 ELSE Null
InitFreeListKeepsCount ==
  /\ freeList' = [i \in Slots |-> InitialLink(i)]
  /\ freeHead' = 0
  /\ UNCHANGED available
InitFreeList ==
  /\ freeList' = [i \in Slots |-> InitialLink(i)]
  /\ freeHead' = 0
  /\ available' = MaxObjects

Init ==
  /\ freeList = [i \in Slots |-> InitialLink(i)]
  /\ freeHead = 0
  /\ available = MaxObjects
  /\ given = Null
  /\ inUse = {}

Allocate ==
  /\ freeHead # Null
  /\ freeHead' = freeList[freeHead]
  /\ available' = available - 1
  /\ given' = freeHead
  /\ inUse' = inUse \cup {freeHead}
  /\ UNCHANGED freeList

(* Pool exhausted: allocate returns nullptr. *)
AllocateFails ==
  /\ freeHead = Null
  /\ given' = Null
  /\ UNCHANGED <<freeList, freeHead, available, inUse>>

(* Returning the slot links it before the others. *)
LinkFirstNotLinked(s) == freeHead' = s /\ UNCHANGED freeList
LinkFirst(s) ==
  /\ freeList' = [freeList EXCEPT ![s] = freeHead]
  /\ freeHead' = s

Deallocate(s) ==
  /\ s \in inUse
  /\ LinkFirst(s)
  /\ available' = available + 1
  /\ inUse' = inUse \ {s}
  /\ UNCHANGED given

(* reset(): also with slots in use, which their holders must forget. *)
Reset ==
  /\ InitFreeList
  /\ inUse' = {}
  /\ UNCHANGED given

Next == Allocate \/ AllocateFails \/ (\E s \in Slots : Deallocate(s)) \/ Reset

Spec == Init /\ [][Next]_vars
-----------------------------------------------------------------------------
(* The n-th slot that following the links from free_head_ finds. *)
NthFree[n \in Nat] ==
  IF n <= 1 THEN freeHead
  ELSE LET before == NthFree[n - 1]
       IN IF before = Null THEN Null ELSE freeList[before]

FreeSlots == {NthFree[n] : n \in 1..MaxObjects} \ {Null}

(* TypeOK: free_list_ links slots to slots. *)
TypeOK ==
  /\ freeList \in [Slots -> Slots \cup {Null}]
  /\ freeHead \in Slots \cup {Null}
  /\ available \in 0..MaxObjects
  /\ given \in Slots \cup {Null}
  /\ inUse \subseteq Slots

(* FreeListIsExact: following the links from free_head_ visits every slot the *)
(* caller does not have, each once, and ends; available_ is their number.     *)
FreeListIsExact ==
  /\ FreeSlots = Slots \ inUse
  /\ available = Cardinality(FreeSlots)
  /\ NthFree[available + 1] = Null

(* ImplementsPool: with the free list as the only record of what is in use.   *)
Pool == INSTANCE SlotPool WITH used <- Slots \ FreeSlots
ImplementsPool == Pool!Spec
=============================================================================
