------------------------------ MODULE SlotPool ------------------------------
(***************************************************************************)
(* What include/memory_pool.h promises its owner: allocate gives a slot    *)
(* that is not in use, or none when every slot is, and a slot given back   *)
(* can be given out again.  MemoryPool implements this module;             *)
(* MatchingEngine's producer thread is built on it.                        *)
(***************************************************************************)
CONSTANT Slots

VARIABLE used   \* the slots given out and not given back

Init == used = {}

Allocate(s) ==
  /\ s \in Slots \ used
  /\ used' = used \cup {s}

(* allocate returns nullptr *)
Exhausted == used = Slots

Deallocate(s) ==
  /\ s \in used
  /\ used' = used \ {s}

(* Every slot is free again, whoever still holds a pointer to it. *)
Reset == used' = {}

Next == (\E s \in Slots : Allocate(s) \/ Deallocate(s)) \/ Reset

Spec == Init /\ [][Next]_used
=============================================================================
