----------------------------- MODULE SPSCQueue -----------------------------
(***************************************************************************)
(* What include/spsc_ring_buffer.h promises to its two threads: a bounded  *)
(* FIFO queue in which the effect of one side becomes visible to the other *)
(* side some time after it happens.                                        *)
(*                                                                         *)
(*   items  every element pushed and not yet popped, oldest first          *)
(*   avail  how many of them the consumer can already see: try_pop fails   *)
(*          exactly when it is 0, even if the producer has pushed          *)
(*   room   how many free places the producer can already see: try_push    *)
(*          fails exactly when it is 0, even if the consumer has popped    *)
(*                                                                         *)
(* A side learns of the other's progress in two ways: its stores become    *)
(* visible by themselves (SeePushes, SeePops), or the side synchronises    *)
(* with the other one through something else, such as a flag set with      *)
(* release and read with acquire, or a thread's creation and join          *)
(* (SyncConsumer, SyncProducer).                                           *)
(*                                                                         *)
(* SPSCRingBuffer implements this module; MatchingEngine is built on it.   *)
(***************************************************************************)
EXTENDS Naturals, Sequences

CONSTANTS Items,  \* the values that travel through the queue
          Bound   \* the number of elements it can hold

VARIABLES items, avail, room

vars == <<items, avail, room>>

Init ==
  /\ items = <<>>
  /\ avail = 0
  /\ room = Bound

(* try_push(x) returning true *)
Push(x) ==
  /\ room > 0
  /\ items' = Append(items, x)
  /\ room' = room - 1
  /\ UNCHANGED avail

(* try_pop returning Head(items) *)
Pop ==
  /\ avail > 0
  /\ items' = Tail(items)
  /\ avail' = avail - 1
  /\ UNCHANGED room

(* Pushes become visible to the consumer, in order. *)
SeePushes ==
  /\ \E n \in (avail + 1)..Len(items) : avail' = n
  /\ UNCHANGED <<items, room>>

(* Pops become visible to the producer, in order. *)
SeePops ==
  /\ \E n \in (room + 1)..(Bound - Len(items)) : room' = n
  /\ UNCHANGED <<items, avail>>

(* The consumer synchronises with every push, the producer with every pop. *)
SyncConsumer == avail' = Len(items)
SyncProducer == room' = Bound - Len(items)

Next == (\E x \in Items : Push(x)) \/ Pop \/ SeePushes \/ SeePops

Spec == Init /\ [][Next]_vars
=============================================================================
