---------------------------- MODULE RecentTrades ----------------------------
(***************************************************************************)
(* What include/trade_ring_buffer.h promises: the most recent trades, at   *)
(* most Capacity of them, oldest first; drain passes them on and empties   *)
(* the buffer.                                                             *)
(***************************************************************************)
EXTENDS Naturals, Sequences

CONSTANTS Trades, Capacity

VARIABLES recent,
          drained   \* what the last drain passed on

Init == recent = <<>> /\ drained = <<>>

(* The last Capacity elements of q. *)
Latest(q) == IF Len(q) > Capacity THEN SubSeq(q, Len(q) - Capacity + 1, Len(q)) ELSE q

Push(t) == recent' = Latest(Append(recent, t)) /\ UNCHANGED drained
Drain == recent # <<>> /\ drained' = recent /\ recent' = <<>>

Next == (\E t \in Trades : Push(t)) \/ Drain

Spec == Init /\ [][Next]_<<recent, drained>>
=============================================================================
