-------------------------- MODULE TradeRingBuffer ---------------------------
(***************************************************************************)
(* include/trade_ring_buffer.h: the buffer of the most recent trades, used *)
(* by one thread.  A trade is named by its number in the order of writing. *)
(***************************************************************************)
EXTENDS Naturals, Sequences

CONSTANTS Capacity,   \* the template parameter, a power of two
          MaxTrades   \* bound of the model: trades written

ASSUME CapacityAssumption ==
  /\ Capacity \in Nat \ {0}
  /\ \E n \in 0..Capacity : Capacity = 2^n

ASSUME BoundAssumption == MaxTrades \in Nat

NoTrade == 0

VARIABLES
  buffer, writePos, count, totalWritten,  \* the fields of the class
  drained                                 \* history: what the last drain passed on

vars == <<buffer, writePos, count, totalWritten, drained>>

Masked(i) == i % Capacity

Init ==
  /\ buffer = [i \in 0..(Capacity - 1) |-> NoTrade]
  /\ writePos = 0 /\ count = 0 /\ totalWritten = 0
  /\ drained = <<>>

(* push_trade, and alloc_slot with the caller filling the slot *)
CountUpUncapped(n) == n + 1
CountUp(n) == IF n < Capacity THEN n + 1 ELSE n

PushTrade ==
  /\ totalWritten < MaxTrades
  /\ buffer' = [buffer EXCEPT ![Masked(writePos)] = totalWritten + 1]
  /\ writePos' = writePos + 1
  /\ count' = CountUp(count)
  /\ totalWritten' = totalWritten + 1
  /\ UNCHANGED drained

(* Where the oldest record is, and the records from there on: what drain    *)
(* and operator[] read.                                                     *)
Oldest == IF count < Capacity THEN 0 ELSE writePos
Held == [i \in 1..count |-> buffer[Masked(Oldest + i - 1)]]

(* drain of an empty buffer does nothing *)
ClearPositionsKeepsWritePos == count' = 0 /\ UNCHANGED writePos
ClearPositions == count' = 0 /\ writePos' = 0

Drain ==
  /\ count > 0
  /\ drained' = Held
  /\ ClearPositions
  /\ UNCHANGED <<buffer, totalWritten>>

(* Nothing more is written at the bound of the model. *)
Stop == totalWritten = MaxTrades /\ UNCHANGED vars

Next == PushTrade \/ Drain \/ Stop

Spec == Init /\ [][Next]_vars
-----------------------------------------------------------------------------
(* TypeOK: count_ never exceeds the capacity. *)
TypeOK ==
  /\ buffer \in [0..(Capacity - 1) -> 0..MaxTrades]
  /\ writePos \in 0..MaxTrades /\ count \in 0..Capacity
  /\ totalWritten \in 0..MaxTrades
  /\ drained \in Seq(1..MaxTrades)

(* ImplementsRecent: what operator[] and drain see is the list of the most    *)
(* recent trades.                                                             *)
Recent == INSTANCE RecentTrades WITH Trades <- 1..MaxTrades, recent <- Held
ImplementsRecent == Recent!Spec
=============================================================================
