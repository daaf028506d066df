--------------------------- MODULE PriceTimeBook ----------------------------
(***************************************************************************)
(* Price-time priority, as the class comment of include/order_book.h       *)
(* promises it: an incoming order trades with the resting order of the     *)
(* best price and, among those, the one that came first, until it is       *)
(* filled or nothing within its limit is left; what remains rests.  There  *)
(* are no price levels, no index and no holes here: a set of resting       *)
(* orders is all the state.  OrderBook implements this module.             *)
(***************************************************************************)
EXTENDS OrderData, Sequences

VARIABLES
  order,     \* the order objects handed over so far
  filled,    \* filled_qty of each
  resting,   \* the resting orders
  incoming,  \* the order being processed, or None
  trades     \* every trade so far

vars == <<order, filled, resting, incoming, trades>>

Remaining(o) == order[o].qty - filled[o]

Counterparts(o) ==
  {r \in resting : /\ order[r].side = Opposite(order[o].side)
                   /\ Crosses(order[o].side, order[o].price, order[r].price)}

(* r is served before every other order of R. *)
FirstServed(r, R) ==
  \A x \in R \ {r} :
    \/ BetterPrice(order[r].side, order[r].price, order[x].price)
    \/ order[r].price = order[x].price /\ r < x

TradeRecord(o, r, q) ==
  [buy   |-> IF order[o].side = "BUY" THEN o ELSE r,
   sell  |-> IF order[o].side = "BUY" THEN r ELSE o,
   price |-> order[r].price,
   qty   |-> q]

Init ==
  /\ order = [o \in Ids |-> NotSubmitted]
  /\ filled = [o \in Ids |-> 0]
  /\ resting = {} /\ incoming = None /\ trades = <<>>

Submit(o, rec) ==
  /\ incoming = None
  /\ order[o] = NotSubmitted
  /\ order' = [order EXCEPT ![o] = rec]
  /\ incoming' = o
  /\ UNCHANGED <<filled, resting, trades>>

IncomingLimit == incoming # None /\ order[incoming].type = "LIMIT"

Trade ==
  /\ IncomingLimit
  /\ Remaining(incoming) > 0
  /\ \E r \in Counterparts(incoming) :
       LET q == Lesser(Remaining(incoming), Remaining(r)) IN
       /\ FirstServed(r, Counterparts(incoming))
       /\ filled' = [filled EXCEPT ![incoming] = @ + q, ![r] = @ + q]
       /\ trades' = Append(trades, TradeRecord(incoming, r, q))
       /\ resting' = IF q = Remaining(r) THEN resting \ {r} ELSE resting
  /\ UNCHANGED <<order, incoming>>

Complete ==
  /\ IncomingLimit
  /\ Remaining(incoming) = 0
  /\ incoming' = None
  /\ UNCHANGED <<order, filled, resting, trades>>

Rest ==
  /\ IncomingLimit
  /\ Remaining(incoming) > 0
  /\ Counterparts(incoming) = {}
  /\ resting' = resting \cup {incoming}
  /\ incoming' = None
  /\ UNCHANGED <<order, filled, trades>>

(* A cancel, called directly or carried by a cancel request. *)
Withdraw(r) ==
  /\ \/ incoming = None
     \/ incoming # None /\ order[incoming] = [type |-> "CANCEL", target |-> r]
  /\ r \in resting
  /\ resting' = resting \ {r}
  /\ UNCHANGED <<order, filled, incoming, trades>>

(* A cancel request ends only when the order it names does not rest. *)
EndCancel ==
  /\ incoming # None
  /\ order[incoming].type = "CANCEL"
  /\ order[incoming].target \notin resting
  /\ incoming' = None
  /\ UNCHANGED <<order, filled, resting, trades>>

Clear ==
  /\ incoming = None
  /\ resting' = {}
  /\ UNCHANGED <<order, filled, incoming, trades>>

Next ==
  \/ \E o \in Ids, rec \in Limits \cup Cancels : Submit(o, rec)
  \/ Trade \/ Complete \/ Rest
  \/ \E r \in Ids : Withdraw(r)
  \/ EndCancel \/ Clear

Spec == Init /\ [][Next]_vars
=============================================================================
