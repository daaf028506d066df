----------------------------- MODULE OrderData ------------------------------
(***************************************************************************)
(* Orders and trades (include/order.h), and how two prices compare on each *)
(* side of the book.                                                       *)
(*                                                                         *)
(* An order object is named by its number: objects are handed to the book  *)
(* in the order 1, 2, ..., which is also the ID FeedSimulator gives a limit *)
(* order.  A cancel request is an object of its own and carries the ID of  *)
(* the order it cancels.                                                   *)
(***************************************************************************)
EXTENDS Naturals, FiniteSets

CONSTANTS MaxOrders,  \* order objects handed to the book, a bound of the model
          Prices,     \* limit prices, positive
          MaxQty      \* largest quantity

ASSUME OrderAssumption ==
  /\ MaxOrders \in Nat
  /\ Prices \subseteq Nat \ {0} /\ Prices # {} /\ IsFiniteSet(Prices)
  /\ MaxQty \in Nat \ {0}

Ids   == 1..MaxOrders
None  == 0
Sides == {"BUY", "SELL"}
Opposite(side) == IF side = "BUY" THEN "SELL" ELSE "BUY"

Limits  == [type : {"LIMIT"}, side : Sides, price : Prices, qty : 1..MaxQty]
Cancels == [type : {"CANCEL"}, target : Ids]
NotSubmitted == [type |-> "NONE"]
OrderRecords == Limits \cup Cancels \cup {NotSubmitted}

(* Whether a resting price is within an incoming order's limit. *)
CrossesStrictly(side, limit, resting) ==
  IF side = "BUY" THEN resting < limit ELSE resting > limit
Crosses(side, limit, resting) ==
  IF side = "BUY" THEN resting <= limit ELSE resting >= limit

(* Whether p is served before q among the resting prices of a side. *)
BetterPrice(side, p, q) == IF side = "BUY" THEN p > q ELSE p < q

Lesser(m, n) == IF m <= n THEN m ELSE n
=============================================================================
