----------------------------- MODULE OrderBook ------------------------------
(***************************************************************************)
(* include/order_book.h and src/order_book.cpp: the order book of one      *)
(* symbol.  Each side maps prices to levels; a level is a vector of orders *)
(* with a head cursor, where a cancelled order leaves a hole; an index     *)
(* finds a resting order by its ID.                                        *)
(*                                                                         *)
(* One step is one trade, one removal or one call of the deallocator, the  *)
(* places where the matching loop shows its state to code outside.  In the *)
(* pipeline (add_order_noalloc) the deallocator is the callback; after     *)
(* add_order and cancel_order, which have none, `handing` stands for the   *)
(* order the caller may free.  Timestamps and trade_id_counter_ are left    *)
(* out: a trade is known by its place in the history.                      *)
(***************************************************************************)
EXTENDS OrderData, Sequences, FiniteSetsExt

CONSTANT CompactAfter   \* PriceLevel::pop_front compacts beyond this cursor, 16

ASSUME CompactAssumption == CompactAfter \in Nat

VARIABLES
  order,            \* the fields of each object that its submitter sets
  filled, status,   \* filled_qty and status of each object
  levels,           \* bid_levels_ and ask_levels_
  index,            \* the keys of order_index_
  incoming,         \* the order in add_order, or None
  handing,          \* the order the deallocator is called with, or None
  trades,           \* history: every trade
  handed            \* history: how often each object was handed back

vars == <<order, filled, status, levels, index, incoming, handing, trades, handed>>

Statuses == {"NEW", "PARTIAL", "FILLED", "CANCELLED"}
-----------------------------------------------------------------------------
(* PriceLevel.  orders[i] of the code is orders[i + 1] here.               *)

Hole == None
NewLevel == [orders |-> <<>>, head |-> 0]

LevelPushFirst(lv, o) ==
  [orders |-> <<o>> \o SubSeq(lv.orders, lv.head + 1, Len(lv.orders)), head |-> 0]
LevelPush(lv, o) == [lv EXCEPT !.orders = Append(@, o)]
LevelEmpty(lv) == lv.head >= Len(lv.orders)
LevelFront(lv) == lv.orders[lv.head + 1]

(* The cursor moved past the holes at or after h. *)
PastHoles(v, h) == Min({i \in h..Len(v) : i = Len(v) \/ v[i + 1] # Hole})
SkipHoles(lv) == [lv EXCEPT !.head = PastHoles(lv.orders, @)]

(* The dead prefix is erased. *)
CompactKeepsHead(lv) == [lv EXCEPT !.orders = SubSeq(@, lv.head + 1, Len(@))]
Compact(lv) ==
  [orders |-> SubSeq(lv.orders, lv.head + 1, Len(lv.orders)), head |-> 0]

LevelPopFrontKeepsHoles(lv) == [lv EXCEPT !.head = @ + 1]
LevelPopFront(lv) ==
  LET adv == [lv EXCEPT !.head = PastHoles(lv.orders, @ + 1)]
  IN IF adv.head > CompactAfter /\ adv.head > Len(adv.orders) \div 2
     THEN Compact(adv) ELSE adv
-----------------------------------------------------------------------------
(* A side of the book is a map from prices to levels. *)

Put(side, p, lv) == [q \in DOMAIN side \cup {p} |-> IF q = p THEN lv ELSE side[q]]
Drop(side, p) == [q \in DOMAIN side \ {p} |-> side[q]]
PutOrDrop(side, p, lv) == IF LevelEmpty(lv) THEN Drop(side, p) ELSE Put(side, p, lv)
Swept(side) == [p \in {q \in DOMAIN side : ~LevelEmpty(side[q])} |-> side[p]]

(* begin() of a side: bids are sorted downwards, asks upwards. *)
BestPrice(s) == CHOOSE p \in DOMAIN levels[s] :
                  \A q \in DOMAIN levels[s] \ {p} : BetterPrice(s, p, q)

(* bid_levels_[price].push(order), opening the level when there is none *)
Rested(o) ==
  LET s == order[o].side
      p == order[o].price
      lv == IF p \in DOMAIN levels[s] THEN levels[s][p] ELSE NewLevel
  IN [levels EXCEPT ![s] = Put(@, p, LevelPush(lv, o))]

(* remove_from_level: a hole for the order, the cursor past leading holes,  *)
(* the level erased when nothing is left                                    *)
RemoveFromLevelStays(lv, o) == SkipHoles(lv)
RemoveFromLevel(lv, o) ==
  SkipHoles([lv EXCEPT !.orders =
    [i \in DOMAIN @ |-> IF i > lv.head /\ @[i] = o THEN Hole ELSE @[i]]])

Removed(o) ==
  LET s == order[o].side
      p == order[o].price
  IN IF p \notin DOMAIN levels[s] THEN levels
     ELSE [levels EXCEPT ![s] = PutOrDrop(@, p, RemoveFromLevel(@[p], o))]
-----------------------------------------------------------------------------
Remaining(o) == order[o].qty - filled[o]
IsFilled(o) == filled[o] >= order[o].qty

Init ==
  /\ order = [o \in Ids |-> NotSubmitted]
  /\ filled = [o \in Ids |-> 0]
  /\ status = [o \in Ids |-> "NEW"]
  /\ levels = [s \in Sides |-> [p \in {} |-> NewLevel]]
  /\ index = {} /\ incoming = None /\ handing = None
  /\ trades = <<>>
  /\ handed = [o \in Ids |-> 0]

Idle == incoming = None /\ handing = None

(* The objects are handed to the book one after the other. *)
NextObject(o) == order[o] = NotSubmitted /\ \A x \in 1..(o - 1) : order[x] # NotSubmitted

(* add_order(order) or add_order_noalloc(order, ...) of a limit order, up to *)
(* the call of match                                                         *)
AddLimit(o, rec) ==
  /\ Idle /\ NextObject(o)
  /\ order' = [order EXCEPT ![o] = rec]
  /\ index' = index \cup {o}
  /\ incoming' = o
  /\ UNCHANGED <<filled, status, levels, handing, trades, handed>>

(* add_order_noalloc(order, ...) of a cancel request *)
AddCancel(o, rec) ==
  /\ Idle /\ NextObject(o)
  /\ order' = [order EXCEPT ![o] = rec]
  /\ incoming' = o
  /\ UNCHANGED <<filled, status, levels, index, handing, trades, handed>>

Matching == incoming # None /\ handing = None /\ order[incoming].type = "LIMIT"

(* The conditions of the outer loop of match. *)
CanTrade(o) ==
  LET opp == Opposite(order[o].side) IN
  /\ ~IsFilled(o)
  /\ DOMAIN levels[opp] # {}
  /\ Crosses(order[o].side, order[o].price, BestPrice(opp))

TradeRecordAsBuy(o, r, p, q) == [buy |-> o, sell |-> r, price |-> p, qty |-> q]
TradeRecord(o, r, p, q) ==
  [buy   |-> IF order[o].side = "BUY" THEN o ELSE r,
   sell  |-> IF order[o].side = "BUY" THEN r ELSE o,
   price |-> p,
   qty   |-> q]

(* Holes before the first live order of the best level are popped. *)
FrontLive(lv) == IF ~LevelEmpty(lv) /\ LevelFront(lv) = Hole THEN LevelPopFront(lv) ELSE lv

(* One iteration of match: against the order at the front of the best level. *)
(* When it is filled it goes to the deallocator, and its level stays in the  *)
(* map meanwhile, even when it is empty now.                                 *)
TradeWithFront(o, opp, p, lv) ==
  LET r == LevelFront(lv)
      q == Lesser(Remaining(o), Remaining(r))
  IN /\ filled' = [filled EXCEPT ![o] = @ + q, ![r] = @ + q]
     /\ trades' = Append(trades, TradeRecord(o, r, p, q))
     /\ IF filled[r] + q >= order[r].qty
        THEN /\ status' = [status EXCEPT ![r] = "FILLED"]
             /\ index' = index \ {r}
             /\ levels' = [levels EXCEPT ![opp] = Put(@, p, LevelPopFront(lv))]
             /\ handing' = r
        ELSE /\ status' = [status EXCEPT ![r] = "PARTIAL"]
             /\ levels' = [levels EXCEPT ![opp] = Put(@, p, lv)]
             /\ UNCHANGED <<index, handing>>

Match ==
  /\ Matching
  /\ CanTrade(incoming)
  /\ LET opp == Opposite(order[incoming].side)
         p == BestPrice(opp)
         lv == FrontLive(levels[opp][p])
     IN IF LevelEmpty(lv)
        THEN /\ levels' = [levels EXCEPT ![opp] = Drop(@, p)]
             /\ UNCHANGED <<filled, status, index, handing, trades>>
        ELSE TradeWithFront(incoming, opp, p, lv)
  /\ UNCHANGED <<order, incoming, handed>>

(* The end of match and of add_order for a filled order. *)
EndFilled ==
  /\ Matching
  /\ IsFilled(incoming)
  /\ status' = [status EXCEPT ![incoming] = "FILLED"]
  /\ index' = index \ {incoming}
  /\ handing' = incoming
  /\ incoming' = None
  /\ UNCHANGED <<order, filled, levels, trades, handed>>

(* The end of match and of add_order for an order with a remainder. *)
EndResting ==
  /\ Matching
  /\ ~IsFilled(incoming) /\ ~CanTrade(incoming)
  /\ status' = [status EXCEPT ![incoming] = IF filled[incoming] > 0 THEN "PARTIAL" ELSE @]
  /\ levels' = Rested(incoming)
  /\ incoming' = None
  /\ UNCHANGED <<order, filled, index, handing, trades, handed>>

(* cancel_resting(id) finds the order, and its effect when it does. *)
Cancellable(id) == id \in index /\ status[id] \notin {"FILLED", "CANCELLED"}

CancelRestingForgets(id) ==
  /\ Cancellable(id)
  /\ status' = [status EXCEPT ![id] = "CANCELLED"]
  /\ levels' = Removed(id)
  /\ index' = index \ {id}
  /\ UNCHANGED <<order, filled, incoming, handing, trades, handed>>

CancelResting(id) ==
  /\ Cancellable(id)
  /\ status' = [status EXCEPT ![id] = "CANCELLED"]
  /\ levels' = Removed(id)
  /\ index' = index \ {id}
  /\ handing' = id
  /\ UNCHANGED <<order, filled, incoming, trades, handed>>

Cancelling == incoming # None /\ handing = None /\ order[incoming].type = "CANCEL"

(* add_order_noalloc of a cancel request: the order it names goes back first *)
CancelRequested == Cancelling /\ CancelResting(order[incoming].target)

(* ... and then the request itself. *)
EndCancelForgets ==
  /\ Cancelling
  /\ ~Cancellable(order[incoming].target)
  /\ incoming' = None
  /\ UNCHANGED <<order, filled, status, levels, index, handing, trades, handed>>

EndCancel ==
  /\ Cancelling
  /\ ~Cancellable(order[incoming].target)
  /\ handing' = incoming
  /\ incoming' = None
  /\ UNCHANGED <<order, filled, status, levels, index, trades, handed>>

(* cancel_order(id) *)
CancelOrder(id) == Idle /\ CancelResting(id)

(* The deallocator returns; match erases the level it has emptied. *)
HandBack ==
  /\ handing # None
  /\ handed' = [handed EXCEPT ![handing] = @ + 1]
  /\ handing' = None
  /\ levels' = [s \in Sides |-> Swept(levels[s])]
  /\ UNCHANGED <<order, filled, status, index, incoming, trades>>

(* The orders that rest in the book: those at or after a cursor. *)
LiveIn(lv) == {lv.orders[i] : i \in (lv.head + 1)..Len(lv.orders)} \ {Hole}
LiveOn(s) == UNION {LiveIn(levels[s][p]) : p \in DOMAIN levels[s]}
Live == LiveOn("BUY") \cup LiveOn("SELL")

(* clear(): the orders that rested are their owner's again. *)
Clear ==
  /\ Idle
  /\ levels' = [s \in Sides |-> [p \in {} |-> NewLevel]]
  /\ index' = {}
  /\ handed' = [o \in Ids |-> IF o \in Live THEN handed[o] + 1 ELSE handed[o]]
  /\ UNCHANGED <<order, filled, status, incoming, handing, trades>>

(* What the one thread that runs the book does once it has an order. *)
Process == Match \/ EndFilled \/ EndResting \/ CancelRequested \/ EndCancel \/ HandBack

Next ==
  \/ \E o \in Ids, rec \in Limits : AddLimit(o, rec)
  \/ \E o \in Ids, rec \in Cancels : AddCancel(o, rec)
  \/ Process
  \/ \E id \in Ids : CancelOrder(id)
  \/ Clear

Spec == Init /\ [][Next]_vars
-----------------------------------------------------------------------------
(* TypeOK: every level hangs under a price of its side, and its cursor stays *)
(* within its vector.                                                        *)
TypeOK ==
  /\ order \in [Ids -> OrderRecords]
  /\ filled \in [Ids -> 0..MaxQty]
  /\ status \in [Ids -> Statuses]
  /\ DOMAIN levels = Sides
  /\ \A s \in Sides :
       /\ DOMAIN levels[s] \subseteq Prices
       /\ \A p \in DOMAIN levels[s] :
            /\ levels[s][p].orders \in Seq(Ids \cup {Hole})
            /\ levels[s][p].head \in 0..Len(levels[s][p].orders)
  /\ index \subseteq Ids
  /\ incoming \in Ids \cup {None} /\ handing \in Ids \cup {None}
  /\ handed \in [Ids -> Nat]

(* LevelsServable: a level in the map has a live order at its front whenever  *)
(* match and cancel_resting look at it, so best_bid and best_ask are prices   *)
(* at which somebody rests, and the branches of match for a hole at the front *)
(* never run (the comments at PriceLevel::pop_front and in cancel_resting).   *)
(* The one exception is the level whose last order is with the deallocator.   *)
LevelsServable ==
  \A s \in Sides : \A p \in DOMAIN levels[s] :
    LET lv == levels[s][p] IN
    \/ ~LevelEmpty(lv) /\ LevelFront(lv) # Hole
    \/ /\ LevelEmpty(lv) /\ incoming # None /\ handing # None
       /\ order[handing].side = s /\ order[handing].price = p

(* IndexMatchesLevels: order_index_ holds the IDs of the resting orders and   *)
(* of the order being matched, and a resting order lies in one place, in the  *)
(* level of its own side and price, where a cancel looks for it.              *)
IndexMatchesLevels ==
  /\ index = Live \cup {o \in {incoming} \ {None} : order[o].type = "LIMIT"}
  /\ \A s \in Sides : \A p \in DOMAIN levels[s] :
       LET lv == levels[s][p] IN
       \A i \in (lv.head + 1)..Len(lv.orders) :
         lv.orders[i] # Hole =>
           /\ order[lv.orders[i]].side = s /\ order[lv.orders[i]].price = p
           /\ \A j \in (lv.head + 1)..Len(lv.orders) :
                lv.orders[j] = lv.orders[i] => j = i

(* NotCrossed: between two orders, no bid reaches an ask. *)
NotCrossed ==
  incoming = None =>
    \A b \in DOMAIN levels["BUY"], a \in DOMAIN levels["SELL"] : b < a

(* QuantitiesBalance: filled_qty of an order is what its trades add up to and *)
(* never more than its quantity; a resting order has a remainder; every trade *)
(* is within both limits and moves something, so that match comes to an end.  *)
TradesOf(o) == {i \in DOMAIN trades : o \in {trades[i].buy, trades[i].sell}}
QuantitiesBalance ==
  /\ \A o \in Ids :
       order[o] \in Limits =>
         /\ filled[o] = MapThenSumSet(LAMBDA i : trades[i].qty, TradesOf(o))
         /\ filled[o] <= order[o].qty
         /\ o \in Live => filled[o] < order[o].qty
  /\ \A i \in DOMAIN trades :
       /\ order[trades[i].buy].price >= trades[i].price
       /\ order[trades[i].sell].price <= trades[i].price
       /\ trades[i].qty > 0

(* HandedBackOnce: each object is in exactly one place: resting, being        *)
(* processed, with the deallocator, or back with its owner; it goes back once, *)
(* and from then on neither the index nor a level leads to it.                *)
Places(o) == (IF o \in Live THEN 1 ELSE 0) + (IF o = incoming THEN 1 ELSE 0)
           + (IF o = handing THEN 1 ELSE 0) + handed[o]
HandedBackOnce ==
  /\ \A o \in Ids : Places(o) = IF order[o] = NotSubmitted THEN 0 ELSE 1
  /\ handing \notin index
  /\ \A o \in index : handed[o] = 0

(* ImplementsPriceTime: every trade is with the order that price-time         *)
(* priority serves next, an order rests only when nothing crosses it, and a   *)
(* cancel removes the order it names exactly when it rests.                   *)
PriceTime == INSTANCE PriceTimeBook WITH resting <- Live
ImplementsPriceTime == PriceTime!Spec

(* ImplementsContract: objects enter and leave the book as BookContract says. *)
Contract == INSTANCE BookContract WITH
              Objects <- Ids, held <- Live, working <- incoming
ImplementsContract == Contract!Spec

(* DeadPrefixBounded: "the dead prefix is erased once it is more than half    *)
(* the vector" (include/order_book.h:86), allowing it the CompactAfter        *)
(* elements pop_front tolerates.                                              *)
DeadPrefixBounded ==
  \A s \in Sides : \A p \in DOMAIN levels[s] :
    LET lv == levels[s][p] IN
    lv.head > CompactAfter => lv.head <= Len(lv.orders) \div 2
=============================================================================
