---------------------------- MODULE BookContract ----------------------------
(***************************************************************************)
(* Who owns an order object, between an order book and the code that feeds *)
(* it: the contract of OrderBook::add_order_noalloc (include/order_book.h).*)
(* The book takes one object at a time, may keep it, and hands every       *)
(* object back by a call of the deallocator, one at a time and after it    *)
(* has let go of it.  OrderBook implements this module, and the consumer   *)
(* thread of MatchingEngine is built on it.                                *)
(***************************************************************************)
CONSTANTS Objects,  \* the order objects
          None      \* no object

VARIABLES held,     \* the objects resting in the book
          working,  \* the object being processed, or None
          handing   \* the object the deallocator is called with, or None

vars == <<held, working, handing>>

Init == held = {} /\ working = None /\ handing = None

(* The caller hands an object over. *)
Accept(o) ==
  /\ working = None /\ handing = None
  /\ o \notin held
  /\ working' = o
  /\ UNCHANGED <<held, handing>>

(* A resting order is filled or cancelled: its object goes back. *)
Release(o) ==
  /\ handing = None
  /\ o \in held
  /\ held' = held \ {o}
  /\ handing' = o
  /\ UNCHANGED working

(* The incoming order is filled, or was a cancel request: it goes back. *)
Finish ==
  /\ working # None /\ handing = None
  /\ handing' = working
  /\ working' = None
  /\ UNCHANGED held

(* The incoming order rests: the book keeps the object. *)
Keep ==
  /\ working # None /\ handing = None
  /\ held' = held \cup {working}
  /\ working' = None
  /\ UNCHANGED handing

(* The deallocator returns; the object is the caller's from here on. *)
HandBack ==
  /\ handing # None
  /\ handing' = None
  /\ UNCHANGED <<held, working>>

(* The book forgets what it holds without handing it back: clear(), or the  *)
(* end of a book's life.                                                    *)
Forget ==
  /\ working = None /\ handing = None
  /\ held' = {}
  /\ UNCHANGED <<working, handing>>

Next ==
  \/ \E o \in Objects : Accept(o) \/ Release(o)
  \/ Finish \/ Keep \/ HandBack \/ Forget

Spec == Init /\ [][Next]_vars
=============================================================================
