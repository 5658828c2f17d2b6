-------------------------------- MODULE Book --------------------------------
(***************************************************************************)
(* What a price-time-priority limit order book IS, as a value, and what    *)
(* each of its operations does to that value.  There is no list, no index  *)
(* and no aggregate here: this is the meaning that OrderBook.tla (the      *)
(* intrusive lists of order_book.cpp) implements and that                  *)
(* MatchingEngine.tla is written over.  It follows ReferenceBook, the      *)
(* repository's own simple model of a book (tests/order_book_model_test.cpp*)
(* lines 29-155), a hash map of orders and a deque of ids per price.       *)
(*                                                                         *)
(* A book is a function from the ids of its resting orders to              *)
(*   [side, price, quantity, ahead]                                        *)
(* where `ahead' is the set of ids that stand in front of the order in the *)
(* deque of its side and price: the deque as a relation, so that its head  *)
(* is the order with nobody ahead and its length is the level's size.      *)
(*                                                                         *)
(* A std::optional is a set of at most one element.                        *)
(***************************************************************************)
EXTENDS Integers, FiniteSets, FiniteSetsExt

CONSTANTS
  OrderId,    \* order reference numbers (uint64 in the code)
  Price,      \* prices (uint32)
  Quantity    \* share counts a caller may pass (uint32), zero included

ASSUME BookAssumption == Price \subseteq Nat /\ Quantity \subseteq Nat

Side == {"Buy", "Sell"}

opposite(s) == IF s = "Buy" THEN "Sell" ELSE "Buy"

Order == [side : Side, price : Price, quantity : Nat \ {0}, ahead : SUBSET OrderId]

IsBook(b) == DOMAIN b \subseteq OrderId /\ \A i \in DOMAIN b : b[i] \in Order

EmptyBook == <<>>

-----------------------------------------------------------------------------
(* Queries.                                                                *)

Level(b, s, p) == {i \in DOMAIN b : b[i].side = s /\ b[i].price = p}

ActivePrices(b, s) == {p \in Price : Level(b, s, p) # {}}

AtLeastAsGood(s, p, q) == IF s = "Buy" THEN p >= q ELSE p <= q

best(b, s) ==
  {p \in ActivePrices(b, s) : \A q \in ActivePrices(b, s) : AtLeastAsGood(s, p, q)}

front(b, s, p) == {i \in Level(b, s, p) : b[i].ahead = {}}

LevelQuantity(b, s, p) == MapThenSumSet(LAMBDA i : b[i].quantity, Level(b, s, p))

-----------------------------------------------------------------------------
(* Updates.  Each Can... is the condition under which the operation        *)
(* returns true; the operator of the same name is then the resulting book. *)

\* push_back: a new order has everyone at its price ahead of it.
PushBack(b, id, s, p, q) ==
  [i \in DOMAIN b \cup {id} |->
     IF i = id
     THEN [side |-> s, price |-> p, quantity |-> q, ahead |-> Level(b, s, p)]
     ELSE b[i]]

\* remove_from_level and orders_.erase.
Leave(b, id) == [i \in DOMAIN b \ {id} |-> [b[i] EXCEPT !.ahead = @ \ {id}]]

CanAdd(b, id, q) == q # 0 /\ id \notin DOMAIN b

Add(b, id, s, p, q) == PushBack(b, id, s, p, q)

\* More shares than the order has.
CanCancel_unbounded(b, id, q) == id \in DOMAIN b /\ q # 0

CanCancel(b, id, q) == id \in DOMAIN b /\ q # 0 /\ q <= b[id].quantity

\* Also what execute does.
Cancel(b, id, q) ==
  IF q = b[id].quantity THEN Leave(b, id) ELSE [b EXCEPT ![id].quantity = @ - q]

CanErase(b, id) == id \in DOMAIN b

Erase(b, id) == Leave(b, id)

CanModify(b, id, q) == id \in DOMAIN b /\ q # 0

Modify(b, id, p, q) ==
  IF p = b[id].price /\ q <= b[id].quantity
  THEN [b EXCEPT ![id].quantity = q]
  ELSE PushBack(Leave(b, id), id, b[id].side, p, q)

CanReplace(b, old, new, q) ==
  old \in DOMAIN b /\ q # 0 /\ (new # old => new \notin DOMAIN b)

Replace(b, old, new, p, q) ==
  IF old = new
  THEN Modify(b, old, p, q)
  ELSE Leave(PushBack(b, new, b[old].side, p, q), old)
=============================================================================
