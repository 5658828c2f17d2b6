------------------------ MODULE MatchingEngineProofs ------------------------
(***************************************************************************)
(* The engine, for every feed, every submission and every limit: its types,*)
(* its count of resting orders, its limits and its statistics, and what a  *)
(* submission takes: price-time priority, the sums of its fills and what   *)
(* it reports; and that it keeps its count and its limits when memory runs *)
(* out, in whichever call and whatever null entries earlier failures have  *)
(* left.                                                                   *)
(***************************************************************************)
EXTENDS MatchingEngineFaults, BookProofs, FiniteSetTheorems, TLAPS

-----------------------------------------------------------------------------
(* What messages and submissions are made of.                              *)

LEMMA EventType ==
  ASSUME NEW e \in Event
  PROVE  /\ e.stock_locate \in StockLocate
         /\ e.type = "AddOrder" =>
              /\ e.order_reference \in OrderId /\ e.side \in Side
              /\ e.price \in Price /\ e.shares \in Nat
         /\ e.type \in {"OrderExecuted", "OrderCancel"} =>
              e.order_reference \in OrderId /\ e.shares \in Nat
         /\ e.type = "OrderReplace" =>
              /\ e.new_order_reference \in OrderId
              /\ e.price \in Price /\ e.shares \in Nat
<1>1. e \in AddOrder \cup Reduction \cup OrderDelete \cup OrderReplace \cup Other
  BY EngineAssumption
<1>2. Quantity \subseteq Nat
  BY BookAssumption
<1> QED
  BY <1>1, <1>2 DEF AddOrder, Reduction, OrderDelete, OrderReplace, Other

LEMMA SubmissionFields ==
  ASSUME NEW a \in Submission
  PROVE  /\ a.stock_locate \in StockLocate /\ a.order_id \in OrderId
         /\ a.side \in Side /\ a.limit_price \in Price /\ a.has_limit \in BOOLEAN
         /\ a.quantity \in Nat /\ a.capacity \in Nat
BY EngineAssumption, BookAssumption DEF SubmissionType

LEMMA Opposite == \A s \in Side : opposite(s) \in Side
BY DEF Side, opposite

-----------------------------------------------------------------------------
(* The map of books.                                                       *)

\* Every book is a book and stands under a locate.
AreBooks(B) == DOMAIN B \subseteq StockLocate /\ \A l \in DOMAIN B : IsBook(B[l])

\* B is books with b at l.
Changed(B, l, b) ==
  /\ DOMAIN B = DOMAIN books \cup {l}
  /\ B[l] = b
  /\ \A k \in DOMAIN books \ {l} : B[k] = books[k]

LEMMA EnsuredChanged ==
  ASSUME NEW l, NEW b
  PROVE  Changed(EnsuredBooks(l, b), l, b)
BY DEF Changed, EnsuredBooks

LEMMA ExceptChanged ==
  ASSUME NEW l \in DOMAIN books, NEW b
  PROVE  Changed([books EXCEPT ![l] = b], l, b)
BY DEF Changed

LEMMA ChangedAreBooks ==
  ASSUME AreBooks(books), NEW l \in StockLocate, NEW b, IsBook(b), NEW B, Changed(B, l, b)
  PROVE  AreBooks(B)
BY DEF AreBooks, Changed

LEMMA BookOfType ==
  ASSUME AreBooks(books), NEW l
  PROVE  IsBook(BookOf(l))
BY EmptyBookType DEF AreBooks, BookOf

\* Only a locate with a book has orders.
LEMMA BookOfOrder ==
  ASSUME NEW l, NEW id \in DOMAIN BookOf(l)
  PROVE  l \in DOMAIN books /\ BookOf(l) = books[l]
BY EmptyBookType DEF BookOf

-----------------------------------------------------------------------------
(* The orders that rest in a map of books.                                 *)

OrdersIn(B) ==
  {x \in StockLocate \X OrderId : x[1] \in DOMAIN B /\ x[2] \in DOMAIN B[x[1]]}

LEMMA RestingIsOrdersIn == RestingOrders = OrdersIn(books)
BY DEF RestingOrders, OrdersIn

LEMMA OrderRests ==
  ASSUME NEW l \in StockLocate, NEW id \in OrderId
  PROVE  <<l, id>> \in OrdersIn(books) <=> id \in DOMAIN BookOf(l)
BY EmptyBookType DEF OrdersIn, BookOf

LEMMA ChangedOrders ==
  ASSUME NEW l \in StockLocate, NEW b, NEW B, Changed(B, l, b),
         NEW k \in StockLocate, NEW id \in OrderId
  PROVE  <<k, id>> \in OrdersIn(B) <=>
           IF k = l THEN id \in DOMAIN b ELSE <<k, id>> \in OrdersIn(books)
BY DEF OrdersIn, Changed

\* Two sets of orders are compared pair by pair.
LEMMA SameOrders ==
  ASSUME NEW S \in SUBSET (StockLocate \X OrderId), NEW T \in SUBSET (StockLocate \X OrderId),
         \A k \in StockLocate, id \in OrderId : <<k, id>> \in S <=> <<k, id>> \in T
  PROVE  S = T
OBVIOUS

LEMMA OrdersInType ==
  ASSUME NEW B
  PROVE  OrdersIn(B) \in SUBSET (StockLocate \X OrderId)
BY DEF OrdersIn

\* The ids of one book come and go, and the orders at rest with them.
LEMMA OrdersKept ==
  ASSUME NEW l \in StockLocate, NEW b, Changed(books', l, b),
         \A i : i \in DOMAIN b <=> i \in DOMAIN BookOf(l)
  PROVE  OrdersIn(books') = OrdersIn(books)
<1> DEFINE T == OrdersIn(books)
<1>1. T \in SUBSET (StockLocate \X OrderId) /\ OrdersIn(books') \in SUBSET (StockLocate \X OrderId)
  BY OrdersInType
<1>2. ASSUME NEW k \in StockLocate, NEW i \in OrderId
      PROVE  <<k, i>> \in OrdersIn(books') <=> <<k, i>> \in T
  <2>1. <<k, i>> \in OrdersIn(books') <=> IF k = l THEN i \in DOMAIN b ELSE <<k, i>> \in OrdersIn(books)
    BY ChangedOrders
  <2>2. <<k, i>> \in OrdersIn(books) <=> i \in DOMAIN BookOf(k)
    BY OrderRests
  <2> QED
    BY <2>1, <2>2
<1> HIDE DEF T
<1>3. OrdersIn(books') = T
  BY <1>1, <1>2, SameOrders
<1> QED
  BY <1>3 DEF T

LEMMA OrdersInserted ==
  ASSUME NEW l \in StockLocate, NEW b, Changed(books', l, b), NEW id \in OrderId,
         \A i : i \in DOMAIN b <=> i \in DOMAIN BookOf(l) \cup {id}
  PROVE  OrdersIn(books') = OrdersIn(books) \cup {<<l, id>>}
<1> DEFINE T == OrdersIn(books) \cup {<<l, id>>}
<1>1. T \in SUBSET (StockLocate \X OrderId) /\ OrdersIn(books') \in SUBSET (StockLocate \X OrderId)
  BY OrdersInType
<1>2. ASSUME NEW k \in StockLocate, NEW i \in OrderId
      PROVE  <<k, i>> \in OrdersIn(books') <=> <<k, i>> \in T
  <2>1. <<k, i>> \in OrdersIn(books') <=> IF k = l THEN i \in DOMAIN b ELSE <<k, i>> \in OrdersIn(books)
    BY ChangedOrders
  <2>2. <<k, i>> \in OrdersIn(books) <=> i \in DOMAIN BookOf(k)
    BY OrderRests
  <2> QED
    BY <2>1, <2>2
<1> HIDE DEF T
<1>3. OrdersIn(books') = T
  BY <1>1, <1>2, SameOrders
<1> QED
  BY <1>3 DEF T

LEMMA OrdersRemoved ==
  ASSUME NEW l \in StockLocate, NEW b, Changed(books', l, b), NEW id \in OrderId,
         \A i : i \in DOMAIN b <=> i \in DOMAIN BookOf(l) \ {id}
  PROVE  OrdersIn(books') = OrdersIn(books) \ {<<l, id>>}
<1> DEFINE T == OrdersIn(books) \ {<<l, id>>}
<1>1. T \in SUBSET (StockLocate \X OrderId) /\ OrdersIn(books') \in SUBSET (StockLocate \X OrderId)
  BY OrdersInType
<1>2. ASSUME NEW k \in StockLocate, NEW i \in OrderId
      PROVE  <<k, i>> \in OrdersIn(books') <=> <<k, i>> \in T
  <2>1. <<k, i>> \in OrdersIn(books') <=> IF k = l THEN i \in DOMAIN b ELSE <<k, i>> \in OrdersIn(books)
    BY ChangedOrders
  <2>2. <<k, i>> \in OrdersIn(books) <=> i \in DOMAIN BookOf(k)
    BY OrderRests
  <2> QED
    BY <2>1, <2>2
<1> HIDE DEF T
<1>3. OrdersIn(books') = T
  BY <1>1, <1>2, SameOrders
<1> QED
  BY <1>3 DEF T

LEMMA OrdersExchanged ==
  ASSUME NEW l \in StockLocate, Changed(books', l, books'[l]), NEW old \in OrderId, NEW new \in OrderId,
         \A i : i \in DOMAIN books'[l] <=> i \in (DOMAIN BookOf(l) \ {old}) \cup {new}
  PROVE  OrdersIn(books') = (OrdersIn(books) \ {<<l, old>>}) \cup {<<l, new>>}
<1> DEFINE T == (OrdersIn(books) \ {<<l, old>>}) \cup {<<l, new>>}
<1>1. T \in SUBSET (StockLocate \X OrderId) /\ OrdersIn(books') \in SUBSET (StockLocate \X OrderId)
  BY OrdersInType
<1>2. ASSUME NEW k \in StockLocate, NEW i \in OrderId
      PROVE  <<k, i>> \in OrdersIn(books') <=> <<k, i>> \in T
  <2>1. <<k, i>> \in OrdersIn(books') <=> IF k = l THEN i \in DOMAIN books'[l] ELSE <<k, i>> \in OrdersIn(books)
    BY ChangedOrders
  <2>2. <<k, i>> \in OrdersIn(books) <=> i \in DOMAIN BookOf(k)
    BY OrderRests
  <2> QED
    BY <2>1, <2>2
<1> HIDE DEF T
<1>3. OrdersIn(books') = T
  BY <1>1, <1>2, SameOrders
<1> QED
  BY <1>3 DEF T

-----------------------------------------------------------------------------
(* What one step does to the resting orders and to their count.            *)

Keeps ==
  OrdersIn(books') = OrdersIn(books) /\ resting_order_count' = resting_order_count

Adds ==
  /\ resting_order_count < max_resting_orders
  /\ resting_order_count' = resting_order_count + 1
  /\ \E x : x \notin OrdersIn(books) /\ OrdersIn(books') = OrdersIn(books) \cup {x}

Frees ==
  /\ resting_order_count' = resting_order_count - 1
  /\ \E x \in OrdersIn(books) : OrdersIn(books') = OrdersIn(books) \ {x}

Exchanges ==
  /\ resting_order_count' = resting_order_count
  /\ \E x \in OrdersIn(books) : \E y :
       y \notin OrdersIn(books) /\ OrdersIn(books') = (OrdersIn(books) \ {x}) \cup {y}

Empties == OrdersIn(books') = {} /\ resting_order_count' = 0

\* At most one instrument is new, and only below the limit.
Instruments ==
  \/ DOMAIN books' = DOMAIN books
  \/ /\ Cardinality(DOMAIN books) < max_instruments
     /\ \E l : l \notin DOMAIN books /\ DOMAIN books' = DOMAIN books \cup {l}
  \/ DOMAIN books' = {}

Effect ==
  AreBooks(books') /\ (Keeps \/ Adds \/ Frees \/ Exchanges \/ Empties) /\ Instruments

LEMMA UnchangedEffect ==
  ASSUME AreBooks(books), UNCHANGED <<books, resting_order_count>>
  PROVE  Effect
BY DEF Effect, Keeps, Instruments

\* A book that is created, or changed, without any order coming or going.
LEMMA KeepsEffect ==
  ASSUME AreBooks(books), NEW l \in StockLocate, NEW b, IsBook(b),
         DOMAIN b = DOMAIN BookOf(l), Changed(books', l, b),
         l \in DOMAIN books \/ Cardinality(DOMAIN books) < max_instruments,
         UNCHANGED resting_order_count
  PROVE  Effect
<1>1. OrdersIn(books') = OrdersIn(books)
  BY OrdersKept
<1>2. Keeps
  BY <1>1 DEF Keeps
<1>3. AreBooks(books')
  BY ChangedAreBooks
<1>4. Instruments
  BY DEF Instruments, Changed
<1> QED
  BY <1>2, <1>3, <1>4 DEF Effect

\* An order that comes to rest: apply(AddOrder), or a remainder.
LEMMA AddsEffect ==
  ASSUME AreBooks(books), NEW l \in StockLocate, NEW id \in OrderId,
         NEW s \in Side, NEW p \in Price, NEW q \in Nat,
         can_create_order(l), CanAdd(BookOf(l), id, q),
         books' = EnsuredBooks(l, Add(BookOf(l), id, s, p, q)),
         resting_order_count' = resting_order_count + 1
  PROVE  Effect
<1> DEFINE b == BookOf(l)
           a == Add(b, id, s, p, q)
<1>1. IsBook(a)
  BY BookOfType, AddType
<1>2. DOMAIN a = DOMAIN b \cup {id}
  BY AddDomain
<1>3. Changed(books', l, a)
  BY EnsuredChanged
<1> HIDE DEF a
<1>4. OrdersIn(books') = OrdersIn(books) \cup {<<l, id>>}
  BY <1>2, <1>3, OrdersInserted
<1>5. <<l, id>> \notin OrdersIn(books)
  BY OrderRests DEF CanAdd
<1>6. Adds
  BY <1>4, <1>5 DEF Adds, can_create_order
<1>7. AreBooks(books')
  BY <1>1, <1>3, ChangedAreBooks
<1>8. Instruments
  BY <1>3 DEF Instruments, Changed, can_create_order
<1> QED
  BY <1>6, <1>7, <1>8 DEF Effect

\* An order that leaves: its last share executed or cancelled, or a delete.
LEMMA FreesEffect ==
  ASSUME AreBooks(books), NEW l \in StockLocate, NEW id \in DOMAIN BookOf(l),
         NEW b, IsBook(b), DOMAIN b = DOMAIN BookOf(l) \ {id}, Changed(books', l, b),
         resting_order_count' = resting_order_count - 1
  PROVE  Effect
<1>1. l \in DOMAIN books
  BY BookOfOrder
<1>2. id \in OrderId
  BY BookOfType DEF IsBook
<1>3. OrdersIn(books') = OrdersIn(books) \ {<<l, id>>}
  BY <1>2, OrdersRemoved
<1>4. <<l, id>> \in OrdersIn(books)
  BY <1>2, OrderRests
<1>5. Frees
  BY <1>3, <1>4 DEF Frees
<1>6. AreBooks(books')
  BY ChangedAreBooks
<1>7. Instruments
  BY <1>1 DEF Instruments, Changed
<1> QED
  BY <1>5, <1>6, <1>7 DEF Effect

\* execute and cancel, from the feed or in a sweep.
LEMMA CancelEffect ==
  ASSUME AreBooks(books), NEW l \in StockLocate, NEW id, NEW q \in Nat,
         CanCancel(BookOf(l), id, q),
         books' = [books EXCEPT ![l] = Cancel(BookOf(l), id, q)],
         resting_order_count \in Nat,
         resting_order_count' = resting_order_count - FreedBy(BookOf(l), id, q)
  PROVE  Effect
<1> DEFINE b == BookOf(l)
           c == Cancel(b, id, q)
<1>1. id \in DOMAIN b /\ l \in DOMAIN books
  BY BookOfOrder DEF CanCancel
<1>2. IsBook(c)
  BY BookOfType, CancelType
<1>3. CASE q = b[id].quantity
  <2>1. DOMAIN c = DOMAIN b \ {id}
    BY <1>3, CancelDomain
  <2>2. resting_order_count' = resting_order_count - 1
    BY <1>3 DEF FreedBy
  <2>3. Changed(books', l, c)
    BY <1>1, ExceptChanged
  <2> HIDE DEF c
  <2> QED
    BY <1>1, <1>2, <2>1, <2>2, <2>3, FreesEffect
<1>4. CASE q # b[id].quantity
  <2>1. DOMAIN c = DOMAIN b
    BY <1>4, CancelDomain
  <2>2. UNCHANGED resting_order_count
    BY <1>4 DEF FreedBy
  <2>3. Changed(books', l, c)
    BY <1>1, ExceptChanged
  <2> HIDE DEF c
  <2> QED
    BY <1>1, <1>2, <2>1, <2>2, <2>3, KeepsEffect
<1> QED
  BY <1>3, <1>4

\* replace keeps the number of orders.
LEMMA ReplaceEffect ==
  ASSUME AreBooks(books), NEW l \in StockLocate, NEW old, NEW new \in OrderId,
         NEW p \in Price, NEW q \in Nat,
         CanReplace(BookOf(l), old, new, q),
         books' = [books EXCEPT ![l] = Replace(BookOf(l), old, new, p, q)],
         UNCHANGED resting_order_count
  PROVE  Effect
<1> DEFINE b == BookOf(l)
           c == Replace(b, old, new, p, q)
<1>1. old \in DOMAIN b /\ l \in DOMAIN books /\ (new # old => new \notin DOMAIN b)
  BY BookOfOrder DEF CanReplace
<1>2. IsBook(c)
  BY BookOfType, ReplaceType
<1>3. Changed(books', l, c)
  BY <1>1, ExceptChanged
<1>4. DOMAIN c = (DOMAIN b \ {old}) \cup {new}
  BY <1>1, ReplaceDomain
<1>5. old \in OrderId
  BY <1>1, BookOfType DEF IsBook
<1> HIDE DEF c
<1>6. CASE new = old
  <2>1. DOMAIN c = DOMAIN b
    BY <1>1, <1>4, <1>6
  <2> QED
    BY <1>1, <1>2, <1>3, <2>1, KeepsEffect
<1>7. CASE new # old
  <2>1. OrdersIn(books') = (OrdersIn(books) \ {<<l, old>>}) \cup {<<l, new>>}
    <3>1. Changed(books', l, books'[l]) /\ books'[l] = c
      BY <1>3 DEF Changed
    <3> QED
      BY <1>4, <1>5, <3>1, OrdersExchanged
  <2>2. <<l, old>> \in OrdersIn(books) /\ <<l, new>> \notin OrdersIn(books)
    BY <1>1, <1>5, <1>7, OrderRests
  <2>4. Exchanges
    BY <2>1, <2>2 DEF Exchanges
  <2>5. AreBooks(books')
    BY <1>2, <1>3, ChangedAreBooks
  <2>6. Instruments
    BY <1>1, <1>3 DEF Instruments, Changed
  <2> QED
    BY <2>4, <2>5, <2>6 DEF Effect
<1> QED
  BY <1>6, <1>7

-----------------------------------------------------------------------------
(* Every step is one of these.                                             *)

\* The types of everything but the count.
TypeInv ==
  /\ AreBooks(books)
  /\ stats \in [DOMAIN NoStats -> Nat]
  /\ call = NoCall \/ call \in CallType
  /\ ret \in ApplyResult \cup MatchResult
  /\ IsBook(before)

LEMMA ApplyEffect ==
  ASSUME AreBooks(books), resting_order_count \in Nat, NEW e \in Event, apply(e)
  PROVE  Effect
<1> DEFINE l == e.stock_locate
<1>1. l \in StockLocate /\ IsBook(BookOf(l))
  BY EventType, BookOfType
<1>2. CASE e.type = "AddOrder" /\ ApplyAdd(e)
  <2>1. CASE ~can_create_order(l) /\ reject(l) /\ UNCHANGED books
    BY <2>1, UnchangedEffect DEF reject
  <2>2. CASE can_create_order(l) /\ books' = EnsuredBooks(l, BookOf(l)) /\ reject(l)
    <3>1. Changed(books', l, BookOf(l))
      BY <2>2, EnsuredChanged
    <3>2. l \in DOMAIN books \/ Cardinality(DOMAIN books) < max_instruments
      BY <2>2 DEF can_create_order
    <3>3. UNCHANGED resting_order_count
      BY <2>2 DEF reject
    <3> QED
      BY <1>1, <3>1, <3>2, <3>3, KeepsEffect
  <2>3. CASE /\ can_create_order(l) /\ CanAdd(BookOf(l), e.order_reference, e.shares)
             /\ books' = EnsuredBooks(l, Add(BookOf(l), e.order_reference, e.side,
                                             e.price, e.shares))
             /\ resting_order_count' = resting_order_count + 1
    BY <1>1, <1>2, <2>3, EventType, AddsEffect
  <2> QED
    BY <1>2, <2>1, <2>2, <2>3 DEF ApplyAdd
<1>3. ASSUME NEW action, NEW counter, ApplyReduction(e, action, counter),
             e.type \in {"OrderExecuted", "OrderCancel"}
      PROVE  Effect
  <2>1. CASE reject(l) /\ UNCHANGED books
    BY <2>1, UnchangedEffect DEF reject
  <2>2. CASE /\ CanCancel(BookOf(l), e.order_reference, e.shares)
             /\ books' = [books EXCEPT ![l] = Cancel(BookOf(l), e.order_reference, e.shares)]
             /\ resting_order_count' =
                  resting_order_count - FreedBy(BookOf(l), e.order_reference, e.shares)
    BY <1>1, <1>3, <2>2, EventType, CancelEffect
  <2> QED
    BY <1>3, <2>1, <2>2 DEF ApplyReduction
<1>4. CASE ApplyDelete(e)
  <2>1. CASE reject(l) /\ UNCHANGED books
    BY <2>1, UnchangedEffect DEF reject
  <2>2. CASE /\ e.order_reference \in DOMAIN BookOf(l)
             /\ books' = [books EXCEPT ![l] = Leave(BookOf(l), e.order_reference)]
             /\ resting_order_count' = resting_order_count - 1
    <3> DEFINE c == Leave(BookOf(l), e.order_reference)
    <3>1. IsBook(c)
      BY <1>1, LeaveType
    <3>2. DOMAIN c = DOMAIN BookOf(l) \ {e.order_reference}
      BY LeaveDomain
    <3>3. Changed(books', l, c)
      BY <2>2, BookOfOrder, ExceptChanged
    <3> HIDE DEF c
    <3> QED
      BY <1>1, <2>2, <3>1, <3>2, <3>3, FreesEffect
  <2> QED
    BY <1>4, <2>1, <2>2 DEF ApplyDelete, CanErase, Erase
<1>5. CASE e.type = "OrderReplace" /\ ApplyReplace(e)
  <2>1. CASE reject(l) /\ UNCHANGED books
    BY <2>1, UnchangedEffect DEF reject
  <2>2. CASE /\ CanReplace(BookOf(l), e.original_order_reference, e.new_order_reference,
                           e.shares)
             /\ books' = [books EXCEPT ![l] =
                  Replace(BookOf(l), e.original_order_reference, e.new_order_reference,
                          e.price, e.shares)]
             /\ UNCHANGED resting_order_count
    BY <1>1, <1>5, <2>2, EventType, ReplaceEffect
  <2> QED
    BY <1>5, <2>1, <2>2 DEF ApplyReplace
<1>6. CASE ApplyOther(e)
  BY <1>6, UnchangedEffect DEF ApplyOther
<1> QED
  BY <1>2, <1>3, <1>4, <1>5, <1>6 DEF apply

LEMMA CallFields ==
  ASSUME NEW c \in CallType
  PROVE  /\ c.args \in Submission /\ c.remaining \in Nat
         /\ c.result \in MatchResult /\ c.fill_output \in Seq(Fill)
BY DEF CallType

\* The shares of one iteration.
LEMMA TradeQuantity ==
  ASSUME NEW n \in Nat, NEW b, IsBook(b), NEW i \in DOMAIN b
  PROVE  /\ (IF n < b[i].quantity THEN n ELSE b[i].quantity) \in Nat
         /\ (IF n < b[i].quantity THEN n ELSE b[i].quantity) <= n
<1>1. b[i].quantity \in Nat
  BY DEF IsBook, Order
<1> QED
  BY <1>1

LEMMA TradeEffect ==
  ASSUME TypeInv, resting_order_count \in Nat, call # NoCall, NEW i, NEW p, Trade(i, p)
  PROVE  Effect
<1> DEFINE l == call.args.stock_locate
           b == BookOf(l)
           q == IF call.remaining < b[i].quantity THEN call.remaining ELSE b[i].quantity
<1>1. l \in StockLocate /\ call.remaining \in Nat /\ IsBook(b)
  BY CallFields, SubmissionFields, BookOfType DEF TypeInv
<1>2. /\ CanCancel(b, i, q)
      /\ books' = [books EXCEPT ![l] = Cancel(b, i, q)]
      /\ resting_order_count' = resting_order_count - FreedBy(b, i, q)
  BY DEF Trade
<1>3. q \in Nat
  BY <1>1, <1>2, TradeQuantity DEF CanCancel
<1> HIDE DEF q
<1> QED
  BY <1>1, <1>2, <1>3, CancelEffect DEF TypeInv

LEMMA ReturnEffect ==
  ASSUME TypeInv, resting_order_count \in Nat, Return
  PROVE  Effect
<1> DEFINE a == call.args
           l == a.stock_locate
           q == call.remaining
<1>1. /\ l \in StockLocate /\ a.order_id \in OrderId /\ a.side \in Side
      /\ a.limit_price \in Price /\ q \in Nat
  BY CallFields, SubmissionFields DEF TypeInv, Return
<1>2. AreBooks(books) /\ IsBook(BookOf(l))
  BY BookOfType DEF TypeInv
<1>3. CASE UNCHANGED <<books, resting_order_count>>
  BY <1>2, <1>3, UnchangedEffect
<1>4. CASE /\ Rests(a, q)
           /\ books' = EnsuredBooks(l, Add(BookOf(l), a.order_id, a.side, a.limit_price, q))
           /\ resting_order_count' = resting_order_count + 1
  BY <1>1, <1>2, <1>4, AddsEffect DEF Rests
<1>5. CASE /\ can_create_order(l) /\ books' = EnsuredBooks(l, BookOf(l))
           /\ UNCHANGED resting_order_count
  <2>1. Changed(books', l, BookOf(l))
    BY <1>5, EnsuredChanged
  <2>2. l \in DOMAIN books \/ Cardinality(DOMAIN books) < max_instruments
    BY <1>5 DEF can_create_order
  <2> QED
    BY <1>1, <1>2, <1>5, <2>1, <2>2, KeepsEffect
<1> QED
  BY <1>3, <1>4, <1>5 DEF Return, ReturnLimit, ReturnMarket

LEMMA NextEffect ==
  ASSUME TypeInv, resting_order_count \in Nat, [Next]_vars
  PROVE  Effect
<1>1. AreBooks(books)
  BY DEF TypeInv
<1>2. ASSUME NEW e \in Event, apply(e)
      PROVE  Effect
  BY <1>1, <1>2, ApplyEffect
<1>3. ASSUME NEW a \in Submission, Submit(a)
      PROVE  Effect
  BY <1>1, <1>3, UnchangedEffect DEF Submit
<1>4. CASE MatchStep
  BY <1>4, TradeEffect DEF MatchStep
<1>5. CASE Return
  BY <1>5, ReturnEffect
<1>6. CASE clear
  BY <1>6 DEF clear, Effect, AreBooks, Empties, OrdersIn, Instruments
<1>7. CASE UNCHANGED vars
  BY <1>1, <1>7, UnchangedEffect DEF vars
<1> QED
  BY <1>2, <1>3, <1>4, <1>5, <1>6, <1>7 DEF Next

-----------------------------------------------------------------------------
(* The types of what apply() and the submissions write.                    *)

Counters == {"ignored", "adds", "executions", "cancels", "deletes", "replaces", "rejected"}

Actions == {"Ignored", "Added", "Executed", "Cancelled", "Deleted", "Replaced", "Rejected"}

\* apply() ends in exactly one report.
Reported(l) ==
  \E action \in Actions, counter \in Counters, changed \in BOOLEAN :
    report(action, l, changed, counter)

LEMMA ApplyReports ==
  ASSUME NEW e \in Event, apply(e)
  PROVE  Reported(e.stock_locate)
<1> DEFINE l == e.stock_locate
<1>1. CASE reject(l)
  BY <1>1 DEF reject, Reported, Actions, Counters
<1>2. CASE report("Added", l, TRUE, "adds")
  BY <1>2 DEF Reported, Actions, Counters
<1>3. CASE report("Executed", l, TRUE, "executions")
  BY <1>3 DEF Reported, Actions, Counters
<1>4. CASE report("Cancelled", l, TRUE, "cancels")
  BY <1>4 DEF Reported, Actions, Counters
<1>5. CASE report("Deleted", l, TRUE, "deletes")
  BY <1>5 DEF Reported, Actions, Counters
<1>6. CASE report("Replaced", l, TRUE, "replaces")
  BY <1>6 DEF Reported, Actions, Counters
<1>7. CASE report("Ignored", l, FALSE, "ignored")
  BY <1>7 DEF Reported, Actions, Counters
<1> HIDE DEF l
<1> QED
  BY <1>1, <1>2, <1>3, <1>4, <1>5, <1>6, <1>7
  DEF apply, ApplyAdd, ApplyReduction, ApplyDelete, ApplyReplace, ApplyOther, l

LEMMA ReportType ==
  ASSUME stats \in [DOMAIN NoStats -> Nat], NEW l \in StockLocate, Reported(l)
  PROVE  stats' \in [DOMAIN NoStats -> Nat] /\ ret' \in ApplyResult
<1>1. PICK action \in Actions, counter \in Counters, changed \in BOOLEAN :
        report(action, l, changed, counter)
  BY DEF Reported
<1>2. counter \in DOMAIN NoStats /\ "messages" \in DOMAIN NoStats
  BY DEF NoStats, Counters
<1>3. stats' = [stats EXCEPT !.messages = stats.messages + 1, ![counter] = stats[counter] + 1]
  BY <1>1 DEF report, Counters
<1>4. stats' \in [DOMAIN NoStats -> Nat]
  BY <1>2, <1>3
<1>5. ret' \in ApplyResult
  BY <1>1 DEF report, ApplyResult, Actions
<1> QED
  BY <1>4, <1>5

\* The result keeps its type; arithmetic and the Boolean field apart.
LEMMA AddFillType ==
  ASSUME NEW r \in MatchResult, NEW q \in Nat, NEW capacity \in Nat
  PROVE  AddFill(r, q, capacity) \in MatchResult
<1>1. r.filled \in Nat /\ r.fill_count \in Nat
  BY DEF MatchResult
<1>2. r.filled + q \in Nat /\ r.fill_count + 1 \in Nat
  BY <1>1
<1>3. (r.fills_truncated \/ r.fill_count >= capacity) \in BOOLEAN
  BY Zenon
<1>4. ASSUME NEW x \in Nat, NEW y \in Nat, NEW t \in BOOLEAN
      PROVE  [r EXCEPT !.filled = x, !.fill_count = y, !.fills_truncated = t] \in MatchResult
  BY DEF MatchResult
<1>5. AddFill(r, q, capacity) =
        [r EXCEPT !.filled = r.filled + q, !.fill_count = r.fill_count + 1,
                  !.fills_truncated = r.fills_truncated \/ r.fill_count >= capacity]
  BY Zenon DEF AddFill
<1> QED
  BY <1>2, <1>3, <1>4, <1>5, Zenon

LEMMA TradeType ==
  ASSUME TypeInv, call # NoCall, call.remaining # 0, NEW p \in Price,
         NEW i \in DOMAIN BookOf(call.args.stock_locate), Trade(i, p)
  PROVE  call' \in CallType
<1> DEFINE a == call.args
           b == BookOf(a.stock_locate)
           q == IF call.remaining < b[i].quantity THEN call.remaining ELSE b[i].quantity
<1>1. call \in CallType
  BY DEF TypeInv
<1>2. /\ call.remaining \in Nat /\ call.result \in MatchResult
      /\ call.fill_output \in Seq(Fill) /\ a.capacity \in Nat
  BY <1>1, CallFields, SubmissionFields
<1>3. IsBook(b) /\ i \in OrderId
  BY BookOfType DEF TypeInv, IsBook
<1>4. q \in Nat /\ q <= call.remaining
  BY <1>2, <1>3, TradeQuantity
<1>5. call' = [call EXCEPT !.remaining = call.remaining - q,
                           !.fill_output = RecordFill(call, i, p, q),
                           !.result = AddFill(call.result, q, a.capacity)]
  BY DEF Trade
<1> HIDE DEF q
<1>6. call.remaining - q \in Nat
  BY <1>2, <1>4
<1>7. RecordFill(call, i, p, q) \in Seq(Fill)
  <2>1. [resting_order |-> i, price |-> p, quantity |-> q] \in Fill
    BY <1>3, <1>4 DEF Fill
  <2> QED
    BY <1>2, <2>1 DEF RecordFill
<1>8. AddFill(call.result, q, a.capacity) \in MatchResult
  BY <1>2, <1>4, AddFillType
<1> QED
  BY <1>1, <1>5, <1>6, <1>7, <1>8 DEF CallType

LEMMA MatchedType ==
  ASSUME NEW b, NEW s, NEW p \in best(b, s), NEW i \in Matched(b, s, p)
  PROVE  p \in Price /\ i \in DOMAIN b
BY DEF best, ActivePrices, Matched, front, Level

LEMMA ReturnType ==
  ASSUME TypeInv, Return
  PROVE  ret' \in MatchResult
<1>1. call.remaining \in Nat /\ call.result \in MatchResult
  BY CallFields DEF TypeInv, Return
<1> QED
  BY <1>1 DEF Return, ReturnLimit, ReturnMarket, MatchResult

LEMMA TypeStep ==
  ASSUME TypeInv, resting_order_count \in Nat, [Next]_vars
  PROVE  TypeInv'
<1>1. AreBooks(books')
  BY NextEffect DEF Effect
<1>2. ASSUME NEW e \in Event, apply(e)
      PROVE  TypeInv'
  <2>1. stats' \in [DOMAIN NoStats -> Nat] /\ ret' \in ApplyResult
    BY <1>2, ApplyReports, ReportType, EventType DEF TypeInv
  <2>2. UNCHANGED <<call, before>>
    BY <1>2 DEF apply
  <2> QED
    BY <1>1, <2>1, <2>2 DEF TypeInv, AreBooks, IsBook
<1>3. ASSUME NEW a \in Submission, Submit(a)
      PROVE  TypeInv'
  <2>1. UNCHANGED stats
    BY <1>3 DEF Submit
  <2>2. CASE ret' = [NoFill EXCEPT !.accepted = FALSE] /\ UNCHANGED <<call, before>>
    <3>1. ret' \in MatchResult
      BY <2>2 DEF NoFill, MatchResult
    <3> QED
      BY <1>1, <2>1, <2>2, <3>1 DEF TypeInv, AreBooks, IsBook
  <2>3. CASE /\ call' = [args |-> a, remaining |-> a.quantity, result |-> NoFill,
                         fill_output |-> <<>>]
             /\ before' = BookOf(a.stock_locate)
             /\ ret' = Nothing
    <3>1. call' \in CallType
      BY <2>3, SubmissionFields DEF CallType, NoFill, MatchResult
    <3>2. ret' \in ApplyResult
      BY <2>3 DEF Nothing, ApplyResult
    <3>3. IsBook(before')
      BY <2>3, BookOfType DEF TypeInv
    <3> QED
      BY <1>1, <2>1, <3>1, <3>2, <3>3 DEF TypeInv, AreBooks, IsBook
  <2> QED
    BY <1>3, <2>2, <2>3 DEF Submit
<1>4. CASE MatchStep
  <2>1. PICK p \in Price, i \in DOMAIN BookOf(call.args.stock_locate) : Trade(i, p)
    BY <1>4, MatchedType DEF MatchStep, OppositePrice
  <2>2. call' \in CallType
    BY <1>4, <2>1, TradeType DEF MatchStep
  <2>3. UNCHANGED <<stats, ret, before>>
    BY <2>1 DEF Trade
  <2> QED
    BY <1>1, <2>2, <2>3 DEF TypeInv, AreBooks, IsBook
<1>5. CASE Return
  <2>1. ret' \in MatchResult
    BY <1>5, ReturnType
  <2>2. call' = NoCall /\ before' = EmptyBook /\ UNCHANGED stats
    BY <1>5 DEF Return
  <2> QED
    BY <1>1, <2>1, <2>2, EmptyBookType DEF TypeInv, AreBooks, IsBook
<1>6. CASE clear
  <2>1. stats' \in [DOMAIN NoStats -> Nat]
    BY <1>6 DEF clear, NoStats
  <2>2. UNCHANGED <<call, ret, before>>
    BY <1>6 DEF clear
  <2> QED
    BY <1>1, <2>1, <2>2 DEF TypeInv, AreBooks, IsBook
<1>7. CASE UNCHANGED vars
  BY <1>1, <1>7 DEF vars, TypeInv, AreBooks, IsBook
<1> QED
  BY <1>2, <1>3, <1>4, <1>5, <1>6, <1>7 DEF Next

-----------------------------------------------------------------------------
(* The count of resting orders.                                            *)

\* The sets counted are finite, the counter is exact, and both are limited.
CountInv ==
  /\ IsFiniteSet(OrdersIn(books))
  /\ resting_order_count = Cardinality(OrdersIn(books))
  /\ resting_order_count <= max_resting_orders
  /\ IsFiniteSet(DOMAIN books)
  /\ Cardinality(DOMAIN books) <= max_instruments

LEMMA CountNat ==
  ASSUME CountInv
  PROVE  resting_order_count \in Nat
BY FS_CardinalityType DEF CountInv

\* One order comes, goes or is exchanged, and the counter follows.
LEMMA EffectCount ==
  ASSUME CountInv, Keeps \/ Adds \/ Frees \/ Exchanges \/ Empties
  PROVE  /\ IsFiniteSet(OrdersIn(books'))
         /\ resting_order_count' = Cardinality(OrdersIn(books'))
         /\ resting_order_count' <= max_resting_orders
<1> DEFINE S == OrdersIn(books)
           T == OrdersIn(books')
           n == resting_order_count
<1>1. IsFiniteSet(S) /\ n = Cardinality(S) /\ n <= max_resting_orders
  BY DEF CountInv
<1>2. n \in Nat /\ max_resting_orders \in Nat
  BY CountNat, EngineAssumption
<1> HIDE DEF S, T
<1>3. CASE Keeps
  BY <1>1, <1>3 DEF Keeps, S, T
<1>4. CASE Adds
  <2>1. PICK x : x \notin S /\ T = S \cup {x}
    BY <1>4 DEF Adds, S, T
  <2>2. IsFiniteSet(T) /\ Cardinality(T) = n + 1
    BY <1>1, <2>1, FS_AddElement
  <2>3. n < max_resting_orders /\ n' = n + 1
    BY <1>4 DEF Adds
  <2> QED
    BY <1>2, <2>2, <2>3 DEF T
<1>5. CASE Frees
  <2>1. PICK x \in S : T = S \ {x}
    BY <1>5 DEF Frees, S, T
  <2>2. IsFiniteSet(T) /\ Cardinality(T) = n - 1
    BY <1>1, <2>1, FS_RemoveElement
  <2>3. n' = n - 1
    BY <1>5 DEF Frees
  <2> QED
    BY <1>1, <1>2, <2>2, <2>3 DEF T
<1>6. CASE Exchanges
  <2>1. PICK x \in S : \E y : y \notin S /\ T = (S \ {x}) \cup {y}
    BY <1>6 DEF Exchanges, S, T
  <2>2. PICK y : y \notin S /\ T = (S \ {x}) \cup {y}
    BY <2>1
  <2>3. IsFiniteSet(S \ {x}) /\ Cardinality(S \ {x}) = n - 1
    BY <1>1, FS_RemoveElement
  <2>4. IsFiniteSet(T) /\ Cardinality(T) = (n - 1) + 1
    BY <2>2, <2>3, FS_AddElement
  <2>5. n' = n
    BY <1>6 DEF Exchanges
  <2> QED
    BY <1>1, <1>2, <2>4, <2>5 DEF T
<1>7. CASE Empties
  BY <1>2, <1>7, FS_EmptySet DEF Empties
<1> QED
  BY <1>3, <1>4, <1>5, <1>6, <1>7

LEMMA EffectInstruments ==
  ASSUME CountInv, Instruments
  PROVE  IsFiniteSet(DOMAIN books') /\ Cardinality(DOMAIN books') <= max_instruments
<1> DEFINE D == DOMAIN books
           E == DOMAIN books'
<1>1. IsFiniteSet(D) /\ Cardinality(D) <= max_instruments /\ max_instruments \in Nat
  BY EngineAssumption DEF CountInv
<1>2. Cardinality(D) \in Nat
  BY <1>1, FS_CardinalityType
<1> HIDE DEF D, E
<1>3. CASE E = D
  BY <1>1, <1>3 DEF E
<1>4. ASSUME Cardinality(D) < max_instruments, NEW l, l \notin D, E = D \cup {l}
      PROVE  IsFiniteSet(E) /\ Cardinality(E) <= max_instruments
  <2>1. IsFiniteSet(E) /\ Cardinality(E) = Cardinality(D) + 1
    BY <1>1, <1>4, FS_AddElement
  <2> QED
    BY <1>1, <1>2, <1>4, <2>1
<1>5. CASE E = {}
  BY <1>1, <1>5, FS_EmptySet DEF E
<1> QED
  BY <1>3, <1>4, <1>5 DEF Instruments, D, E

-----------------------------------------------------------------------------
(* The inductive invariant.                                                *)

\* CountExact alone is not inductive: that a freed order was one of those
\* counted needs the types of the books, and that the limits hold after an
\* add needs the count to be exact.
Inv == TypeInv /\ CountInv

LEMMA InitInv == Init => Inv
<1> SUFFICES ASSUME Init PROVE Inv
  OBVIOUS
<1>1. DOMAIN books = {} /\ OrdersIn(books) = {}
  BY DEF Init, OrdersIn
<1>2. CountInv
  BY <1>1, FS_EmptySet, EngineAssumption DEF Init, CountInv
<1>3. TypeInv
  <2>1. stats \in [DOMAIN NoStats -> Nat]
    BY DEF Init, NoStats
  <2>2. ret \in ApplyResult
    BY DEF Init, Nothing, ApplyResult
  <2> QED
    BY <1>1, <2>1, <2>2, EmptyBookType DEF Init, TypeInv, AreBooks
<1> QED
  BY <1>2, <1>3 DEF Inv

LEMMA NextInv == Inv /\ [Next]_vars => Inv'
<1> SUFFICES ASSUME Inv, [Next]_vars PROVE Inv'
  OBVIOUS
<1>1. TypeInv /\ CountInv /\ resting_order_count \in Nat
  BY CountNat DEF Inv
<1>2. TypeInv'
  BY <1>1, TypeStep
<1>3. Effect
  BY <1>1, NextEffect
<1>4. CountInv'
  <2>1. /\ IsFiniteSet(OrdersIn(books'))
        /\ resting_order_count' = Cardinality(OrdersIn(books'))
        /\ resting_order_count' <= max_resting_orders
    BY <1>1, <1>3, EffectCount DEF Effect
  <2>2. IsFiniteSet(DOMAIN books') /\ Cardinality(DOMAIN books') <= max_instruments
    BY <1>1, <1>3, EffectInstruments DEF Effect
  <2> QED
    BY <2>1, <2>2 DEF CountInv, OrdersIn
<1> QED
  BY <1>2, <1>4 DEF Inv

LEMMA Invariance == Spec => []Inv
<1> QED
  BY InitInv, NextInv, PTL DEF Spec

\* Whatever the feed and the submissions, the engine's state is well typed:
\* no resting order is without shares, no counter below zero.
THEOREM Typing == Spec => []TypeOK
<1>1. Inv => TypeOK
  BY CountNat DEF Inv, TypeInv, TypeOK, AreBooks
<1> QED
  BY <1>1, Invariance, PTL

\* resting_order_count_ is the number of orders resting in all the books in
\* every reachable state, between the fills of a sweep too.
THEOREM Counting == Spec => []CountExact
<1>1. Inv => CountExact
  BY RestingIsOrdersIn DEF Inv, CountInv, CountExact
<1> QED
  BY <1>1, Invariance, PTL

\* can_create_order holds the engine to both limits, whatever they are.
THEOREM Limits == Spec => []LimitsRespected
<1>1. Inv => LimitsRespected
  BY RestingIsOrdersIn DEF Inv, CountInv, LimitsRespected
<1> QED
  BY <1>1, Invariance, PTL

-----------------------------------------------------------------------------
(* The statistics.                                                         *)

LEMMA ReportAccounts ==
  ASSUME stats \in [DOMAIN NoStats -> Nat], NEW l, Reported(l), StatsAccount
  PROVE  StatsAccount'
<1>1. PICK counter \in Counters :
        stats' = [stats EXCEPT !.messages = stats.messages + 1, ![counter] = stats[counter] + 1]
  BY DEF Reported, report, Counters
<1>2. DOMAIN stats = {"messages"} \cup Counters /\ \A c \in DOMAIN stats : stats[c] \in Nat
  BY DEF NoStats, Counters
<1>3. /\ stats'.messages = stats.messages + 1
      /\ \A c \in Counters : stats'[c] = IF c = counter THEN stats[c] + 1 ELSE stats[c]
  BY <1>1, <1>2 DEF Counters
<1> QED
  BY <1>2, <1>3 DEF StatsAccount, Counters

\* Every message apply() returns from is counted once, under one outcome.
THEOREM Accounting == Spec => []StatsAccount
<1>1. Init => StatsAccount
  BY DEF Init, NoStats, StatsAccount
<1>2. Inv /\ StatsAccount /\ [Next]_vars => StatsAccount'
  <2> SUFFICES ASSUME Inv, StatsAccount, [Next]_vars PROVE StatsAccount'
    OBVIOUS
  <2>1. ASSUME NEW e \in Event, apply(e)
        PROVE  StatsAccount'
    BY <2>1, ApplyReports, ReportAccounts DEF Inv, TypeInv
  <2>2. CASE clear
    BY <2>2 DEF clear, NoStats, StatsAccount
  <2>3. CASE UNCHANGED stats
    BY <2>3 DEF StatsAccount
  <2> QED
    BY <2>1, <2>2, <2>3 DEF Next, Submit, MatchStep, Trade, Return, vars
<1> QED
  BY <1>1, <1>2, Invariance, PTL DEF Spec

-----------------------------------------------------------------------------
(* What a message may touch.                                               *)

\* Only the book at l may have changed, and not if the result says so.
Localised(l) ==
  /\ ret'.stock_locate = {l}
  /\ \A k \in StockLocate : k # l => BookOf(k)' = BookOf(k)
  /\ ~ret'.changed_book => BookOf(l)' = BookOf(l)

\* A book that is looked up after a change at l.
LEMMA ChangedBookOf ==
  ASSUME NEW l, NEW b, Changed(books', l, b)
  PROVE  /\ \A k : k # l => BookOf(k)' = BookOf(k)
         /\ BookOf(l)' = b
BY DEF Changed, BookOf

LEMMA RejectLocalised ==
  ASSUME NEW l, reject(l) \/ report("Ignored", l, FALSE, "ignored"),
         books' = books \/ books' = EnsuredBooks(l, BookOf(l))
  PROVE  Localised(l)
<1>1. ret'.stock_locate = {l}
  BY DEF reject, report
<1>2. CASE books' = books
  BY <1>1, <1>2 DEF Localised, BookOf
<1>3. CASE books' = EnsuredBooks(l, BookOf(l))
  BY <1>1, <1>3, EnsuredChanged, ChangedBookOf DEF Localised
<1> QED
  BY <1>2, <1>3

LEMMA ChangeLocalised ==
  ASSUME NEW l, NEW action, NEW counter, report(action, l, TRUE, counter),
         l \in DOMAIN books, NEW b, books' = [books EXCEPT ![l] = b]
  PROVE  Localised(l)
<1>1. ret'.stock_locate = {l} /\ ret'.changed_book
  BY DEF report
<1>2. Changed(books', l, b)
  BY ExceptChanged
<1> QED
  BY <1>1, <1>2, ChangedBookOf DEF Localised

LEMMA ApplyLocalised ==
  ASSUME NEW e \in Event, apply(e)
  PROVE  Localised(e.stock_locate)
<1> DEFINE l == e.stock_locate
<1>1. CASE reject(l) /\ (books' = books \/ books' = EnsuredBooks(l, BookOf(l)))
  BY <1>1, RejectLocalised
<1>2. CASE ApplyAdd(e)
  <2>1. CASE reject(l) /\ UNCHANGED books
    BY <1>1, <2>1
  <2>2. CASE books' = EnsuredBooks(l, BookOf(l)) /\ reject(l)
    BY <1>1, <2>2
  <2>3. CASE /\ books' = EnsuredBooks(l, Add(BookOf(l), e.order_reference, e.side,
                                             e.price, e.shares))
             /\ report("Added", l, TRUE, "adds")
    <3> DEFINE b == Add(BookOf(l), e.order_reference, e.side, e.price, e.shares)
    <3>1. Changed(books', l, b)
      BY <2>3, EnsuredChanged
    <3>2. ret'.stock_locate = {l} /\ ret'.changed_book
      BY <2>3 DEF report
    <3> HIDE DEF b
    <3> QED
      BY <3>1, <3>2, ChangedBookOf DEF Localised
  <2> QED
    BY <1>2, <2>1, <2>2, <2>3 DEF ApplyAdd
<1>3. ASSUME NEW action, NEW counter, ApplyReduction(e, action, counter)
      PROVE  Localised(l)
  <2>1. CASE reject(l) /\ UNCHANGED books
    BY <1>1, <2>1
  <2>2. CASE /\ CanCancel(BookOf(l), e.order_reference, e.shares)
             /\ books' = [books EXCEPT ![l] = Cancel(BookOf(l), e.order_reference, e.shares)]
             /\ report(action, l, TRUE, counter)
    BY <2>2, BookOfOrder, ChangeLocalised DEF CanCancel
  <2> QED
    BY <1>3, <2>1, <2>2 DEF ApplyReduction
<1>4. CASE ApplyDelete(e)
  <2>1. CASE reject(l) /\ UNCHANGED books
    BY <1>1, <2>1
  <2>2. CASE /\ CanErase(BookOf(l), e.order_reference)
             /\ books' = [books EXCEPT ![l] = Erase(BookOf(l), e.order_reference)]
             /\ report("Deleted", l, TRUE, "deletes")
    BY <2>2, BookOfOrder, ChangeLocalised DEF CanErase
  <2> QED
    BY <1>4, <2>1, <2>2 DEF ApplyDelete
<1>5. CASE ApplyReplace(e)
  <2>1. CASE reject(l) /\ UNCHANGED books
    BY <1>1, <2>1
  <2>2. CASE /\ CanReplace(BookOf(l), e.original_order_reference, e.new_order_reference,
                           e.shares)
             /\ books' = [books EXCEPT ![l] =
                  Replace(BookOf(l), e.original_order_reference, e.new_order_reference,
                          e.price, e.shares)]
             /\ report("Replaced", l, TRUE, "replaces")
    BY <2>2, BookOfOrder, ChangeLocalised DEF CanReplace
  <2> QED
    BY <1>5, <2>1, <2>2 DEF ApplyReplace
<1>6. CASE ApplyOther(e)
  BY <1>6, RejectLocalised DEF ApplyOther
<1> QED
  BY <1>2, <1>3, <1>4, <1>5, <1>6 DEF apply

\* A step that counts a message is a step of apply().
LEMMA CountsMessage ==
  ASSUME Inv, [Next]_vars, stats'.messages > stats.messages
  PROVE  \E l \in StockLocate : Localised(l)
<1>1. ASSUME NEW e \in Event, apply(e)
      PROVE  \E l \in StockLocate : Localised(l)
  BY <1>1, ApplyLocalised, EventType
<1>2. stats.messages \in Nat
  BY DEF Inv, TypeInv, NoStats
<1>3. CASE UNCHANGED stats
  BY <1>2, <1>3
<1>4. CASE clear
  BY <1>2, <1>4 DEF clear, NoStats
<1> QED
  BY <1>1, <1>3, <1>4 DEF Next, Submit, MatchStep, Trade, Return, vars

\* A message never changes the orders of an instrument it does not name.
THEOREM Independence == Spec => BooksIndependent
<1>1. Inv /\ [Next]_vars =>
        [stats'.messages > stats.messages
           => \A l \in StockLocate : BookOf(l)' # BookOf(l) => ret'.stock_locate = {l}]_vars
  <2> SUFFICES ASSUME Inv, [Next]_vars, stats'.messages > stats.messages,
                      NEW l \in StockLocate, BookOf(l)' # BookOf(l)
               PROVE  ret'.stock_locate = {l}
    OBVIOUS
  <2>1. PICK k \in StockLocate : Localised(k)
    BY CountsMessage
  <2> QED
    BY <2>1 DEF Localised
<1> QED
  BY <1>1, Invariance, PTL DEF Spec, BooksIndependent

\* A message whose result says that no book changed, the refused add that has
\* just created an empty book included, changed no order of any instrument.
THEOREM Rejection == Spec => RejectedLeavesOrders
<1>1. Inv /\ [Next]_vars =>
        [stats' # stats /\ stats'.messages > stats.messages /\ ~ret'.changed_book
           => \A l \in StockLocate : BookOf(l)' = BookOf(l)]_vars
  <2> SUFFICES ASSUME Inv, [Next]_vars, stats'.messages > stats.messages,
                      ~ret'.changed_book, NEW l \in StockLocate
               PROVE  BookOf(l)' = BookOf(l)
    OBVIOUS
  <2>1. PICK k \in StockLocate : Localised(k)
    BY CountsMessage
  <2> QED
    BY <2>1 DEF Localised
<1> QED
  BY <1>1, Invariance, PTL DEF Spec, RejectedLeavesOrders

-----------------------------------------------------------------------------
(* One execution, as seen by the whole book.                               *)

\* The shares of order i that b still holds.
Left(b, i) == IF i \in DOMAIN b THEN b[i].quantity ELSE 0

\* b is what executions have left of the book c: its orders keep their place.
Shrunk(b, c) ==
  /\ DOMAIN b \subseteq DOMAIN c
  /\ \A i \in DOMAIN b : /\ b[i].side = c[i].side /\ b[i].price = c[i].price
                         /\ c[i].ahead \cap DOMAIN b \subseteq b[i].ahead

LEMMA ShrunkTwice ==
  ASSUME NEW b, NEW c, NEW d, Shrunk(b, c), Shrunk(c, d)
  PROVE  Shrunk(b, d)
BY DEF Shrunk

LEMMA ShrunkNot == \A b : Shrunk(b, b)
BY DEF Shrunk

LEMMA LeftType ==
  ASSUME NEW b, IsBook(b), NEW i
  PROVE  Left(b, i) \in Nat /\ (i \in DOMAIN b <=> Left(b, i) # 0)
BY DEF IsBook, Order, Left

\* The execution takes q shares of order id and leaves every other as it was.
LEMMA CancelTakes ==
  ASSUME NEW b, IsBook(b), NEW id, NEW q \in Nat, CanCancel(b, id, q)
  PROVE  /\ Shrunk(Cancel(b, id, q), b)
         /\ Left(Cancel(b, id, q), id) = Left(b, id) - q
         /\ \A i : i # id => Left(Cancel(b, id, q), i) = Left(b, i)
<1>1. id \in DOMAIN b /\ q # 0 /\ q <= b[id].quantity
  BY DEF CanCancel
<1>2. \A i \in DOMAIN b : b[i] \in Order
  BY DEF IsBook
<1>3. CASE q = b[id].quantity
  <2> DEFINE c == Leave(b, id)
  <2>1. Cancel(b, id, q) = c
    BY <1>3 DEF Cancel
  <2>2. DOMAIN c = DOMAIN b \ {id}
    BY LeaveDomain
  <2>3. ASSUME NEW i \in DOMAIN b \ {id}
        PROVE  /\ c[i].side = b[i].side /\ c[i].price = b[i].price
               /\ c[i].quantity = b[i].quantity /\ c[i].ahead = b[i].ahead \ {id}
    BY <1>2 DEF Leave, Order
  <2> HIDE DEF c
  <2>4. Shrunk(c, b)
    BY <2>2, <2>3 DEF Shrunk
  <2>5. Left(c, id) = Left(b, id) - q
    BY <1>1, <1>3, <2>2 DEF Left
  <2>6. ASSUME NEW i, i # id
        PROVE  Left(c, i) = Left(b, i)
    BY <2>2, <2>3, <2>6 DEF Left
  <2> QED
    BY <2>1, <2>4, <2>5, <2>6
<1>4. CASE q # b[id].quantity
  <2> DEFINE c == [b EXCEPT ![id].quantity = b[id].quantity - q]
  <2>1. Cancel(b, id, q) = c
    BY <1>4 DEF Cancel
  <2>2. DOMAIN c = DOMAIN b
    OBVIOUS
  <2>3. ASSUME NEW i \in DOMAIN b
        PROVE  /\ c[i].side = b[i].side /\ c[i].price = b[i].price /\ c[i].ahead = b[i].ahead
               /\ c[i].quantity = IF i = id THEN b[id].quantity - q ELSE b[i].quantity
    BY <1>2 DEF Order
  <2> HIDE DEF c
  <2>4. Shrunk(c, b)
    BY <2>2, <2>3 DEF Shrunk
  <2>5. Left(c, id) = Left(b, id) - q
    BY <1>1, <2>2, <2>3 DEF Left
  <2>6. ASSUME NEW i, i # id
        PROVE  Left(c, i) = Left(b, i)
    BY <2>2, <2>3, <2>6 DEF Left
  <2> QED
    BY <2>1, <2>4, <2>5, <2>6
<1> QED
  BY <1>3, <1>4

\* The order at the front of the best price has priority over all others of
\* its side: no one with priority over it rests.
LEMMA FrontIsFirst ==
  ASSUME NEW b, IsBook(b), NEW c, IsBook(c), Shrunk(b, c), NEW s \in Side,
         NEW p \in best(b, s), NEW i \in front(b, s, p), NEW j \in DOMAIN b
  PROVE  ~HasPriority(c, j, i)
<1>1. i \in DOMAIN b /\ b[i].side = s /\ b[i].price = p /\ b[i].ahead = {} /\ p \in Price
  BY DEF front, Level, best, ActivePrices
<1>2. c[i].side = s /\ c[i].price = p /\ j \notin c[i].ahead
  BY <1>1 DEF Shrunk
<1>3. c[j].side = b[j].side /\ c[j].price = b[j].price /\ b[j].price \in Price
  BY DEF Shrunk, IsBook, Order
<1>4. CASE c[j].side = s
  <2>1. b[j].price \in ActivePrices(b, s)
    BY <1>3, <1>4 DEF ActivePrices, Level
  <2>2. AtLeastAsGood(s, p, b[j].price)
    BY <2>1 DEF best
  <2>3. p \in Nat /\ b[j].price \in Nat
    BY <1>1, <1>3, BookAssumption
  <2>4. AtLeastAsGood(s, b[j].price, p) => b[j].price = p
    BY <2>2, <2>3 DEF AtLeastAsGood
  <2> QED
    BY <1>2, <1>3, <1>4, <2>4 DEF HasPriority
<1> QED
  BY <1>2, <1>4 DEF HasPriority

-----------------------------------------------------------------------------
(* The inductive invariant of a sweep.                                     *)

\* The book that the submission sweeps.
Here == BookOf(call.args.stock_locate)

\* What has been taken, as a function and in total.
TookMap == [i \in DOMAIN before |-> Took(i)]
Taken == MapThenSumSet(Took, DOMAIN before)

\* The book has only lost shares, and those of a submission add up.
SweepShape ==
  /\ Shrunk(Here, before) /\ IsFiniteSet(DOMAIN before)
  /\ call.result.filled + call.remaining = call.args.quantity
  /\ call.result.resting = 0 /\ call.result.unfilled = 0
  /\ call.args.has_limit => call.args.order_id \notin DOMAIN before

\* Whoever has given up shares was the first who could: on the other side, at
\* an accepted price, everyone with priority gone, and gone itself while there
\* is more to take.  That it is gone is what PriceTimePriority alone does not
\* say, and what the reports need: an order is filled once.
SweepOrder ==
  \A j \in DOMAIN before : TookMap[j] # 0 =>
    /\ before[j].side = opposite(call.args.side)
    /\ call.args.has_limit =>
         AtLeastAsGood(call.args.side, call.args.limit_price, before[j].price)
    /\ \A i \in DOMAIN before : HasPriority(before, i, j) => i \notin DOMAIN Here
    /\ j \in DOMAIN Here => call.remaining = 0

\* The orders that have given up shares.
TakenOrders == {i \in DOMAIN before : TookMap[i] # 0}

\* The k-th entry of the span is the one fill of an order: all that it gave up,
\* behind the fills of the taken orders with priority over it.
FillAt(k) ==
  LET f == call.fill_output
      i == f[k].resting_order
  IN /\ i \in TakenOrders
     /\ f[k] = [resting_order |-> i, price |-> before[i].price, quantity |-> TookMap[i]]
     /\ \A m \in 1..k-1 : f[m].resting_order # i
     /\ \A j \in TakenOrders :
          HasPriority(before, j, i) => \E m \in 1..k-1 : f[m].resting_order = j

\* What is in the caller's span; nothing is missing while it is long enough.
SweepReport ==
  LET f == call.fill_output
      n == call.result.fill_count
  IN /\ n = Cardinality(TakenOrders)
     /\ Len(f) = IF n < call.args.capacity THEN n ELSE call.args.capacity
     /\ call.result.fills_truncated <=> n > call.args.capacity
     /\ \A k \in 1..Len(f) : FillAt(k)
     /\ n <= call.args.capacity =>
          \A i \in TakenOrders : \E k \in 1..Len(f) : f[k].resting_order = i

SweepInv ==
  call # NoCall => SweepShape /\ SweepOrder /\ SweepReport /\ Taken = call.result.filled

LEMMA TookIsLeft ==
  /\ DOMAIN TookMap = DOMAIN before
  /\ \A i \in DOMAIN before : /\ TookMap[i] = before[i].quantity - Left(Here, i)
                              /\ TookMap[i] = Took(i)
BY DEF TookMap, Took, Left, Here

LEMMA TookNext ==
  /\ DOMAIN TookMap' = DOMAIN before'
  /\ \A i \in DOMAIN before' : TookMap'[i] = before'[i].quantity - Left(Here', i)
BY DEF TookMap, Took, Left, Here

\* A sum of Took is one in the sense of Sums.
LEMMA TakenIsSum ==
  IsFiniteSet(DOMAIN before)
    => \E g : Taken = g[DOMAIN before] /\ Sums(g, TookMap, DOMAIN before)
<1> SUFFICES ASSUME IsFiniteSet(DOMAIN before)
             PROVE  \E g : Taken = g[DOMAIN before] /\ Sums(g, TookMap, DOMAIN before)
  OBVIOUS
<1> DEFINE S == DOMAIN before
           Is(g) == g = [s \in SUBSET S |->
                           IF s = {} THEN 0 ELSE Took(Any(s)) + g[s \ {Any(s)}]]
<1>1. Taken = (CHOOSE g : g = [s \in SUBSET S |->
                  IF s = {} THEN 0 ELSE Took(Any(s)) + g[s \ {Any(s)}]])[S]
  BY DEF Taken, MapThenSumSet, MapThenFoldSet, Any
<1>2. ASSUME NEW g
      PROVE  Is(g) <=> Sums(g, TookMap, S)
  <2>1. ASSUME NEW s \in SUBSET S, s # {}
        PROVE  Took(Any(s)) = TookMap[Any(s)]
    <3>1. Any(s) \in S
      BY <2>1, AnyIn
    <3> QED
      BY <3>1 DEF TookMap
  <2>2. [s \in SUBSET S |-> IF s = {} THEN 0 ELSE Took(Any(s)) + g[s \ {Any(s)}]]
          = [s \in SUBSET S |-> IF s = {} THEN 0 ELSE TookMap[Any(s)] + g[s \ {Any(s)}]]
    BY <2>1
  <2> QED
    BY <2>2 DEF Sums
<1>3. \E g : Is(g)
  <2>1. PICK g : Sums(g, TookMap, S)
    BY SumsExist
  <2> QED
    BY <1>2, <2>1
<1>4. Is(CHOOSE g : Is(g))
  <2> HIDE DEF Is
  <2> QED
    BY <1>3, Zenon
<1>5. Taken = (CHOOSE g : Is(g))[S]
  BY <1>1, Zenon
<1> QED
  BY <1>2, <1>4, <1>5

LEMMA TakenIsSumNext ==
  IsFiniteSet(DOMAIN before')
    => \E g : Taken' = g[DOMAIN before'] /\ Sums(g, TookMap', DOMAIN before')
<1>1. (IsFiniteSet(DOMAIN before)
         => \E g : Taken = g[DOMAIN before] /\ Sums(g, TookMap, DOMAIN before))'
  BY TakenIsSum, PTL
<1> QED
  BY <1>1

\* The orders of one book are finitely many.
LEMMA BookFinite ==
  ASSUME CountInv, AreBooks(books), NEW l \in StockLocate
  PROVE  IsFiniteSet(DOMAIN BookOf(l))
<1> DEFINE b == BookOf(l)
           S == {x \in OrdersIn(books) : x[1] = l}
           f == [x \in S |-> x[2]]
<1>1. IsFiniteSet(S)
  BY FS_Subset DEF CountInv
<1>2. DOMAIN b \subseteq {f[x] : x \in S}
  <2> SUFFICES ASSUME NEW i \in DOMAIN b PROVE i \in {f[x] : x \in S}
    OBVIOUS
  <2>1. i \in OrderId
    BY BookOfType DEF IsBook
  <2>2. <<l, i>> \in S
    BY <2>1, OrderRests
  <2>3. f[<<l, i>>] = i
    BY <2>2
  <2> QED
    BY <2>2, <2>3
<1>3. IsFiniteSet({f[x] : x \in S})
  <2>1. f \in Surjection(S, {f[x] : x \in S})
    BY DEF Surjection
  <2> QED
    BY <1>1, <2>1, FS_Surjection
<1> QED
  BY <1>2, <1>3, FS_Subset

LEMMA TakenSame ==
  ASSUME IsFiniteSet(DOMAIN before), before' = before, TookMap' = TookMap
  PROVE  Taken' = Taken
<1> DEFINE S == DOMAIN before
<1>1. PICK g : Taken = g[S] /\ Sums(g, TookMap, S)
  BY TakenIsSum
<1>2. PICK h : Taken' = h[S] /\ Sums(h, TookMap, S)
  BY TakenIsSumNext
<1> HIDE DEF S
<1> QED
  BY <1>1, <1>2, SumsUnique DEF S

-----------------------------------------------------------------------------
(* A submission starts.                                                    *)

LEMMA SubmitSweeps ==
  ASSUME Inv, NEW a \in Submission, Submit(a), call' # NoCall
  PROVE  SweepInv'
<1> DEFINE l == a.stock_locate
<1>1. /\ call' = [args |-> a, remaining |-> a.quantity, result |-> NoFill, fill_output |-> <<>>]
      /\ before' = BookOf(l) /\ UNCHANGED books /\ ~Invalid(a)
  BY DEF Submit
<1>2. /\ call'.args = a /\ call'.remaining = a.quantity /\ call'.result = NoFill
      /\ call'.fill_output = <<>>
  BY <1>1
<1>3. l \in StockLocate /\ a.quantity \in Nat /\ a.capacity \in Nat
  BY SubmissionFields
<1>4. Here' = BookOf(l) /\ before' = Here'
  BY <1>1, <1>2 DEF Here, BookOf
<1>5. IsBook(before') /\ IsFiniteSet(DOMAIN before')
  BY <1>1, <1>3, BookOfType, BookFinite DEF Inv, TypeInv
<1>6. ASSUME NEW i \in DOMAIN before' PROVE TookMap'[i] = 0
  <2>1. TookMap'[i] = before'[i].quantity - before'[i].quantity
    BY <1>2, <1>4, TookNext DEF Left
  <2>2. before'[i].quantity \in Nat
    BY <1>5 DEF IsBook, Order
  <2> QED
    BY <2>1, <2>2
<1>7. Taken' = 0
  <2>1. PICK g : Taken' = g[DOMAIN before'] /\ Sums(g, TookMap', DOMAIN before')
    BY <1>5, TakenIsSumNext
  <2> QED
    BY <1>5, <1>6, <2>1, SumsZero
<1>8. SweepShape'
  BY <1>1, <1>2, <1>3, <1>4, <1>5, ShrunkNot DEF SweepShape, NoFill, Invalid
<1>9. SweepOrder'
  BY <1>6 DEF SweepOrder
<1>10. SweepReport'
  <2>1. TakenOrders' = {}
    BY <1>6 DEF TakenOrders
  <2>2. Cardinality(TakenOrders') = 0
    BY <2>1, FS_EmptySet
  <2> QED
    BY <1>2, <1>3, <2>1, <2>2 DEF SweepReport, NoFill
<1> QED
  BY <1>2, <1>7, <1>8, <1>9, <1>10 DEF SweepInv, NoFill

-----------------------------------------------------------------------------
(* One iteration of the loop in match().                                   *)

\* q shares of order i, the first in priority, change hands at its price p.
Executes(i, p, q) ==
  /\ i \in DOMAIN Here /\ q \in Nat \ {0} /\ q <= call.remaining /\ q <= Left(Here, i)
  /\ call' \in CallType /\ call'.args = call.args /\ call'.remaining = call.remaining - q
  /\ call'.result = AddFill(call.result, q, call.args.capacity)
  /\ call'.fill_output = RecordFill(call, i, p, q)
  /\ UNCHANGED before
  /\ Shrunk(Here', Here) /\ Left(Here', i) = Left(Here, i) - q
  /\ \A j : j # i => Left(Here', j) = Left(Here, j)
  /\ i \in DOMAIN Here' => q = call.remaining

LEMMA MatchExecutes ==
  ASSUME Inv, MatchStep
  PROVE  /\ call # NoCall /\ call.remaining # 0
         /\ \E p \in OppositePrice(call.args) :
              \E i \in front(Here, opposite(call.args.side), p) :
                 \E q \in Nat : Executes(i, p, q)
<1> DEFINE a == call.args
           l == a.stock_locate
<1>0. PICK p \in OppositePrice(a) : \E i \in front(Here, opposite(a.side), p) : Trade(i, p)
  BY DEF MatchStep, Matched, Here
<1>1. PICK i \in front(Here, opposite(a.side), p) : Trade(i, p)
  BY <1>0
<1> DEFINE q == IF call.remaining < Here[i].quantity THEN call.remaining ELSE Here[i].quantity
<1>2. TypeInv /\ call \in CallType /\ call.remaining \in Nat /\ call # NoCall
      /\ call.remaining # 0 /\ IsBook(Here) /\ l \in StockLocate
  BY CallFields, SubmissionFields, BookOfType DEF Inv, TypeInv, MatchStep, Here
<1>3. i \in DOMAIN Here /\ p \in Price
  BY <1>1 DEF front, Level, OppositePrice, best, ActivePrices
<1>4. /\ CanCancel(Here, i, q)
      /\ books' = [books EXCEPT ![l] = Cancel(Here, i, q)]
      /\ call' = [call EXCEPT !.remaining = call.remaining - q,
                              !.fill_output = RecordFill(call, i, p, q),
                              !.result = AddFill(call.result, q, a.capacity)]
      /\ UNCHANGED before
  BY <1>1 DEF Trade, Here
<1>5. call' \in CallType
  BY <1>1, <1>2, <1>3, TradeType DEF Here
<1>6. q \in Nat /\ q <= call.remaining
  BY <1>2, <1>3, TradeQuantity
<1>7. /\ q # 0 /\ q <= Left(Here, i) /\ (q = Here[i].quantity \/ q = call.remaining)
  BY <1>3, <1>4 DEF CanCancel, Left
<1> HIDE DEF q
<1>8. /\ call'.args = a /\ call'.remaining = call.remaining - q
      /\ call'.result = AddFill(call.result, q, a.capacity)
      /\ call'.fill_output = RecordFill(call, i, p, q)
  BY <1>2, <1>4 DEF CallType
<1>9. Here' = Cancel(Here, i, q)
  <2>1. l \in DOMAIN books
    BY <1>3, BookOfOrder DEF Here
  <2>2. Changed(books', l, Cancel(Here, i, q))
    BY <1>4, <2>1, ExceptChanged
  <2> QED
    BY <1>8, <2>2, ChangedBookOf DEF Here
<1>10. /\ Shrunk(Here', Here) /\ Left(Here', i) = Left(Here, i) - q
       /\ \A j : j # i => Left(Here', j) = Left(Here, j)
  BY <1>2, <1>4, <1>6, <1>9, CancelTakes
<1>11. i \in DOMAIN Here' => q = call.remaining
  <2>1. q = Here[i].quantity => DOMAIN Here' = DOMAIN Here \ {i}
    BY <1>9, CancelDomain
  <2> QED
    BY <1>7, <2>1
<1>12. Executes(i, p, q)
  BY <1>3, <1>4, <1>5, <1>6, <1>7, <1>8, <1>10, <1>11 DEF Executes
<1> QED
  BY <1>1, <1>2, <1>6, <1>12

\* What the step does to Took.
LEMMA TookMore ==
  ASSUME Inv, SweepShape, NEW i, NEW p, NEW q \in Nat, Executes(i, p, q)
  PROVE  /\ i \in DOMAIN before /\ TookMap'[i] = TookMap[i] + q
         /\ \A j \in DOMAIN before : TookMap[j] \in Int /\ (j # i => TookMap'[j] = TookMap[j])
<1>1. IsBook(before) /\ IsBook(Here)
  BY BookOfType DEF Inv, TypeInv, Here
<1>2. \A j \in DOMAIN before : before[j].quantity \in Nat
  BY <1>1 DEF IsBook, Order
<1>3. \A j : Left(Here, j) \in Nat
  BY <1>1, LeftType
<1>4. \A j \in DOMAIN before : TookMap'[j] = before[j].quantity - Left(Here', j)
  BY TookNext DEF Executes
<1>5. i \in DOMAIN before
  BY DEF Executes, SweepShape, Shrunk
<1>6. \A j \in DOMAIN before : TookMap[j] \in Int
  BY <1>2, <1>3, TookIsLeft
<1>7. TookMap'[i] = TookMap[i] + q
  BY <1>2, <1>3, <1>4, <1>5, TookIsLeft DEF Executes
<1>8. ASSUME NEW j \in DOMAIN before, j # i PROVE TookMap'[j] = TookMap[j]
  BY <1>4, <1>8, TookIsLeft DEF Executes
<1> QED
  BY <1>5, <1>6, <1>7, <1>8

LEMMA TakenMore ==
  ASSUME Inv, SweepShape, NEW i, NEW p, NEW q \in Nat, Executes(i, p, q)
  PROVE  Taken' = Taken + q
<1> DEFINE S == DOMAIN before
<1>1. IsFiniteSet(S) /\ before' = before
  BY DEF SweepShape, Executes
<1>2. PICK g : Taken = g[S] /\ Sums(g, TookMap, S)
  BY <1>1, TakenIsSum
<1>3. PICK h : Taken' = h[S] /\ Sums(h, TookMap', S)
  BY <1>1, TakenIsSumNext
<1>4. i \in S /\ \A j \in S : TookMap[j] \in Int
  BY TookMore
<1>5. TookMap'[i] = TookMap[i] + q /\ \A j \in S \ {i} : TookMap'[j] = TookMap[j]
  BY TookMore
<1> HIDE DEF S
<1> QED
  BY <1>1, <1>2, <1>3, <1>4, <1>5, SumsDiffer

\* The numbers of a call.
LEMMA CallNumbers ==
  ASSUME call \in CallType
  PROVE  /\ call.args.quantity \in Nat /\ call.args.capacity \in Nat /\ call.remaining \in Nat
         /\ call.args.side \in Side /\ opposite(call.args.side) \in Side
         /\ call.result.filled \in Nat /\ call.result.fill_count \in Nat
         /\ call.result.resting \in Nat /\ call.result.unfilled \in Nat
         /\ call.result.fills_truncated \in BOOLEAN
         /\ call.fill_output \in Seq(Fill)
BY CallFields, SubmissionFields, Opposite DEF MatchResult

LEMMA AddFillFields ==
  ASSUME NEW r \in MatchResult, NEW q, NEW capacity
  PROVE  /\ AddFill(r, q, capacity).filled = r.filled + q
         /\ AddFill(r, q, capacity).fill_count = r.fill_count + 1
         /\ AddFill(r, q, capacity).resting = r.resting
         /\ AddFill(r, q, capacity).unfilled = r.unfilled
         /\ AddFill(r, q, capacity).fills_truncated
              <=> (r.fills_truncated \/ r.fill_count >= capacity)
<1> DEFINE t == r.fills_truncated \/ r.fill_count >= capacity
           n == [r EXCEPT !.filled = r.filled + q, !.fill_count = r.fill_count + 1,
                          !.fills_truncated = t]
<1>1. n = AddFill(r, q, capacity)
  BY Zenon DEF AddFill
<1> HIDE DEF t
<1>2. /\ n.filled = r.filled + q /\ n.fill_count = r.fill_count + 1 /\ n.fills_truncated = t
      /\ n.resting = r.resting /\ n.unfilled = r.unfilled
  BY DEF MatchResult
<1> HIDE DEF n
<1> QED
  BY <1>1, <1>2, Zenon DEF t

LEMMA ShapeKept ==
  ASSUME Inv, call # NoCall, SweepShape, NEW i, NEW p, NEW q \in Nat, Executes(i, p, q)
  PROVE  SweepShape'
<1>1. call \in CallType /\ call.result \in MatchResult
  BY CallFields DEF Inv, TypeInv
<1>2. /\ call.remaining \in Nat /\ call.result.filled \in Nat /\ call.args.quantity \in Nat
      /\ q <= call.remaining
  BY <1>1, CallNumbers DEF Executes
<1>3. /\ call'.result.filled = call.result.filled + q
      /\ call'.result.resting = call.result.resting
      /\ call'.result.unfilled = call.result.unfilled
      /\ call'.remaining = call.remaining - q /\ call'.args = call.args
  BY <1>1, AddFillFields DEF Executes
<1>4. call'.result.filled + call'.remaining = call'.args.quantity
  BY <1>2, <1>3 DEF SweepShape
<1>5. Shrunk(Here', before') /\ before' = before
  BY ShrunkTwice DEF Executes, SweepShape
<1> QED
  BY <1>3, <1>4, <1>5 DEF SweepShape

LEMMA OrderKept ==
  ASSUME Inv, call # NoCall, call.remaining # 0, SweepShape, SweepOrder,
         NEW p \in OppositePrice(call.args),
         NEW i \in front(Here, opposite(call.args.side), p), NEW q \in Nat, Executes(i, p, q)
  PROVE  SweepOrder'
<1> DEFINE a == call.args
           s == opposite(a.side)
<1>1. call \in CallType /\ IsBook(before) /\ IsBook(Here) /\ s \in Side
  BY CallNumbers, BookOfType DEF Inv, TypeInv, Here
<1>2. /\ DOMAIN Here' \subseteq DOMAIN Here /\ before' = before /\ call'.args = a
      /\ call'.remaining = call.remaining - q /\ call.remaining \in Nat
  BY <1>1, CallNumbers DEF Executes, Shrunk
<1>3. p \in best(Here, s) /\ (a.has_limit => AtLeastAsGood(a.side, a.limit_price, p))
  BY DEF OppositePrice, Here
<1>4. i \in DOMAIN Here /\ i \in DOMAIN before /\ before[i].side = s /\ before[i].price = p
  BY DEF front, Level, SweepShape, Shrunk
<1> SUFFICES ASSUME NEW j \in DOMAIN before, TookMap'[j] # 0
             PROVE  /\ before[j].side = s
                    /\ a.has_limit => AtLeastAsGood(a.side, a.limit_price, before[j].price)
                    /\ \A k \in DOMAIN before : HasPriority(before, k, j) => k \notin DOMAIN Here'
                    /\ j \in DOMAIN Here' => call'.remaining = 0
  BY <1>2 DEF SweepOrder
<1>5. CASE j = i
  <2>1. \A k \in DOMAIN Here : ~HasPriority(before, k, i)
    BY <1>1, <1>3, FrontIsFirst DEF SweepShape
  <2>2. i \in DOMAIN Here' => call'.remaining = 0
    BY <1>2 DEF Executes
  <2> QED
    BY <1>2, <1>3, <1>4, <1>5, <2>1, <2>2
<1>6. CASE j # i
  <2>1. TookMap[j] # 0
    BY <1>6, TookMore
  <2>2. j \notin DOMAIN Here
    BY <2>1 DEF SweepOrder
  <2> QED
    BY <1>2, <2>1, <2>2 DEF SweepOrder
<1> QED
  BY <1>5, <1>6

\* The order that is hit is taken for the first time, and had priority over
\* none of those taken before it.
LEMMA TakenKept ==
  ASSUME Inv, call # NoCall, call.remaining # 0, SweepShape, SweepOrder,
         NEW p, NEW i \in front(Here, opposite(call.args.side), p),
         NEW q \in Nat, Executes(i, p, q)
  PROVE  /\ i \notin TakenOrders /\ TakenOrders' = TakenOrders \cup {i}
         /\ i \in DOMAIN before /\ before[i].price = p
         /\ TookMap'[i] = q /\ \A j \in TakenOrders : TookMap'[j] = TookMap[j]
         /\ ~HasPriority(before, i, i)
         /\ \A j \in TakenOrders : ~HasPriority(before, i, j)
         /\ Cardinality(TakenOrders') = Cardinality(TakenOrders) + 1
<1>1. /\ i \in DOMAIN Here /\ i \in DOMAIN before /\ before[i].price = p
      /\ Here[i].ahead = {} /\ before[i].ahead \cap DOMAIN Here \subseteq Here[i].ahead
  BY DEF front, Level, SweepShape, Shrunk
<1>2. q # 0 /\ before' = before
  BY DEF Executes
<1>3. TookMap[i] = 0
  BY <1>1 DEF SweepOrder
<1>4. TookMap'[i] = q
  BY <1>3, TookMore
<1>5. \A j \in DOMAIN before : j # i => TookMap'[j] = TookMap[j]
  BY TookMore
<1>6. i \notin TakenOrders /\ TakenOrders' = TakenOrders \cup {i}
  BY <1>1, <1>2, <1>3, <1>4, <1>5 DEF TakenOrders
<1>7. \A j \in TakenOrders : ~HasPriority(before, i, j) /\ TookMap'[j] = TookMap[j]
  BY <1>1, <1>5, <1>6 DEF SweepOrder, TakenOrders
<1>8. ~HasPriority(before, i, i)
  BY <1>1 DEF HasPriority
<1>9. IsFiniteSet(TakenOrders)
  BY FS_Subset DEF SweepShape, TakenOrders
<1>10. Cardinality(TakenOrders \cup {i}) = Cardinality(TakenOrders) + 1
  BY <1>6, <1>9, FS_AddElement
<1> QED
  BY <1>1, <1>4, <1>6, <1>7, <1>8, <1>10

\* What the step does to the span: the fill goes behind the others, or nowhere.
LEMMA SpanKept ==
  ASSUME Inv, call # NoCall, SweepReport, NEW p,
         NEW i \in front(Here, opposite(call.args.side), p), NEW q \in Nat, Executes(i, p, q)
  PROVE  LET c == call.args.capacity
             f == call.fill_output
             g == call'.fill_output
             n == call.result.fill_count
         IN /\ n \in Nat /\ c \in Nat /\ Len(f) \in Nat
            /\ \A k \in 1..Len(f) : k \in 1..Len(g) /\ g[k] = f[k]
            /\ n < c => /\ Len(f) = n /\ Len(g) = n + 1
                        /\ g[n + 1] = [resting_order |-> i, price |-> p, quantity |-> q]
            /\ ~(n < c) => Len(g) = Len(f)
<1> DEFINE c == call.args.capacity
           f == call.fill_output
           g == call'.fill_output
           n == call.result.fill_count
           fill == [resting_order |-> i, price |-> p, quantity |-> q]
<1>1. call \in CallType
  BY CallFields DEF Inv, TypeInv
<1>2. n \in Nat /\ c \in Nat /\ f \in Seq(Fill) /\ Len(f) \in Nat
  BY <1>1, CallNumbers
<1>3. Len(f) = IF n < c THEN n ELSE c
  BY DEF SweepReport
<1>4. /\ n < c => g = Append(f, fill) /\ Len(f) = n
      /\ ~(n < c) => g = f
  BY <1>2, <1>3 DEF Executes, RecordFill
<1>5. fill \in Fill
  <2>1. i \in DOMAIN Here /\ Here[i].price = p /\ IsBook(Here)
    BY BookOfType DEF front, Level, Inv, TypeInv, Here
  <2> QED
    BY <2>1 DEF IsBook, Order, Fill
<1> HIDE DEF fill, f, g, n, c
<1>6. CASE n < c
  <2>1. Len(g) = n + 1 /\ g[n + 1] = fill /\ \A k \in 1..Len(f) : g[k] = f[k]
    BY <1>2, <1>4, <1>5, <1>6
  <2> QED
    BY <1>2, <1>4, <1>6, <2>1 DEF fill, f, g, n, c
<1>7. CASE ~(n < c)
  BY <1>2, <1>4, <1>7 DEF f, g, n, c
<1> QED
  BY <1>6, <1>7

\* Every fill is behind those with priority: an old one because the order that
\* is hit has priority over none of those taken, the new one because the span
\* was long enough for all of them.
LEMMA ReportKept ==
  ASSUME Inv, call # NoCall, call.remaining # 0, SweepShape, SweepOrder, SweepReport,
         NEW p, NEW i \in front(Here, opposite(call.args.side), p),
         NEW q \in Nat, Executes(i, p, q)
  PROVE  SweepReport'
<1> DEFINE c == call.args.capacity
           f == call.fill_output
           g == call'.fill_output
           n == call.result.fill_count
           fill == [resting_order |-> i, price |-> p, quantity |-> q]
<1>1. call.result \in MatchResult /\ call.result.fills_truncated \in BOOLEAN
  BY CallFields DEF Inv, TypeInv, MatchResult
<1>2. /\ call'.args = call.args /\ before' = before
      /\ call'.result = AddFill(call.result, q, c)
  BY DEF Executes
<1>3. call'.result.fill_count = n + 1
  BY <1>1, <1>2, AddFillFields
<1>4. /\ n \in Nat /\ c \in Nat /\ Len(f) \in Nat
      /\ \A k \in 1..Len(f) : k \in 1..Len(g) /\ g[k] = f[k]
      /\ n < c => Len(f) = n /\ Len(g) = n + 1 /\ g[n + 1] = fill
      /\ ~(n < c) => Len(g) = Len(f)
  BY SpanKept
<1>5. call'.result.fills_truncated <=> n + 1 > c
  <2>1. call'.result.fills_truncated <=> (call.result.fills_truncated \/ n >= c)
    BY <1>1, <1>2, AddFillFields
  <2>2. call.result.fills_truncated <=> n > c
    BY DEF SweepReport
  <2>3. (n > c \/ n >= c) <=> n + 1 > c
    BY <1>4
  <2> QED
    BY <2>1, <2>2, <2>3, Zenon
<1>6. /\ i \notin TakenOrders /\ TakenOrders' = TakenOrders \cup {i}
      /\ before[i].price = p /\ TookMap'[i] = q
      /\ \A j \in TakenOrders : TookMap'[j] = TookMap[j]
      /\ ~HasPriority(before, i, i)
      /\ \A j \in TakenOrders : ~HasPriority(before, i, j)
      /\ Cardinality(TakenOrders') = Cardinality(TakenOrders) + 1
  BY TakenKept
<1>7. /\ n = Cardinality(TakenOrders) /\ Len(f) = (IF n < c THEN n ELSE c)
      /\ \A k \in 1..Len(f) : FillAt(k)
      /\ n <= c => \A j \in TakenOrders : \E k \in 1..Len(f) : f[k].resting_order = j
  BY DEF SweepReport
<1> HIDE DEF fill, f, g, n, c
<1>8. Len(g) = IF n + 1 < c THEN n + 1 ELSE c
  BY <1>4, <1>7
<1>9. ASSUME NEW k \in 1..Len(f)
      PROVE  FillAt(k)'
  <2> DEFINE o == f[k].resting_order
  <2>1. /\ o \in TakenOrders
        /\ f[k] = [resting_order |-> o, price |-> before[o].price, quantity |-> TookMap[o]]
        /\ \A m \in 1..k-1 : f[m].resting_order # o
        /\ \A j \in TakenOrders :
             HasPriority(before, j, o) => \E m \in 1..k-1 : f[m].resting_order = j
    BY <1>7 DEF FillAt, f
  <2>2. g[k] = f[k] /\ \A m \in 1..k-1 : g[m] = f[m]
    BY <1>4
  <2> HIDE DEF o
  <2>3. TookMap'[o] = TookMap[o] /\ ~HasPriority(before, i, o)
    BY <1>6, <2>1
  <2>4. g[k].resting_order = o /\ \A m \in 1..k-1 : g[m].resting_order = f[m].resting_order
    BY <2>2 DEF o
  <2>5. g[k] = [resting_order |-> o, price |-> before'[o].price, quantity |-> TookMap'[o]]
    BY <1>2, <2>1, <2>2, <2>3
  <2>6. \A j \in TakenOrders' :
          HasPriority(before', j, o) => \E m \in 1..k-1 : g[m].resting_order = j
    BY <1>2, <1>6, <2>1, <2>3, <2>4
  <2>7. o \in TakenOrders' /\ \A m \in 1..k-1 : g[m].resting_order # o
    BY <1>6, <2>1, <2>4
  <2> QED
    BY <2>4, <2>5, <2>6, <2>7 DEF FillAt, g
<1>10. ASSUME n < c, NEW k, k = n + 1
       PROVE  FillAt(k)'
  <2>1. /\ g[k].resting_order = i
        /\ g[k] = [resting_order |-> i, price |-> before'[i].price, quantity |-> TookMap'[i]]
    BY <1>2, <1>4, <1>6, <1>10 DEF fill
  <2>2. k - 1 = n /\ Len(f) = n /\ \A m \in 1..n : g[m] = f[m]
    BY <1>4, <1>10
  <2>3. \A m \in 1..n : g[m].resting_order \in TakenOrders
    BY <1>7, <2>2 DEF FillAt, f
  <2>4. \A j \in TakenOrders : \E m \in 1..n : g[m].resting_order = j
    BY <1>4, <1>7, <1>10, <2>2
  <2>5. \A j \in TakenOrders' :
          HasPriority(before', j, i) => \E m \in 1..n : g[m].resting_order = j
    BY <1>2, <1>6, <2>4
  <2>6. i \in TakenOrders' /\ \A m \in 1..n : g[m].resting_order # i
    BY <1>6, <2>3
  <2> QED
    BY <2>1, <2>2, <2>5, <2>6 DEF FillAt, g
<1>11. ASSUME NEW k \in 1..Len(g)
       PROVE  FillAt(k)'
  <2>1. k \in 1..Len(f) \/ (n < c /\ k = n + 1)
    BY <1>4
  <2> QED
    BY <1>9, <1>10, <2>1
<1>12. ASSUME n + 1 <= c, NEW j \in TakenOrders'
       PROVE  \E k \in 1..Len(g) : g[k].resting_order = j
  <2>1. n < c /\ n <= c /\ n + 1 \in 1..Len(g)
    BY <1>4, <1>12
  <2>2. CASE j = i
    BY <1>4, <2>1, <2>2 DEF fill
  <2>3. CASE j \in TakenOrders
    BY <1>4, <1>7, <2>1, <2>3
  <2> QED
    BY <1>6, <2>2, <2>3
<1>13. n + 1 = Cardinality(TakenOrders')
  BY <1>6, <1>7
<1> QED
  BY <1>2, <1>3, <1>5, <1>8, <1>11, <1>12, <1>13 DEF SweepReport, g, c

LEMMA MatchSweeps ==
  ASSUME Inv, SweepInv, MatchStep
  PROVE  SweepInv'
<1>1. /\ call # NoCall /\ call.remaining # 0 /\ SweepShape /\ SweepOrder /\ SweepReport
      /\ Taken = call.result.filled
  BY MatchExecutes DEF SweepInv
<1>2. PICK p \in OppositePrice(call.args) :
        \E i \in front(Here, opposite(call.args.side), p) : \E q \in Nat : Executes(i, p, q)
  BY MatchExecutes
<1>3. PICK i \in front(Here, opposite(call.args.side), p) : \E q \in Nat : Executes(i, p, q)
  BY <1>2
<1>4. PICK q \in Nat : Executes(i, p, q)
  BY <1>3
<1>5. SweepShape' /\ SweepOrder' /\ SweepReport' /\ Taken' = Taken + q
  BY <1>1, <1>4, ShapeKept, OrderKept, ReportKept, TakenMore
<1>6. call'.result.filled = call.result.filled + q
  <2>1. call.result \in MatchResult
    BY <1>1, CallFields DEF Inv, TypeInv
  <2> QED
    BY <1>4, <2>1, AddFillFields DEF Executes
<1> QED
  BY <1>1, <1>5, <1>6 DEF SweepInv

LEMMA SweepNext == Inv /\ SweepInv /\ [Next]_vars => SweepInv'
<1> SUFFICES ASSUME Inv, SweepInv, [Next]_vars PROVE SweepInv'
  OBVIOUS
<1>1. CASE call' = NoCall
  BY <1>1 DEF SweepInv
<1>2. ASSUME NEW a \in Submission, Submit(a), call' # NoCall
      PROVE  SweepInv'
  BY <1>2, SubmitSweeps
<1>3. CASE MatchStep
  BY <1>3, MatchSweeps
<1>4. CASE UNCHANGED vars
  <2>1. UNCHANGED <<call, before, books>> /\ Here' = Here /\ TookMap' = TookMap
    BY <1>4 DEF vars, Here, BookOf, TookMap, Took
  <2>3. TakenOrders' = TakenOrders /\ \A k : FillAt(k)' <=> FillAt(k)
    BY <2>1 DEF TakenOrders, FillAt
  <2>2. call # NoCall => Taken' = Taken
    BY <2>1, TakenSame DEF SweepInv, SweepShape
  <2> QED
    BY <2>1, <2>2, <2>3 DEF SweepInv, SweepShape, SweepOrder, SweepReport
<1>5. CASE call' # NoCall
  BY <1>2, <1>3, <1>4, <1>5 DEF Next, apply, Return, clear
<1> QED
  BY <1>1, <1>5

LEMMA SweepInvariance == Spec => [](Inv /\ SweepInv)
<1>1. Init => SweepInv
  BY DEF Init, SweepInv
<1> QED
  BY <1>1, SweepNext, Invariance, PTL DEF Spec

-----------------------------------------------------------------------------
(* What a submission may rely on.                                          *)

\* In every state of a sweep, what the result says was filled is what the book
\* has lost since the submission came, all of it on the other side.
THEOREM Conserving == Spec => []FillsMatchBook
<1>1. Inv /\ SweepInv => FillsMatchBook
  BY TookIsLeft DEF SweepInv, SweepShape, SweepOrder, Taken, FillsMatchBook
<1> QED
  BY <1>1, SweepInvariance, PTL

\* The span holds one fill for each of the first orders that gave up shares, in
\* the order of their priority and with all that they gave; fill_count counts
\* the others too.
THEOREM Reporting == Spec => []FillsReported
<1>1. Inv /\ SweepInv => FillsReported
  <2> SUFFICES ASSUME Inv, SweepInv, call # NoCall
               PROVE  FillsReported
    BY DEF FillsReported
  <2> DEFINE f == call.fill_output
             n == call.result.fill_count
             capacity == call.args.capacity
             taken == {i \in DOMAIN before : Took(i) # 0}
  <2>1. SweepReport /\ call \in CallType
    BY DEF SweepInv, Inv, TypeInv
  <2>2. DOMAIN f = 1..Len(f)
    BY <2>1, CallNumbers
  <2>3. taken = TakenOrders /\ \A i \in taken : Took(i) = TookMap[i]
    BY TookIsLeft DEF TakenOrders
  <2>4. /\ n = Cardinality(taken)
        /\ Len(f) = IF n < capacity THEN n ELSE capacity
        /\ call.result.fills_truncated <=> n > capacity
    BY <2>1, <2>3 DEF SweepReport
  <2>5. ASSUME NEW k \in DOMAIN f
        PROVE  LET i == f[k].resting_order IN
               /\ i \in taken
               /\ f[k] = [resting_order |-> i, price |-> before[i].price, quantity |-> Took(i)]
               /\ \A m \in 1..k-1 : f[m].resting_order # i
               /\ \A j \in taken :
                    HasPriority(before, j, i) => \E m \in 1..k-1 : f[m].resting_order = j
    <3>1. FillAt(k)
      BY <2>1, <2>2 DEF SweepReport
    <3> HIDE DEF taken
    <3> QED
      BY <2>3, <3>1 DEF FillAt
  <2> QED
    BY <2>4, <2>5 DEF FillsReported
<1> QED
  BY <1>1, SweepInvariance, PTL

\* Price-time priority, for every book that the feed can build and every
\* submission: no order gives up a share while one with priority over it still
\* has any, and none at a price worse than the limit.
THEOREM Priority == Spec => []PriceTimePriority
<1>1. Inv /\ SweepInv => PriceTimePriority
  <2> SUFFICES ASSUME Inv, SweepInv, call # NoCall, NEW j \in DOMAIN before, Took(j) # 0
               PROVE  /\ call.args.has_limit =>
                           AtLeastAsGood(call.args.side, call.args.limit_price, before[j].price)
                      /\ \A i \in DOMAIN before :
                           HasPriority(before, i, j) => Took(i) = before[i].quantity
    BY DEF PriceTimePriority
  <2>1. /\ call.args.has_limit =>
             AtLeastAsGood(call.args.side, call.args.limit_price, before[j].price)
        /\ \A i \in DOMAIN before : HasPriority(before, i, j) => i \notin DOMAIN Here
    BY TookIsLeft DEF SweepInv, SweepOrder
  <2>2. ASSUME NEW i \in DOMAIN before, i \notin DOMAIN Here
        PROVE  Took(i) = before[i].quantity
    <3>1. before[i].quantity \in Nat
      BY DEF Inv, TypeInv, IsBook, Order
    <3> QED
      BY <2>2, <3>1, TookIsLeft DEF Left
  <2> QED
    BY <2>1, <2>2
<1> QED
  BY <1>1, SweepInvariance, PTL

LEMMA TradeKeepsCall ==
  ASSUME Inv, MatchStep
  PROVE  call' # NoCall
<1>1. call' \in CallType
  BY MatchExecutes DEF Executes
<1> QED
  BY <1>1, EngineAssumption

\* The loop ends only when nothing is left to take, or to take it from.
LEMMA NothingLeft ==
  ASSUME Inv, SweepInv, Return, call.remaining # 0,
         NEW i \in DOMAIN Here, Here[i].side = opposite(call.args.side)
  PROVE  /\ call.args.has_limit
         /\ ~AtLeastAsGood(call.args.side, call.args.limit_price, Here[i].price)
<1> DEFINE a == call.args
           s == opposite(a.side)
<1>1. call # NoCall /\ call \in CallType /\ OppositePrice(a) = {}
  BY DEF Return, Matching, Inv, TypeInv
<1>2. IsBook(Here) /\ IsFiniteSet(DOMAIN Here) /\ s \in Side
  <2>1. a.stock_locate \in StockLocate
    BY <1>1, CallFields, SubmissionFields
  <2> QED
    BY <1>1, <2>1, BookOfType, BookFinite, CallNumbers DEF Here, Inv, TypeInv
<1>3. PICK p \in best(Here, s) : TRUE
  BY <1>2, BestExists
<1>4. a.has_limit /\ ~AtLeastAsGood(a.side, a.limit_price, p)
  BY <1>1, <1>3 DEF OppositePrice, Here
<1>5. Here[i].price \in Price /\ Here[i].price \in ActivePrices(Here, s)
  BY <1>2 DEF ActivePrices, Level, IsBook, Order
<1>6. AtLeastAsGood(s, p, Here[i].price) /\ p \in Price
  BY <1>3, <1>5 DEF best, ActivePrices
<1>7. /\ p \in Nat /\ Here[i].price \in Nat /\ a.limit_price \in Nat /\ a.side \in Side
  BY <1>1, <1>5, <1>6, CallFields, SubmissionFields, BookAssumption
<1> QED
  BY <1>4, <1>6, <1>7 DEF AtLeastAsGood, opposite, Side

\* A remainder is refused only for want of room: its id is free, as the sweep
\* brings no new order into the book.
LEMMA RefusedForRoom ==
  ASSUME Inv, SweepInv, Return, call.args.has_limit, call.remaining # 0,
         ~Rests(call.args, call.remaining)
  PROVE  \/ Cardinality(RestingOrders) = max_resting_orders
         \/ /\ call.args.stock_locate \notin DOMAIN books
            /\ Cardinality(DOMAIN books) = max_instruments
<1>1. call # NoCall /\ CountInv /\ resting_order_count \in Nat
  BY CountNat DEF Return, Inv
<1>2. CanAdd(Here, call.args.order_id, call.remaining)
  BY <1>1 DEF SweepInv, SweepShape, Shrunk, CanAdd
<1>3. ~can_create_order(call.args.stock_locate)
  BY <1>2 DEF Rests, Here
<1>4. /\ Cardinality(DOMAIN books) \in Nat /\ max_instruments \in Nat /\ max_resting_orders \in Nat
      /\ Cardinality(DOMAIN books) <= max_instruments
      /\ resting_order_count <= max_resting_orders
      /\ Cardinality(RestingOrders) = resting_order_count
  BY <1>1, FS_CardinalityType, EngineAssumption, RestingIsOrdersIn DEF CountInv
<1> QED
  BY <1>1, <1>3, <1>4 DEF can_create_order

LEMMA ReturnAccounts ==
  ASSUME Inv, SweepInv, Return
  PROVE  /\ ret'.filled + ret'.resting + ret'.unfilled = call.args.quantity
         /\ ret'.resting + ret'.unfilled > 0 => call.remaining # 0
         /\ call.args.has_limit /\ ret'.unfilled > 0 =>
              call.remaining # 0 /\ ~Rests(call.args, call.remaining)
<1> DEFINE r == call.result
           q == call.remaining
<1>1. /\ call # NoCall /\ call \in CallType /\ r \in MatchResult /\ SweepShape
  BY CallFields DEF Return, Inv, TypeInv, SweepInv
<1>2. /\ r.filled \in Nat /\ q \in Nat /\ r.resting = 0 /\ r.unfilled = 0
      /\ r.filled + q = call.args.quantity
  BY <1>1, CallNumbers DEF SweepShape
<1> HIDE DEF q
<1>3. CASE ret' = r /\ q = 0
  BY <1>2, <1>3
<1>4. CASE ret' = [r EXCEPT !.resting = q] /\ q # 0
  <2>1. ret'.filled = r.filled /\ ret'.resting = q /\ ret'.unfilled = 0
    BY <1>1, <1>2, <1>4 DEF MatchResult
  <2> QED
    BY <1>2, <1>4, <2>1 DEF q
<1>5. CASE ret' = [r EXCEPT !.unfilled = q, !.accepted = FALSE] /\ q # 0 /\ ~Rests(call.args, q)
  <2>1. ret'.filled = r.filled /\ ret'.resting = 0 /\ ret'.unfilled = q
    BY <1>1, <1>2, <1>5 DEF MatchResult
  <2> QED
    BY <1>2, <1>5, <2>1 DEF q
<1>6. CASE ret' = [r EXCEPT !.unfilled = q] /\ ~call.args.has_limit
  <2>1. ret'.filled = r.filled /\ ret'.resting = 0 /\ ret'.unfilled = q
    BY <1>1, <1>2, <1>6 DEF MatchResult
  <2> QED
    BY <1>2, <1>6, <2>1 DEF q
<1> QED
  BY <1>3, <1>4, <1>5, <1>6 DEF Return, ReturnLimit, ReturnMarket, q

\* A submission that returns has accounted for every share; while any remained
\* it has left no order it could have traded with, and a limit order's shares
\* are refused only when, after the sweep, the orders or the books are at their
\* limit, and for the books only if its instrument has none.
THEOREM Completion == Spec => ReturnsComplete
<1> DEFINE Completes ==
      call # NoCall /\ call' = NoCall =>
        LET a == call.args
            l == a.stock_locate
            b == BookOf(l)
        IN /\ ret'.filled + ret'.resting + ret'.unfilled = a.quantity
           /\ ret'.resting + ret'.unfilled > 0 =>
                \A i \in DOMAIN b : b[i].side = opposite(a.side) =>
                  a.has_limit /\ ~AtLeastAsGood(a.side, a.limit_price, b[i].price)
           /\ a.has_limit /\ ret'.unfilled > 0 =>
                \/ Cardinality(RestingOrders) = max_resting_orders
                \/ l \notin DOMAIN books /\ Cardinality(DOMAIN books) = max_instruments
<1>1. Inv /\ SweepInv /\ [Next]_vars => [Completes]_vars
  <2> SUFFICES ASSUME Inv, SweepInv, Next, call # NoCall, call' = NoCall
               PROVE  Completes
    BY DEF vars
  <2>1. Return
    <3>1. CASE MatchStep
      BY <3>1, TradeKeepsCall
    <3> QED
      BY <3>1 DEF Next, apply, Submit, clear
  <2>2. /\ ret'.filled + ret'.resting + ret'.unfilled = call.args.quantity
        /\ ret'.resting + ret'.unfilled > 0 => call.remaining # 0
        /\ call.args.has_limit /\ ret'.unfilled > 0 =>
             call.remaining # 0 /\ ~Rests(call.args, call.remaining)
    BY <2>1, ReturnAccounts
  <2> QED
    BY <2>1, <2>2, NothingLeft, RefusedForRoom DEF Here
<1> QED
  BY <1>1, SweepInvariance, PTL DEF Spec, ReturnsComplete

-----------------------------------------------------------------------------
(* Failed allocations: the entries of books_.                              *)

\* The entries are limited, not just the books among them: that a book still
\* fits (ensure_book) follows only if the null entries are counted.
EntriesInv ==
  /\ IsFiniteSet(Entries) /\ Cardinality(Entries) <= max_instruments
  /\ DOMAIN books \cap null_books = {}

FaultInv == Inv /\ EntriesInv

\* At most one entry is new, and only below the limit.
EntriesStep ==
  /\ DOMAIN books' \cap null_books' = {}
  /\ \/ Entries' = Entries
     \/ /\ Cardinality(Entries) < max_instruments
        /\ \E l : l \notin Entries /\ Entries' = Entries \cup {l}
     \/ Entries' = {}

LEMMA EntriesStepInv ==
  ASSUME EntriesInv, EntriesStep
  PROVE  EntriesInv'
<1> DEFINE D == Entries E == Entries'
<1>1. IsFiniteSet(D) /\ Cardinality(D) <= max_instruments /\ max_instruments \in Nat
  BY EngineAssumption DEF EntriesInv
<1>2. Cardinality(D) \in Nat
  BY <1>1, FS_CardinalityType
<1>3. IsFiniteSet(E) /\ Cardinality(E) <= max_instruments
  <2> HIDE DEF D, E
  <2>1. CASE E = D
    BY <1>1, <2>1
  <2>2. ASSUME Cardinality(D) < max_instruments, NEW l, l \notin D, E = D \cup {l}
        PROVE  IsFiniteSet(E) /\ Cardinality(E) <= max_instruments
    <3>1. IsFiniteSet(E) /\ Cardinality(E) = Cardinality(D) + 1
      BY <1>1, <2>2, FS_AddElement
    <3> QED
      BY <1>1, <1>2, <2>2, <3>1
  <2>3. CASE E = {}
    BY <1>1, <2>3, FS_EmptySet
  <2> QED
    BY <2>1, <2>2, <2>3 DEF EntriesStep, D, E
<1> QED
  BY <1>3 DEF EntriesInv, EntriesStep

\* The limit on the entries is one on the books.
LEMMA EntryFits ==
  ASSUME EntriesInv, NEW l, can_create(l)
  PROVE  can_create_order(l)
<1>1. IsFiniteSet(Entries) /\ DOMAIN books \subseteq Entries
  BY DEF EntriesInv, Entries
<1>2. Cardinality(DOMAIN books) <= Cardinality(Entries)
  BY <1>1, FS_Subset
<1>3. Cardinality(DOMAIN books) \in Nat /\ Cardinality(Entries) \in Nat /\ max_instruments \in Nat
  BY <1>1, FS_Subset, FS_CardinalityType, EngineAssumption
<1> QED
  BY <1>2, <1>3 DEF can_create, can_create_order

\* A book may have been created at l.
LEMMA BookEntry ==
  ASSUME EntriesInv, NEW l, l \notin null_books,
         l \in DOMAIN books \/ Cardinality(Entries) < max_instruments,
         DOMAIN books' = DOMAIN books \/ DOMAIN books' = DOMAIN books \cup {l},
         UNCHANGED null_books
  PROVE  EntriesStep
BY DEF EntriesInv, EntriesStep, Entries

LEMMA SameEntries ==
  ASSUME EntriesInv, DOMAIN books' = DOMAIN books, UNCHANGED null_books
  PROVE  EntriesStep
BY DEF EntriesInv, EntriesStep, Entries

-----------------------------------------------------------------------------
(* The steps of the engine.                                                *)

\* Only an add creates a book.
LEMMA ApplyDomain ==
  ASSUME NEW e \in Event, apply(e)
  PROVE  /\ ~IsAdd(e) => DOMAIN books' = DOMAIN books
         /\ IsAdd(e) => \/ DOMAIN books' = DOMAIN books
                        \/ DOMAIN books' = DOMAIN books \cup {e.stock_locate}
<1>1. CASE e.type = "AddOrder" /\ ApplyAdd(e)
  BY <1>1 DEF ApplyAdd, EnsuredBooks, IsAdd
<1>2. CASE e.type \in {"OrderExecuted", "OrderCancel"}
  BY <1>2 DEF apply, ApplyReduction, IsAdd
<1>3. CASE e.type = "OrderDelete"
  BY <1>3 DEF apply, ApplyDelete, IsAdd
<1>4. CASE e.type = "OrderReplace"
  BY <1>4 DEF apply, ApplyReplace, IsAdd
<1>5. CASE e.type = "Other"
  BY <1>5 DEF apply, ApplyOther, IsAdd
<1> QED
  BY <1>1, <1>2, <1>3, <1>4, <1>5 DEF apply

LEMMA ReturnDomain ==
  ASSUME Return
  PROVE  \/ DOMAIN books' = DOMAIN books
         \/ /\ LeftToRest
            /\ DOMAIN books' = DOMAIN books \cup {call.args.stock_locate}
BY DEF Return, ReturnLimit, ReturnMarket, EnsuredBooks, LeftToRest

\* A step of the engine that changes no null entry.
LEMMA EngineStep ==
  ASSUME FaultInv, Next, EntriesStep
  PROVE  FaultInv'
<1>1. Inv'
  BY NextInv DEF FaultInv
<1>2. EntriesInv'
  BY EntriesStepInv DEF FaultInv
<1> QED
  BY <1>1, <1>2 DEF FaultInv

LEMMA EngineStutter ==
  ASSUME FaultInv, UNCHANGED <<books, null_books, call, ret, before, stats, resting_order_count>>
  PROVE  FaultInv'
BY DEF FaultInv, Inv, TypeInv, CountInv, EntriesInv, Entries, AreBooks, IsBook, OrdersIn

-----------------------------------------------------------------------------
(* The steps that fail.                                                    *)

\* What the caller sees of the failure has its type.
LEMMA FailedStep ==
  ASSUME FaultInv, Effect, EntriesStep,
         stats' \in [DOMAIN NoStats -> Nat], call' = NoCall \/ call' = call,
         ret' \in ApplyResult \cup MatchResult, IsBook(before')
  PROVE  FaultInv'
<1>1. TypeInv'
  BY DEF FaultInv, Inv, TypeInv, Effect, AreBooks, IsBook
<1>2. CountInv'
  <2>1. /\ IsFiniteSet(OrdersIn(books'))
        /\ resting_order_count' = Cardinality(OrdersIn(books'))
        /\ resting_order_count' <= max_resting_orders
    BY EffectCount DEF FaultInv, Inv, Effect
  <2>2. IsFiniteSet(DOMAIN books') /\ Cardinality(DOMAIN books') <= max_instruments
    BY EffectInstruments DEF FaultInv, Inv, Effect
  <2> QED
    BY <2>1, <2>2 DEF CountInv, OrdersIn
<1>3. EntriesInv'
  BY EntriesStepInv DEF FaultInv
<1> QED
  BY <1>1, <1>2, <1>3 DEF FaultInv, Inv

\* The entry or the book of a failed add is left behind, and no order.
LEMMA AddThrows ==
  ASSUME FaultInv, NEW l \in StockLocate, NEW id, NEW q, can_create(l),
         EnsureAndAddThrow(l, id, q)
  PROVE  Effect /\ EntriesStep
<1>1. /\ l \notin null_books /\ UNCHANGED resting_order_count /\ AreBooks(books) /\ EntriesInv
      /\ l \in DOMAIN books \/ Cardinality(Entries) < max_instruments
  BY DEF EnsureAndAddThrow, CountAfterThrow, FaultInv, Inv, TypeInv, can_create
<1>2. CASE /\ l \notin DOMAIN books /\ UNCHANGED books
           /\ null_books' \in {null_books, null_books \cup {l}}
  <2>1. Effect
    BY <1>1, <1>2, UnchangedEffect
  <2>2. EntriesStep
    BY <1>1, <1>2 DEF EntriesStep, EntriesInv, Entries
  <2> QED
    BY <2>1, <2>2
<1>3. CASE books' = EnsuredBooks(l, BookOf(l)) /\ UNCHANGED null_books
  <2>1. Changed(books', l, BookOf(l)) /\ IsBook(BookOf(l))
    BY <1>1, <1>3, EnsuredChanged, BookOfType
  <2>2. l \in DOMAIN books \/ Cardinality(DOMAIN books) < max_instruments
    BY <1>1, EntryFits DEF can_create_order
  <2>3. Effect
    BY <1>1, <2>1, <2>2, KeepsEffect
  <2>4. EntriesStep
    BY <1>1, <1>3, <2>1, BookEntry DEF Changed
  <2> QED
    BY <2>3, <2>4
<1> QED
  BY <1>2, <1>3 DEF EnsureAndAddThrow

\* A replacement that fails leaves the books as they are.
LEMMA ReplaceThrows ==
  ASSUME FaultInv, NEW e \in Event, ReplaceFails(e)
  PROVE  Effect /\ EntriesStep
<1>1. UNCHANGED <<books, null_books, resting_order_count>> /\ AreBooks(books)
  BY DEF ReplaceFails, FaultInv, Inv, TypeInv
<1> QED
  BY <1>1, UnchangedEffect, SameEntries DEF FaultInv

LEMMA CountMessageType ==
  ASSUME stats \in [DOMAIN NoStats -> Nat], CountMessage
  PROVE  stats' \in [DOMAIN NoStats -> Nat]
BY DEF CountMessage, NoStats

-----------------------------------------------------------------------------
(* The inductive invariant.                                                *)

LEMMA AddSucceedsInv ==
  ASSUME FaultInv, NEW e \in Event, IsAdd(e), AddSucceeds(e)
  PROVE  FaultInv'
<1> DEFINE l == e.stock_locate
<1>1. l \in StockLocate /\ EntriesInv /\ Inv /\ AreBooks(books) /\ UNCHANGED null_books
  BY EventType DEF FaultInv, Inv, TypeInv, AddSucceeds
<1>2. CASE reject(l) /\ UNCHANGED <<books, call, before>>
  <2>1. Effect /\ EntriesStep
    BY <1>1, <1>2, UnchangedEffect, SameEntries DEF reject
  <2>2. Reported(l)
    BY <1>2 DEF reject, Reported, Actions, Counters
  <2>3. stats' \in [DOMAIN NoStats -> Nat] /\ ret' \in ApplyResult
    BY <1>1, <2>2, ReportType DEF Inv, TypeInv
  <2>4. IsBook(before')
    BY <1>1, <1>2 DEF Inv, TypeInv, IsBook
  <2> QED
    BY <1>2, <2>1, <2>3, <2>4, FailedStep
<1>3. CASE can_create(l) /\ l \notin null_books /\ apply(e)
  <2>1. EntriesStep
    BY <1>1, <1>3, ApplyDomain, BookEntry DEF can_create
  <2> QED
    BY <1>3, <2>1, EngineStep DEF Next
<1> QED
  BY <1>2, <1>3 DEF AddSucceeds

LEMMA AddFailsInv ==
  ASSUME FaultInv, NEW e \in Event, AddFails(e)
  PROVE  FaultInv'
<1> DEFINE l == e.stock_locate
<1>1. l \in StockLocate /\ Inv /\ TypeInv
  BY EventType DEF FaultInv, Inv
<1>2. CASE DereferenceNull(l)
  BY <1>2, EngineStutter DEF DereferenceNull
<1>3. CASE /\ EnsureAndAddThrow(l, e.order_reference, e.shares)
           /\ CountMessage /\ UNCHANGED <<call, ret, before>>
  <2>1. Effect /\ EntriesStep
    BY <1>1, <1>3, AddThrows DEF AddFails
  <2>2. stats' \in [DOMAIN NoStats -> Nat]
    BY <1>1, <1>3, CountMessageType DEF TypeInv
  <2>3. ret' \in ApplyResult \cup MatchResult /\ IsBook(before')
    BY <1>1, <1>3 DEF TypeInv, IsBook
  <2> QED
    BY <1>3, <2>1, <2>2, <2>3, FailedStep
<1> QED
  BY <1>2, <1>3 DEF AddFails

LEMMA ReplaceFailsInv ==
  ASSUME FaultInv, NEW e \in Event, ReplaceFails(e)
  PROVE  FaultInv'
<1>1. Effect /\ EntriesStep
  BY ReplaceThrows
<1>2. CountMessage /\ UNCHANGED <<call, ret, before>> /\ TypeInv
  BY DEF ReplaceFails, FaultInv, Inv
<1>3. stats' \in [DOMAIN NoStats -> Nat]
  BY <1>2, CountMessageType DEF TypeInv
<1>4. ret' \in ApplyResult \cup MatchResult /\ IsBook(before')
  BY <1>2 DEF TypeInv, IsBook
<1> QED
  BY <1>1, <1>2, <1>3, <1>4, FailedStep

LEMMA ReturnFailsInv ==
  ASSUME FaultInv, ReturnFails
  PROVE  FaultInv'
<1> DEFINE l == call.args.stock_locate
<1>1. l \in StockLocate /\ TypeInv
  BY CallFields, SubmissionFields DEF ReturnFails, FaultInv, Inv, TypeInv
<1>2. CASE DereferenceNull(l)
  BY <1>2, EngineStutter DEF DereferenceNull
<1>3. CASE /\ EnsureAndAddThrow(l, call.args.order_id, call.remaining)
           /\ call' = NoCall /\ before' = EmptyBook /\ UNCHANGED <<stats, ret>>
  <2>1. Effect /\ EntriesStep
    BY <1>1, <1>3, AddThrows DEF ReturnFails
  <2>2. /\ ret' \in ApplyResult \cup MatchResult /\ stats' \in [DOMAIN NoStats -> Nat]
        /\ IsBook(before')
    BY <1>1, <1>3, EmptyBookType DEF TypeInv, IsBook
  <2> QED
    BY <1>3, <2>1, <2>2, FailedStep
<1> QED
  BY <1>2, <1>3 DEF ReturnFails

LEMMA ReturnRefusedInv ==
  ASSUME FaultInv, ReturnRefused
  PROVE  FaultInv'
<1>1. TypeInv /\ EntriesInv /\ AreBooks(books)
  BY DEF FaultInv, Inv, TypeInv
<1>2. /\ UNCHANGED <<books, null_books, resting_order_count, stats>> /\ call' = NoCall
      /\ before' = EmptyBook
  BY DEF ReturnRefused
<1>3. Effect /\ EntriesStep
  BY <1>1, <1>2, UnchangedEffect, SameEntries
<1>4. ret' \in MatchResult
  <2>1. call.remaining \in Nat /\ call.result \in MatchResult
    BY <1>1, CallFields DEF TypeInv, ReturnRefused
  <2> QED
    BY <2>1 DEF ReturnRefused, MatchResult
<1>5. stats' \in [DOMAIN NoStats -> Nat] /\ IsBook(before')
  BY <1>1, <1>2, EmptyBookType DEF TypeInv, IsBook
<1> QED
  BY <1>2, <1>3, <1>4, <1>5, FailedStep

LEMMA ReturnSucceedsInv ==
  ASSUME FaultInv, ReturnSucceeds
  PROVE  FaultInv'
<1>1. EntriesInv /\ Return /\ UNCHANGED null_books
  BY DEF FaultInv, ReturnSucceeds
<1>2. CASE DOMAIN books' = DOMAIN books
  BY <1>1, <1>2, SameEntries, EngineStep DEF Next
<1>3. CASE LeftToRest /\ DOMAIN books' = DOMAIN books \cup {call.args.stock_locate}
  <2>1. can_create(call.args.stock_locate) /\ call.args.stock_locate \notin null_books
    BY <1>3 DEF ReturnSucceeds
  <2>2. EntriesStep
    BY <1>1, <1>3, <2>1, BookEntry DEF can_create
  <2> QED
    BY <1>1, <2>2, EngineStep DEF Next
<1> QED
  BY <1>1, <1>2, <1>3, ReturnDomain

LEMMA FaultInitInv == FaultInit => FaultInv
<1> SUFFICES ASSUME FaultInit PROVE FaultInv
  OBVIOUS
<1>1. Inv
  BY InitInv DEF FaultInit
<1>2. Entries = {}
  BY DEF FaultInit, Init, Entries
<1> QED
  BY <1>1, <1>2, FS_EmptySet, EngineAssumption DEF FaultInv, EntriesInv, FaultInit

LEMMA FaultNextInv == FaultInv /\ [FaultNext]_faultVars => FaultInv'
<1> SUFFICES ASSUME FaultInv, [FaultNext]_faultVars PROVE FaultInv'
  OBVIOUS
<1>1. EntriesInv
  BY DEF FaultInv
<1>2. ASSUME NEW e \in Event, IsAdd(e), AddSucceeds(e) \/ AddFails(e)
      PROVE  FaultInv'
  BY <1>2, AddSucceedsInv, AddFailsInv
<1>3. ASSUME NEW e \in Event, ReplaceFails(e)
      PROVE  FaultInv'
  BY <1>3, ReplaceFailsInv
<1>4. ASSUME NEW e \in Event, ~IsAdd(e), apply(e), NoFault
      PROVE  FaultInv'
  <2>1. EntriesStep
    BY <1>1, <1>4, ApplyDomain, SameEntries DEF NoFault
  <2> QED
    BY <1>4, <2>1, EngineStep DEF Next
<1>5. ASSUME NEW a \in Submission, Submit(a), NoFault
      PROVE  FaultInv'
  <2>1. EntriesStep
    BY <1>1, <1>5, SameEntries DEF NoFault, Submit
  <2> QED
    BY <1>5, <2>1, EngineStep DEF Next
<1>6. CASE MatchStep /\ NoFault
  <2>1. DOMAIN books' = DOMAIN books
    BY <1>6 DEF MatchStep, Trade
  <2>2. EntriesStep
    BY <1>1, <1>6, <2>1, SameEntries DEF NoFault
  <2> QED
    BY <1>6, <2>2, EngineStep DEF Next
<1>7. CASE ReturnRefused \/ ReturnSucceeds \/ ReturnFails
  BY <1>7, ReturnRefusedInv, ReturnSucceedsInv, ReturnFailsInv
<1>8. CASE ClearAll
  <2>1. EntriesStep
    BY <1>8 DEF ClearAll, clear, EntriesStep, Entries
  <2> QED
    BY <1>8, <2>1, EngineStep DEF Next, ClearAll
<1>9. CASE UNCHANGED faultVars
  BY <1>9, EngineStutter DEF faultVars, vars
<1> QED
  BY <1>2, <1>3, <1>4, <1>5, <1>6, <1>7, <1>8, <1>9 DEF FaultNext

LEMMA FaultInvariance == FaultSpec => []FaultInv
BY FaultInitInv, FaultNextInv, PTL DEF FaultSpec

-----------------------------------------------------------------------------
(* What running out of memory cannot do.                                   *)

\* resting_order_count_ stays exact through every failed call.
THEOREM CountingFaults == FaultSpec => []CountExact
<1>1. FaultInv => CountExact
  BY RestingIsOrdersIn DEF FaultInv, Inv, CountInv, CountExact
<1> QED
  BY <1>1, FaultInvariance, PTL

\* The null entries that failures leave behind count against max_instruments:
\* they never let the engine past either limit, and none is made for a locate
\* that has a book.
THEOREM LimitsFaults == FaultSpec => []EntriesLimited
<1>1. FaultInv => EntriesLimited
  BY RestingIsOrdersIn DEF FaultInv, Inv, CountInv, EntriesInv, EntriesLimited
<1> QED
  BY <1>1, FaultInvariance, PTL

=============================================================================
