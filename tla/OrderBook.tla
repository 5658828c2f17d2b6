----------------------------- MODULE OrderBook -----------------------------
(***************************************************************************)
(* lob::OrderBook (src/book/order_book.cpp): the intrusive doubly linked   *)
(* FIFO of every price level, the hash map that owns the levels, the index *)
(* of active prices of each side and the hash map that owns the orders.    *)
(*                                                                         *)
(* impl is the struct Impl behind impl_.  A pointer to the node of order i *)
(* is i, a pointer to the level of price p on side s is <<s, p>>, nullptr  *)
(* is Null.  A PriceIndex is the set of prices it holds.  Every operation  *)
(* is an operator from Impl to Impl, so that one may call another as the   *)
(* code does, and one action; an allocation may fail wherever the code     *)
(* allocates.                                                              *)
(***************************************************************************)
EXTENDS Book, Functions

CONSTANT Null

\* nullptr points to no order.
ASSUME NullAssumption == Null \notin OrderId

VARIABLES
  impl,   \* [orders, levels, indices]
  ret     \* what the last call returned: "true", "false", "throw" or "none"

vars == <<impl, ret>>

Init ==
  /\ impl = [orders |-> <<>>, levels |-> <<>>, indices |-> [s \in Side |-> {}]]
  /\ ret = "none"

-----------------------------------------------------------------------------
(* struct Impl.                                                            *)

\* emplace into, and erase from, an unordered_map.
Put(f, k, v) == [x \in DOMAIN f \cup {k} |-> IF x = k THEN v ELSE f[x]]
Drop(f, k) == Restrict(f, DOMAIN f \ {k})

\* std::make_unique<PriceLevel>(price).
NewLevel == [quantity |-> 0, order_count |-> 0, head |-> Null, tail |-> Null]

get_or_create_level(m, l) ==
  IF l \in DOMAIN m.levels THEN m ELSE [m EXCEPT !.levels = Put(@, l, NewLevel)]

\* i->next = j and i->previous = j, skipped when i is nullptr.
SetNext(o, i, j) == IF i = Null THEN o ELSE [o EXCEPT ![i].next = j]
SetPrevious(o, i, j) == IF i = Null THEN o ELSE [o EXCEPT ![i].previous = j]

\* A tail that is not told about its successor.
append_forgets_tail_next(m, l, id) ==
  LET t == m.levels[l].tail
  IN [m EXCEPT !.orders[id] = [@ EXCEPT !.level = l, !.previous = t, !.next = Null],
               !.levels[l] = [quantity |-> @.quantity + m.orders[id].quantity,
                              order_count |-> @.order_count + 1,
                              head |-> IF t = Null THEN id ELSE @.head,
                              tail |-> id]]

append(m, l, id) ==
  LET t == m.levels[l].tail
      o == [m.orders EXCEPT ![id].level = l, ![id].previous = t, ![id].next = Null]
  IN [m EXCEPT !.orders = SetNext(o, t, id),
               !.levels[l] = [quantity |-> @.quantity + o[id].quantity,
                              order_count |-> @.order_count + 1,
                              head |-> IF t = Null THEN id ELSE @.head,
                              tail |-> id]]

detach(m, l, id) ==
  LET prev == m.orders[id].previous
      next == m.orders[id].next
      o == SetPrevious(SetNext(m.orders, prev, next), next, prev)
  IN [m EXCEPT
        !.orders = [o EXCEPT ![id].previous = Null, ![id].next = Null, ![id].level = Null],
        !.levels[l] = [@ EXCEPT !.head = IF prev = Null THEN next ELSE @,
                                !.tail = IF next = Null THEN prev ELSE @,
                                !.order_count = @ - 1]]

\* The level outlives its last order.
DeactivatePrice_keeps_level(m, s, p) == [m EXCEPT !.indices[s] = @ \ {p}]

\* The price becomes inactive: out of the index, its level destroyed.
DeactivatePrice(m, s, p) ==
  [m EXCEPT !.indices[s] = @ \ {p}, !.levels = Drop(@, <<s, p>>)]

erase_node(m, id) ==
  LET o == m.orders[id]
      d == detach([m EXCEPT !.levels[o.level].quantity = @ - o.quantity], o.level, id)
      e == IF d.levels[o.level].order_count = 0
           THEN DeactivatePrice(d, o.side, o.price) ELSE d
  IN [e EXCEPT !.orders = Drop(@, id)]

-----------------------------------------------------------------------------
(* The public operations: the condition under which one returns true, what *)
(* it then leaves, and what it may leave when an allocation fails.         *)

add_accepts(m, id, q) == q # 0 /\ id \notin DOMAIN m.orders

Node(s, p, q) == [side |-> s, price |-> p, quantity |-> q,
                  level |-> Null, previous |-> Null, next |-> Null]

\* The index is updated only when the level had no order.
add(m, id, s, p, q) ==
  LET l == <<s, p>>
      g == get_or_create_level(m, l)
      n == [g EXCEPT !.orders = Put(@, id, Node(s, p, q))]
      x == IF g.levels[l].order_count = 0 THEN [n EXCEPT !.indices[s] = @ \cup {p}] ELSE n
  IN append(x, l, id)

\* make_unique<PriceLevel> fails; make_unique<OrderNode> or emplace fails,
\* the level stays; indices.add fails and the order is taken out again.
add_throws(m, id, s, p, q) ==
  LET g == get_or_create_level(m, <<s, p>>)
      n == [g EXCEPT !.orders = Put(@, id, Node(s, p, q))]
  IN {m, g, [n EXCEPT !.orders = Drop(@, id)]}

\* More shares than the order has.
cancel_accepts_unbounded(m, id, q) == id \in DOMAIN m.orders /\ q # 0

\* Also execute.
cancel_accepts(m, id, q) ==
  id \in DOMAIN m.orders /\ q # 0 /\ q <= m.orders[id].quantity

\* A partial cancel that leaves the level's aggregate alone.
cancel_forgets_level(m, id, q) ==
  IF q = m.orders[id].quantity THEN erase_node(m, id)
  ELSE [m EXCEPT !.orders[id].quantity = @ - q]

cancel(m, id, q) ==
  IF q = m.orders[id].quantity THEN erase_node(m, id)
  ELSE [m EXCEPT !.orders[id].quantity = @ - q,
                 !.levels[m.orders[id].level].quantity = @ - q]

erase_accepts(m, id) == id \in DOMAIN m.orders

modify_accepts(m, id, q) == id \in DOMAIN m.orders /\ q # 0

\* A modification that changes nothing is sent to the back.
keeps_priority_strict(m, id, p, q) == p = m.orders[id].price /\ q < m.orders[id].quantity

\* Same price and no increase: the only modification that keeps its place.
keeps_priority(m, id, p, q) == p = m.orders[id].price /\ q <= m.orders[id].quantity

modify(m, id, p, q) ==
  LET o == m.orders[id]
      new == <<o.side, p>>
      g == get_or_create_level(m, new)
      activating == new # o.level /\ g.levels[new].order_count = 0
      x == IF activating THEN [g EXCEPT !.indices[o.side] = @ \cup {p}] ELSE g
      d == detach([x EXCEPT !.levels[o.level].quantity = @ - o.quantity], o.level, id)
      e == IF d.levels[o.level].order_count = 0 /\ o.level # new
           THEN DeactivatePrice(d, o.side, o.price) ELSE d
  IN IF keeps_priority(m, id, p, q)
     THEN [m EXCEPT !.levels[o.level].quantity = @ - (o.quantity - q),
                    !.orders[id].quantity = q]
     ELSE append([e EXCEPT !.orders[id] = [@ EXCEPT !.price = p, !.quantity = q]], new, id)

\* The level's allocation fails, or that of the index; an active level at the
\* new price needs neither.
modify_throws(m, id, p, q) ==
  LET new == <<m.orders[id].side, p>>
      g == get_or_create_level(m, new)
  IN IF keeps_priority(m, id, p, q) \/ g.levels[new].order_count > 0 THEN {} ELSE {m, g}

replace_accepts(m, old, new, q) ==
  old \in DOMAIN m.orders /\ q # 0 /\ (new = old \/ new \notin DOMAIN m.orders)

\* Insert first, then delete.
replace(m, old, new, p, q) ==
  IF old = new THEN modify(m, old, p, q)
  ELSE erase_node(add(m, new, m.orders[old].side, p, q), old)

\* Delete first, then insert: the old order is lost when the insert fails.
replace_throws_after_erase(m, old, new, p, q) ==
  IF old = new THEN modify_throws(m, old, p, q)
  ELSE add_throws(erase_node(m, old), new, m.orders[old].side, p, q)

replace_throws(m, old, new, p, q) ==
  IF old = new THEN modify_throws(m, old, p, q)
  ELSE add_throws(m, new, m.orders[old].side, p, q)

-----------------------------------------------------------------------------
(* The observers.                                                          *)

best_price(m, s) ==
  {p \in m.indices[s] : \A q \in m.indices[s] : AtLeastAsGood(s, p, q)}

depth(m, s, p) ==
  {[quantity |-> m.levels[l].quantity, order_count |-> m.levels[l].order_count] :
     l \in {k \in DOMAIN m.levels : k = <<s, p>> /\ m.levels[k].order_count # 0}}

front_order(m, s, p) ==
  {m.levels[l].head : l \in {k \in DOMAIN m.levels : k = <<s, p>>}} \ {Null}

-----------------------------------------------------------------------------
(* The actions.                                                            *)

Accept(m) == impl' = m /\ ret' = "true"
Refuse    == ret' = "false" /\ UNCHANGED impl
Throw(m)  == impl' = m /\ ret' = "throw"

DoAdd(id, s, p, q) ==
  \/ /\ add_accepts(impl, id, q)
     /\ \/ Accept(add(impl, id, s, p, q))
        \/ \E m \in add_throws(impl, id, s, p, q) : Throw(m)
  \/ ~add_accepts(impl, id, q) /\ Refuse

DoCancel(id, q) ==
  \/ cancel_accepts(impl, id, q) /\ Accept(cancel(impl, id, q))
  \/ ~cancel_accepts(impl, id, q) /\ Refuse

DoErase(id) ==
  \/ erase_accepts(impl, id) /\ Accept(erase_node(impl, id))
  \/ ~erase_accepts(impl, id) /\ Refuse

DoModify(id, p, q) ==
  \/ /\ modify_accepts(impl, id, q)
     /\ \/ Accept(modify(impl, id, p, q))
        \/ \E m \in modify_throws(impl, id, p, q) : Throw(m)
  \/ ~modify_accepts(impl, id, q) /\ Refuse

DoReplace(old, new, p, q) ==
  \/ /\ replace_accepts(impl, old, new, q)
     /\ \/ Accept(replace(impl, old, new, p, q))
        \/ \E m \in replace_throws(impl, old, new, p, q) : Throw(m)
  \/ ~replace_accepts(impl, old, new, q) /\ Refuse

\* clear() frees every order, every level and both indices.
Clear ==
  /\ impl' = [orders |-> <<>>, levels |-> <<>>, indices |-> [s \in Side |-> {}]]
  /\ ret' = "none"

Next ==
  \/ \E id \in OrderId, s \in Side, p \in Price, q \in Quantity : DoAdd(id, s, p, q)
  \/ \E id \in OrderId, q \in Quantity : DoCancel(id, q)
  \/ \E id \in OrderId : DoErase(id)
  \/ \E id \in OrderId, p \in Price, q \in Quantity : DoModify(id, p, q)
  \/ \E old, new \in OrderId, p \in Price, q \in Quantity : DoReplace(old, new, p, q)
  \/ Clear

Spec == Init /\ [][Next]_vars

-----------------------------------------------------------------------------
(* Properties.                                                             *)

LevelKey == Side \X Price

OrderNode == [side : Side, price : Price, quantity : Nat \ {0},
              level : LevelKey, previous : OrderId \cup {Null}, next : OrderId \cup {Null}]

PriceLevel == [quantity : Nat, order_count : Nat,
               head : OrderId \cup {Null}, tail : OrderId \cup {Null}]

\* Between calls no order has zero shares and every order is in some level;
\* no counter has gone below zero (order_book.cpp:176-264).
TypeOK ==
  /\ DOMAIN impl = {"orders", "levels", "indices"}
  /\ DOMAIN impl.orders \subseteq OrderId
  /\ \A i \in DOMAIN impl.orders : impl.orders[i] \in OrderNode
  /\ DOMAIN impl.levels \subseteq LevelKey
  /\ \A l \in DOMAIN impl.levels : impl.levels[l] \in PriceLevel
  /\ impl.indices \in [Side -> SUBSET Price]
  /\ ret \in {"true", "false", "throw", "none"}

\* The orders in front of each order, following `previous' to the head.
Ahead ==
  LET o == impl.orders
      ahead[i \in DOMAIN o] ==
        IF o[i].previous = Null THEN {} ELSE ahead[o[i].previous] \cup {o[i].previous}
  IN ahead

\* The book these lists represent.
RepresentedBook ==
  [i \in DOMAIN impl.orders |->
     [side |-> impl.orders[i].side, price |-> impl.orders[i].price,
      quantity |-> impl.orders[i].quantity, ahead |-> Ahead[i]]]

Members(l) == {i \in DOMAIN impl.orders : impl.orders[i].level = l}

\* An order is in the level its own side and price name, which exists: the
\* pointer erase_node and cancel follow never dangles.
LevelsAreAlive ==
  \A i \in DOMAIN impl.orders :
     LET o == impl.orders[i]
     IN o.level = <<o.side, o.price>> /\ o.level \in DOMAIN impl.levels

\* previous and next are inverse to each other inside a level, and the head
\* and the tail are the only ends.
LinksAreMutual ==
  \A i \in DOMAIN impl.orders :
     LET o == impl.orders[i]
         l == impl.levels[o.level]
     IN /\ IF o.previous = Null THEN l.head = i
           ELSE o.previous \in Members(o.level) /\ impl.orders[o.previous].next = i
        /\ IF o.next = Null THEN l.tail = i
           ELSE o.next \in Members(o.level) /\ impl.orders[o.next].previous = i

\* What a level caches agrees with the orders that are in it.
AggregatesAreExact ==
  \A l \in DOMAIN impl.levels :
     /\ impl.levels[l].order_count = Cardinality(Members(l))
     /\ impl.levels[l].quantity =
          MapThenSumSet(LAMBDA i : impl.orders[i].quantity, Members(l))
     /\ Members(l) = {} => impl.levels[l].head = Null /\ impl.levels[l].tail = Null

\* A price is in the index exactly when an order rests there, whatever empty
\* levels a failed allocation has left in the hash map.
IndexIsExact ==
  \A s \in Side, p \in Price : p \in impl.indices[s] <=> Members(<<s, p>>) # {}

\* The lists, the aggregates and the indices agree with each other after any
\* sequence of calls, failed ones included: what every operation of
\* order_book.cpp relies on when it follows a pointer.
WellLinked ==
  LevelsAreAlive /\ LinksAreMutual /\ AggregatesAreExact /\ IndexIsExact

\* assert_equivalent (tests/order_book_model_test.cpp:157-176), for every
\* price: the observers report the reference book's best prices, depths and
\* FIFO heads, and nothing where it has no level.
ObserversMatchReference ==
  LET b == RepresentedBook
  IN \A s \in Side :
       /\ best_price(impl, s) = best(b, s)
       /\ \A p \in Price :
            /\ front_order(impl, s, p) = front(b, s, p)
            /\ depth(impl, s, p) =
                 IF Level(b, s, p) = {} THEN {}
                 ELSE {[quantity |-> LevelQuantity(b, s, p),
                        order_count |-> Cardinality(Level(b, s, p))]}

\* Time priority: an order passes one that stood in front of it only when
\* that one asked for more shares (modify, order_book.cpp:341-364); no
\* operation on a third order, and no failed one, ever reorders a queue.
NoOvertaking ==
  [][\A i, j \in DOMAIN impl.orders \cap DOMAIN impl'.orders :
        i \in Ahead[j] /\ j \in Ahead'[i]
          => impl'.orders[i].quantity > impl.orders[i].quantity]_vars

EmptyLevels == {l \in DOMAIN impl.levels : impl.levels[l].order_count = 0}

\* An empty level is left behind only by a call that failed to allocate
\* (get_or_create_level comes before the other allocations): completed calls
\* never leak one, on either price of a modify or replace.
LeakOnlyOnThrow ==
  [][ret' # "throw" => EmptyLevels' \subseteq EmptyLevels]_vars

Reference == INSTANCE ReferenceBook WITH book <- RepresentedBook

\* The lists implement the reference book, return values and the strong
\* guarantee of the calls that throw (order_book.cpp:381-383) included.
ImplementsReferenceBook == Reference!Spec
=============================================================================
