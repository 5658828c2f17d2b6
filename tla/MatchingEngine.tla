--------------------------- MODULE MatchingEngine ---------------------------
(***************************************************************************)
(* lob::MatchingEngine (src/engine/matching_engine.cpp): one book per      *)
(* Stock Locate, rebuilt from the ITCH feed by apply() and matched against *)
(* by the simulation calls submit_limit() and submit_market().  Books are  *)
(* the values of Book.tla; OrderBook.tla shows that order_book.cpp         *)
(* implements them.                                                        *)
(*                                                                         *)
(* The engine runs in one thread.  apply() is one step; a submission takes *)
(* one step to start, one per iteration of the loop in match() and one to  *)
(* return, so that what must hold while orders are being swept can be      *)
(* stated.  The two defensive exits of that loop (no front order at the    *)
(* best price, a refused execute) have no action here: the state in which  *)
(* the code would take one is a deadlock of this specification.            *)
(***************************************************************************)
EXTENDS Book, Sequences

CONSTANTS
  StockLocate,          \* instruments
  Event,                \* the messages the feed may carry
  Submission,           \* the calls a simulation may make
  max_instruments,      \* EngineLimits
  max_resting_orders,
  MaxMessages,          \* bound on the length of the feed
  NoCall                \* no submission is being matched

AddOrder == [type : {"AddOrder"}, stock_locate : StockLocate, order_reference : OrderId,
             side : Side, price : Price, shares : Quantity]

\* OrderExecuted, OrderExecutedWithPrice and OrderCancel.
Reduction == [type : {"OrderExecuted", "OrderCancel"}, stock_locate : StockLocate,
              order_reference : OrderId, shares : Quantity]

OrderDelete == [type : {"OrderDelete"}, stock_locate : StockLocate, order_reference : OrderId]

OrderReplace == [type : {"OrderReplace"}, stock_locate : StockLocate,
                 original_order_reference : OrderId, new_order_reference : OrderId,
                 price : Price, shares : Quantity]

\* Every message the engine does not act on.
Other == [type : {"Other"}, stock_locate : StockLocate]

\* submit_limit, and submit_market when has_limit is FALSE (its order_id and
\* limit_price are then of no effect); capacity is fill_output.size().
SubmissionType == [stock_locate : StockLocate, order_id : OrderId, side : Side,
                   limit_price : Price, has_limit : BOOLEAN, quantity : Quantity,
                   capacity : Nat]

MatchResult == [filled : Nat, resting : Nat, unfilled : Nat, fill_count : Nat,
                fills_truncated : BOOLEAN, accepted : BOOLEAN]

Fill == [resting_order : OrderId, price : Price, quantity : Nat]

\* A submission in match(): its arguments, the loop's remaining, the result
\* so far and what it has written to fill_output.
CallType == [args : Submission, remaining : Nat, result : MatchResult,
             fill_output : Seq(Fill)]

ASSUME EngineAssumption ==
  /\ Event \subseteq AddOrder \cup Reduction \cup OrderDelete \cup OrderReplace \cup Other
  /\ Submission \subseteq SubmissionType
  /\ max_instruments \in Nat /\ max_resting_orders \in Nat /\ MaxMessages \in Nat
  /\ NoCall \notin CallType

VARIABLES
  books,                 \* StockLocate -> book, for the instruments seen so far
  resting_order_count,
  stats,                 \* ReplayStats
  call,                  \* the submission being matched, or NoCall
  ret,                   \* the ApplyResult or MatchResult returned last
  before                 \* history: the book that submission found

vars == <<books, resting_order_count, stats, call, ret, before>>

NoStats == [messages |-> 0, ignored |-> 0, adds |-> 0, executions |-> 0,
            cancels |-> 0, deletes |-> 0, replaces |-> 0, rejected |-> 0]

Nothing == [action |-> "None", stock_locate |-> {}, changed_book |-> FALSE]

Init ==
  /\ books = <<>>
  /\ resting_order_count = 0
  /\ stats = NoStats
  /\ call = NoCall
  /\ ret = Nothing
  /\ before = EmptyBook

-----------------------------------------------------------------------------
(* Helpers.                                                                *)

\* find_book: a locate with no book answers every lookup as an empty one.
BookOf(l) == IF l \in DOMAIN books THEN books[l] ELSE EmptyBook

\* ensure_book(l), and its book changed to b.
EnsuredBooks(l, b) == [k \in DOMAIN books \cup {l} |-> IF k = l THEN b ELSE books[k]]

\* A limit tested with the wrong comparison.
can_create_order_off_by_one(l) ==
  /\ resting_order_count <= max_resting_orders
  /\ l \in DOMAIN books \/ Cardinality(DOMAIN books) < max_instruments

can_create_order(l) ==
  /\ resting_order_count < max_resting_orders
  /\ l \in DOMAIN books \/ Cardinality(DOMAIN books) < max_instruments

report(action, l, changed, counter) ==
  /\ ret' = [action |-> action, stock_locate |-> {l}, changed_book |-> changed]
  /\ stats' = [stats EXCEPT !.messages = @ + 1, ![counter] = @ + 1]

\* A rejection that is only counted as a message.
reject_uncounted(l) ==
  /\ ret' = [action |-> "Rejected", stock_locate |-> {l}, changed_book |-> FALSE]
  /\ stats' = [stats EXCEPT !.messages = @ + 1]
  /\ UNCHANGED resting_order_count

reject(l) ==
  /\ report("Rejected", l, FALSE, "rejected")
  /\ UNCHANGED resting_order_count

\* Whether execute or cancel of q shares frees the order, from the quantity
\* read before the call.
FreedBy(b, id, q) == IF b[id].quantity = q THEN 1 ELSE 0

-----------------------------------------------------------------------------
(* apply().                                                                *)

\* An add that fails in the book has created the book: ensure_book comes first.
ApplyAdd(e) ==
  LET l == e.stock_locate
      b == BookOf(l)
      id == e.order_reference
  IN \/ ~can_create_order(l) /\ reject(l) /\ UNCHANGED books
     \/ /\ can_create_order(l) /\ ~CanAdd(b, id, e.shares)
        /\ books' = EnsuredBooks(l, b)
        /\ reject(l)
     \/ /\ can_create_order(l) /\ CanAdd(b, id, e.shares)
        /\ books' = EnsuredBooks(l, Add(b, id, e.side, e.price, e.shares))
        /\ resting_order_count' = resting_order_count + 1
        /\ report("Added", l, TRUE, "adds")

\* OrderExecuted, OrderExecutedWithPrice and OrderCancel.
ApplyReduction(e, action, counter) ==
  LET l == e.stock_locate
      b == BookOf(l)
      id == e.order_reference
  IN \/ ~CanCancel(b, id, e.shares) /\ reject(l) /\ UNCHANGED books
     \/ /\ CanCancel(b, id, e.shares)
        /\ books' = [books EXCEPT ![l] = Cancel(b, id, e.shares)]
        /\ resting_order_count' = resting_order_count - FreedBy(b, id, e.shares)
        /\ report(action, l, TRUE, counter)

ApplyDelete(e) ==
  LET l == e.stock_locate
      b == BookOf(l)
  IN \/ ~CanErase(b, e.order_reference) /\ reject(l) /\ UNCHANGED books
     \/ /\ CanErase(b, e.order_reference)
        /\ books' = [books EXCEPT ![l] = Erase(b, e.order_reference)]
        /\ resting_order_count' = resting_order_count - 1
        /\ report("Deleted", l, TRUE, "deletes")

\* A replacement looked up in whichever book has the order.
ApplyReplace_any_book(e) ==
  \E l \in DOMAIN books :
    /\ CanReplace(books[l], e.original_order_reference, e.new_order_reference, e.shares)
    /\ books' = [books EXCEPT ![l] = Replace(@, e.original_order_reference,
                                             e.new_order_reference, e.price, e.shares)]
    /\ report("Replaced", e.stock_locate, TRUE, "replaces")
    /\ UNCHANGED resting_order_count

\* A replacement that deletes before it knows that it can insert.
ApplyReplace_erases_first(e) ==
  LET l == e.stock_locate
      b == BookOf(l)
      old == e.original_order_reference
      new == e.new_order_reference
  IN \/ ~CanErase(b, old) /\ reject(l) /\ UNCHANGED books
     \/ /\ CanErase(b, old) /\ ~CanAdd(Erase(b, old), new, e.shares)
        /\ books' = [books EXCEPT ![l] = Erase(b, old)]
        /\ reject(l)
     \/ /\ CanErase(b, old) /\ CanAdd(Erase(b, old), new, e.shares)
        /\ books' = [books EXCEPT ![l] =
             Add(Erase(b, old), new, b[old].side, e.price, e.shares)]
        /\ report("Replaced", l, TRUE, "replaces")
        /\ UNCHANGED resting_order_count

ApplyReplace(e) ==
  LET l == e.stock_locate
      b == BookOf(l)
      old == e.original_order_reference
      new == e.new_order_reference
  IN \/ ~CanReplace(b, old, new, e.shares) /\ reject(l) /\ UNCHANGED books
     \/ /\ CanReplace(b, old, new, e.shares)
        /\ books' = [books EXCEPT ![l] = Replace(b, old, new, e.price, e.shares)]
        /\ report("Replaced", l, TRUE, "replaces")
        /\ UNCHANGED resting_order_count

ApplyOther(e) ==
  /\ report("Ignored", e.stock_locate, FALSE, "ignored")
  /\ UNCHANGED <<books, resting_order_count>>

apply(e) ==
  /\ call = NoCall /\ stats.messages < MaxMessages
  /\ UNCHANGED <<call, before>>
  /\ \/ e.type = "AddOrder" /\ ApplyAdd(e)
     \/ e.type = "OrderExecuted" /\ ApplyReduction(e, "Executed", "executions")
     \/ e.type = "OrderCancel" /\ ApplyReduction(e, "Cancelled", "cancels")
     \/ e.type = "OrderDelete" /\ ApplyDelete(e)
     \/ e.type = "OrderReplace" /\ ApplyReplace(e)
     \/ e.type = "Other" /\ ApplyOther(e)

-----------------------------------------------------------------------------
(* submit_limit(), submit_market() and match().                            *)

NoFill == [filled |-> 0, resting |-> 0, unfilled |-> 0, fill_count |-> 0,
           fills_truncated |-> FALSE, accepted |-> TRUE]

\* The early returns: no shares, or (a limit order) an id that rests already.
Invalid(a) ==
  a.quantity = 0 \/ (a.has_limit /\ a.order_id \in DOMAIN BookOf(a.stock_locate))

Submit(a) ==
  /\ call = NoCall
  /\ UNCHANGED <<books, resting_order_count, stats>>
  /\ \/ /\ Invalid(a)
        /\ ret' = [NoFill EXCEPT !.accepted = FALSE]
        /\ UNCHANGED <<call, before>>
     \/ /\ ~Invalid(a)
        /\ call' = [args |-> a, remaining |-> a.quantity, result |-> NoFill,
                    fill_output |-> <<>>]
        /\ before' = BookOf(a.stock_locate)
        /\ ret' = Nothing

\* The best opposite price, if the submission may trade there.
OppositePrice(a) ==
  {p \in best(BookOf(a.stock_locate), opposite(a.side)) :
     a.has_limit => AtLeastAsGood(a.side, a.limit_price, p)}

\* Any order of the level instead of its front.
AnyOf(b, s, p) == Level(b, s, p)

Matched(b, s, p) == front(b, s, p)

\* A fill that finds the span full is written over the last one.
RecordFill_overwrites_last(c, i, p, q) ==
  LET fill == [resting_order |-> i, price |-> p, quantity |-> q]
      f == c.fill_output
  IN IF c.result.fill_count < c.args.capacity THEN Append(f, fill)
     ELSE [k \in DOMAIN f |-> IF k = Len(f) THEN fill ELSE f[k]]

RecordFill(c, i, p, q) ==
  IF c.result.fill_count < c.args.capacity
  THEN Append(c.fill_output, [resting_order |-> i, price |-> p, quantity |-> q])
  ELSE c.fill_output

\* The last fill instead of their sum.
AddFill_overwrites(r, q, capacity) ==
  [r EXCEPT !.filled = q, !.fill_count = @ + 1,
            !.fills_truncated = @ \/ r.fill_count >= capacity]

AddFill(r, q, capacity) ==
  [r EXCEPT !.filled = @ + q, !.fill_count = @ + 1,
            !.fills_truncated = @ \/ r.fill_count >= capacity]

\* One iteration against order i at price p.
Trade(i, p) ==
  LET a == call.args
      b == BookOf(a.stock_locate)
      q == IF call.remaining < b[i].quantity THEN call.remaining ELSE b[i].quantity
  IN /\ CanCancel(b, i, q)
     /\ books' = [books EXCEPT ![a.stock_locate] = Cancel(b, i, q)]
     /\ call' = [call EXCEPT
          !.remaining = @ - q,
          !.fill_output = RecordFill(call, i, p, q),
          !.result = AddFill(@, q, a.capacity)]
     /\ resting_order_count' = resting_order_count - FreedBy(b, i, q)
     /\ UNCHANGED <<stats, ret, before>>

MatchStep ==
  /\ call # NoCall /\ call.remaining # 0
  /\ LET a == call.args
     IN \E p \in OppositePrice(a) :
          \E i \in Matched(BookOf(a.stock_locate), opposite(a.side), p) : Trade(i, p)

\* A loop that does not leave at a price it may not trade at.
Matching_without_limit(c) ==
  c.remaining # 0 /\ best(BookOf(c.args.stock_locate), opposite(c.args.side)) # {}

\* The loop has another iteration to run.
Matching(c) == c.remaining # 0 /\ OppositePrice(c.args) # {}

\* The limits are tested with the orders and the books counted before the sweep.
Rests_before_sweep(a, q) ==
  LET b == BookOf(a.stock_locate)
      swept == Cardinality(DOMAIN before) - Cardinality(DOMAIN b)
  IN /\ resting_order_count + swept < max_resting_orders
     /\ can_create_order(a.stock_locate) /\ CanAdd(b, a.order_id, q)

Rests(a, q) ==
  /\ can_create_order(a.stock_locate)
  /\ CanAdd(BookOf(a.stock_locate), a.order_id, q)

\* submit_limit after match(): the remainder rests if the limits allow it.
ReturnLimit ==
  LET a == call.args
      l == a.stock_locate
      q == call.remaining
  IN \/ /\ q = 0
        /\ ret' = call.result
        /\ UNCHANGED <<books, resting_order_count>>
     \/ /\ q # 0 /\ Rests(a, q)
        /\ books' = EnsuredBooks(l, Add(BookOf(l), a.order_id, a.side, a.limit_price, q))
        /\ resting_order_count' = resting_order_count + 1
        /\ ret' = [call.result EXCEPT !.resting = q]
     \/ /\ q # 0 /\ ~Rests(a, q)
        /\ ret' = [call.result EXCEPT !.unfilled = q, !.accepted = FALSE]
        /\ books' = IF can_create_order(l) THEN EnsuredBooks(l, BookOf(l)) ELSE books
        /\ UNCHANGED resting_order_count

\* submit_market after match(): the remainder is never stored.
ReturnMarket ==
  /\ ret' = [call.result EXCEPT !.unfilled = call.remaining]
  /\ UNCHANGED <<books, resting_order_count>>

Return ==
  /\ call # NoCall /\ ~Matching(call)
  /\ call' = NoCall /\ before' = EmptyBook
  /\ UNCHANGED stats
  /\ \/ call.args.has_limit /\ ReturnLimit
     \/ ~call.args.has_limit /\ ReturnMarket

clear ==
  /\ call = NoCall
  /\ books' = <<>> /\ resting_order_count' = 0 /\ stats' = NoStats
  /\ UNCHANGED <<call, ret, before>>

Next ==
  \/ \E e \in Event : apply(e)
  \/ \E a \in Submission : Submit(a)
  \/ MatchStep
  \/ Return
  \/ clear

Spec == Init /\ [][Next]_vars

\* A call of the one engine thread runs to its return.
Fairness == WF_vars(MatchStep \/ Return)

FairSpec == Spec /\ Fairness

-----------------------------------------------------------------------------
(* Properties.                                                             *)

ApplyResult == [action : {"None", "Ignored", "Added", "Executed", "Cancelled", "Deleted",
                          "Replaced", "Rejected"},
                stock_locate : SUBSET StockLocate, changed_book : BOOLEAN]

\* Every resting order has shares left and a known side, no counter is
\* negative, and a result is one of the two structs of matching_engine.hpp.
TypeOK ==
  /\ DOMAIN books \subseteq StockLocate
  /\ \A l \in DOMAIN books : IsBook(books[l])
  /\ resting_order_count \in Nat
  /\ stats \in [DOMAIN NoStats -> Nat]
  /\ call = NoCall \/ call \in CallType
  /\ IsBook(before)
  /\ ret \in ApplyResult \cup MatchResult

RestingOrders ==
  {x \in StockLocate \X OrderId : x[1] \in DOMAIN books /\ x[2] \in DOMAIN books[x[1]]}

\* resting_order_count_, which is maintained by eight separate handlers from
\* quantities read before the book changes, is the number of orders resting
\* in all the books, also in the middle of a sweep.
CountExact == resting_order_count = Cardinality(RestingOrders)

\* EngineLimits (matching_engine.cpp:194-199): neither the feed nor a
\* simulated remainder takes the engine past a limit.
LimitsRespected ==
  /\ Cardinality(RestingOrders) <= max_resting_orders
  /\ Cardinality(DOMAIN books) <= max_instruments

\* Every message is counted once more, under exactly one outcome; simulated
\* orders are not messages (matching_engine.hpp:31-40).
StatsAccount ==
  stats.messages = stats.ignored + stats.adds + stats.executions + stats.cancels
                   + stats.deletes + stats.replaces + stats.rejected

\* An ApplyResult that says the book did not change means that no order of
\* any book changed, although a refused add may have created an empty book.
RejectedLeavesOrders ==
  [][stats' # stats /\ stats'.messages > stats.messages /\ ~ret'.changed_book
       => \A l \in StockLocate : BookOf(l)' = BookOf(l)]_vars

\* The books are independent: one step of the engine changes the orders of
\* at most the instrument it names (matching_engine.hpp:62).
BooksIndependent ==
  [][stats'.messages > stats.messages
       => \A l \in StockLocate : BookOf(l)' # BookOf(l) => ret'.stock_locate = {l}]_vars

\* The shares the sweep has taken from order i of the book it found.
Took(i) == before[i].quantity
           - (IF i \in DOMAIN BookOf(call.args.stock_locate)
              THEN BookOf(call.args.stock_locate)[i].quantity ELSE 0)

\* Shares are neither made nor lost in a sweep: what the result says was
\* filled is what the book lost, all of it on the opposite side.
FillsMatchBook ==
  call # NoCall =>
    /\ call.result.filled + call.remaining = call.args.quantity
    /\ MapThenSumSet(Took, DOMAIN before) = call.result.filled
    /\ \A i \in DOMAIN before :
         Took(i) # 0 => before[i].side = opposite(call.args.side)

\* i has priority over j in book b: a better price, or ahead at the same one.
HasPriority(b, i, j) ==
  /\ b[i].side = b[j].side
  /\ \/ b[i].price # b[j].price /\ AtLeastAsGood(b[i].side, b[i].price, b[j].price)
     \/ i \in b[j].ahead

\* Price-time priority and no trade through the limit: an order gives up
\* shares only after every order with priority over it is gone, and only at a
\* price the submission accepts.
PriceTimePriority ==
  call # NoCall =>
    LET b == before IN
       \A j \in DOMAIN b : Took(j) # 0 =>
         /\ call.args.has_limit => AtLeastAsGood(call.args.side, call.args.limit_price, b[j].price)
         /\ \A i \in DOMAIN b : HasPriority(b, i, j) => Took(i) = b[i].quantity

\* What the caller's span holds is what happened, in order: one fill for every
\* order that gave up shares, the first capacity of them, each at the resting
\* order's price and with all the shares it gave, and each after the fills of
\* every order that had priority over it.  fill_count counts the fills that
\* did not fit as well, and fills_truncated says that there were any.
FillsReported ==
  call # NoCall =>
    LET f == call.fill_output
        n == call.result.fill_count
        capacity == call.args.capacity
        taken == {i \in DOMAIN before : Took(i) # 0}
    IN /\ n = Cardinality(taken)
       /\ Len(f) = IF n < capacity THEN n ELSE capacity
       /\ call.result.fills_truncated <=> n > capacity
       /\ \A k \in DOMAIN f :
            LET i == f[k].resting_order IN
            /\ i \in taken
            /\ f[k] = [resting_order |-> i, price |-> before[i].price, quantity |-> Took(i)]
            /\ \A m \in 1..k-1 : f[m].resting_order # i
            /\ \A j \in taken :
                 HasPriority(before, j, i) => \E m \in 1..k-1 : f[m].resting_order = j

\* A submission that returns has accounted for every share, has left no order
\* it could still have traded with while shares remained, and (a limit order)
\* leaves shares unfilled only when the orders are at their limit or its
\* instrument has no book and the books are at theirs: the check comes after
\* the sweep, which may have freed the place it needs.
ReturnsComplete ==
  [][call # NoCall /\ call' = NoCall =>
       LET a == call.args
           l == a.stock_locate
           b == BookOf(l)
       IN /\ ret'.filled + ret'.resting + ret'.unfilled = a.quantity
          /\ ret'.resting + ret'.unfilled > 0 =>
               \A i \in DOMAIN b : b[i].side = opposite(a.side) =>
                 a.has_limit /\ ~AtLeastAsGood(a.side, a.limit_price, b[i].price)
          /\ a.has_limit /\ ret'.unfilled > 0 =>
               \/ Cardinality(RestingOrders) = max_resting_orders
               \/ l \notin DOMAIN books /\ Cardinality(DOMAIN books) = max_instruments]_vars

\* docs/architecture.md: "`U` replacement always loses priority".  The code
\* makes an exception of a replacement that keeps its reference, its price
\* and no more shares than it had (order_book.cpp:374-376, :341-345).
ReplaceLosesPriority ==
  [][\A e \in Event :
       e.type = "OrderReplace" /\ stats'.replaces > stats.replaces /\ ApplyReplace(e)
         => LET b == books'[e.stock_locate]
                new == e.new_order_reference
            IN \A j \in Level(b, b[new].side, b[new].price) \ {new} :
                 new \notin b[j].ahead]_vars

\* The loop in match() ends, however many levels it sweeps.
CallsReturn == call # NoCall ~> call = NoCall
=============================================================================
