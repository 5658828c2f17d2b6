------------------------ MODULE MatchingEngineFaults ------------------------
(***************************************************************************)
(* MatchingEngine when memory runs out.  A call then ends in               *)
(* std::bad_alloc where it stands: behind the count of its message, behind *)
(* the fills of its sweep, with a book created or only the entry for it.   *)
(* ensure_book (matching_engine.cpp:186-192) makes the entry before the    *)
(* book: what is left is a null pointer, which find_book takes for no book *)
(* and the next ensure_book for a book.                                    *)
(*                                                                         *)
(* Every other behaviour is that of MatchingEngine.tla.                    *)
(***************************************************************************)
EXTENDS MatchingEngine

VARIABLES
  null_books,  \* the locates whose entry of books_ is a null pointer
  fault        \* how the last step ended: "none", "bad_alloc" or "null dereference"

faultVars == <<vars, null_books, fault>>

FaultInit == Init /\ null_books = {} /\ fault = "none"

\* The keys of books_; instrument_count() is their number.
Entries == DOMAIN books \cup null_books

\* The limit on the books instead of the entries.
can_create_counting_books(l) == can_create_order(l)

\* can_create_order: find_book(l) # nullptr, or room for another entry.
can_create(l) ==
  /\ resting_order_count < max_resting_orders
  /\ l \in DOMAIN books \/ Cardinality(Entries) < max_instruments

\* *entry->second of a null entry: the process does not go on.
DereferenceNull(l) ==
  /\ l \in null_books
  /\ fault' = "null dereference"
  /\ UNCHANGED <<books, null_books, call, ret, before, stats, resting_order_count>>

\* A failed add that has been counted as resting.
CountAfterThrow_eager == resting_order_count' = resting_order_count + 1

\* ++resting_order_count_ comes after the call that may throw.
CountAfterThrow == UNCHANGED resting_order_count

\* try_emplace throws, or make_unique after it, or the add to the book, which
\* OrderBook.tla shows to leave no order behind.
EnsureAndAddThrow(l, id, q) ==
  /\ l \notin null_books
  /\ \/ /\ l \notin DOMAIN books
        /\ null_books' \in {null_books, null_books \cup {l}}
        /\ UNCHANGED books
     \/ /\ CanAdd(BookOf(l), id, q)
        /\ books' = EnsuredBooks(l, BookOf(l))
        /\ UNCHANGED null_books
  /\ CountAfterThrow
  /\ fault' = "bad_alloc"

-----------------------------------------------------------------------------
(* apply().                                                                *)

IsAdd(e) == e.type = "AddOrder"

\* An add that does not meet a failure.
AddSucceeds(e) ==
  /\ fault' = "none" /\ UNCHANGED null_books
  /\ \/ /\ ~can_create(e.stock_locate)
        /\ call = NoCall /\ stats.messages < MaxMessages
        /\ reject(e.stock_locate)
        /\ UNCHANGED <<books, call, before>>
     \/ /\ can_create(e.stock_locate) /\ e.stock_locate \notin null_books
        /\ apply(e)

CountMessage == stats' = [stats EXCEPT !.messages = @ + 1]

AddFails(e) ==
  /\ call = NoCall /\ stats.messages < MaxMessages
  /\ can_create(e.stock_locate)
  /\ \/ DereferenceNull(e.stock_locate)
     \/ /\ EnsureAndAddThrow(e.stock_locate, e.order_reference, e.shares)
        /\ CountMessage /\ UNCHANGED <<call, ret, before>>

\* The replacements for which the book allocates: all but those that stay at
\* the price of a level that is there (OrderBook!replace_throws).
Allocates(b, e) ==
  LET old == e.original_order_reference
  IN e.new_order_reference = old => Level(b, b[old].side, e.price) = {}

\* Nothing is left of it: OrderBook::replace inserts first, and OrderBook.tla
\* shows what comes of it when that throws.
ReplaceFails(e) ==
  LET b == BookOf(e.stock_locate)
  IN /\ call = NoCall /\ stats.messages < MaxMessages
     /\ CanReplace(b, e.original_order_reference, e.new_order_reference, e.shares)
     /\ Allocates(b, e)
     /\ fault' = "bad_alloc"
     /\ CountMessage
     /\ UNCHANGED <<books, null_books, call, ret, before, resting_order_count>>

-----------------------------------------------------------------------------
(* submit_limit(), after its sweep.                                        *)

LeftToRest == call.args.has_limit /\ call.remaining # 0

ReturnFails ==
  /\ call # NoCall /\ ~Matching(call) /\ LeftToRest
  /\ can_create(call.args.stock_locate)
  /\ \/ DereferenceNull(call.args.stock_locate)
     \/ /\ EnsureAndAddThrow(call.args.stock_locate, call.args.order_id, call.remaining)
        /\ call' = NoCall /\ before' = EmptyBook /\ UNCHANGED <<stats, ret>>

\* can_create_order, which sees the null entries as well, has refused.
ReturnRefused ==
  /\ call # NoCall /\ ~Matching(call) /\ LeftToRest
  /\ ~can_create(call.args.stock_locate)
  /\ ret' = [call.result EXCEPT !.unfilled = call.remaining, !.accepted = FALSE]
  /\ call' = NoCall /\ before' = EmptyBook
  /\ UNCHANGED <<books, null_books, resting_order_count, stats>> /\ fault' = "none"

ReturnSucceeds ==
  /\ call # NoCall
  /\ LeftToRest => /\ can_create(call.args.stock_locate)
                   /\ call.args.stock_locate \notin null_books
  /\ Return
  /\ UNCHANGED null_books /\ fault' = "none"

-----------------------------------------------------------------------------

ClearAll == clear /\ null_books' = {} /\ fault' = "none"

NoFault == UNCHANGED null_books /\ fault' = "none"

FaultNext ==
  /\ fault # "null dereference"
  /\ \/ \E e \in Event : IsAdd(e) /\ (AddSucceeds(e) \/ AddFails(e))
     \/ \E e \in Event : e.type = "OrderReplace" /\ ReplaceFails(e)
     \/ \E e \in Event : ~IsAdd(e) /\ apply(e) /\ NoFault
     \/ \E a \in Submission : Submit(a) /\ NoFault
     \/ MatchStep /\ NoFault
     \/ ReturnRefused
     \/ ReturnSucceeds
     \/ ReturnFails
     \/ ClearAll

FaultSpec == FaultInit /\ [][FaultNext]_faultVars

-----------------------------------------------------------------------------
(* Properties.                                                             *)

\* The entries without a book count as instruments: even so, neither the feed
\* nor a simulated remainder takes the engine past its limits, and no locate
\* has both a book and a null entry.
EntriesLimited ==
  /\ Cardinality(Entries) <= max_instruments
  /\ Cardinality(RestingOrders) <= max_resting_orders
  /\ DOMAIN books \cap null_books = {}
=============================================================================
