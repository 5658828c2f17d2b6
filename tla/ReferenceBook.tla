--------------------------- MODULE ReferenceBook ---------------------------
(***************************************************************************)
(* The contract of lob::OrderBook as a state machine: the book value of    *)
(* Book.tla, one action per public operation of order_book.hpp and the     *)
(* value each call returned.  A call that cannot be honoured returns false *)
(* and changes nothing; a call that runs out of memory throws and changes  *)
(* nothing either (the comments at order_book.cpp:70, :381).               *)
(***************************************************************************)
EXTENDS Book

VARIABLES
  book,   \* the resting orders
  ret     \* what the last call returned: "true", "false", "throw", or "none"

vars == <<book, ret>>

Init == book = EmptyBook /\ ret = "none"

Accept(b) == book' = b /\ ret' = "true"
Refuse    == ret' = "false" /\ UNCHANGED book

DoAdd(id, s, p, q) ==
  \/ CanAdd(book, id, q) /\ Accept(Add(book, id, s, p, q))
  \/ ~CanAdd(book, id, q) /\ Refuse

DoCancel(id, q) ==
  \/ CanCancel(book, id, q) /\ Accept(Cancel(book, id, q))
  \/ ~CanCancel(book, id, q) /\ Refuse

DoErase(id) ==
  \/ CanErase(book, id) /\ Accept(Erase(book, id))
  \/ ~CanErase(book, id) /\ Refuse

DoModify(id, p, q) ==
  \/ CanModify(book, id, q) /\ Accept(Modify(book, id, p, q))
  \/ ~CanModify(book, id, q) /\ Refuse

DoReplace(old, new, p, q) ==
  \/ CanReplace(book, old, new, q) /\ Accept(Replace(book, old, new, p, q))
  \/ ~CanReplace(book, old, new, q) /\ Refuse

\* std::bad_alloc out of add, modify or replace.
OutOfMemory == ret' = "throw" /\ UNCHANGED book

\* clear() returns nothing.
Clear == book' = EmptyBook /\ ret' = "none"

Next ==
  \/ \E id \in OrderId, s \in Side, p \in Price, q \in Quantity : DoAdd(id, s, p, q)
  \/ \E id \in OrderId, q \in Quantity : DoCancel(id, q)
  \/ \E id \in OrderId : DoErase(id)
  \/ \E id \in OrderId, p \in Price, q \in Quantity : DoModify(id, p, q)
  \/ \E old, new \in OrderId, p \in Price, q \in Quantity : DoReplace(old, new, p, q)
  \/ OutOfMemory
  \/ Clear

Spec == Init /\ [][Next]_vars
=============================================================================
