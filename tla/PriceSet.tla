------------------------------ MODULE PriceSet ------------------------------
(***************************************************************************)
(* What OrderBook expects of the index of active prices of one side        *)
(* (src/book/order_book.cpp:58-61): a set.  An add that runs out of memory *)
(* throws and leaves the set as it was (the comment at order_book.cpp:70). *)
(***************************************************************************)
EXTENDS Naturals

CONSTANT Price

VARIABLES
  prices,
  ret       \* "done" or "throw"

vars == <<prices, ret>>

Init == prices = {} /\ ret = "done"

Add(p)      == p \notin prices /\ prices' = prices \cup {p} /\ ret' = "done"
Remove(p)   == p \in prices /\ prices' = prices \ {p} /\ ret' = "done"
Reset       == prices' = {} /\ ret' = "done"
OutOfMemory == ret' = "throw" /\ UNCHANGED prices

Next ==
  \/ \E p \in Price : Add(p) \/ Remove(p)
  \/ Reset
  \/ OutOfMemory

Spec == Init /\ [][Next]_vars
=============================================================================
