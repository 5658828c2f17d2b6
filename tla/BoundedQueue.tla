---------------------------- MODULE BoundedQueue ----------------------------
(***************************************************************************)
(* What lob::SpscRing promises (include/lob/spsc_ring.hpp:13-22): a first- *)
(* in first-out queue that never holds more than its capacity.  The items  *)
(* are numbered in the order they are pushed.                              *)
(***************************************************************************)
EXTENDS Naturals, Sequences

CONSTANT Capacity

VARIABLES
  queue,    \* the items inside
  pushed,   \* how many have ever been pushed
  out,      \* what the last successful pop returned, 0 before the first
  alive     \* the queue has not been destroyed

vars == <<queue, pushed, out, alive>>

Init == queue = <<>> /\ pushed = 0 /\ out = 0 /\ alive = TRUE

Push ==
  /\ alive /\ Len(queue) < Capacity
  /\ pushed' = pushed + 1
  /\ queue' = Append(queue, pushed')
  /\ UNCHANGED <<out, alive>>

Pop ==
  /\ alive /\ queue # <<>>
  /\ out' = Head(queue)
  /\ queue' = Tail(queue)
  /\ UNCHANGED <<pushed, alive>>

\* The destructor drops what has not been popped.
Destroy ==
  /\ alive
  /\ alive' = FALSE /\ queue' = <<>>
  /\ UNCHANGED <<pushed, out>>

Next == Push \/ Pop \/ Destroy

Spec == Init /\ [][Next]_vars
=============================================================================
