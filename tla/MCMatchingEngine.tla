-------------------------- MODULE MCMatchingEngine --------------------------
(* Inputs for the runs of MatchingEngine: a feed that uses every message,  *)
(* and a feed of adds with simulated orders submitted in between.          *)
EXTENDS MatchingEngine, TLC

CONSTANTS l1, l2, l3, o1, o2, o3, o4

-----------------------------------------------------------------------------
(* The feed.  Three instruments where two fit, three orders where two fit. *)

FeedLocate == {l1, l2, l3}
FeedOrderId == {o1, o2, o3}
FeedPrice == {10}
FeedQuantity == 0..2
FeedEvent ==
  {e \in AddOrder : e.side = "Buy"} \cup Reduction \cup OrderDelete \cup OrderReplace \cup Other
FeedSymmetry == Permutations(FeedLocate) \cup Permutations(FeedOrderId)

-----------------------------------------------------------------------------
(* The simulation.  Up to three orders of one instrument from the feed, on *)
(* either side, and orders o1 (which may rest already) and o4 submitted    *)
(* against them.  There is room for one book: an order of the other        *)
(* instrument takes it when it comes first.                                *)

SimLocate == {l1, l2}
SimOrderId == {o1, o2, o3, o4}
SimPrice == {10, 11}
SimQuantity == 0..3
SimEvent ==
  {e \in AddOrder :
     \/ e.stock_locate = l1 /\ e.order_reference # o4 /\ e.shares \in 1..2
     \/ /\ e.stock_locate = l2 /\ e.order_reference = o2
        /\ e.side = "Buy" /\ e.price = 10 /\ e.shares = 1}
SimSubmission ==
  {a \in [stock_locate : {l1}, order_id : {o1, o4}, side : Side, limit_price : SimPrice,
          has_limit : BOOLEAN, quantity : {0, 1, 3}, capacity : {0, 2}] :
     \* order_id and limit_price mean nothing to submit_market
     /\ ~a.has_limit => a.order_id = o4 /\ a.limit_price = 10 /\ a.capacity = 0
     /\ a.has_limit => a.capacity = 2
     /\ a.order_id = o1 => a.quantity = 1}

-----------------------------------------------------------------------------
(* The feed on one instrument and one price level, for the order in which  *)
(* replacements queue.                                                     *)

QueueLocate == {l1}
QueueEvent == {e \in AddOrder : e.side = "Buy"} \cup OrderReplace
NoSubmission == {}
=============================================================================
