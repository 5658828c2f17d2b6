--------------------------- MODULE MCEngineFaults ---------------------------
(* Inputs for the run of MatchingEngineFaults: three instruments and three *)
(* orders where two of each fit, with limit orders that take, rest or do   *)
(* both.                                                                   *)
EXTENDS MatchingEngineFaults, MCMatchingEngine

FaultPrice == {10, 11}
FaultEvent ==
  {e \in AddOrder : e.side = "Buy" /\ e.price = 10 /\ e.shares # 0}
    \cup {e \in OrderReplace : e.shares = 1}
    \cup {e \in Reduction : e.type = "OrderExecuted" /\ e.shares = 1}
    \cup OrderDelete
FaultSubmission ==
  [stock_locate : FeedLocate, order_id : FeedOrderId, side : {"Sell"}, limit_price : {10},
   has_limit : {TRUE}, quantity : {2}, capacity : {1}]
FaultSymmetry == Permutations(FeedLocate) \cup Permutations(FeedOrderId)
=============================================================================
