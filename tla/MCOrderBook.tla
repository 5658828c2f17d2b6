---------------------------- MODULE MCOrderBook ----------------------------
(* Three orders, enough for a queue with a head, a middle and a tail.      *)
EXTENDS OrderBook, TLC

CONSTANTS o1, o2, o3

MCOrderId == {o1, o2, o3}
MCPrice == {10, 11}
MCQuantity == 0..2

Symmetry == Permutations(MCOrderId)
=============================================================================
