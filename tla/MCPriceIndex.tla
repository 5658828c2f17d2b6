---------------------------- MODULE MCPriceIndex ----------------------------
(* Bytes of four bits.  Prices that part at each of the four tiers, the    *)
(* smallest, the largest and pairs that share three tiers.                 *)
EXTENDS PriceIndex

MCPrice == {0, 1, 16, 17, 257, 4096, 65535}
=============================================================================
