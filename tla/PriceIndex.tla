----------------------------- MODULE PriceIndex -----------------------------
(***************************************************************************)
(* PriceIndex (src/book/order_book.cpp:58-168): the four-tier trie that    *)
(* finds the best active price of one side.  A node stands for the bytes   *)
(* that lead to it: <<>> is the root, the sequences of length one, two and *)
(* three are the First, Second and Third nodes that are allocated.  Each   *)
(* has a mask, the set of the next bytes under which it is not empty; a    *)
(* Mask of four words is the set of its bits.  Destroying a node destroys  *)
(* the nodes below it, which it owns.                                      *)
(*                                                                         *)
(* OrderBook calls add() for a price that is not active and remove() for   *)
(* one that is (order_book.cpp:289-292, :349-360, :254-255).               *)
(***************************************************************************)
EXTENDS Integers, Sequences, SequencesExt

CONSTANTS
  Radix,   \* number of values of a byte (256)
  Price    \* the prices used

Tiers == 4

\* What a byte of each tier counts for: 2^24, 2^16, 2^8 and 1.
Unit == <<Radix * (Radix * Radix), Radix * Radix, Radix, 1>>

ASSUME PriceAssumption == Radix \in Nat \ {0} /\ Price \subseteq 0 .. Radix * Unit[1] - 1

VARIABLES
  node,    \* allocated node -> mask
  ret      \* whether the last call returned or threw

vars == <<node, ret>>

Init == node = [x \in {<<>>} |-> {}] /\ ret = "done"

-----------------------------------------------------------------------------
(* Bytes and masks.                                                        *)

\* Bytes that keep what is above them.
bytes_unmasked(p) == [t \in 1..Tiers |-> p \div Unit[t]]

\* b3, b2, b1 and b0.
bytes(p) == [t \in 1..Tiers |-> (p \div Unit[t]) % Radix]

Value(b) == b[1] * Unit[1] + b[2] * Unit[2] + b[3] * Unit[3] + b[4] * Unit[4]

\* The node whose mask holds the byte of tier t.
NodeOf(p, t) == SubSeq(bytes(p), 1, t - 1)

lowest(mask) == Min(mask)

\* The words scanned in the wrong direction.
highest_from_below(mask) == Min(mask)

highest(mask) == Max(mask)

-----------------------------------------------------------------------------
(* The operations.                                                         *)

\* A mask that is set before everything below it is allocated.
Allocate_visibly(m, p, n) ==
  [x \in DOMAIN m \cup {NodeOf(p, t) : t \in 1..n} |->
     LET old == IF x \in DOMAIN m THEN m[x] ELSE {}
     IN IF x = NodeOf(p, Len(x) + 1) THEN old \cup {bytes(p)[Len(x) + 1]} ELSE old]

\* The nodes of the first n tiers, made where they are missing.
Allocate(m, p, n) ==
  [x \in DOMAIN m \cup {NodeOf(p, t) : t \in 1..n} |-> IF x \in DOMAIN m THEN m[x] ELSE {}]

add(m, p) ==
  LET a == Allocate(m, p, Tiers)
  IN [x \in DOMAIN a |->
        IF x = NodeOf(p, Len(x) + 1) THEN a[x] \cup {bytes(p)[Len(x) + 1]} ELSE a[x]]

add_throws(m, p) ==
  {Allocate(m, p, t) : t \in {k \in 1..Tiers-1 : NodeOf(p, k + 1) \notin DOMAIN m}}

\* A removal that takes its siblings along.
remove_always_collapses(m, p) ==
  [x \in {y \in DOMAIN m : ~IsPrefix(NodeOf(p, 2), y)} |->
     IF x = <<>> THEN m[x] \ {bytes(p)[1]} ELSE m[x]]

\* A removal that clears the masks and keeps the nodes.
remove_keeps_nodes(m, p) ==
  LET Others(t) == m[NodeOf(p, t)] \ {bytes(p)[t]}
      stop == Max({1} \cup {t \in 2..Tiers : Others(t) # {}})
  IN [x \in DOMAIN m |->
        IF \E t \in stop..Tiers : x = NodeOf(p, t) THEN Others(Len(x) + 1) ELSE m[x]]

\* Climb while the byte cleared was the last of its mask.
remove(m, p) ==
  LET Others(t) == m[NodeOf(p, t)] \ {bytes(p)[t]}
      stop == Max({1} \cup {t \in 2..Tiers : Others(t) # {}})
      kept == {x \in DOMAIN m : ~IsPrefix(NodeOf(p, stop + 1), x)}
  IN [x \in kept |-> IF x = NodeOf(p, stop) THEN Others(stop) ELSE m[x]]

find(m, reverse) ==
  LET Pick(mask) == IF reverse THEN highest(mask) ELSE lowest(mask)
      b3 == Pick(m[<<>>])
      b2 == Pick(m[<<b3>>])
      b1 == Pick(m[<<b3, b2>>])
      b0 == Pick(m[<<b3, b2, b1>>])
  IN IF m[<<>>] = {} THEN {} ELSE {Value(<<b3, b2, b1, b0>>)}

minimum == find(node, FALSE)
maximum == find(node, TRUE)

-----------------------------------------------------------------------------
(* The prices in the trie and the actions.                                 *)

Active ==
  {p \in Price : \A t \in 1..Tiers :
     NodeOf(p, t) \in DOMAIN node /\ bytes(p)[t] \in node[NodeOf(p, t)]}

Activate(p) ==
  /\ p \notin Active
  /\ \/ node' = add(node, p) /\ ret' = "done"
     \/ node' \in add_throws(node, p) /\ ret' = "throw"

Deactivate(p) == p \in Active /\ node' = remove(node, p) /\ ret' = "done"

reset == node' = [x \in {<<>>} |-> {}] /\ ret' = "done"

Next ==
  \/ \E p \in Price : Activate(p) \/ Deactivate(p)
  \/ reset

Spec == Init /\ [][Next]_vars

-----------------------------------------------------------------------------
(* Properties.                                                             *)

\* Nodes are at most three bytes deep and hang from allocated nodes; masks
\* hold bytes.
TypeOK ==
  /\ <<>> \in DOMAIN node
  /\ \A x \in DOMAIN node :
       /\ Len(x) < Tiers /\ x \in Seq(0..Radix-1) /\ node[x] \subseteq 0..Radix-1
       /\ x # <<>> => Front(x) \in DOMAIN node
  /\ ret \in {"done", "throw"}

\* Every bit of every mask is on the way to an active price: the descent of
\* find() never meets a null child or an empty mask, whatever half-built
\* paths failed allocations have left and whatever remove() has collapsed.
BitsLeadToPrices ==
  \A x \in DOMAIN node : \A b \in node[x] :
    \E p \in Active : IsPrefix(Append(x, b), bytes(p))

\* minimum() and maximum() are those of the active prices.
FindsExtremes ==
  IF Active = {} THEN minimum = {} /\ maximum = {}
  ELSE minimum = {Min(Active)} /\ maximum = {Max(Active)}

EmptyNodes == {x \in DOMAIN node \ {<<>>} : node[x] = {}}

\* remove() gives back every node it empties: only an add that throws leaves
\* nodes without a price behind.
EmptiedNodesAreFreed == [][ret' # "throw" => EmptyNodes' \subseteq EmptyNodes]_vars

Set == INSTANCE PriceSet WITH prices <- Active

\* The trie is a set of prices: activating or deactivating one, or failing
\* to, never makes another appear or disappear.
ImplementsPriceSet == Set!Spec
=============================================================================
