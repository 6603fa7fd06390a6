--------------------------- MODULE MCRangeTransfer ---------------------------
(* A representation that grows, shrinks and disappears between resumptions.   *)
EXTENDS RangeTransfer

Sizes == [v \in 0..MaxVersion |-> CASE v = 0 -> 2 [] v = 1 -> 3 [] v = 2 -> 1 [] OTHER -> 2]

OwnTag == [v \in 0..MaxVersion |-> v]
=============================================================================
