--------------------------- MODULE MCDistributedData ---------------------------
(* Values of the constants of DistributedData for TLC. *)
EXTENDS DistributedData, TLC

CONSTANTS p1, p2

TwoPods == {p1, p2}
OnePod == {p1}
Nobody == {}

Symmetry == Permutations(TwoPods)

================================================================================
