--------------------------- MODULE MCLeaderElection ---------------------------
(* Values of the constants of LeaderElection for TLC. *)
EXTENDS LeaderElection, TLC

CONSTANTS p1, p2

TwoPods == {p1, p2}
OnePod == {p1}
TheOther == {p2}

Symmetry == Permutations(TwoPods)

===============================================================================
