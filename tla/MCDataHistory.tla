----------------------------- MODULE MCDataHistory -----------------------------
(* Values and bounds of the constants of DataHistory for TLC. *)
EXTENDS DataHistory, TLC

CONSTANTS p1, p2

TwoPods == {p1, p2}
Nobody == {}

Symmetry == Permutations(TwoPods)

\* The last revision does not become due: it would only be fetched again.
LastIsFresh == staleUpTo < MaxRev

\* One pod syncs at a time: a sync changes nothing outside its pod.
OneSync == \E p \in Pod : \A q \in Pod \ {p} : main[q] \in {"down", "idle"}

================================================================================
