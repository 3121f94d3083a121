----------------------------- MODULE MCMemoryCache -----------------------------
(* Values of the constants of MemoryCache for TLC. *)
EXTENDS MemoryCache, TLC

CONSTANTS c1, loop, main

OneCaller == {c1}
TwoWriters == {loop, main}

Envelope(rev, pairs, calcDate, validUntil, kind) ==
  [rev |-> rev, pairs |-> pairs, calcDate |-> calcDate, validUntil |-> validUntil, kind |-> kind]

(* Two revisions in a row, one without a number, one without pairs, and two *)
(* that cannot be loaded.                                                   *)
SomeEnvelopes ==
  { Envelope(1, "old", 1, 2, "ok"),
    Envelope(2, "new", 2, 4, "ok"),
    Envelope(0, "new", 2, 4, "ok"),
    Envelope(2, NoPairs, 2, 4, "ok"),
    Envelope(2, "new", 1, Zero, "undated"),
    Envelope(0, NoPairs, 1, 4, "failed") }

Symmetry == Permutations(TwoWriters)

================================================================================
