-------------------------- MODULE MCServiceLifecycle --------------------------
(* Values of the constants of ServiceLifecycle for TLC. *)
EXTENDS ServiceLifecycle

CONSTANTS c1, c2

TwoCallers == {c1, c2}
TwoSlots == {1, 2}

===============================================================================
