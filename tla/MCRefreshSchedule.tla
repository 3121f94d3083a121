--------------------------- MODULE MCRefreshSchedule ---------------------------
(* Bounds for TLC: the clock of RefreshSchedule stops at Horizon. *)
EXTENDS RefreshSchedule

CONSTANT Horizon

WithinHorizon == now <= Horizon

\* The theorems about the schedule apply.
ASSUME TheoremsApply == SafeSchedule /\ WellApart

================================================================================
