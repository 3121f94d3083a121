------------------------------ MODULE Leadership ------------------------------
(***************************************************************************)
(* What leader election promises to the rest of the service: at any moment *)
(* at most one running pod considers itself the leader, and leadership     *)
(* passes from one pod to another only through a moment without a leader.  *)
(***************************************************************************)
CONSTANT Pod

VARIABLE leaders   \* the running pods that consider themselves the leader

Init == leaders = {}

Gain(p) ==
  /\ leaders = {}
  /\ leaders' = {p}

Lose(p) ==
  /\ leaders = {p}
  /\ leaders' = {}

Next == \E p \in Pod : Gain(p) \/ Lose(p)

Spec == Init /\ [][Next]_leaders

===============================================================================
