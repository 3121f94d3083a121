------------------------------ MODULE DataHistory ------------------------------
(***************************************************************************)
(* DistributedData with its past: what Redis has held, and how much of     *)
(* that there was when the rates API gave a loop its answer.  No action    *)
(* reads the history; the properties below do.                             *)
(*                                                                         *)
(* With writes that are neither ordered nor conditional, Redis may go back *)
(* and memory may be ahead of it.  These are the bounds to that.           *)
(***************************************************************************)
EXTENDS DistributedData

VARIABLES
  stored,  \* the revisions that rates_backup has held; 0 is for no rates
  asked    \* the revisions stored when the API gave the loop its answer

historyVars == <<vars, stored, asked>>

HistoryInit ==
  /\ Init
  /\ stored = {NoRates.rev}
  /\ asked = [g \in Loop |-> {}]

\* From the answer of the API to the end of the refresh.
Writing == {"storeRates", "dumpRates", "setVersion"}

Remember ==
  /\ stored' = stored \cup {ratesBackup'.rev}
  /\ asked' = [g \in Loop |->
       CASE pc'[g] \notin Writing -> {}
         [] pc'[g] \in Writing /\ pc[g] \in Writing -> asked[g]
         [] OTHER -> stored]

HistorySpec == HistoryInit /\ [][Next /\ Remember]_historyVars

-------------------------------------------------------------------------------
(* No version is announced before rates of that revision have been in       *)
(* Redis, whatever refreshes overlap and whatever SETs run late.            *)
AnnouncedWasStored == version # NoVersion => version \in stored

(* No pod serves rates that have not been in Redis: what a pod has told its *)
(* callers, every other pod could have known.                               *)
ServedWasStored == \A p \in Pod : memRates[p].rev \in stored

(* A refresh puts Redis back no further than to where it was when the API   *)
(* answered: what it writes, at once or late, is no older than any rates    *)
(* that Redis had held by then.  A failed answer has no revision.           *)
WritesAreFresh ==
  \A g \in Loop : pc[g] \in Writing =>
    env[g].kind = "failed" \/ \A r \in asked[g] : r <= env[g].rev

===============================================================================
