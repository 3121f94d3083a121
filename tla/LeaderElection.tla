---------------------------- MODULE LeaderElection ----------------------------
(***************************************************************************)
(* Leader election as DistributedDataManager runs it: the main loop of     *)
(* every pod, the Redis lock it competes for, the network between them,    *)
(* crashes, and Stop.  Time is discrete and is part of the state, because  *)
(* the lock expires by the clock of Redis while a pod learns that it has   *)
(* lost the lock only when its own next election round ends.               *)
(*                                                                         *)
(* performLeaderElection is three steps: the pod sends the command (and    *)
(* holds ddm.mu from here on), Redis runs it, the pod handles the reply    *)
(* (and unlocks).  A call may also time out, in which case the command may *)
(* still reach Redis later, or be resent by go-redis, or both.             *)
(***************************************************************************)
EXTENDS LeaderLock

CONSTANTS
  Interval,       \* opts.LeaderElectionInterval, in ticks
  MaxRound,       \* the longest an election round takes, stalls of the process included
  Flaky,          \* the pods whose calls to Redis may time out
  Mortal,         \* the pods that may crash or be stopped
  StopMayTimeOut  \* whether the 10s that Stop waits for the goroutines may run out

ASSUME ElectionAssumption ==
  /\ Interval \in Nat \ {0}
  /\ MaxRound \in Nat \ {0}
  /\ Flaky \subseteq Pod
  /\ Mortal \subseteq Pod
  /\ StopMayTimeOut \in BOOLEAN

VARIABLES
  phase,      \* where the main loop of the pod is, see Phase
  isLeader,   \* ddm.isLeader
  age,        \* ticks since the current or, on a leader, the last round began
  stop,       \* how far Stop has come, see StopPhase
  abandoned   \* commands given up by their caller that may still reach Redis

vars == <<owner, ttl, phase, isLeader, age, stop, abandoned>>

(* "boot" is the initial sync, "idle" the select of the loop, "sent" a      *)
(* command on its way; a Reply is a reply that has not been handled yet.    *)
InRound == {"sent"} \cup Reply
Phase == {"down", "boot", "idle", "exited", "crashed"} \cup InRound

(* Stop cancels the context and waits, looks at isLeader, releases the lock *)
(* if it was set, and closes the Redis client.                              *)
StopPhase == {"no", "waiting", "releasing", "checked", "closed"}

Init ==
  /\ LockInit
  /\ phase = [p \in Pod |-> "down"]
  /\ isLeader = [p \in Pod |-> FALSE]
  /\ age = [p \in Pod |-> 0]
  /\ stop = [p \in Pod |-> "no"]
  /\ abandoned = {}

-------------------------------------------------------------------------------
(***************************************************************************)
(* The main loop.                                                          *)
(***************************************************************************)

\* Start launches the main loop, which begins with a sync from Redis.
Start(p) ==
  /\ phase[p] = "down"
  /\ phase' = [phase EXCEPT ![p] = "boot"]
  /\ UNCHANGED <<owner, ttl, isLeader, age, stop, abandoned>>

\* The command of an election round.
ElectionCommand(p) == IF isLeader[p] THEN "renew" ELSE "acquire"

(* The first round follows the initial sync; later ones follow the ticker,  *)
(* which the select may prefer to a cancelled context.                      *)
SendCommand(p) ==
  /\ phase[p] \in {"boot", "idle"}
  /\ phase' = [phase EXCEPT ![p] = "sent"]
  /\ age' = [age EXCEPT ![p] = 0]
  /\ UNCHANGED <<owner, ttl, isLeader, stop, abandoned>>

\* Redis runs the command and its reply reaches the pod.
Execute(p) ==
  /\ phase[p] = "sent"
  /\ stop[p] # "closed"
  /\ \E reply \in Reply :
       /\ RunCommand(p, ElectionCommand(p), reply)
       /\ phase' = [phase EXCEPT ![p] = reply]
  /\ UNCHANGED <<isLeader, age, stop, abandoned>>

\* What may become of a command that its caller no longer waits for.
Abandon(cmds) == \E late \in SUBSET cmds : abandoned' = abandoned \cup late

\* The attempt times out and go-redis sends the command again.
Resend(p) ==
  /\ phase[p] = "sent"
  /\ p \in Flaky
  /\ stop[p] # "closed"
  /\ Abandon({<<p, ElectionCommand(p)>>})
  /\ UNCHANGED <<owner, ttl, phase, isLeader, age, stop>>

\* The call fails: it has timed out, or the client has been closed.
GiveUp(p) ==
  /\ phase[p] = "sent"
  /\ p \in Flaky \/ stop[p] = "closed"
  /\ phase' = [phase EXCEPT ![p] = "error"]
  /\ Abandon({<<p, ElectionCommand(p)>>})
  /\ UNCHANGED <<owner, ttl, isLeader, age, stop>>

\* An abandoned command reaches Redis after all; nobody reads the reply.
LateExecute ==
  \E c \in abandoned :
    /\ \E reply \in Reply : RunCommand(c[1], c[2], reply)
    /\ abandoned' = abandoned \ {c}
    /\ UNCHANGED <<phase, isLeader, age, stop>>

\* Seeded fault: an error during renewal leaves the pod a leader.
HandleReplyKeepsLeader(p) ==
  /\ phase[p] \in Reply
  /\ isLeader' = [isLeader EXCEPT ![p] = (phase[p] = "granted") \/ (@ /\ phase[p] = "error")]
  /\ age' = IF isLeader'[p] THEN age ELSE [age EXCEPT ![p] = 0]
  /\ phase' = [phase EXCEPT ![p] = "idle"]
  /\ UNCHANGED <<owner, ttl, stop, abandoned>>

\* Seeded fault: the main loop returns when the lock is refused.
HandleReplyReturns(p) ==
  /\ phase[p] \in Reply
  /\ isLeader' = [isLeader EXCEPT ![p] = (phase[p] = "granted")]
  /\ age' = IF isLeader'[p] THEN age ELSE [age EXCEPT ![p] = 0]
  /\ phase' = [phase EXCEPT ![p] = IF @ = "denied" THEN "exited" ELSE "idle"]
  /\ UNCHANGED <<owner, ttl, stop, abandoned>>

(* A granted acquisition makes the pod the leader, a granted renewal keeps  *)
(* it one; any other reply leaves it, or makes it, a follower.              *)
HandleReply(p) ==
  /\ phase[p] \in Reply
  /\ isLeader' = [isLeader EXCEPT ![p] = (phase[p] = "granted")]
  /\ age' = IF isLeader'[p] THEN age ELSE [age EXCEPT ![p] = 0]
  /\ phase' = [phase EXCEPT ![p] = "idle"]
  /\ UNCHANGED <<owner, ttl, stop, abandoned>>

\* The select sees the cancelled context.
Exit(p) ==
  /\ phase[p] = "idle"
  /\ stop[p] # "no"
  /\ phase' = [phase EXCEPT ![p] = "exited"]
  /\ UNCHANGED <<owner, ttl, isLeader, age, stop, abandoned>>

-------------------------------------------------------------------------------
(***************************************************************************)
(* Stop, on a goroutine of the application, and the crash of a pod.        *)
(***************************************************************************)

\* The application stops a client it has initialized: the context is cancelled.
Stop(p) ==
  /\ p \in Mortal
  /\ phase[p] \notin {"down", "crashed"}
  /\ stop[p] = "no"
  /\ stop' = [stop EXCEPT ![p] = "waiting"]
  /\ UNCHANGED <<owner, ttl, phase, isLeader, age, abandoned>>

\* Seeded fault: Stop looks at isLeader without waiting for the goroutines.
StopCheckEarly(p) ==
  /\ stop[p] = "waiting"
  /\ phase[p] \notin InRound
  /\ stop' = [stop EXCEPT ![p] = IF isLeader[p] THEN "releasing" ELSE "checked"]
  /\ UNCHANGED <<owner, ttl, phase, isLeader, age, abandoned>>

(* The goroutines are gone or the wait has timed out, ddm.mu is free, and   *)
(* Stop reads isLeader.                                                     *)
StopCheck(p) ==
  /\ stop[p] = "waiting"
  /\ phase[p] = "exited" \/ StopMayTimeOut
  /\ phase[p] \notin InRound
  /\ stop' = [stop EXCEPT ![p] = IF isLeader[p] THEN "releasing" ELSE "checked"]
  /\ UNCHANGED <<owner, ttl, phase, isLeader, age, abandoned>>

\* releaseLeadership: the lock is released; isLeader stays as it is.
Release(p) ==
  /\ stop[p] = "releasing"
  /\ ReleaseLeaderLock(p)
  /\ stop' = [stop EXCEPT ![p] = "checked"]
  /\ UNCHANGED <<phase, isLeader, age, abandoned>>

\* releaseLeadership fails, which is logged and otherwise ignored.
ReleaseFails(p) ==
  /\ stop[p] = "releasing"
  /\ p \in Flaky
  /\ Abandon({<<p, "release">>})
  /\ stop' = [stop EXCEPT ![p] = "checked"]
  /\ UNCHANGED <<owner, ttl, phase, isLeader, age>>

\* HedgingService.Stop closes the Redis client last.
Close(p) ==
  /\ stop[p] = "checked"
  /\ stop' = [stop EXCEPT ![p] = "closed"]
  /\ UNCHANGED <<owner, ttl, phase, isLeader, age, abandoned>>

\* The commands of a pod that are on their way to Redis.
InFlight(p) ==
  (IF phase[p] = "sent" THEN {<<p, ElectionCommand(p)>>} ELSE {})
    \cup (IF stop[p] = "releasing" THEN {<<p, "release">>} ELSE {})

\* The process is gone; what it has sent may still reach Redis.
Crash(p) ==
  /\ p \in Mortal
  /\ phase[p] \notin {"down", "crashed"}
  /\ Abandon(InFlight(p))
  /\ phase' = [phase EXCEPT ![p] = "crashed"]
  /\ isLeader' = [isLeader EXCEPT ![p] = FALSE]
  /\ age' = [age EXCEPT ![p] = 0]
  /\ stop' = [stop EXCEPT ![p] = "closed"]
  /\ UNCHANGED lock

-------------------------------------------------------------------------------
(***************************************************************************)
(* Time.  A round is over MaxRound ticks after it began, and the ticker    *)
(* starts the next round of a leader Interval ticks after the last one.    *)
(***************************************************************************)
Timed(p) == phase[p] \in InRound \/ (phase[p] = "idle" /\ isLeader[p])

\* Seeded fault: the leader's ticker fires at twice its interval.
DueLate(p) ==
  \/ phase[p] \in InRound /\ age[p] >= MaxRound
  \/ phase[p] = "idle" /\ isLeader[p] /\ age[p] >= 2 * Interval

Due(p) ==
  \/ phase[p] \in InRound /\ age[p] >= MaxRound
  \/ phase[p] = "idle" /\ isLeader[p] /\ age[p] >= Interval

Tick ==
  /\ \A p \in Pod : ~Due(p)
  /\ ExpiryTick
  /\ age' = [p \in Pod |-> IF Timed(p) THEN age[p] + 1 ELSE age[p]]
  /\ UNCHANGED <<phase, isLeader, stop, abandoned>>

-------------------------------------------------------------------------------
Step(p) ==
  \/ Start(p)
  \/ SendCommand(p)
  \/ Execute(p)
  \/ Resend(p)
  \/ GiveUp(p)
  \/ HandleReply(p)
  \/ Exit(p)
  \/ Stop(p)
  \/ StopCheck(p)
  \/ Release(p)
  \/ ReleaseFails(p)
  \/ Close(p)
  \/ Crash(p)

Next ==
  \/ Tick
  \/ LateExecute
  \/ \E p \in Pod : Step(p)

Spec == Init /\ [][Next]_vars

(* Goroutines are scheduled, tickers fire, a call returns, time passes.     *)
(* Redis answers some of the attempts a pod keeps making.  A select that    *)
(* keeps finding the context cancelled takes that branch sometime, and a    *)
(* waiting Stop gets ddm.mu sometime (a Go mutex is starvation free).       *)
Fairness ==
  /\ WF_vars(Tick)
  /\ \A p \in Pod :
       /\ WF_vars(Start(p))
       /\ WF_vars(SendCommand(p))
       /\ SF_vars(Execute(p))
       /\ WF_vars(Execute(p) \/ GiveUp(p))
       /\ WF_vars(HandleReply(p))
       /\ SF_vars(Exit(p))
       /\ SF_vars(StopCheck(p))
       /\ WF_vars(Release(p) \/ ReleaseFails(p))
       /\ WF_vars(Close(p))

FairSpec == Spec /\ Fairness

-------------------------------------------------------------------------------
(***************************************************************************)
(* Properties.                                                             *)
(***************************************************************************)

\* The type of every variable.  No key outlives the configured TTL.
TypeOK ==
  /\ owner \in Pod \cup {NoOne}
  /\ ttl \in 0..LockTTL
  /\ phase \in [Pod -> Phase]
  /\ isLeader \in [Pod -> BOOLEAN]
  /\ age \in [Pod -> Nat]
  /\ stop \in [Pod -> StopPhase]
  /\ abandoned \subseteq Pod \X Command

(* A pod leads while it considers itself the leader and has not been told   *)
(* to stop.                                                                 *)
Leads(p) == isLeader[p] /\ stop[p] = "no"

MaxOf(a, b) == IF a >= b THEN a ELSE b

(* The timing under which election is safe: from the moment Redis granted   *)
(* a command, the next round of the holder ends before the key expires.     *)
SafeTiming == MaxOf(Interval, MaxRound) + MaxRound < RenewTTL

(* At most one running pod considers itself the leader, whatever calls time *)
(* out, arrive late or are resent, and whichever pods crash or stop.        *)
AtMostOneLeader == \A p, q \in Pod : Leads(p) /\ Leads(q) => p = q

(* A pod that leads still holds the Redis lock: it steps down before the    *)
(* lock can expire, not after.                                              *)
LeaderHoldsLock == \A p \in Pod : Leads(p) => owner = p

(* How much of the lock is left in every phase of a pod that leads, or that *)
(* has just been granted the lock, and how late its round can be.           *)
Holding(p) == phase[p] = "granted" \/ (phase[p] = "idle" /\ isLeader[p])
AwaitsRenewal(p) == isLeader[p] /\ phase[p] \in InRound \ {"granted"}

Lease(p) ==
  /\ Holding(p) => owner = p /\ ttl >= RenewTTL - age[p]
  /\ AwaitsRenewal(p) =>
       owner = p /\ ttl >= RenewTTL - MaxOf(Interval, MaxRound) - age[p]
  /\ phase[p] \in InRound => age[p] <= MaxRound
  /\ phase[p] = "idle" /\ isLeader[p] => age[p] <= MaxOf(Interval, MaxRound)
  /\ isLeader[p] => phase[p] \in {"idle"} \cup InRound
  /\ <<p, "release">> \notin abandoned

(* Until it is told to stop, a pod keeps its lease with a margin for the    *)
(* round that is under way: what makes LeaderHoldsLock inductive.           *)
LeaseMargin == \A p \in Pod : stop[p] = "no" => Lease(p)

(* A renewal that reaches Redis while its sender leads is never refused:    *)
(* a leader loses its office only to a timeout, a crash or Stop.            *)
RenewalNeverRefused ==
  [][\A p \in Pod : Leads(p) /\ Execute(p) => phase'[p] = "granted"]_vars

(* Election implements the promise of Leadership: no two leaders, and never *)
(* a direct handover.                                                       *)
Promise == INSTANCE Leadership WITH leaders <- {p \in Pod : Leads(p)}
ImplementsLeadership == Promise!Spec

(* "Graceful Shutdown: Releases leadership on stop": once Stop has returned *)
(* and the main loop is gone, the lock is not held by the stopped pod, if   *)
(* its own calls to Redis do not fail.                                      *)
StopReleasesLock ==
  \A p \in Pod \ Flaky :
    stop[p] = "closed" /\ phase[p] = "exited" => owner # p

(* If calls to Redis stop failing and one pod is neither stopped nor        *)
(* crashed, then there is a leader again and again: failover is automatic.  *)
EventuallyReliable ==
  <>[][\A p \in Pod : (GiveUp(p) => Execute(p)) /\ ~Resend(p)]_vars
Failover == EventuallyReliable => []<>(\E p \in Pod : Leads(p))

===============================================================================
