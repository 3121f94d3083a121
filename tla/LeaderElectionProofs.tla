------------------------- MODULE LeaderElectionProofs -------------------------
(***************************************************************************)
(* Proofs about LeaderElection, for any set of pods, any lock TTL and any  *)
(* intervals: the types, the lease invariant under the timing assumption   *)
(* SafeTiming, and what follows from it (one leader, a leader holds the    *)
(* lock, a leader's renewal is not refused, the promise of Leadership).    *)
(***************************************************************************)
EXTENDS LeaderElection, TLAPS

USE LockAssumption, ElectionAssumption

(* Whatever command Redis runs, the key has a pod or nobody for a value and *)
(* no more ticks to live than were configured.                              *)
LEMMA CommandTypes ==
  ASSUME owner \in Pod \cup {NoOne}, ttl \in 0..LockTTL,
         NEW p \in Pod, NEW cmd, NEW reply \in Reply, RunCommand(p, cmd, reply)
  PROVE  owner' \in Pod \cup {NoOne} /\ ttl' \in 0..LockTTL
<1>0. LockTTL % Second \in Nat
  OBVIOUS
<1>1. RenewTTL \in Int /\ RenewTTL <= LockTTL
  BY <1>0 DEF RenewTTL
<1>2. CASE AcquireLeaderLock(p, reply)
  BY <1>2 DEF AcquireLeaderLock, lock
<1>3. CASE RenewLeadership(p, reply)
  BY <1>1, <1>3 DEF RenewLeadership, lock
<1>4. CASE ReleaseLeaderLock(p)
  BY <1>4 DEF ReleaseLeaderLock, lock
<1>5. QED
  BY <1>2, <1>3, <1>4 DEF RunCommand

(* Every variable has its type in every reachable state.                    *)
THEOREM TypeCorrect == Spec => []TypeOK
<1>1. Init => TypeOK
  BY DEF Init, LockInit, TypeOK, Phase, StopPhase
<1>2. TypeOK /\ [Next]_vars => TypeOK'
  <2> SUFFICES ASSUME TypeOK, [Next]_vars PROVE TypeOK'
    OBVIOUS
  <2>1. CASE UNCHANGED vars
    BY <2>1 DEF TypeOK, vars
  <2>2. CASE Tick
    BY <2>2 DEF Tick, ExpiryTick, TypeOK
  <2>3. CASE LateExecute
    <3>1. PICK c \in abandoned : 
            /\ \E reply \in Reply : RunCommand(c[1], c[2], reply)
            /\ abandoned' = abandoned \ {c}
            /\ UNCHANGED <<phase, isLeader, age, stop>>
      BY <2>3 DEF LateExecute
    <3>2. c[1] \in Pod
      BY DEF TypeOK
    <3>3. owner' \in Pod \cup {NoOne} /\ ttl' \in 0..LockTTL
      BY <3>1, <3>2, CommandTypes DEF TypeOK
    <3>4. QED
      BY <3>1, <3>3 DEF TypeOK
  <2>4. ASSUME NEW p \in Pod, Step(p) PROVE TypeOK'
    <3>1. CASE Start(p)
      BY <3>1 DEF Start, TypeOK, Phase
    <3>2. CASE SendCommand(p)
      BY <3>2 DEF SendCommand, TypeOK, Phase, InRound
    <3>3. CASE Execute(p)
      <4>1. PICK reply \in Reply :
              /\ RunCommand(p, ElectionCommand(p), reply)
              /\ phase' = [phase EXCEPT ![p] = reply]
        BY <3>3 DEF Execute
      <4>2. owner' \in Pod \cup {NoOne} /\ ttl' \in 0..LockTTL
        BY <4>1, CommandTypes DEF TypeOK
      <4>3. QED
        BY <3>3, <4>1, <4>2 DEF Execute, TypeOK, Phase, InRound
    <3>4. CASE Resend(p)
      BY <3>4 DEF Resend, Abandon, ElectionCommand, Command, TypeOK
    <3>5. CASE GiveUp(p)
      BY <3>5 DEF GiveUp, Abandon, ElectionCommand, Command, TypeOK, Phase, InRound, Reply
    <3>6. CASE HandleReply(p)
      BY <3>6 DEF HandleReply, TypeOK, Phase
    <3>7. CASE Exit(p)
      BY <3>7 DEF Exit, TypeOK, Phase
    <3>8. CASE Stop(p)
      BY <3>8 DEF Stop, TypeOK, StopPhase
    <3>9. CASE StopCheck(p)
      BY <3>9 DEF StopCheck, TypeOK, StopPhase
    <3>10. CASE Release(p)
      BY <3>10 DEF Release, ReleaseLeaderLock, lock, TypeOK, StopPhase
    <3>11. CASE ReleaseFails(p)
      BY <3>11 DEF ReleaseFails, Abandon, Command, TypeOK, StopPhase
    <3>12. CASE Close(p)
      BY <3>12 DEF Close, TypeOK, StopPhase
    <3>13. CASE Crash(p)
      <4>1. InFlight(p) \subseteq Pod \X Command
        BY DEF InFlight, ElectionCommand, Command
      <4>2. QED
        BY <3>13, <4>1 DEF Crash, Abandon, lock, TypeOK, Phase, StopPhase
    <3>14. QED
      BY <2>4, <3>1, <3>2, <3>3, <3>4, <3>5, <3>6, <3>7, <3>8, <3>9, <3>10,
         <3>11, <3>12, <3>13 DEF Step
  <2>5. QED
    BY <2>1, <2>2, <2>3, <2>4 DEF Next
<1>3. QED
  BY <1>1, <1>2, PTL DEF Spec

-------------------------------------------------------------------------------
(***************************************************************************)
(* The lease.                                                              *)
(***************************************************************************)

(* SafeTiming in the form the steps need it.                                *)
LEMMA Margin ==
  ASSUME SafeTiming
  PROVE  LET m == MaxOf(Interval, MaxRound)
         IN  /\ m \in Nat /\ RenewTTL \in Nat
             /\ Interval <= m /\ MaxRound <= m
             /\ RenewTTL > m + MaxRound
             /\ LockTTL >= RenewTTL
<1>1. LockTTL % Second \in Nat
  OBVIOUS
<1>2. RenewTTL \in Int /\ LockTTL >= RenewTTL
  BY <1>1 DEF RenewTTL
<1>3. QED
  BY <1>2 DEF SafeTiming, MaxOf

(* A command of pod p that Redis runs leaves the lease of any other pod     *)
(* alone, and never shortens its own.                                       *)
LEMMA CommandKeepsLease ==
  ASSUME SafeTiming, TypeOK, LeaseMargin,
         NEW p \in Pod, NEW cmd \in Command, NEW reply \in Reply,
         RunCommand(p, cmd, reply), cmd = "release" => stop[p] # "no",
         NEW q \in Pod, stop[q] = "no", Holding(q) \/ AwaitsRenewal(q)
  PROVE  /\ owner' = q
         /\ ttl' \in Nat
         /\ ttl' >= ttl \/ ttl' = RenewTTL
<1>1. owner = q
  BY DEF LeaseMargin, Lease
<1>2. owner # NoOne
  BY <1>1
<1>3. CASE AcquireLeaderLock(p, reply)
  BY <1>1, <1>2, <1>3 DEF AcquireLeaderLock, lock, TypeOK
<1>4. CASE RenewLeadership(p, reply)
  BY <1>1, <1>4, Margin DEF RenewLeadership, lock, TypeOK
<1>5. CASE cmd = "release" /\ ReleaseLeaderLock(p)
  BY <1>1, <1>5 DEF ReleaseLeaderLock, lock, TypeOK
<1>6. QED
  BY <1>3, <1>4, <1>5 DEF RunCommand

(* Time: a round that is not due can wait another tick, and so can the lock. *)
LEMMA TickKeepsLease ==
  ASSUME SafeTiming, TypeOK, LeaseMargin, Tick
  PROVE  LeaseMargin'
<1> DEFINE m == MaxOf(Interval, MaxRound)
<1>0. /\ m \in Nat /\ RenewTTL \in Nat
      /\ Interval <= m /\ MaxRound <= m
      /\ RenewTTL > m + MaxRound
  BY Margin
<1> HIDE DEF m
<1> SUFFICES ASSUME NEW p \in Pod, stop'[p] = "no"
             PROVE  Lease(p)'
  BY DEF LeaseMargin
<1>1. /\ UNCHANGED <<phase, isLeader, stop, abandoned>>
      /\ age[p] \in Nat /\ age'[p] = IF Timed(p) THEN age[p] + 1 ELSE age[p]
      /\ ~Due(p) /\ ExpiryTick
  BY DEF Tick, TypeOK
<1>2. Lease(p)
  BY <1>1 DEF LeaseMargin
<1>3. Holding(p) \/ AwaitsRenewal(p) => Timed(p)
  BY DEF Holding, AwaitsRenewal, Timed, InRound, Reply
<1>4. Timed(p) => age[p] < m /\ (phase[p] \in InRound => age[p] < MaxRound)
  BY <1>0, <1>1 DEF Timed, Due, InRound, Reply
<1>5. ASSUME Holding(p) \/ AwaitsRenewal(p)
      PROVE  owner' = p /\ ttl' = ttl - 1
  <2>1. owner = p
    BY <1>2, <1>5 DEF Lease
  <2>2. ttl > 1
    BY <1>0, <1>1, <1>2, <1>3, <1>4, <1>5 DEF Lease, Holding, AwaitsRenewal, TypeOK, m
  <2>3. QED
    BY <1>1, <2>1, <2>2 DEF ExpiryTick, TypeOK
<1>6. Holding(p)' => owner' = p /\ ttl' >= RenewTTL - age'[p]
  BY <1>0, <1>1, <1>2, <1>3, <1>5 DEF Holding, Lease, TypeOK
<1>7. AwaitsRenewal(p)' => owner' = p /\ ttl' >= RenewTTL - m - age'[p]
  BY <1>0, <1>1, <1>2, <1>3, <1>5 DEF AwaitsRenewal, Lease, TypeOK, m
<1>8. phase'[p] \in InRound => age'[p] <= MaxRound
  BY <1>1, <1>4 DEF Timed
<1>9. phase'[p] = "idle" /\ isLeader'[p] => age'[p] <= m
  BY <1>0, <1>1, <1>4 DEF Timed
<1>10. QED
  BY <1>1, <1>2, <1>6, <1>7, <1>8, <1>9 DEF Lease, m

(* A step of one pod touches the lease of another only through a command    *)
(* that it has Redis run.                                                   *)
LEMMA StepKeepsOtherLease ==
  ASSUME SafeTiming, TypeOK, LeaseMargin,
         NEW p \in Pod, Step(p), NEW q \in Pod, q # p, stop'[q] = "no"
  PROVE  Lease(q)'
<1> DEFINE m == MaxOf(Interval, MaxRound)
<1>0. m \in Nat /\ RenewTTL \in Nat
  BY Margin
<1> HIDE DEF m
<1>1. /\ phase'[q] = phase[q] /\ isLeader'[q] = isLeader[q]
      /\ age'[q] = age[q] /\ stop'[q] = stop[q]
  BY DEF Step, Start, SendCommand, Execute, Resend, GiveUp, HandleReply, Exit,
         Stop, StopCheck, Release, ReleaseFails, Close, Crash, TypeOK
<1>2. Lease(q)
  BY <1>1 DEF LeaseMargin
<1>3. <<q, "release">> \notin abandoned'
  BY <1>2 DEF Lease, Step, Start, SendCommand, Execute, Resend, GiveUp, HandleReply,
         Exit, Stop, StopCheck, Release, ReleaseFails, Close, Crash, Abandon, InFlight
<1>4. UNCHANGED lock \/ \E cmd \in Command, reply \in Reply :
        RunCommand(p, cmd, reply) /\ (cmd = "release" => stop[p] # "no")
  <2>1. CASE Execute(p)
    BY <2>1 DEF Execute, ElectionCommand, Command
  <2>2. CASE Release(p)
    BY <2>2 DEF Release, RunCommand, Command, Reply
  <2>3. QED
    BY <2>1, <2>2 DEF Step, Start, SendCommand, Resend, GiveUp, HandleReply, Exit,
         Stop, StopCheck, ReleaseFails, Close, Crash, lock
<1>5. Holding(q) \/ AwaitsRenewal(q) =>
        owner' = q /\ ttl' \in Nat /\ (ttl' >= ttl \/ ttl' = RenewTTL)
  <2>1. Holding(q) \/ AwaitsRenewal(q) => owner = q
    BY <1>2 DEF Lease
  <2>2. QED
    BY <1>1, <1>4, <2>1, CommandKeepsLease DEF lock, TypeOK
<1>6. ttl \in Nat /\ age[q] \in Nat
  BY DEF TypeOK
<1>7. Holding(q)' => owner' = q /\ ttl' >= RenewTTL - age'[q]
  <2>1. Holding(q)' <=> Holding(q)
    BY <1>1 DEF Holding
  <2> QED
    BY <1>0, <1>1, <1>2, <1>5, <1>6, <2>1 DEF Lease
<1>8. AwaitsRenewal(q)' => owner' = q /\ ttl' >= RenewTTL - m - age'[q]
  <2>1. AwaitsRenewal(q)' <=> AwaitsRenewal(q)
    BY <1>1 DEF AwaitsRenewal
  <2> QED
    BY <1>0, <1>1, <1>2, <1>5, <1>6, <2>1 DEF Lease, m
<1>9. QED
  BY <1>1, <1>2, <1>3, <1>7, <1>8 DEF Lease, m

(* What Redis answers to the command of a pod that nobody has stopped, and  *)
(* what that does to its own lease.                                         *)
LEMMA ExecuteKeepsLease ==
  ASSUME SafeTiming, TypeOK, LeaseMargin,
         NEW p \in Pod, Execute(p), stop[p] = "no"
  PROVE  Lease(p)' /\ (isLeader[p] => phase'[p] = "granted")
<1>0. RenewTTL \in Nat /\ RenewTTL > 0 /\ LockTTL >= RenewTTL
  BY Margin, ElectionAssumption DEF MaxOf
<1>1. PICK reply \in Reply :
        /\ RunCommand(p, ElectionCommand(p), reply)
        /\ phase' = [phase EXCEPT ![p] = reply]
  BY DEF Execute
<1>2. /\ phase[p] = "sent" /\ phase'[p] = reply
      /\ UNCHANGED <<isLeader, age, stop, abandoned>>
      /\ age[p] \in Nat
      /\ Lease(p)
  BY <1>1 DEF Execute, LeaseMargin, TypeOK
<1>3. CASE isLeader[p]
  <2>1. owner = p
    BY <1>2, <1>3 DEF Lease, AwaitsRenewal, InRound, Reply
  <2>2. RenewLeadership(p, reply)
    BY <1>1, <1>3 DEF RunCommand, ElectionCommand
  <2>3. reply = "granted" /\ owner' = p /\ ttl' = RenewTTL
    BY <1>0, <2>1, <2>2 DEF RenewLeadership
  <2>4. QED
    BY <1>0, <1>2, <1>3, <2>3 DEF Lease, Holding, AwaitsRenewal, InRound, Reply
<1>4. CASE ~isLeader[p]
  <2>1. AcquireLeaderLock(p, reply)
    BY <1>1, <1>4 DEF RunCommand, ElectionCommand
  <2>2. reply = "granted" => owner' = p /\ ttl' = LockTTL
    BY <2>1 DEF AcquireLeaderLock
  <2>3. QED
    BY <1>0, <1>2, <1>4, <2>2 DEF Lease, Holding, AwaitsRenewal, InRound, Reply
<1>5. QED
  BY <1>3, <1>4

(* A step of a pod keeps its own lease, as long as nobody has stopped it.   *)
LEMMA StepKeepsOwnLease ==
  ASSUME SafeTiming, TypeOK, LeaseMargin,
         NEW p \in Pod, Step(p), stop'[p] = "no"
  PROVE  Lease(p)'
<1> DEFINE m == MaxOf(Interval, MaxRound)
<1>0. /\ m \in Nat /\ RenewTTL \in Nat
      /\ MaxRound \in Nat /\ MaxRound <= m
  BY Margin
<1> HIDE DEF m
<1>1. stop[p] = "no" /\ Lease(p)
  <2>1. stop[p] = "no"
    BY DEF Step, Start, SendCommand, Execute, Resend, GiveUp, HandleReply, Exit,
           Stop, StopCheck, Release, ReleaseFails, Close, Crash, TypeOK
  <2>2. QED
    BY <2>1 DEF LeaseMargin
<1>2. ttl \in Nat /\ age[p] \in Nat /\ isLeader[p] \in BOOLEAN
  BY DEF TypeOK
<1>3. CASE Start(p)
  BY <1>1, <1>3 DEF Start, Lease, Holding, AwaitsRenewal, InRound, Reply, TypeOK
<1>4. CASE SendCommand(p)
  <2>1. /\ phase'[p] = "sent" /\ age'[p] = 0 /\ phase[p] \in {"boot", "idle"}
        /\ UNCHANGED <<owner, ttl, isLeader, stop, abandoned>>
    BY <1>4 DEF SendCommand, TypeOK
  <2>2. isLeader[p] => phase[p] = "idle"
    BY <1>1, <2>1 DEF Lease, InRound, Reply
  <2>3. isLeader[p] => owner = p /\ ttl >= RenewTTL - m
    BY <1>0, <1>1, <1>2, <2>2 DEF Lease, Holding, m
  <2>4. QED
    BY <1>0, <1>1, <1>2, <2>1, <2>3
       DEF Lease, Holding, AwaitsRenewal, InRound, Reply, m
<1>5. CASE Execute(p)
  BY <1>1, <1>5, ExecuteKeepsLease
<1>6. CASE Resend(p)
  BY <1>1, <1>6 DEF Resend, Abandon, ElectionCommand, Lease, Holding, AwaitsRenewal
<1>7. CASE GiveUp(p)
  <2>1. /\ phase[p] = "sent" /\ phase'[p] = "error"
        /\ UNCHANGED <<owner, ttl, isLeader, age, stop>>
        /\ <<p, "release">> \notin abandoned'
    BY <1>1, <1>7 DEF GiveUp, Abandon, ElectionCommand, Lease, TypeOK
  <2>2. QED
    BY <1>1, <2>1 DEF Lease, Holding, AwaitsRenewal, InRound, Reply
<1>8. CASE HandleReply(p)
  <2>1. /\ phase[p] \in Reply /\ phase'[p] = "idle"
        /\ isLeader'[p] = (phase[p] = "granted")
        /\ isLeader'[p] => age'[p] = age[p]
        /\ UNCHANGED <<owner, ttl, stop, abandoned>>
    BY <1>8 DEF HandleReply, TypeOK
  <2>2. age[p] <= MaxRound
    BY <1>1, <2>1 DEF Lease, InRound
  <2>3. isLeader'[p] => owner = p /\ ttl >= RenewTTL - age[p]
    BY <1>1, <2>1 DEF Lease, Holding
  <2>4. /\ Holding(p)' => owner' = p /\ ttl' >= RenewTTL - age'[p]
        /\ ~AwaitsRenewal(p)'
    BY <2>1, <2>3 DEF Holding, AwaitsRenewal, InRound, Reply
  <2>5. phase'[p] \notin InRound
    BY <2>1 DEF InRound, Reply
  <2>6. isLeader'[p] => age'[p] <= MaxOf(Interval, MaxRound)
    BY <1>0, <1>2, <2>1, <2>2 DEF m
  <2>7. QED
    BY <1>1, <2>1, <2>4, <2>5, <2>6 DEF Lease
<1>9. QED
  <2>1. ~(Exit(p) \/ Stop(p) \/ StopCheck(p) \/ Release(p) \/ ReleaseFails(p)
            \/ Close(p) \/ Crash(p))
    BY <1>1 DEF Exit, Stop, StopCheck, Release, ReleaseFails, Close, Crash, TypeOK
  <2>2. QED
    BY <1>3, <1>4, <1>5, <1>6, <1>7, <1>8, <2>1 DEF Step

(* A command that arrives late does not cost a pod its lease: an            *)
(* acquisition finds the key taken, a renewal only extends it, and a        *)
(* release was sent by a pod that has been stopped.                         *)
LEMMA LateExecuteKeepsLease ==
  ASSUME SafeTiming, TypeOK, LeaseMargin, LateExecute
  PROVE  LeaseMargin'
<1>0. RenewTTL \in Nat
  BY Margin
<1>1. PICK c \in abandoned :
        /\ \E reply \in Reply : RunCommand(c[1], c[2], reply)
        /\ abandoned' = abandoned \ {c}
        /\ UNCHANGED <<phase, isLeader, age, stop>>
  BY DEF LateExecute
<1>2. c[1] \in Pod /\ c[2] \in Command /\ c = <<c[1], c[2]>>
  BY DEF TypeOK
<1>3. SUFFICES ASSUME NEW q \in Pod, stop[q] = "no"
               PROVE  Lease(q)'
  BY <1>1 DEF LeaseMargin
<1>4. Lease(q) /\ ttl \in Nat /\ age[q] \in Nat
  BY <1>3 DEF LeaseMargin, TypeOK
<1>5. c[2] = "release" => stop[c[1]] # "no"
  BY <1>1, <1>2 DEF LeaseMargin, Lease
<1>6. Holding(q) \/ AwaitsRenewal(q) =>
        owner' = q /\ ttl' \in Nat /\ (ttl' >= ttl \/ ttl' = RenewTTL)
  BY <1>1, <1>2, <1>3, <1>5, CommandKeepsLease
<1>7. (Holding(q)' <=> Holding(q)) /\ (AwaitsRenewal(q)' <=> AwaitsRenewal(q))
  BY <1>1 DEF Holding, AwaitsRenewal
<1>8. Holding(q)' => owner' = q /\ ttl' >= RenewTTL - age'[q]
  BY <1>0, <1>1, <1>4, <1>6, <1>7 DEF Lease
<1>9. AwaitsRenewal(q)' =>
        owner' = q /\ ttl' >= RenewTTL - MaxOf(Interval, MaxRound) - age'[q]
  <2>1. MaxOf(Interval, MaxRound) \in Nat
    BY Margin
  <2>2. QED
    BY <1>0, <1>1, <1>4, <1>6, <1>7, <2>1 DEF Lease
<1>10. QED
  BY <1>1, <1>4, <1>8, <1>9 DEF Lease

(* LeaseMargin is inductive, given the types.                               *)
LEMMA LeaseInductive ==
  ASSUME SafeTiming
  PROVE  /\ Init => LeaseMargin
         /\ TypeOK /\ LeaseMargin /\ [Next]_vars => LeaseMargin'
<1>1. Init => LeaseMargin
  BY DEF Init, LeaseMargin, Lease, Holding, AwaitsRenewal, InRound, Reply
<1>2. ASSUME TypeOK, LeaseMargin, [Next]_vars
      PROVE  LeaseMargin'
  <2>1. CASE UNCHANGED vars
    BY <1>2, <2>1 DEF vars, LeaseMargin, Lease, Holding, AwaitsRenewal
  <2>2. CASE Tick
    BY <1>2, <2>2, TickKeepsLease
  <2>3. CASE LateExecute
    BY <1>2, <2>3, LateExecuteKeepsLease
  <2>4. ASSUME NEW p \in Pod, Step(p)
        PROVE  LeaseMargin'
    BY <1>2, <2>4, StepKeepsOwnLease, StepKeepsOtherLease DEF LeaseMargin
  <2>5. QED
    BY <1>2, <2>1, <2>2, <2>3, <2>4 DEF Next
<1>3. QED
  BY <1>1, <1>2

(* With intervals that leave a round's time before the lock expires, every  *)
(* pod that nobody has stopped keeps its lease with a margin.               *)
THEOREM LeaseMarginHolds ==
  ASSUME SafeTiming
  PROVE  Spec => []LeaseMargin
<1>1. Init => LeaseMargin
  BY LeaseInductive
<1>2. TypeOK /\ LeaseMargin /\ [Next]_vars => LeaseMargin'
  BY LeaseInductive
<1>3. QED
  BY <1>1, <1>2, TypeCorrect, PTL DEF Spec

(* Such a pod is the owner of the Redis lock whenever it is the leader.     *)
LEMMA LeaseImpliesLock == LeaseMargin => LeaderHoldsLock
BY DEF LeaseMargin, LeaderHoldsLock, Leads, Lease, Holding, AwaitsRenewal, InRound

(* A leader holds the Redis lock, however calls fail and pods crash.        *)
THEOREM LockHeld ==
  ASSUME SafeTiming
  PROVE  Spec => []LeaderHoldsLock
BY LeaseMarginHolds, LeaseImpliesLock, PTL

(* There are never two leaders.                                             *)
THEOREM OneLeader ==
  ASSUME SafeTiming
  PROVE  Spec => []AtMostOneLeader
<1>1. LeaderHoldsLock => AtMostOneLeader
  BY DEF LeaderHoldsLock, AtMostOneLeader
<1>2. QED
  BY <1>1, LockHeld, PTL

(* A renewal that Redis runs for a leader is granted.                       *)
THEOREM RenewalGranted ==
  ASSUME SafeTiming
  PROVE  Spec => RenewalNeverRefused
<1>1. TypeOK /\ LeaseMargin /\ [Next]_vars =>
        [\A p \in Pod : Leads(p) /\ Execute(p) => phase'[p] = "granted"]_vars
  BY ExecuteKeepsLease DEF Leads
<1>2. QED
  BY <1>1, TypeCorrect, LeaseMarginHolds, PTL DEF Spec, RenewalNeverRefused

-------------------------------------------------------------------------------
(***************************************************************************)
(* The promise of Leadership.                                              *)
(***************************************************************************)
Leaders == {p \in Pod : Leads(p)}

(* A step changes the mind of one pod at most.                              *)
LEMMA OneMindChanges ==
  ASSUME TypeOK, [Next]_vars
  PROVE  Leaders' = Leaders \/ \E p \in Pod : \A q \in Pod \ {p} : Leads(q)' <=> Leads(q)
<1>1. CASE UNCHANGED vars \/ Tick \/ LateExecute
  BY <1>1 DEF vars, Tick, LateExecute, Leaders, Leads
<1>2. ASSUME NEW p \in Pod, Step(p)
      PROVE  \A q \in Pod \ {p} : Leads(q)' <=> Leads(q)
  BY <1>2 DEF Leads, Step, Start, SendCommand, Execute, Resend, GiveUp, HandleReply,
         Exit, Stop, StopCheck, Release, ReleaseFails, Close, Crash, TypeOK
<1>3. QED
  BY <1>1, <1>2 DEF Next

(* Election implements Leadership: every step gains or loses one leader, or *)
(* leaves them as they are.                                                 *)
THEOREM ElectionKeepsPromise ==
  ASSUME SafeTiming
  PROVE  Spec => ImplementsLeadership
<1>1. Init => Promise!Init
  BY DEF Init, Promise!Init, Leads
<1>2. ASSUME TypeOK, AtMostOneLeader, AtMostOneLeader', [Next]_vars
      PROVE  [Promise!Next]_Leaders
  <2>1. SUFFICES ASSUME Leaders' # Leaders
                 PROVE  Promise!Next
    BY DEF Leaders
  <2>2. PICK p \in Pod : \A q \in Pod \ {p} : Leads(q)' <=> Leads(q)
    BY <1>2, <2>1, OneMindChanges
  <2>3. CASE Leads(p)
    <3>1. Leaders = {p}
      BY <1>2, <2>3 DEF AtMostOneLeader, Leaders
    <3>2. Leaders' = {}
      BY <2>1, <2>2, <3>1 DEF Leaders
    <3>3. QED
      BY <3>1, <3>2 DEF Promise!Next, Promise!Lose, Leaders
  <2>4. CASE ~Leads(p)
    <3>1. Leads(p)'
      BY <2>1, <2>2, <2>4 DEF Leaders
    <3>2. Leaders' = {p}
      BY <1>2, <3>1 DEF AtMostOneLeader, Leaders
    <3>3. Leaders = {}
      BY <2>2, <2>4, <3>2 DEF Leaders
    <3>4. QED
      BY <3>2, <3>3 DEF Promise!Next, Promise!Gain, Leaders
  <2>5. QED
    BY <2>3, <2>4
<1>3. QED
  BY <1>1, <1>2, TypeCorrect, OneLeader, PTL
     DEF Spec, ImplementsLeadership, Promise!Spec, Leaders

-------------------------------------------------------------------------------
(***************************************************************************)
(* The release of the lock by Stop, when Stop waits for the goroutines and *)
(* the calls of the pod do not fail.                                       *)
(***************************************************************************)

\* The renewed key has an expiry, so that a renewal by the holder is granted.
GracefulStop == ~StopMayTimeOut /\ RenewTTL > 0

(* A pod that has not crashed owns the lock only while it knows of it: from *)
(* the reply that grants it until it is released.  Nothing of what the pod  *)
(* has sent is still on its way, and Stop goes on only after the main loop. *)
KnowsOfLock(p) ==
  phase[p] # "crashed" =>
    /\ \A c \in abandoned : c[1] # p
    /\ stop[p] \in {"releasing", "checked", "closed"} => phase[p] = "exited"
    /\ owner = p => \/ phase[p] = "granted"
                    \/ isLeader[p] /\ stop[p] \notin {"checked", "closed"}
    /\ phase[p] \in {"denied", "error"} => owner # p

(* What another pod does, and a command of another pod that arrives late,   *)
(* cannot give the lock to this one.                                        *)
LEMMA OthersKeepKnowledge ==
  ASSUME TypeOK, [Next]_vars, NEW p \in Pod \ Flaky, KnowsOfLock(p), ~Step(p)
  PROVE  KnowsOfLock(p)'
<1>1. CASE UNCHANGED vars
  BY <1>1 DEF vars, KnowsOfLock
<1>2. CASE Tick
  BY <1>2 DEF Tick, ExpiryTick, KnowsOfLock
<1>3. CASE LateExecute
  <2>1. PICK c \in abandoned :
          /\ \E reply \in Reply : RunCommand(c[1], c[2], reply)
          /\ abandoned' = abandoned \ {c}
          /\ UNCHANGED <<phase, isLeader, age, stop>>
    BY <1>3 DEF LateExecute
  <2>2. phase[p] # "crashed" => c[1] # p
    BY DEF KnowsOfLock
  <2>3. c[1] # p => (owner' = p => owner = p)
    BY <2>1 DEF RunCommand, AcquireLeaderLock, RenewLeadership, ReleaseLeaderLock, lock
  <2>4. QED
    BY <2>1, <2>2, <2>3 DEF KnowsOfLock
<1>4. ASSUME NEW q \in Pod, q # p, Step(q)
      PROVE  KnowsOfLock(p)'
  <2>1. /\ phase'[p] = phase[p] /\ isLeader'[p] = isLeader[p] /\ stop'[p] = stop[p]
    BY <1>4 DEF Step, Start, SendCommand, Execute, Resend, GiveUp, HandleReply, Exit,
       Stop, StopCheck, Release, ReleaseFails, Close, Crash, TypeOK
  <2>2. \A c \in abandoned' : c \in abandoned \/ c[1] = q
    BY <1>4 DEF Step, Start, SendCommand, Execute, Resend, GiveUp, HandleReply, Exit,
       Stop, StopCheck, Release, ReleaseFails, Close, Crash, Abandon, InFlight
  <2>3. owner' = p => owner = p
    BY <1>4 DEF Step, Start, SendCommand, Execute, Resend, GiveUp, HandleReply, Exit,
       Stop, StopCheck, Release, ReleaseFails, Close, Crash,
       RunCommand, AcquireLeaderLock, RenewLeadership, ReleaseLeaderLock, lock
  <2>4. QED
    BY <1>4, <2>1, <2>2, <2>3 DEF KnowsOfLock
<1>5. QED
  BY <1>1, <1>2, <1>3, <1>4 DEF Next

(* Nor does a step of the pod itself leave it with a lock it forgets.       *)
LEMMA OwnStepKeepsKnowledge ==
  ASSUME GracefulStop, TypeOK, NEW p \in Pod \ Flaky, KnowsOfLock(p), Step(p)
  PROVE  KnowsOfLock(p)'
<1> USE DEF KnowsOfLock, TypeOK, InRound, Reply
<1>1. CASE Start(p) \/ SendCommand(p) \/ HandleReply(p) \/ Exit(p)
  BY <1>1 DEF Start, SendCommand, HandleReply, Exit
<1>2. CASE Stop(p) \/ StopCheck(p) \/ ReleaseFails(p) \/ Close(p)
  BY <1>2 DEF Stop, StopCheck, ReleaseFails, Close, GracefulStop
<1>3. CASE Resend(p) \/ GiveUp(p)
  BY <1>3 DEF Resend, GiveUp
<1>4. CASE Release(p)
  BY <1>4 DEF Release, ReleaseLeaderLock, lock
<1>5. CASE Crash(p)
  BY <1>5 DEF Crash
<1>6. CASE Execute(p)
  <2>1. PICK reply \in Reply :
          /\ RunCommand(p, ElectionCommand(p), reply)
          /\ phase' = [phase EXCEPT ![p] = reply]
    BY <1>6 DEF Execute
  <2>2. /\ phase[p] = "sent" /\ UNCHANGED <<isLeader, stop, abandoned>>
        /\ phase'[p] = reply
    BY <1>6, <2>1 DEF Execute
  <2>3. stop[p] \notin {"releasing", "checked", "closed"}
    BY <2>2
  <2>4. CASE isLeader[p]
    BY <2>1, <2>2, <2>3, <2>4
       DEF RunCommand, ElectionCommand, RenewLeadership, GracefulStop, lock
  <2>5. CASE ~isLeader[p]
    <3>1. owner # p
      BY <2>2, <2>5
    <3>2. QED
      BY <2>1, <2>2, <2>3, <2>5, <3>1
         DEF RunCommand, ElectionCommand, AcquireLeaderLock, lock
  <2>6. QED
    BY <2>4, <2>5
<1>7. QED
  BY <1>1, <1>2, <1>3, <1>4, <1>5, <1>6 DEF Step

(* Once Stop has returned and the main loop is gone, the lock is not held   *)
(* by the stopped pod: Stop waited for the last round, and so released      *)
(* whatever that round acquired.                                            *)
THEOREM StopReleases ==
  ASSUME GracefulStop
  PROVE  Spec => []StopReleasesLock
<1> DEFINE Inv == \A p \in Pod \ Flaky : KnowsOfLock(p)
<1>1. Init => Inv
  BY DEF Init, LockInit, KnowsOfLock
<1>2. TypeOK /\ Inv /\ [Next]_vars => Inv'
  BY OthersKeepKnowledge, OwnStepKeepsKnowledge
<1>3. Inv => StopReleasesLock
  BY DEF KnowsOfLock, StopReleasesLock
<1>4. QED
  BY <1>1, <1>2, <1>3, TypeCorrect, PTL DEF Spec

===============================================================================
