------------------------- MODULE ServiceLifecycleProofs -------------------------
(***************************************************************************)
(* Proofs about ServiceLifecycle, for any number of callers and of refresh *)
(* loops: the WaitGroup counts the goroutines, so that a Stop which waits  *)
(* for it finds none left; initialization succeeds once; Stop gives the    *)
(* leader lock back; a service that was stopped first never leads.         *)
(***************************************************************************)
EXTENDS ServiceLifecycle, FiniteSetTheorems, TLAPS

USE LifecycleAssumption

(* What becomes of the loops that wait on the leader context.               *)
LEMMA LoopsKeepRunning ==
  ASSUME TypeOK
  PROVE  /\ WithoutLeaderContext \in [Slot -> [at : LoopStep, ctx : LoopContext]]
         /\ \A s \in Slot : WithoutLeaderContext[s] = NoLoop <=> loop[s] = NoLoop
<1>1. NoLoop.ctx = "none" /\ NoLoop.at = "none"
  BY DEF NoLoop
<1>2. ASSUME NEW s \in Slot, loop[s].ctx = "leader"
      PROVE  /\ WithoutLeaderContext[s] \in [at : LoopStep, ctx : LoopContext]
             /\ WithoutLeaderContext[s].ctx = "stale"
  BY <1>2 DEF WithoutLeaderContext, TypeOK, LoopContext
<1>3. ASSUME NEW s \in Slot, loop[s].ctx # "leader"
      PROVE  WithoutLeaderContext[s] = loop[s]
  BY <1>3 DEF WithoutLeaderContext
<1>4. \A s \in Slot : loop[s] \in [at : LoopStep, ctx : LoopContext]
  BY DEF TypeOK
<1>5. \A s \in Slot : WithoutLeaderContext[s] = NoLoop <=> loop[s] = NoLoop
  BY <1>1, <1>2, <1>3
<1>6. WithoutLeaderContext = [s \in Slot |-> WithoutLeaderContext[s]]
  BY DEF WithoutLeaderContext
<1>7. \A s \in Slot : WithoutLeaderContext[s] \in [at : LoopStep, ctx : LoopContext]
  BY <1>2, <1>3, <1>4
<1>8. QED
  BY <1>5, <1>6, <1>7

(* The steps by what they do to the refresh loops: one begins, one returns, *)
(* or the same loops go on.                                                 *)
LEMMA LoopsChange ==
  ASSUME TypeOK, [Next]_vars
  PROVE  /\ loop' \in [Slot -> [at : LoopStep, ctx : LoopContext]]
         /\ \/ /\ Acquired
               /\ \E s \in Slot \ Loops : Loops' = Loops \cup {s}
            \/ /\ \E s \in Slot : Loop(s)
               /\ wg' = wg - 1 /\ main' = main
               /\ \E s \in Loops : Loops' = Loops \ {s}
            \/ /\ ~Acquired
               /\ (\E s \in Slot : Loop(s)) => UNCHANGED <<wg, main>>
               /\ Loops' = Loops
<1> USE LoopsKeepRunning
<1> DEFINE ReturnsOrGoesOn(s) ==
      /\ loop' \in [Slot -> [at : LoopStep, ctx : LoopContext]]
      /\ main' = main
      /\ \/ s \in Loops /\ wg' = wg - 1 /\ Loops' = Loops \ {s}
         \/ UNCHANGED wg /\ Loops' = Loops
<1>0. /\ NoLoop.at = "none" /\ NoLoop.ctx = "none"
      /\ NoLoop \in [at : LoopStep, ctx : LoopContext]
  BY DEF NoLoop, LoopStep, LoopContext
<1>1. CASE Acquired
  <2> DEFINE s == CHOOSE t \in Free : TRUE
  <2>1. s \in Free
    BY <1>1 DEF Acquired
  <2>2. loop' = [WithoutLeaderContext EXCEPT ![s].at = "begin"]
    BY <1>1 DEF Acquired
  <2> HIDE DEF s
  <2>3. /\ loop' \in [Slot -> [at : LoopStep, ctx : LoopContext]]
        /\ loop'[s].at = "begin"
        /\ \A t \in Slot \ {s} : loop'[t] = WithoutLeaderContext[t]
    BY <2>1, <2>2 DEF Free, LoopStep
  <2>4. Loops' = Loops \cup {s}
    BY <1>0, <2>1, <2>3 DEF Loops, Free
  <2>5. QED
    BY <1>1, <2>1, <2>3, <2>4 DEF Free, Loops
<1>2. ASSUME NEW s \in Slot, Loop(s)
      PROVE  ReturnsOrGoesOn(s)
  <2>1. ASSUME NEW from \in {"refresh", "wait"}, Return(s, from)
        PROVE  ReturnsOrGoesOn(s)
    <3>1. s \in Loops /\ wg' = wg - 1 /\ main' = main
      BY <1>0, <2>1 DEF Return, LoopDone, Loops
    <3>2. /\ loop' \in [Slot -> [at : LoopStep, ctx : LoopContext]]
          /\ loop'[s] = NoLoop /\ \A t \in Slot \ {s} : loop'[t] = loop[t]
      BY <1>0, <2>1 DEF Return, TypeOK
    <3>3. QED
      BY <3>1, <3>2 DEF Loops
  <2>2. ASSUME NEW from \in {"refresh", "wait"}, NEW to \in {"refresh", "wait"},
               LoopGoesTo(s, from, to)
        PROVE  ReturnsOrGoesOn(s)
    <3>1. s \in Loops /\ UNCHANGED <<wg, main>>
      BY <1>0, <2>2 DEF LoopGoesTo, Loops
    <3>2. /\ loop' \in [Slot -> [at : LoopStep, ctx : LoopContext]]
          /\ loop'[s].at # "none" /\ \A t \in Slot \ {s} : loop'[t] = loop[t]
      BY <2>2 DEF LoopGoesTo, TypeOK, LoopStep
    <3>3. QED
      BY <1>0, <3>1, <3>2 DEF Loops
  <2>3. CASE Begin(s)
    <3>1. s \in Loops /\ UNCHANGED <<wg, main>>
      BY <1>0, <2>3 DEF Begin, Loops
    <3>2. /\ loop' \in [Slot -> [at : LoopStep, ctx : LoopContext]]
          /\ loop'[s].at = "refresh" /\ \A t \in Slot \ {s} : loop'[t] = loop[t]
      BY <2>3 DEF Begin, TypeOK, LoopStep, LoopContext
    <3>3. QED
      BY <1>0, <3>1, <3>2 DEF Loops
  <2>4. QED
    BY <1>2, <2>1, <2>2, <2>3 DEF Loop, RefreshEnds, TimerFires, ContextDone
<1>3. CASE ~Acquired /\ ~ \E s \in Slot : Loop(s)
  <2>1. loop' = loop \/ loop' = WithoutLeaderContext
    BY <1>3 DEF Next, vars, Main, Call, Initialize, InitializeEnter, InitializeStart, IsLeader,
       IsLeaderReturns, Stop, WaitDone, WaitTimesOut, StopCheck, StopRelease, StopClose,
       SyncTicker, SyncEnds, MainGoesTo, Round, Renewed, RoundFails, Exit, LockLost
  <2>2. QED
    BY <1>3, <2>1 DEF Loops, TypeOK
<1>4. ~(Acquired /\ \E s \in Slot : Loop(s))
  BY DEF Acquired, EndRound, Loop, Begin, RefreshEnds, TimerFires, ContextDone, Return, LoopGoesTo
<1>5. QED
  BY <1>1, <1>2, <1>3, <1>4

-------------------------------------------------------------------------------
(***************************************************************************)
(* The WaitGroup.                                                          *)
(***************************************************************************)
MainRuns == main \notin {"none", "exited"}

(* ddm.wg counts the main loop and the refresh loops.                       *)
Counted == wg = (IF MainRuns THEN 1 ELSE 0) + Cardinality(Loops)

(* The set of the running loops is finite, and no larger than the bound.    *)
LEMMA FewLoops ==
  ASSUME NEW S, S \subseteq Slot
  PROVE  IsFiniteSet(S) /\ Cardinality(S) \in 0..Cardinality(Slot)
<1>1. IsFiniteSet(S) /\ Cardinality(S) <= Cardinality(Slot)
  BY FS_Subset
<1>2. Cardinality(S) \in Nat /\ Cardinality(Slot) \in Nat
  BY <1>1, FS_CardinalityType
<1>3. QED
  BY <1>1, <1>2

(* A goroutine is counted before it is launched, and uncounted when it      *)
(* returns.                                                                 *)
LEMMA CountKept ==
  ASSUME TypeOK, Counted, started <=> main # "none", [Next]_vars
  PROVE  Counted'
<1>0. Loops \subseteq Slot /\ IsFiniteSet(Loops) /\ Cardinality(Loops) \in Nat
  BY FewLoops DEF Loops
<1>1. CASE Acquired
  <2>1. PICK s \in Slot \ Loops : Loops' = Loops \cup {s}
    BY <1>1, LoopsChange DEF Acquired, EndRound, Loop, Begin, RefreshEnds, TimerFires,
       ContextDone, Return, LoopGoesTo
  <2>2. Cardinality(Loops') = Cardinality(Loops) + 1
    BY <1>0, <2>1, FS_AddElement
  <2>3. wg' = wg + 1 /\ MainRuns /\ MainRuns'
    BY <1>1 DEF Acquired, EndRound, CountLoop, MainRuns
  <2>4. QED
    BY <1>0, <2>2, <2>3 DEF Counted
<1>2. CASE \E s \in Slot : Loop(s)
  <2>1. CASE wg' = wg - 1 /\ main' = main /\ \E s \in Loops : Loops' = Loops \ {s}
    <3>1. PICK s \in Loops : Loops' = Loops \ {s}
      BY <2>1
    <3>2. Cardinality(Loops') = Cardinality(Loops) - 1
      BY <1>0, <3>1, FS_RemoveElement
    <3>3. QED
      BY <1>0, <2>1, <3>2 DEF Counted, MainRuns
  <2>2. CASE UNCHANGED <<wg, main>> /\ Loops' = Loops
    BY <2>2 DEF Counted, MainRuns
  <2>3. ~Acquired
    BY <1>2 DEF Acquired, EndRound, Loop, Begin, RefreshEnds, TimerFires, ContextDone,
       Return, LoopGoesTo
  <2>4. QED
    BY <1>2, <2>1, <2>2, <2>3, LoopsChange
<1>3. CASE ~Acquired /\ ~ \E s \in Slot : Loop(s)
  <2>1. Loops' = Loops
    BY <1>3, LoopsChange
  <2>2. \/ wg' = wg /\ (MainRuns' <=> MainRuns)
        \/ wg' = wg + 1 /\ ~MainRuns /\ MainRuns'
        \/ wg' = wg - 1 /\ MainRuns /\ ~MainRuns'
    BY <1>3 DEF Next, vars, Main, Call, Initialize, InitializeEnter, InitializeStart, IsLeader,
       IsLeaderReturns, Stop, WaitDone, WaitTimesOut, StopCheck, StopRelease, StopClose,
       SyncTicker, SyncEnds, MainGoesTo, Round, Renewed, RoundFails, EndRound, Exit, LockLost,
       MainRuns
  <2>3. QED
    BY <1>0, <2>1, <2>2 DEF Counted
<1>4. QED
  BY <1>1, <1>2, <1>3

(* Start and initialized go together, and only the caller that holds hs.mu  *)
(* is about to start the service.                                           *)
Starting ==
  /\ initialized <=> started
  /\ started <=> main # "none"
  /\ \A c \in Caller : pc[c] = "start" => hsMu = c /\ ~started
  /\ ~initErr

LEMMA StartingKept ==
  ASSUME TypeOK, Starting, [Next]_vars
  PROVE  Starting'
<1>1. ASSUME NEW c \in Caller, Call(c)
      PROVE  Starting'
  <2> USE DEF Starting, TypeOK, GoesTo
  <2>1. CASE InitializeEnter(c)
    BY <2>1 DEF InitializeEnter, Locks, electionVars, history
  <2>2. CASE InitializeStart(c)
    BY <2>2 DEF InitializeStart
  <2>3. CASE Initialize(c) \/ IsLeader(c) \/ IsLeaderReturns(c)
    BY <2>3 DEF Initialize, IsLeader, IsLeaderReturns, serviceVars, history
  <2>4. CASE Stop(c) \/ WaitDone(c) \/ WaitTimesOut(c) \/ StopCheck(c) \/ StopRelease(c) \/ StopClose(c)
    BY <2>4 DEF Stop, AfterCancel, WaitDone, WaitTimesOut, StopCheck, StopRelease, AfterRelease,
       StopClose, serviceVars, history
  <2>5. QED
    BY <1>1, <2>1, <2>2, <2>3, <2>4 DEF Call
<1>2. CASE Main
  <2>1. /\ UNCHANGED <<pc, hsMu, initialized, started, initErr>>
        /\ main # "none" /\ main' # "none"
    BY <1>2 DEF Main, SyncTicker, SyncEnds, MainGoesTo, Round, Acquired, Renewed, RoundFails,
       EndRound, Exit, serviceVars, history
  <2>2. QED
    BY <2>1 DEF Starting
<1>3. CASE \E s \in Slot : Loop(s)
  BY <1>3 DEF Loop, Begin, RefreshEnds, TimerFires, ContextDone, Return, LoopGoesTo,
     serviceVars, history, Starting
<1>4. CASE LockLost \/ UNCHANGED vars
  BY <1>4 DEF LockLost, vars, serviceVars, history, Starting
<1>5. QED
  BY <1>1, <1>2, <1>3, <1>4 DEF Next

(* The types but for the counter.                                           *)
LEMMA TypesKept ==
  ASSUME TypeOK, Counted', [Next]_vars
  PROVE  TypeOK'
<1>1. loop' \in [Slot -> [at : LoopStep, ctx : LoopContext]]
  BY LoopsChange
<1>2. Loops' \subseteq Slot
  BY DEF Loops
<1>3. wg' \in 0..(1 + Cardinality(Slot))
  <2>1. Cardinality(Loops') \in 0..Cardinality(Slot) /\ Cardinality(Slot) \in Nat
    BY <1>2, FewLoops, FS_CardinalityType
  <2>2. QED
    BY <2>1 DEF Counted
<1>4. ASSUME NEW c \in Caller, Call(c)
      PROVE  TypeOK'
  BY <1>1, <1>3, <1>4 DEF TypeOK, CallStep, MainStep, Call, GoesTo, Initialize, InitializeEnter,
     Locks, InitializeStart, IsLeader, IsLeaderReturns, Stop, AfterCancel, WaitDone, WaitTimesOut,
     StopCheck, StopRelease, AfterRelease, StopClose, Close, serviceVars, electionVars, history
<1>5. CASE Main
  BY <1>1, <1>3, <1>5 DEF TypeOK, MainStep, Main, SyncTicker, SyncEnds, MainGoesTo, Round, Acquired,
     Renewed, RoundFails, EndRound, Exit, serviceVars, electionVars, history
<1>6. CASE \E s \in Slot : Loop(s)
  BY <1>1, <1>3, <1>6 DEF TypeOK, Loop, Begin, RefreshEnds, TimerFires, ContextDone, Return,
     LoopGoesTo, serviceVars, electionVars, history
<1>7. CASE LockLost \/ UNCHANGED vars
  BY <1>1, <1>3, <1>7 DEF TypeOK, LockLost, vars, serviceVars, electionVars, history
<1>8. QED
  BY <1>4, <1>5, <1>6, <1>7 DEF Next

(* Every variable has its type, and the WaitGroup counts what runs, in      *)
(* every reachable state.                                                   *)
LEMMA GoroutinesCounted == Spec => [](TypeOK /\ Counted /\ Starting)
<1>1. Init => TypeOK /\ Counted /\ Starting
  <2> SUFFICES ASSUME Init PROVE TypeOK /\ Counted /\ Starting
    OBVIOUS
  <2>1. Loops = {} /\ Cardinality({}) = 0
    BY FS_EmptySet DEF Init, Loops
  <2>2. Counted
    BY <2>1 DEF Init, Counted, MainRuns
  <2>3. NoLoop \in [at : LoopStep, ctx : LoopContext]
    BY DEF NoLoop, LoopStep, LoopContext
  <2>4. Cardinality(Slot) \in Nat
    BY FS_CardinalityType
  <2>5. TypeOK
    <3>1. wg \in 0..(1 + Cardinality(Slot))
      BY <2>4 DEF Init
    <3>2. loop \in [Slot -> [at : LoopStep, ctx : LoopContext]]
      BY <2>3 DEF Init
    <3>3. /\ {initialized, started, cancelled, isLeader, leaderCtx, owner, closed} \subseteq BOOLEAN
          /\ {initErr, gone, hasty, refused} \subseteq BOOLEAN
      BY DEF Init
    <3>4. /\ pc \in [Caller -> CallStep] /\ hsMu \in Caller \cup {Nobody}
          /\ mu \in {"main", Nobody} /\ main \in MainStep
      BY DEF Init, CallStep, MainStep
    <3>5. QED
      BY <3>1, <3>2, <3>3, <3>4 DEF TypeOK
  <2>6. Starting
    BY DEF Init, Starting
  <2>7. QED
    BY <2>2, <2>5, <2>6
<1>2. TypeOK /\ Counted /\ Starting /\ [Next]_vars => (TypeOK /\ Counted /\ Starting)'
  <2> SUFFICES ASSUME TypeOK, Counted, Starting, [Next]_vars
               PROVE  (TypeOK /\ Counted /\ Starting)'
    OBVIOUS
  <2>1. Counted'
    BY CountKept DEF Starting
  <2>2. QED
    BY <2>1, TypesKept, StartingKept
<1>3. QED
  BY <1>1, <1>2, PTL DEF Spec

(* Every variable has its type, and the WaitGroup never goes below zero.    *)
THEOREM LifecycleTypeCorrect == Spec => []TypeOK
BY GoroutinesCounted, PTL

(* No Initialize fails, however many callers initialize at the same time.   *)
THEOREM InitializationSucceeds == Spec => []InitializeSucceeds
<1>1. Starting => InitializeSucceeds
  BY DEF Starting, InitializeSucceeds
<1>2. QED
  BY <1>1, GoroutinesCounted, PTL

-------------------------------------------------------------------------------
(***************************************************************************)
(* Stop.                                                                   *)
(***************************************************************************)

(* Once the goroutines are gone, no step of theirs is possible.             *)
LEMMA GoneForGood ==
  ASSUME TypeOK, main = "exited", Loops = {}, started, [Next]_vars
  PROVE  /\ main' = "exited" /\ Loops' = {}
         /\ isLeader' = isLeader
         /\ owner' => owner
<1>1. ~ \E s \in Slot : Loop(s)
  <2> SUFFICES ASSUME NEW s \in Slot, Loop(s) PROVE FALSE
    OBVIOUS
  <2>1. loop[s].at = "none"
    BY DEF Loops, NoLoop
  <2>2. QED
    BY <2>1 DEF Loop, Begin, RefreshEnds, TimerFires, ContextDone, Return, LoopGoesTo
<1>2. ~Main
  BY DEF Main, SyncTicker, SyncEnds, MainGoesTo, Round, Acquired, Renewed, RoundFails,
     EndRound, Exit
<1>3. Loops' = {}
  BY <1>1, <1>2, LoopsChange DEF Main
<1>4. ASSUME NEW c \in Caller, Call(c)
      PROVE  main' = main /\ isLeader' = isLeader /\ (owner' => owner)
  <2>1. CASE StopRelease(c)
    <3>1. UNCHANGED <<main, isLeader>> /\ owner' \in {FALSE, owner, owner /\ closed}
      BY <2>1 DEF StopRelease
    <3>2. QED
      BY <3>1
  <2>2. CASE InitializeStart(c)
    BY <2>2 DEF InitializeStart, electionVars
  <2>3. CASE ~StopRelease(c) /\ ~InitializeStart(c)
    <3>1. UNCHANGED <<main, isLeader, owner>>
      BY <1>4, <2>3 DEF Call, Initialize, InitializeEnter, IsLeader, IsLeaderReturns, Stop,
         WaitDone, WaitTimesOut, StopCheck, StopClose, electionVars
    <3>2. QED
      BY <3>1
  <2>4. QED
    BY <2>1, <2>2, <2>3
<1>5. CASE LockLost \/ UNCHANGED vars
  BY <1>3, <1>5 DEF LockLost, vars, electionVars
<1>6. QED
  BY <1>1, <1>2, <1>3, <1>4, <1>5 DEF Next

(* A Stop that finds the counter at zero finds no goroutine.                *)
LEMMA ZeroMeansGone ==
  ASSUME TypeOK, Counted, Starting, wg = 0, started
  PROVE  main = "exited" /\ Loops = {}
<1>1. IsFiniteSet(Loops) /\ Cardinality(Loops) \in Nat
  BY FewLoops DEF Loops
<1>2. ~MainRuns /\ Cardinality(Loops) = 0
  BY <1>1 DEF Counted
<1>3. QED
  BY <1>1, <1>2, FS_EmptySet DEF MainRuns, Starting

(* gone, and what it means.                                                 *)
Gone == gone => started /\ main = "exited" /\ Loops = {}

LEMMA GoneKept ==
  ASSUME TypeOK, Counted, Starting, Gone, [Next]_vars
  PROVE  Gone'
<1>1. started => started'
  BY DEF Next, vars, Main, Call, Initialize, InitializeEnter, InitializeStart, IsLeader,
     IsLeaderReturns, Stop, WaitDone, WaitTimesOut, StopCheck, StopRelease, StopClose, SyncTicker,
     SyncEnds, MainGoesTo, Round, Acquired, Renewed, RoundFails, Exit, LockLost, Loop, Begin,
     RefreshEnds, TimerFires, ContextDone, Return, LoopGoesTo, serviceVars
<1>2. gone' => gone \/ (wg = 0 /\ started)
  BY DEF Next, vars, Main, Call, Initialize, InitializeEnter, InitializeStart, IsLeader,
     IsLeaderReturns, Stop, WaitDone, WaitTimesOut, StopCheck, StopRelease, StopClose, SyncTicker,
     SyncEnds, MainGoesTo, Round, Acquired, Renewed, RoundFails, Exit, LockLost, Loop, Begin,
     RefreshEnds, TimerFires, ContextDone, Return, LoopGoesTo, history
<1>3. CASE gone'
  <2>1. started /\ main = "exited" /\ Loops = {}
    BY <1>2, <1>3, ZeroMeansGone DEF Gone
  <2>2. QED
    BY <1>1, <2>1, GoneForGood DEF Gone
<1>4. QED
  BY <1>3 DEF Gone

LEMMA GoneHolds == Spec => []Gone
<1>1. Init => Gone
  BY DEF Init, Gone
<1>2. TypeOK /\ Counted /\ Starting /\ Gone /\ [Next]_vars => Gone'
  BY GoneKept
<1>3. QED
  BY <1>1, <1>2, GoroutinesCounted, PTL DEF Spec

(* "All goroutines stopped gracefully": after a Stop that did not time out  *)
(* there is no main loop and no refresh loop, and there never is again.     *)
THEOREM NothingIsLeft == Spec => []NothingLeft
<1>1. Gone => NothingLeft
  BY DEF Gone, NothingLeft
<1>2. QED
  BY <1>1, GoneHolds, PTL

(* While no Stop has been hasty or refused, a Stop gets past its wait only  *)
(* when the goroutines are gone; from then on isLeader stands still, and a  *)
(* lock that it tells of is released before the client is closed.           *)
Releasing ==
  ~hasty /\ ~refused =>
    /\ \A c \in Caller : pc[c] \in {"check", "release", "close"} => gone
    /\ closed => gone
    /\ \A c \in Caller : pc[c] = "close" /\ isLeader => ~owner
    /\ closed /\ isLeader => ~owner

LEMMA ReleasingKept ==
  ASSUME TypeOK, Gone, Releasing, [Next]_vars
  PROVE  Releasing'
<1>1. gone => isLeader' = isLeader /\ (owner' => owner)
  BY GoneForGood DEF Gone
<1>2. ASSUME NEW c \in Caller, Call(c)
      PROVE  Releasing'
  <2> USE DEF Releasing, TypeOK, GoesTo
  <2>1. CASE Initialize(c) \/ InitializeEnter(c) \/ InitializeStart(c) \/ IsLeader(c) \/ IsLeaderReturns(c)
    BY <2>1 DEF Initialize, InitializeEnter, Locks, InitializeStart, IsLeader, IsLeaderReturns,
       electionVars, history
  <2>2. CASE Stop(c) \/ WaitDone(c) \/ WaitTimesOut(c)
    BY <2>2 DEF Stop, AfterCancel, WaitDone, WaitTimesOut, electionVars, history
  <2>3. CASE StopCheck(c)
    BY <2>3 DEF StopCheck, electionVars, history
  <2>4. CASE StopRelease(c)
    BY <2>4 DEF StopRelease, AfterRelease, history
  <2>5. CASE StopClose(c)
    BY <2>5 DEF StopClose, Close, electionVars, history
  <2>6. QED
    BY <1>2, <2>1, <2>2, <2>3, <2>4, <2>5 DEF Call
<1>3. CASE Main \/ (\E s \in Slot : Loop(s)) \/ LockLost \/ UNCHANGED vars
  <2>1. UNCHANGED <<pc, closed, hasty, refused, gone>>
    BY <1>3 DEF Main, SyncTicker, SyncEnds, MainGoesTo, Round, Acquired, Renewed, RoundFails,
       Exit, Loop, Begin, RefreshEnds, TimerFires, ContextDone, Return, LoopGoesTo, LockLost,
       vars, history
  <2>2. QED
    BY <1>1, <2>1 DEF Releasing
<1>4. QED
  BY <1>2, <1>3 DEF Next

(* "Releases leadership on stop", however many Stops run at the same time.  *)
THEOREM LockIsGivenBack == Spec => []LockGivenBack
<1>1. Init => Releasing
  BY DEF Init, Releasing
<1>2. TypeOK /\ Gone /\ Releasing /\ [Next]_vars => Releasing'
  BY ReleasingKept
<1>3. Releasing => LockGivenBack
  BY DEF Releasing, LockGivenBack
<1>4. QED
  BY <1>1, <1>2, <1>3, LifecycleTypeCorrect, GoneHolds, PTL DEF Spec

-------------------------------------------------------------------------------
(***************************************************************************)
(* A service that is stopped before it is initialized.                     *)
(***************************************************************************)

(* The context is cancelled by a Stop, which goes on until it has closed    *)
(* the client; a pod without a main loop does not lead.                     *)
StopCloses ==
  /\ cancelled => closed \/ \E c \in Caller : pc[c] \in {"wait", "check", "release", "close"}
  /\ main = "none" => ~isLeader

LEMMA StopClosesKept ==
  ASSUME TypeOK, StopCloses, [Next]_vars
  PROVE  StopCloses'
<1> DEFINE Stopping(c) == pc[c] \in {"wait", "check", "release", "close"}
<1>1. closed => closed'
  BY DEF Next, vars, Main, Call, Initialize, InitializeEnter, InitializeStart, IsLeader,
     IsLeaderReturns, Stop, WaitDone, WaitTimesOut, StopCheck, StopRelease, StopClose, Close,
     SyncTicker, SyncEnds, MainGoesTo, Round, Acquired, Renewed, RoundFails, Exit, LockLost, Loop,
     Begin, RefreshEnds, TimerFires, ContextDone, Return, LoopGoesTo
<1>2. ASSUME NEW c \in Caller, Call(c)
      PROVE  /\ \A d \in Caller \ {c} : pc'[d] = pc[d]
             /\ Stopping(c) => closed' \/ Stopping(c)'
             /\ cancelled' => cancelled \/ Stopping(c)'
             /\ isLeader' = isLeader /\ (main' = "none" => main = "none")
  BY <1>2 DEF TypeOK, Call, GoesTo, Initialize, InitializeEnter, InitializeStart, IsLeader,
     IsLeaderReturns, Stop, AfterCancel, WaitDone, WaitTimesOut, StopCheck, StopRelease,
     AfterRelease, StopClose, Close, electionVars
<1>3. CASE Main \/ (\E s \in Slot : Loop(s)) \/ LockLost \/ UNCHANGED vars
  <2>1. /\ UNCHANGED <<pc, cancelled>>
        /\ main' = "none" => main = "none" /\ isLeader' = isLeader
    BY <1>3 DEF Main, SyncTicker, SyncEnds, MainGoesTo, Round, Acquired, Renewed, RoundFails,
       EndRound, Exit, Loop, Begin, RefreshEnds, TimerFires, ContextDone, Return, LoopGoesTo,
       LockLost, vars, electionVars
  <2>2. QED
    BY <1>1, <2>1 DEF StopCloses
<1>4. QED
  BY <1>1, <1>2, <1>3 DEF Next, StopCloses

(* Initialize after Stop starts a main loop that never leads: by then every *)
(* Stop has closed the client, and no lock is acquired through it.          *)
THEOREM NeverLeadsAfterStop == Spec => StoppedFirstNeverLeads
<1> DEFINE ClosedOut == closed /\ ~isLeader
<1>1. Init => StopCloses
  BY DEF Init, StopCloses
<1>2. TypeOK /\ StopCloses /\ [Next]_vars => StopCloses'
  BY StopClosesKept
<1>3. StopCloses /\ StoppedFirst => ClosedOut
  BY DEF StopCloses, StoppedFirst
<1>4. ClosedOut /\ [Next]_vars => ClosedOut'
  <2> SUFFICES ASSUME closed, ~isLeader, [Next]_vars PROVE ClosedOut'
    OBVIOUS
  <2>1. ASSUME NEW c \in Caller, Call(c)
        PROVE  closed' /\ isLeader' = isLeader
    BY <2>1 DEF Call, Initialize, InitializeEnter, InitializeStart, IsLeader, IsLeaderReturns,
       Stop, WaitDone, WaitTimesOut, StopCheck, StopRelease, StopClose, Close, electionVars
  <2>2. CASE Main
    <3>1. ~Acquired
      BY DEF Acquired
    <3>2. closed' = closed /\ (isLeader' = isLeader \/ ~isLeader')
      BY <2>2, <3>1 DEF Main, SyncTicker, SyncEnds, MainGoesTo, Round, Renewed, RoundFails,
         Exit, electionVars
    <3>3. QED
      BY <3>2
  <2>3. CASE (\E s \in Slot : Loop(s)) \/ LockLost \/ UNCHANGED vars
    <3>1. UNCHANGED <<closed, isLeader>>
      BY <2>3 DEF Loop, Begin, RefreshEnds, TimerFires, ContextDone, Return, LoopGoesTo, LockLost,
         vars, electionVars
    <3>2. QED
      BY <3>1
  <2>4. QED
    BY <2>1, <2>2, <2>3 DEF Next
<1>5. ClosedOut => ~isLeader
  OBVIOUS
<1> HIDE DEF ClosedOut
<1>6. QED
  BY <1>1, <1>2, <1>3, <1>4, <1>5, LifecycleTypeCorrect, PTL DEF Spec, StoppedFirstNeverLeads

===============================================================================
