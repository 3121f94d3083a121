---------------------------- MODULE ServiceLifecycle ----------------------------
(***************************************************************************)
(* The life of the service in one pod: the goroutines of the application   *)
(* that call Initialize, Stop and IsLeader, in any order and at the same   *)
(* time; the main loop that Initialize starts; the refresh loops that the  *)
(* main loop starts; and what they share: three mutexes, a WaitGroup, a    *)
(* context, isLeader and the Redis client.                                 *)
(*                                                                         *)
(* What the loops do to the data is in DistributedData, and what becomes   *)
(* of commands that are lost or late is in LeaderElection: here a call to  *)
(* Redis is made, or fails.  startMu is held within one step only.         *)
(***************************************************************************)
EXTENDS Integers, FiniteSets

CONSTANTS
  Caller,    \* the goroutines of the application
  Slot,      \* the refresh loops that run at a time (bound)
  Nobody     \* the holder of a free mutex

ASSUME LifecycleAssumption == Nobody \notin Caller /\ IsFiniteSet(Slot)

VARIABLES
  pc,           \* where the call of each caller is, see CallStep
  hsMu,         \* who holds hs.mu for writing
  initialized,  \* hs.initialized
  started,      \* ddm.started
  cancelled,    \* whether ddm.ctx is cancelled
  wg,           \* the counter of ddm.wg
  mu,           \* who holds ddm.mu for writing
  isLeader,     \* ddm.isLeader
  leaderCtx,    \* whether ddm.leaderCtx is set
  main,         \* where the main loop is, see MainStep
  loop,         \* where each refresh loop is, and the context it waits on
  owner,        \* whether the leader lock in Redis is held by this pod
  closed,       \* whether the Redis client is closed
  initErr,      \* history: an Initialize has returned an error
  gone,         \* history: a Stop has waited for all goroutines of a started service
  hasty,        \* history: a Stop has gone on before Start or before they were gone
  refused       \* history: a Stop has failed to release through an open client

serviceVars == <<hsMu, initialized, started>>
electionVars == <<mu, isLeader, leaderCtx, owner>>
history == <<initErr, gone, hasty, refused>>
vars == <<pc, serviceVars, cancelled, wg, electionVars, main, loop, closed, history>>

CallStep == {"idle", "init", "start", "wait", "check", "release", "close", "isLeader"}
MainStep == {"none", "boot", "command", "select", "sync", "exited"}
LoopStep == {"none", "begin", "refresh", "wait"}

(* A loop waits on the leader context, on one that is cancelled already, or *)
(* on the context of the service.                                           *)
LoopContext == {"none", "leader", "stale", "service"}

NoLoop == [at |-> "none", ctx |-> "none"]

Init ==
  /\ pc = [c \in Caller |-> "idle"]
  /\ hsMu = Nobody /\ mu = Nobody
  /\ initialized = FALSE /\ started = FALSE /\ cancelled = FALSE /\ closed = FALSE
  /\ isLeader = FALSE /\ leaderCtx = FALSE /\ owner = FALSE
  /\ wg = 0
  /\ main = "none"
  /\ loop = [s \in Slot |-> NoLoop]
  /\ initErr = FALSE /\ gone = FALSE /\ hasty = FALSE /\ refused = FALSE

GoesTo(c, step) == pc' = [pc EXCEPT ![c] = step]

-------------------------------------------------------------------------------
(***************************************************************************)
(* Initialize.                                                             *)
(***************************************************************************)
Initialize(c) ==
  /\ pc[c] = "idle"
  /\ GoesTo(c, "init")
  /\ UNCHANGED <<serviceVars, cancelled, wg, electionVars, main, loop, closed, history>>

\* Seeded fault: initialized is looked at without the mutex.
LocksUnlocked(c) == UNCHANGED hsMu

Locks(c) == hsMu = Nobody /\ hsMu' = c

\* hs.mu is taken, and given back at once when there is nothing to do.
InitializeEnter(c) ==
  /\ pc[c] = "init"
  /\ IF initialized
     THEN hsMu = Nobody /\ GoesTo(c, "idle") /\ UNCHANGED hsMu
     ELSE Locks(c) /\ GoesTo(c, "start")
  /\ UNCHANGED <<initialized, started, cancelled, wg, electionVars, main, loop, closed, history>>

(* DistributedDataManager.Start refuses to start twice; otherwise it counts *)
(* and launches the main loop.  Initialize sets initialized and returns, or *)
(* returns the error.                                                       *)
InitializeStart(c) ==
  /\ pc[c] = "start"
  /\ IF started
     THEN initErr' = TRUE /\ UNCHANGED <<initialized, started, wg, main>>
     ELSE /\ initialized' = TRUE
          /\ started' = TRUE
          /\ wg' = wg + 1
          /\ main' = "boot"
          /\ UNCHANGED initErr
  /\ hsMu' = Nobody
  /\ GoesTo(c, "idle")
  /\ UNCHANGED <<cancelled, electionVars, loop, closed, gone, hasty, refused>>

-------------------------------------------------------------------------------
(***************************************************************************)
(* IsLeader takes ddm.mu for reading, as the loops do.                     *)
(***************************************************************************)
IsLeader(c) ==
  /\ pc[c] = "idle"
  /\ GoesTo(c, "isLeader")
  /\ UNCHANGED <<serviceVars, cancelled, wg, electionVars, main, loop, closed, history>>

IsLeaderReturns(c) ==
  /\ pc[c] = "isLeader"
  /\ mu = Nobody
  /\ GoesTo(c, "idle")
  /\ UNCHANGED <<serviceVars, cancelled, wg, electionVars, main, loop, closed, history>>

-------------------------------------------------------------------------------
(***************************************************************************)
(* The leader context.                                                     *)
(***************************************************************************)

\* cancelLeaderContext, as seen by the loops that wait on it.
WithoutLeaderContext ==
  [s \in Slot |-> IF loop[s].ctx = "leader" THEN [loop[s] EXCEPT !.ctx = "stale"] ELSE loop[s]]

\* A leader context is derived from ddm.ctx and is cancelled with it.
Done(ctx) == cancelled \/ ctx = "stale"

-------------------------------------------------------------------------------
(***************************************************************************)
(* Stop, which any caller may call at any time.                            *)
(***************************************************************************)

\* Seeded fault: a second Stop leaves the waiting and releasing to the first.
AfterCancelOnce == IF cancelled THEN "close" ELSE "wait"

AfterCancel == "wait"

Stop(c) ==
  /\ pc[c] = "idle"
  /\ cancelled' = TRUE
  /\ GoesTo(c, AfterCancel)
  /\ UNCHANGED <<serviceVars, wg, electionVars, main, loop, closed, history>>

\* wg.Wait returns.
WaitDone(c) ==
  /\ pc[c] = "wait"
  /\ wg = 0
  /\ GoesTo(c, "check")
  /\ gone' = (gone \/ started)
  /\ hasty' = (hasty \/ ~started)
  /\ UNCHANGED <<serviceVars, cancelled, wg, electionVars, main, loop, closed, initErr, refused>>

\* The ten seconds run out.
WaitTimesOut(c) ==
  /\ pc[c] = "wait"
  /\ wg # 0
  /\ GoesTo(c, "check")
  /\ hasty' = TRUE
  /\ UNCHANGED <<serviceVars, cancelled, wg, electionVars, main, loop, closed, initErr, gone, refused>>

StopCheck(c) ==
  /\ pc[c] = "check"
  /\ mu = Nobody
  /\ GoesTo(c, IF isLeader THEN "release" ELSE "close")
  /\ UNCHANGED <<serviceVars, cancelled, wg, electionVars, main, loop, closed, history>>

\* Seeded fault: a release that fails is tried again until it succeeds.
AfterReleaseRetried == IF closed THEN "release" ELSE "close"

AfterRelease == "close"

(* releaseLeadership: the lock is deleted if it is ours.  A call that fails, *)
(* as it must once the client is closed, is logged and Stop goes on; if the *)
(* client is open it may have deleted the lock all the same.                *)
StopRelease(c) ==
  /\ pc[c] = "release"
  /\ GoesTo(c, AfterRelease)
  /\ leaderCtx' = FALSE
  /\ loop' = WithoutLeaderContext
  /\ \/ ~closed /\ owner' = FALSE /\ UNCHANGED refused
     \/ owner' \in {owner, owner /\ closed} /\ refused' = (refused \/ ~closed)
  /\ UNCHANGED <<serviceVars, cancelled, wg, mu, isLeader, main, closed, initErr, gone, hasty>>

\* Seeded fault: the client stays open.
CloseNothing == UNCHANGED closed

Close == closed' = TRUE

StopClose(c) ==
  /\ pc[c] = "close"
  /\ GoesTo(c, "idle")
  /\ Close
  /\ UNCHANGED <<serviceVars, cancelled, wg, electionVars, main, loop, history>>

-------------------------------------------------------------------------------
(***************************************************************************)
(* The main loop.                                                          *)
(***************************************************************************)
MainGoesTo(from, to) ==
  /\ main = from
  /\ main' = to
  /\ UNCHANGED <<pc, serviceVars, cancelled, wg, electionVars, loop, closed, history>>

\* A follower syncs.
SyncTicker == mu = Nobody /\ ~isLeader /\ MainGoesTo("select", "sync")

SyncEnds == MainGoesTo("sync", "select")

(* performLeaderElection holds ddm.mu while it calls Redis.  The first      *)
(* round follows the first sync, whatever has become of the context.        *)
Round ==
  /\ main \in {"boot", "select"}
  /\ mu = Nobody
  /\ main' = "command"
  /\ mu' = "main"
  /\ UNCHANGED <<pc, serviceVars, cancelled, wg, isLeader, leaderCtx, owner, loop, closed, history>>

Free == {s \in Slot : loop[s] = NoLoop}

EndRound == main = "command" /\ main' = "select"

\* Seeded fault: the new loop is not counted.
CountNoLoop == UNCHANGED wg

CountLoop == wg' = wg + 1

\* AcquireLeaderLock succeeds: a new context and a new loop.
Acquired ==
  /\ EndRound
  /\ ~isLeader
  /\ ~closed
  /\ ~owner
  /\ Free # {}
  /\ owner' = TRUE
  /\ mu' = Nobody
  /\ isLeader' = TRUE
  /\ leaderCtx' = TRUE
  /\ CountLoop
  /\ loop' = [WithoutLeaderContext EXCEPT ![CHOOSE s \in Free : TRUE].at = "begin"]
  /\ UNCHANGED <<pc, serviceVars, cancelled, closed, history>>

Renewed ==
  /\ EndRound
  /\ isLeader
  /\ ~closed
  /\ owner
  /\ mu' = Nobody
  /\ UNCHANGED <<pc, serviceVars, cancelled, wg, isLeader, leaderCtx, owner, loop, closed, history>>

(* The lock is not to be had, or the call fails: always once the client is  *)
(* closed, and at any other time.  A leader becomes a follower.             *)
RoundFails ==
  /\ EndRound
  /\ mu' = Nobody
  /\ isLeader' = FALSE
  /\ leaderCtx' = IF isLeader THEN FALSE ELSE leaderCtx
  /\ loop' = IF isLeader THEN WithoutLeaderContext ELSE loop
  /\ UNCHANGED <<pc, serviceVars, cancelled, wg, owner, closed, history>>

\* The select sees that the context is cancelled; wg.Done is deferred.
Exit ==
  /\ main = "select"
  /\ cancelled
  /\ main' = "exited"
  /\ wg' = wg - 1
  /\ UNCHANGED <<pc, serviceVars, cancelled, electionVars, loop, closed, history>>

-------------------------------------------------------------------------------
(***************************************************************************)
(* A refresh loop.                                                         *)
(***************************************************************************)
LoopGoesTo(s, from, to) ==
  /\ loop[s].at = from
  /\ loop' = [loop EXCEPT ![s].at = to]
  /\ UNCHANGED <<pc, serviceVars, cancelled, wg, electionVars, main, closed, history>>

\* Seeded fault: this return forgets wg.Done.
LoopDoneOnceWaiting(from) == wg' = IF from = "wait" THEN wg - 1 ELSE wg

\* Seeded fault: a return that calls wg.Done and then runs the deferred one.
LoopDoneTwice(from) == wg' = IF from = "wait" THEN wg - 2 ELSE wg - 1

\* The deferred wg.Done, wherever the loop returns from.
LoopDone(from) == wg' = wg - 1

Return(s, from) ==
  /\ loop[s].at = from
  /\ loop' = [loop EXCEPT ![s] = NoLoop]
  /\ LoopDone(from)
  /\ UNCHANGED <<pc, serviceVars, cancelled, electionVars, main, closed, history>>

(* The loop asks for the leader context after it has been scheduled, and    *)
(* gets the one of the service if there is none.                            *)
Begin(s) ==
  /\ loop[s].at = "begin"
  /\ loop' = [loop EXCEPT ![s] = [at |-> "refresh", ctx |-> IF leaderCtx THEN "leader" ELSE "service"]]
  /\ UNCHANGED <<pc, serviceVars, cancelled, wg, electionVars, main, closed, history>>

(* refreshDataIfNeeded ends, its calls answered or failed, and the loop     *)
(* asks IsLeader.                                                           *)
RefreshEnds(s) ==
  /\ mu = Nobody
  /\ IF isLeader THEN LoopGoesTo(s, "refresh", "wait") ELSE Return(s, "refresh")

\* The timer fires, and the loop asks IsLeader again before it refreshes.
TimerFires(s) ==
  /\ mu = Nobody
  /\ IF isLeader THEN LoopGoesTo(s, "wait", "refresh") ELSE Return(s, "wait")

ContextDone(s) == Done(loop[s].ctx) /\ Return(s, "wait")

-------------------------------------------------------------------------------
\* The lock expires, or Redis drops it; other pods may take it, or not.
LockLost ==
  /\ owner
  /\ owner' = FALSE
  /\ UNCHANGED <<pc, serviceVars, cancelled, wg, mu, isLeader, leaderCtx, main, loop, closed, history>>

Call(c) ==
  \/ Initialize(c) \/ InitializeEnter(c) \/ InitializeStart(c)
  \/ IsLeader(c) \/ IsLeaderReturns(c)
  \/ Stop(c) \/ WaitDone(c) \/ WaitTimesOut(c) \/ StopCheck(c) \/ StopRelease(c) \/ StopClose(c)

Main == SyncTicker \/ SyncEnds \/ Round \/ Acquired \/ Renewed \/ RoundFails \/ Exit

Loop(s) == Begin(s) \/ RefreshEnds(s) \/ TimerFires(s) \/ ContextDone(s)

Next ==
  \/ \E c \in Caller : Call(c)
  \/ Main
  \/ \E s \in Slot : Loop(s)
  \/ LockLost

Spec == Init /\ [][Next]_vars

(* Goroutines run, calls end, and a wait of Stop ends.                      *)
Proceeds(c) ==
  \/ InitializeEnter(c) \/ InitializeStart(c)
  \/ WaitDone(c) \/ WaitTimesOut(c) \/ StopCheck(c) \/ StopRelease(c) \/ StopClose(c)

(* A reader that waits for a mutex that is free again and again gets it (a  *)
(* Go mutex does not starve it), and a select that finds the context        *)
(* cancelled again and again returns sometime.                              *)
Fairness ==
  /\ \A c \in Caller : WF_vars(Proceeds(c)) /\ SF_vars(IsLeaderReturns(c))
  /\ WF_vars(main = "boot" /\ Round)
  /\ WF_vars(SyncEnds)
  /\ WF_vars(Acquired \/ Renewed \/ RoundFails)
  /\ SF_vars(Exit)
  /\ \A s \in Slot :
       /\ WF_vars(Begin(s) \/ RefreshEnds(s))
       /\ SF_vars(ContextDone(s))

FairSpec == Spec /\ Fairness

-------------------------------------------------------------------------------
(***************************************************************************)
(* Properties.                                                             *)
(***************************************************************************)
Loops == {s \in Slot : loop[s] # NoLoop}

\* The type of every variable; the counter of a WaitGroup is never negative.
TypeOK ==
  /\ pc \in [Caller -> CallStep]
  /\ hsMu \in Caller \cup {Nobody}
  /\ wg \in 0..(1 + Cardinality(Slot))
  /\ mu \in {"main", Nobody}
  /\ main \in MainStep
  /\ loop \in [Slot -> [at : LoopStep, ctx : LoopContext]]
  /\ {initialized, started, cancelled, isLeader, leaderCtx, owner, closed} \subseteq BOOLEAN
  /\ {initErr, gone, hasty, refused} \subseteq BOOLEAN

(* Callers that initialize the service at the same time all succeed, and    *)
(* one of them starts it.                                                   *)
InitializeSucceeds == ~initErr

(* "All goroutines stopped gracefully": once a Stop has waited for a        *)
(* service that had been started, none is left and none comes back, though  *)
(* the main loop adds to the WaitGroup while Stop waits for it.             *)
NothingLeft == gone => main = "exited" /\ Loops = {}

(* "Releases leadership on stop", however many Stops run at the same time:  *)
(* when one has closed the client, the lock of a pod that leads is given    *)
(* back, if none of them went on before the goroutines were gone, and none  *)
(* had its release fail while the client was open: a release that fails     *)
(* because another Stop has closed the client is no excuse.  (After a       *)
(* renewal that failed the pod does not lead, and may leave a lock behind.) *)
LockGivenBack == closed /\ ~hasty /\ ~refused /\ isLeader => ~owner

\* Every Stop that was called has returned, and Initialize has yet to start.
StoppedFirst ==
  /\ cancelled /\ main = "none"
  /\ \A c \in Caller : pc[c] \notin {"wait", "check", "release", "close"}

(* A service that was stopped before it was initialized never leads, though *)
(* Initialize still starts the main loop, which runs one round.             *)
StoppedFirstNeverLeads == [](StoppedFirst => []~isLeader)

\* Every call returns, whoever else calls, and whatever Redis does.
CallsReturn == \A c \in Caller : []<>(pc[c] = "idle")

\* After Stop the goroutines end, those included that were started meanwhile.
GoroutinesEnd == <>[](cancelled => wg = 0)

=================================================================================
