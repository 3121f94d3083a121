---------------------------- MODULE DistributedData ----------------------------
(***************************************************************************)
(* How rates and payment terms travel from the external API to the memory  *)
(* of every pod: the refresh loops that a leader runs, the three data keys *)
(* in Redis, and the sync that every other pod runs.  Who leads is left to *)
(* Leadership, which LeaderElection implements; time is abstracted to the  *)
(* revision up to which rates are due for a refresh.                       *)
(*                                                                         *)
(* A refresh loop is a goroutine of its own.  It learns that leadership is *)
(* lost from its context and from IsLeader, but looks at them only between *)
(* refreshes, so it may outlive the period it was started for.             *)
(*                                                                         *)
(* An attempt to SET a key may be left behind: its reply does not come in  *)
(* time, go-redis sends the command again or gives up, or the process dies *)
(* while it waits.  What was left behind may run at any later moment.      *)
(***************************************************************************)
EXTENDS Integers, FiniteSets

CONSTANTS
  Pod,            \* the pods
  Slot,           \* the refresh loops a pod may have at a time (bound)
  MaxRev,         \* the last revision of the rates that the API publishes (bound)
  MaxTerms,       \* the last version of the terms that the API publishes (bound)
  Kinds,          \* the kinds of answer the rates API gives
  Evictable,      \* the data keys that Redis may evict or expire
  Mortal,         \* the pods that may crash
  MayFail,        \* whether calls to the API and to Redis may fail
  MaxLate,        \* how many SETs that were left behind may be under way (bound)
  PeriodsOverlap  \* whether a pod may become leader while a loop of an earlier
                  \* leadership period still runs, on any pod (bound)

(* What DumpRates makes of an answer: "ok" and "empty", an answer without   *)
(* pairs, are loaded; "undated" has a date that does not parse, and         *)
(* "failed" has isSuccessful = false and no revision.                       *)
Kind == {"ok", "empty", "undated", "failed"}
Key == {"version", "rates", "terms"}

ASSUME DataAssumption ==
  /\ Slot # {}
  /\ MaxRev \in Nat \ {0}
  /\ MaxTerms \in Nat
  /\ Kinds \subseteq Kind
  /\ Evictable \subseteq Key
  /\ Mortal \subseteq Pod
  /\ MayFail \in BOOLEAN
  /\ MaxLate \in Nat
  /\ PeriodsOverlap \in BOOLEAN

VARIABLES
  isLeader,     \* ddm.isLeader of each pod
  leaderCtx,    \* whether ddm.leaderCtx of the pod is set
  main,         \* where the main loop of the pod is
  got,          \* the envelope that a sync has read from Redis
  gotTerms,     \* the terms that a sync has read from Redis
  memRates,     \* the envelope last loaded into the memory cache
  memTerms,     \* the version of the terms in the memory cache
  pc,           \* where each refresh loop is; "none" where there is none
  ctx,          \* the context that the loop waits on
  env,          \* the envelope that the loop has fetched
  terms,        \* the version of the terms that the loop has fetched
  ratesBackup,  \* hedging:rates_backup
  termsBackup,  \* hedging:terms_backup
  version,      \* hedging:data_version
  late,         \* the SETs that were left behind and may still run; of equal
                \* ones one is kept (bound)
  latest,       \* the revision of the rates that the API has now
  latestTerms,  \* the version of the terms that the API has now
  staleUpTo     \* rates of this revision and before are due for a refresh

podVars == <<isLeader, leaderCtx>>
syncVars == <<main, got, gotTerms>>
memVars == <<memRates, memTerms>>
loopVars == <<pc, ctx, env, terms>>
redisVars == <<ratesBackup, termsBackup, version, late>>
apiVars == <<latest, latestTerms, staleUpTo>>
vars == <<podVars, syncVars, memVars, loopVars, redisVars, apiVars>>

Loop == Pod \X Slot

NoRates == [rev |-> 0, kind |-> "none"]
NoTerms == 0
NoVersion == -1

MainStep == {"down", "idle", "sync", "getRates", "loadRates", "getTerms", "loadTerms"}

Fetching == {"fetchRates", "fetchTerms"}
Refreshing == Fetching \cup {"storeRates", "dumpRates", "setVersion", "storeTerms", "dumpTerms"}
LoopStep == {"none", "start", "head", "wait"} \cup Refreshing

\* The context a loop waits on: ddm.ctx, or a leader context, cancelled or not.
Context == {"main", "live", "cancelled"}

Envelope == [rev : 0..MaxRev, kind : Kind]

\* A SET of one of the data keys.
Command ==
  [key : {"rates"}, env : Envelope \cup {NoRates}]
    \cup [key : {"version"}, rev : 0..MaxRev]
    \cup [key : {"terms"}, terms : 0..MaxTerms]

Init ==
  /\ isLeader = [p \in Pod |-> FALSE] /\ leaderCtx = [p \in Pod |-> FALSE]
  /\ main = [p \in Pod |-> "down"]
  /\ got = [p \in Pod |-> NoRates] /\ gotTerms = [p \in Pod |-> NoTerms]
  /\ memRates = [p \in Pod |-> NoRates] /\ memTerms = [p \in Pod |-> NoTerms]
  /\ pc = [g \in Loop |-> "none"] /\ ctx = [g \in Loop |-> "main"]
  /\ env = [g \in Loop |-> NoRates] /\ terms = [g \in Loop |-> NoTerms]
  /\ ratesBackup = NoRates /\ termsBackup = NoTerms /\ version = NoVersion
  /\ late = {}
  /\ latest = 1 /\ latestTerms = NoTerms /\ staleUpTo = 0

-------------------------------------------------------------------------------
(***************************************************************************)
(* The memory cache.                                                       *)
(***************************************************************************)

\* GetRatesMetadata counts an envelope without pairs as no data.
HasData(p) == memRates[p].kind = "ok"

\* An envelope that cannot be loaded leaves the cache as it is.
DumpRates(p, e) ==
  memRates' = IF e.kind \in {"ok", "empty"} THEN [memRates EXCEPT ![p] = e] ELSE memRates

DumpTerms(p, t) == memTerms' = [memTerms EXCEPT ![p] = t]

\* Seeded fault: IsLeader answers for a pod that has led once.
IsLeaderForEver(p) == TRUE

\* IsLeader, as the loops and the sync ticker ask it.
IsLeader(p) == isLeader[p]

-------------------------------------------------------------------------------
(***************************************************************************)
(* The refresh loop of a leader.                                           *)
(***************************************************************************)

\* Seeded fault: rates that are there are good for ever.
RatesDueOnlyOnce(p) == ~HasData(p)

\* shouldRefreshRates
RatesDue(p) == ~HasData(p) \/ memRates[p].rev <= staleUpTo

(* shouldRefreshTerms goes by the clock once there are terms, so that both  *)
(* outcomes are possible: the steps that may follow the rates.              *)
AfterRates(p) == {"fetchTerms"} \cup (IF memTerms[p] = NoTerms THEN {} ELSE {"head"})

\* refreshDataIfNeeded: the steps it may begin with.
RefreshIfNeeded(p) == IF RatesDue(p) THEN {"fetchRates"} ELSE AfterRates(p)

GoesTo(g, steps) == \E step \in steps : pc' = [pc EXCEPT ![g] = step]

\* A loop that returns leaves nothing behind.
Return(g) ==
  /\ pc' = [pc EXCEPT ![g] = "none"]
  /\ ctx' = [ctx EXCEPT ![g] = "main"]
  /\ UNCHANGED <<env, terms>>

\* getLeaderContext falls back to ddm.ctx.
LeaderContext(p) == IF leaderCtx[p] THEN "live" ELSE "main"

\* The goroutine asks for the leader context and does the initial refresh.
BeginLoop(g) ==
  /\ pc[g] = "start"
  /\ ctx' = [ctx EXCEPT ![g] = LeaderContext(g[1])]
  /\ GoesTo(g, RefreshIfNeeded(g[1]))
  /\ UNCHANGED <<env, terms, podVars, syncVars, memVars, redisVars, apiVars>>

\* The answers the rates API may give now.
Answers == { e \in [rev : {0, latest}, kind : Kinds] : e.rev = 0 <=> e.kind = "failed" }

\* Seeded fault: the version is announced with the answer, not after the SET.
FetchRatesAnnounces(g) ==
  /\ pc[g] = "fetchRates"
  /\ \E e \in Answers : env' = [env EXCEPT ![g] = e] /\ version' = e.rev
  /\ GoesTo(g, {"storeRates"})
  /\ UNCHANGED <<ctx, terms, ratesBackup, termsBackup, late,
                 podVars, syncVars, memVars, apiVars>>

\* Seeded fault: the rates in memory stand in for an answer that does not come.
FetchRatesFallsBack(g) ==
  /\ pc[g] = "fetchRates"
  /\ \E e \in Answers \cup (IF HasData(g[1]) THEN {memRates[g[1]]} ELSE {}) :
       env' = [env EXCEPT ![g] = e]
  /\ GoesTo(g, {"storeRates"})
  /\ UNCHANGED <<ctx, terms, podVars, syncVars, memVars, redisVars, apiVars>>

\* fetchRates: an answer arrives.
FetchRates(g) ==
  /\ pc[g] = "fetchRates"
  /\ \E e \in Answers : env' = [env EXCEPT ![g] = e]
  /\ GoesTo(g, {"storeRates"})
  /\ UNCHANGED <<ctx, terms, podVars, syncVars, memVars, redisVars, apiVars>>

\* Seeded fault: an error of SetRatesBackup is logged, and the refresh goes on.
BackupIfPossible(e) == ratesBackup' \in {e} \cup (IF MayFail THEN {ratesBackup} ELSE {})

Backup(e) == ratesBackup' = e

\* SetRatesBackup stores the envelope as it came.
StoreRates(g) ==
  /\ pc[g] = "storeRates"
  /\ Backup(env[g])
  /\ GoesTo(g, {"dumpRates"})
  /\ UNCHANGED <<ctx, env, terms, termsBackup, version, late,
                 podVars, syncVars, memVars, apiVars>>

\* An envelope that cannot be loaded is logged, and the refresh goes on.
LoadFetchedRates(g) ==
  /\ pc[g] = "dumpRates"
  /\ DumpRates(g[1], env[g])
  /\ GoesTo(g, {"setVersion"})
  /\ UNCHANGED <<ctx, env, terms, memTerms, podVars, syncVars, redisVars, apiVars>>

\* Seeded fault: the version is one ahead of the rates.
VersionAhead(e) == e.rev + 1

VersionOf(e) == e.rev

\* The refresh of the rates is over, and the terms come next.
EndRates(g) ==
  /\ env' = [env EXCEPT ![g] = NoRates]
  /\ GoesTo(g, AfterRates(g[1]))

\* SetDataVersion ends the refresh of the rates.
SetVersion(g) ==
  /\ pc[g] = "setVersion"
  /\ version' = VersionOf(env[g])
  /\ EndRates(g)
  /\ UNCHANGED <<ctx, terms, ratesBackup, termsBackup, late,
                 podVars, syncVars, memVars, apiVars>>

(* A call fails: the refresh of the rates ends with an error, and that of   *)
(* the terms goes ahead.  A SET whose reply is lost may have been run by    *)
(* then; where it runs later, it has been left behind (LeaveBehind).        *)
RatesFail(g) ==
  /\ MayFail
  /\ \/ pc[g] = "fetchRates" /\ UNCHANGED redisVars
     \/ /\ pc[g] = "storeRates"
        /\ ratesBackup' \in {ratesBackup, env[g]}
        /\ UNCHANGED <<termsBackup, version, late>>
     \/ /\ pc[g] = "setVersion"
        /\ version' \in {version, VersionOf(env[g])}
        /\ UNCHANGED <<ratesBackup, termsBackup, late>>
  /\ EndRates(g)
  /\ UNCHANGED <<ctx, terms, podVars, syncVars, memVars, apiVars>>

FetchTerms(g) ==
  /\ pc[g] = "fetchTerms"
  /\ latestTerms # NoTerms
  /\ terms' = [terms EXCEPT ![g] = latestTerms]
  /\ GoesTo(g, {"storeTerms"})
  /\ UNCHANGED <<ctx, env, podVars, syncVars, memVars, redisVars, apiVars>>

StoreTerms(g) ==
  /\ pc[g] = "storeTerms"
  /\ termsBackup' = terms[g]
  /\ GoesTo(g, {"dumpTerms"})
  /\ UNCHANGED <<ctx, env, terms, ratesBackup, version, late,
                 podVars, syncVars, memVars, apiVars>>

LoadFetchedTerms(g) ==
  /\ pc[g] = "dumpTerms"
  /\ DumpTerms(g[1], terms[g])
  /\ terms' = [terms EXCEPT ![g] = NoTerms]
  /\ GoesTo(g, {"head"})
  /\ UNCHANGED <<ctx, env, memRates, podVars, syncVars, redisVars, apiVars>>

\* The same for the terms; before the first version their API gives no answer.
TermsFail(g) ==
  /\ MayFail \/ latestTerms = NoTerms
  /\ \/ pc[g] = "fetchTerms" /\ UNCHANGED termsBackup
     \/ pc[g] = "storeTerms" /\ termsBackup' \in {termsBackup, terms[g]}
  /\ terms' = [terms EXCEPT ![g] = NoTerms]
  /\ GoesTo(g, {"head"})
  /\ UNCHANGED <<ctx, env, ratesBackup, version, late, podVars, syncVars, memVars, apiVars>>

\* The SET that loop g waits for.
Sent(g) ==
  CASE pc[g] = "storeRates" -> [key |-> "rates", env |-> env[g]]
    [] pc[g] = "setVersion" -> [key |-> "version", rev |-> VersionOf(env[g])]
    [] pc[g] = "storeTerms" -> [key |-> "terms", terms |-> terms[g]]

(* An attempt is left behind.  Its loop still waits: for the next attempt,  *)
(* for the error, or for the end of its process.                            *)
LeaveBehind(g) ==
  /\ MayFail \/ g[1] \in Mortal
  /\ Cardinality(late) < MaxLate
  /\ pc[g] \in {"storeRates", "setVersion", "storeTerms"}
  /\ late' = late \cup {Sent(g)}
  /\ UNCHANGED <<ratesBackup, termsBackup, version,
                 podVars, syncVars, memVars, loopVars, apiVars>>

\* Redis runs a SET that was left behind.
LateSet ==
  \E c \in late :
    /\ late' = late \ {c}
    /\ IF c.key = "rates" THEN ratesBackup' = c.env ELSE UNCHANGED ratesBackup
    /\ version' = IF c.key = "version" THEN c.rev ELSE version
    /\ termsBackup' = IF c.key = "terms" THEN c.terms ELSE termsBackup
    /\ UNCHANGED <<podVars, syncVars, memVars, loopVars, apiVars>>

\* The head of the loop: IsLeader decides whether to wait or to return.
LoopHead(g) ==
  /\ pc[g] = "head"
  /\ IF IsLeader(g[1])
     THEN GoesTo(g, {"wait"}) /\ UNCHANGED <<ctx, env, terms>>
     ELSE Return(g)
  /\ UNCHANGED <<podVars, syncVars, memVars, redisVars, apiVars>>

(* The timer fires, which the select may prefer to a cancelled context; the *)
(* pod may lead again by then.                                              *)
TimerFires(g) ==
  /\ pc[g] = "wait"
  /\ IF IsLeader(g[1])
     THEN GoesTo(g, RefreshIfNeeded(g[1])) /\ UNCHANGED <<ctx, env, terms>>
     ELSE Return(g)
  /\ UNCHANGED <<podVars, syncVars, memVars, redisVars, apiVars>>

ContextDone(g) ==
  /\ pc[g] = "wait"
  /\ ctx[g] = "cancelled"
  /\ Return(g)
  /\ UNCHANGED <<podVars, syncVars, memVars, redisVars, apiVars>>

-------------------------------------------------------------------------------
(***************************************************************************)
(* The main loop: leadership comes and goes, and a follower syncs.         *)
(***************************************************************************)
Election == INSTANCE Leadership WITH leaders <- {p \in Pod : isLeader[p]}

\* The context of every loop of pod p that waits on the leader context is done.
CancelContexts(p) ==
  [g \in Loop |-> IF g[1] = p /\ ctx[g] = "live" THEN "cancelled" ELSE ctx[g]]

(* performLeaderElection of a pod that acquires the lock: a new leader      *)
(* context, and a refresh loop on a goroutine of its own.                   *)
BecomeLeader(p) ==
  /\ main[p] = "idle"
  /\ isLeader' = [isLeader EXCEPT ![p] = TRUE]
  /\ Election!Gain(p)
  /\ PeriodsOverlap \/ \A g \in Loop : pc[g] = "none"
  /\ leaderCtx' = [leaderCtx EXCEPT ![p] = TRUE]
  /\ \E s \in Slot : pc[<<p, s>>] = "none"
  /\ pc' = [pc EXCEPT ![<<p, CHOOSE s \in Slot : pc[<<p, s>>] = "none">>] = "start"]
  /\ ctx' = CancelContexts(p)
  /\ UNCHANGED <<env, terms, syncVars, memVars, redisVars, apiVars>>

\* performLeaderElection of a leader that fails to renew the lock.
LoseLeadership(p) ==
  /\ main[p] = "idle"
  /\ isLeader' = [isLeader EXCEPT ![p] = FALSE]
  /\ Election!Lose(p)
  /\ leaderCtx' = [leaderCtx EXCEPT ![p] = FALSE]
  /\ ctx' = CancelContexts(p)
  /\ UNCHANGED <<pc, env, terms, syncVars, memVars, redisVars, apiVars>>

\* Seeded fault: a version one ahead of the local one is not news.
NeedsRatesLagging(p) ==
  ~HasData(p) \/ (version # NoVersion /\ version > memRates[p].rev + 1)

\* getDataVersionInfo: whether the rates need to be synced.
NeedsRates(p) == ~HasData(p) \/ (version # NoVersion /\ version > memRates[p].rev)

MainGoesTo(p, step) == main' = [main EXCEPT ![p] = step]

\* Start: the main loop begins with a sync.
StartPod(p) ==
  /\ main[p] = "down"
  /\ MainGoesTo(p, "sync")
  /\ UNCHANGED <<got, gotTerms, podVars, memVars, loopVars, redisVars, apiVars>>

\* The sync ticker of a pod that does not lead: needsDataSync comes first.
SyncTick(p) ==
  /\ main[p] = "idle"
  /\ ~IsLeader(p)
  /\ NeedsRates(p)
  /\ MainGoesTo(p, "sync")
  /\ UNCHANGED <<got, gotTerms, podVars, memVars, loopVars, redisVars, apiVars>>

\* syncFromRedis reads the version once more, and decides what to get.
SyncVersion(p) ==
  /\ main[p] = "sync"
  /\ MainGoesTo(p, CASE version = NoVersion -> "idle"
                     [] version # NoVersion /\ NeedsRates(p) -> "getRates"
                     [] OTHER -> "getTerms")
  /\ UNCHANGED <<got, gotTerms, podVars, memVars, loopVars, redisVars, apiVars>>

GetRates(p) ==
  /\ main[p] = "getRates"
  /\ got' = [got EXCEPT ![p] = ratesBackup]
  /\ MainGoesTo(p, IF ratesBackup = NoRates THEN "getTerms" ELSE "loadRates")
  /\ UNCHANGED <<gotTerms, podVars, memVars, loopVars, redisVars, apiVars>>

LoadRates(p) ==
  /\ main[p] = "loadRates"
  /\ DumpRates(p, got[p])
  /\ got' = [got EXCEPT ![p] = NoRates]
  /\ MainGoesTo(p, "getTerms")
  /\ UNCHANGED <<gotTerms, memTerms, podVars, loopVars, redisVars, apiVars>>

GetTerms(p) ==
  /\ main[p] = "getTerms"
  /\ gotTerms' = [gotTerms EXCEPT ![p] = termsBackup]
  /\ MainGoesTo(p, IF termsBackup = NoTerms THEN "idle" ELSE "loadTerms")
  /\ UNCHANGED <<got, podVars, memVars, loopVars, redisVars, apiVars>>

LoadTerms(p) ==
  /\ main[p] = "loadTerms"
  /\ DumpTerms(p, gotTerms[p])
  /\ gotTerms' = [gotTerms EXCEPT ![p] = NoTerms]
  /\ MainGoesTo(p, "idle")
  /\ UNCHANGED <<got, memRates, podVars, loopVars, redisVars, apiVars>>

\* A GET fails: without the version there is no sync, without the rates only terms.
SyncFails(p) ==
  /\ MayFail
  /\ main[p] \in {"sync", "getRates", "getTerms"}
  /\ MainGoesTo(p, IF main[p] = "getRates" THEN "getTerms" ELSE "idle")
  /\ UNCHANGED <<got, gotTerms, podVars, memVars, loopVars, redisVars, apiVars>>

-------------------------------------------------------------------------------
(***************************************************************************)
(* Crashes, the API, the clock, and what Redis drops by itself.            *)
(***************************************************************************)

\* The process dies, and with it its memory and its goroutines; `late` stays.
Crash(p) ==
  /\ p \in Mortal
  /\ main[p] # "down"
  /\ isLeader' = [isLeader EXCEPT ![p] = FALSE]
  /\ leaderCtx' = [leaderCtx EXCEPT ![p] = FALSE]
  /\ MainGoesTo(p, "down")
  /\ got' = [got EXCEPT ![p] = NoRates]
  /\ gotTerms' = [gotTerms EXCEPT ![p] = NoTerms]
  /\ memRates' = [memRates EXCEPT ![p] = NoRates]
  /\ memTerms' = [memTerms EXCEPT ![p] = NoTerms]
  /\ pc' = [g \in Loop |-> IF g[1] = p THEN "none" ELSE pc[g]]
  /\ ctx' = [g \in Loop |-> IF g[1] = p THEN "main" ELSE ctx[g]]
  /\ env' = [g \in Loop |-> IF g[1] = p THEN NoRates ELSE env[g]]
  /\ terms' = [g \in Loop |-> IF g[1] = p THEN NoTerms ELSE terms[g]]
  /\ UNCHANGED <<redisVars, apiVars>>

PublishRates ==
  /\ latest < MaxRev
  /\ latest' = latest + 1
  /\ UNCHANGED <<latestTerms, staleUpTo, podVars, syncVars, memVars, loopVars, redisVars>>

PublishTerms ==
  /\ latestTerms < MaxTerms
  /\ latestTerms' = latestTerms + 1
  /\ UNCHANGED <<latest, staleUpTo, podVars, syncVars, memVars, loopVars, redisVars>>

(* The buffer before the end of the validity of the next revision is        *)
(* reached, on every copy of it at once.                                    *)
RatesAge ==
  /\ staleUpTo < latest
  /\ staleUpTo' = staleUpTo + 1
  /\ UNCHANGED <<latest, latestTerms, podVars, syncVars, memVars, loopVars, redisVars>>

\* DefaultTTL runs out, or Redis needs the memory.
Evict ==
  /\ \/ /\ "version" \in Evictable
        /\ version' = NoVersion
        /\ UNCHANGED <<ratesBackup, termsBackup>>
     \/ /\ "rates" \in Evictable
        /\ ratesBackup' = NoRates
        /\ UNCHANGED <<version, termsBackup>>
     \/ /\ "terms" \in Evictable
        /\ termsBackup' = NoTerms
        /\ UNCHANGED <<version, ratesBackup>>
  /\ UNCHANGED <<late, podVars, syncVars, memVars, loopVars, apiVars>>

-------------------------------------------------------------------------------
RatesStep(g) ==
  FetchRates(g) \/ StoreRates(g) \/ LoadFetchedRates(g) \/ SetVersion(g) \/ RatesFail(g)
TermsStep(g) == FetchTerms(g) \/ StoreTerms(g) \/ LoadFetchedTerms(g) \/ TermsFail(g)
LoopControl(g) == BeginLoop(g) \/ LoopHead(g) \/ TimerFires(g) \/ ContextDone(g)
LoopAction(g) == RatesStep(g) \/ TermsStep(g) \/ LoopControl(g)

Sync(p) ==
  \/ StartPod(p) \/ SyncTick(p) \/ SyncVersion(p) \/ SyncFails(p)
  \/ GetRates(p) \/ LoadRates(p) \/ GetTerms(p) \/ LoadTerms(p)

Next ==
  \/ \E g \in Loop : LoopAction(g)
  \/ \E p \in Pod : Sync(p) \/ BecomeLeader(p) \/ LoseLeadership(p) \/ Crash(p)
  \/ \E g \in Loop : LeaveBehind(g)
  \/ LateSet
  \/ PublishRates \/ PublishTerms \/ RatesAge \/ Evict

Spec == Init /\ [][Next]_vars

(* Goroutines run, tickers and timers fire, calls return, the clock goes    *)
(* on, and somebody leads again and again, the Failover of LeaderElection.  *)
Fairness ==
  /\ \A g \in Loop : WF_vars(LoopAction(g))
  /\ \A p \in Pod : WF_vars(Sync(p))
  /\ SF_vars(\E p \in Pod : BecomeLeader(p))
  /\ WF_vars(RatesAge)

FairSpec == Spec /\ Fairness

-------------------------------------------------------------------------------
(***************************************************************************)
(* Properties.                                                             *)
(***************************************************************************)

\* The type of every variable.
TypeOK ==
  /\ {isLeader, leaderCtx} \subseteq [Pod -> BOOLEAN]
  /\ main \in [Pod -> MainStep]
  /\ {got, memRates} \subseteq [Pod -> Envelope \cup {NoRates}]
  /\ {gotTerms, memTerms} \subseteq [Pod -> 0..MaxTerms]
  /\ pc \in [Loop -> LoopStep]
  /\ ctx \in [Loop -> Context]
  /\ env \in [Loop -> Envelope \cup {NoRates}]
  /\ terms \in [Loop -> 0..MaxTerms]
  /\ late \subseteq Command
  /\ ratesBackup \in Envelope \cup {NoRates}
  /\ version \in 0..MaxRev \cup {NoVersion}
  /\ {termsBackup, latestTerms} \subseteq 0..MaxTerms
  /\ latest \in 1..MaxRev
  /\ staleUpTo \in 0..MaxRev

(* What Redis holds never gets older, except that a key may go.             *)
RedisNeverGoesBack ==
  [][/\ ratesBackup' # NoRates => ratesBackup'.rev >= ratesBackup.rev
     /\ version' # NoVersion => version' >= version]_vars

(* "No data loss - all data in Redis": while some pod has rates to serve,   *)
(* a pod that starts finds rates in Redis that it can load.                 *)
NoDataLoss == (\E p \in Pod : HasData(p)) => ratesBackup.kind = "ok"

(* A pod that stays a follower is rid of its refresh loops in the end.      *)
LoopsEnd ==
  \A p \in Pod : <>[](~isLeader[p]) => <>[](\A g \in Loop : g[1] = p => pc[g] = "none")

(* From some moment on no call about rates fails, no attempt is left behind, *)
(* no pod crashes and no key goes.  A failure that changes nothing but what  *)
(* a success does is not one.                                               *)
Calm ==
  <>[][/\ \A g \in Loop : RatesFail(g) => SetVersion(g)
       /\ \A p \in Pod : SyncFails(p) => SyncVersion(p) \/ GetRates(p) \/ GetTerms(p)
       /\ \A g \in Loop : ~LeaveBehind(g)
       /\ \A p \in Pod : ~Crash(p)
       /\ ~Evict]_vars

(* When calls stop failing, what is announced in Redis reaches the pods:    *)
(* there comes a moment at which all that do not lead have it, though the   *)
(* version key itself may have gone meanwhile.                              *)
FollowersConverge ==
  Calm => \A r \in 1..MaxRev :
    version = r ~> \A p \in Pod : memRates[p].rev >= r \/ isLeader[p]

(* When calls stop failing, a revision that the API has published is in     *)
(* Redis sometime after the one before it has become due.                   *)
Refreshed ==
  Calm => \A r \in 1..MaxRev :
    latest >= r /\ staleUpTo >= r - 1 ~> ratesBackup.rev >= r

(* "Always sync terms since they don't have versioning": terms that stay in *)
(* Redis reach every pod that keeps running and does not lead.              *)
TermsReachFollowers ==
  \A p \in Pod, t \in 1..MaxTerms :
    <>[](termsBackup = t /\ main[p] # "down" /\ ~isLeader[p]) => <>(memTerms[p] = t)

===============================================================================
