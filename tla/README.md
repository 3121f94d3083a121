# A verification project for hedging-service

The repository is a Go library (`src/internal/...`, public surface
`src/hedging.go`) that answers hedging-rate requests from memory. Several
processes ("pods") use it side by side. One of them, elected through a Redis
lock, fetches rates and payment terms from two HTTP APIs and stores them in
Redis; the others copy them from Redis into their memory. This directory holds
TLA+ modules of that machinery, TLC runs on small instances, and proofs that
TLAPS checks for every value of the constants.

## 1. Inventory

| Component | Source | State | Operations |
|---|---|---|---|
| Leader lock | `storage/redis.go:169-215` | key `hedging:leader_lock`, its expiry | `AcquireLeaderLock` (SET NX), `RenewLeadership`, `ReleaseLeaderLock` (Lua) |
| Leader election | `service/distributed_manager.go:37-111, 269-349, 647-695` | `isLeader`, leader context, tickers, `ddm.mu` | `Start`, `mainLoop`, `performLeaderElection`, `IsLeader`, `Stop`, `releaseLeadership` |
| Refresh loop | `distributed_manager.go:352-518`, `service/hedging.go:382-447` | one goroutine per leadership period | `leaderDataRefreshLoop`, `refreshDataIfNeeded`, `refreshRatesFromAPI`, `refreshTermsFromAPI`, `fetchRates`, `fetchPaymentTerms` |
| Refresh schedule | `distributed_manager.go:119-266, 361-407` | `nextRatesRefresh`, `nextTermsRefresh` | `shouldRefresh…`, `calculateNext…Refresh`, `updateNextRefreshTimes`, `getNextRefreshTime` |
| Follower sync | `distributed_manager.go:522-644` | — | `getDataVersionInfo`, `needsDataSync`, `syncFromRedis`, `syncRatesFromRedis`, `syncTermsFromRedis` |
| Data keys | `redis.go:85-166` | `hedging:rates_backup`, `hedging:terms_backup`, `hedging:data_version` | `Set…`, `Get…` |
| Memory cache | `storage/memory.go` | rates by pair, terms by agency, metadata; one RWMutex | `DumpRates`, `DumpTerms`, getters |
| Service lifecycle | `service/hedging.go:190-215, 350-372` | `initialized`, context, WaitGroup | `Initialize`, `Stop` |
| Rate calculation | `service/business.go`, `helper.go`, `hedging.go:215-320` | — | `GiveMeRate`, `chooseBaseDate`, `daysDueFromFrequency`, `selectTenor` |
| Options, example | `hedging.go:30-190`, `examples/main.go` | — | construction, a demonstration |

How they interact: pods share nothing but Redis. Inside a pod the main loop,
one refresh loop per leadership period, the goroutine that calls `Stop` and
the callers of `GiveMeRate` share `isLeader` and the leader context (under
`ddm.mu`) and the memory cache (under its own mutex). The main loop tells a
refresh loop to end by cancelling its context and clearing `isLeader`; the
loop looks at them only between two refreshes.

What is hard here, and what has to hold:

| Behaviour | Has to hold |
|---|---|
| The lock expires by the clock of Redis, the leader finds out by its own | never two leaders; a leader owns the lock |
| A call to Redis times out and runs later, or twice | the same; nobody is shut out for ever |
| A leader crashes or stops | another pod takes over; a graceful stop gives the lock back |
| A refresh loop outlives its leadership period | it ends; what it writes is bounded by what there was when it asked |
| A refresh writes Redis, memory and the version in three steps, any of which may fail | nothing is announced or served that has not been stored; followers converge |
| A `SET` is given up and runs later, or is sent twice | the same; Redis goes back no further than to where it was when the API answered |
| Redis drops a key | followers and leader recover |
| A pod takes over with rates of any age; calls fail, and terms are slow | its rates are valid soon and do not expire again while it retries; it does not retry in a busy loop |
| Readers take several lock sections for one answer | an answer is of one rate sheet and within its validity; a report does not date data too early |
| `Initialize`, `Stop` and `IsLeader` called at the same time, in any order | all of them return, the goroutines end, the lock is given back if Redis lets it |
| Due dates are rounded three times, tenor lists are searched in list order | a due date is near its period's end, a tenor covers the days to hedge, a later stay is not due sooner |

`PROJECT.json` lists every hazard at its line with the properties about it.

## 2. Modules

```
Leadership  <-- implemented by --  LeaderElection --EXTENDS--> LeaderLock
    ^
    | INSTANCE
DistributedData  <-- EXTENDS -- DataHistory   what Redis has held

RefreshSchedule   the clock that DistributedData leaves out
ServiceLifecycle  the goroutines, mutexes and contexts of one pod
RateSheets  <-- implemented by --  MemoryCache   readers and writers of the cache
Pricing           what GiveMeRate computes from what it has read
MC<module>        values of the constants for TLC

<module>Proofs    EXTENDS <module> and TLAPS: its theorems, with their lemmas and
                  inductive invariants, for LeaderElection, DistributedData (with
                  DataHistory), RefreshSchedule, MemoryCache, ServiceLifecycle and Pricing
CalendarProofs    between Pricing and PricingProofs: lemmas about dates and durations
```

**`Leadership`** is the abstract promise: a set of leaders with at most one
member, and no direct handover.

**`LeaderLock`** is the Redis key with three commands, each atomic, and its
expiry clock. `RenewTTL` keeps what `int(ttl.Seconds())` does to a duration
with a fraction: the renewed lock is shorter than the acquired one, and "EX 0"
is an error.

**`LeaderElection`** adds the pods. `performLeaderElection` is three steps
(`SendCommand`, `Execute`, `HandleReply`), because the lock is granted when
Redis runs the command, and the pod learns of it later. Between the first and
the last of them the pod holds `ddm.mu`, which is why `StopCheck` waits for
`phase \notin InRound`. A call that times out (`Resend`, `GiveUp`) may
leave its command behind in `abandoned`, from where `LateExecute` runs it at any
later time, even after its sender has crashed. `Stop` is followed
step by step: cancel the context, wait for the goroutines (or run out of the
10 s, `StopMayTimeOut`), read `isLeader`, release, close the client. `Tick` is the
clock of everybody; it does not pass a moment at which a leader's round must
have begun (`Interval`) or a round must have ended (`MaxRound`). A podID
contains host, pid and start time, so a restarted process is another pod.

**`DistributedData`** takes `Leadership` as its environment (it uses the
actions `Gain` and `Lose` of the abstract module) and models the path of the data:
each refresh loop with its context, the steps API answer → backup → memory →
version, the same for the terms, the sync of followers read by read, crashes with
loss of memory, and eviction. A `SET` whose reply does not come has run, or runs later:
`RatesFail` and `TermsFail` are the error of the last attempt, `LeaveBehind` an attempt
that go-redis no longer waits for, because it tries again, gives up, or dies with its
process, and `LateSet` runs it at any later time, after newer ones too, as
`LateExecute` does in `LeaderElection`. Abstractions:

- an envelope is its revision and what `DumpRates` makes of it (`Kind`); an
  answer with `isSuccessful = false` decodes with revision 0;
- `RatesAge` moves the revision up to which rates are due, on every copy at
  once: `ValidUntil` belongs to the envelope, so copies age together;
- terms have no revision in the code; the version number is the model's, and
  whether they are due is left open once there are any;
- `PeriodsOverlap` says whether a pod may become leader while a loop of an
  earlier period still runs anywhere. In the code nothing prevents it: one
  renewal that fails ends the period, and the loop may still be in a call of
  up to `HTTPTimeout` (30 s by default, followed by one for the terms) when
  the next round, 20 s later, finds the lock free, because Redis has evicted
  it (`DISTRIBUTED_DATA_MANAGEMENT_SIMPLE.md:200` configures `allkeys-lru`) or
  its TTL was set shorter than the calls. With `FALSE` a pod waits for the loops
  of the period before, a smaller set of behaviours for the liveness runs and the two
  violated ones that are not about overlaps.
- `late` is a set: of two equal attempts one is kept. `MaxLate` bounds it.
- `Stop` is not an action here. What the data keys see of it is part of the
  behaviours already: the calls of a stopped pod fail (`RatesFail`, `TermsFail`),
  its lock goes to another pod (`LoseLeadership`), its loops end (`Return`), and it
  takes no further step. Which goroutines `Stop` ends, and when, is the subject
  of `ServiceLifecycle`; what it does to the lock, of `LeaderElection`.

**`DataHistory`** adds to it the revisions that `rates_backup` has held (`stored`), and
those of them that were there when a loop got its answer (`asked`). Both only record.

**`RefreshSchedule`** has the clock instead: one loop on a pod that takes over at `Start`
and stays the leader. It has what it synced or fetched earlier: rates that are
fresh, due, past their end, without an end (`Zero`, the zero time) or not there
(`NoData`), and terms of any age or none. The module has the due decisions with
their strict and non-strict comparisons, the fallback of 30 s (`Retry`), calls that take time, and `nextRatesRefresh`
being set before the initial refresh and not again until after the next one.
A call may fail and leave the rates as they are, or bring an answer without pairs or
without an end, which takes their place.

**`MemoryCache`** takes the lock sections of the RWMutex one by one. Two
goroutines may load rates: the main loop, which is sequential and syncs only while its
pod follows, and a refresh loop, of the present leadership period or of an earlier one
that still runs. Terms are loaded at any time, and callers run
`GiveMeRate` and `GetLatestRevision` section by section, with the clock moving
in between. An envelope is a revision, its pairs or none, and its dates;
`DumpRates` refuses a failed or undated one before it takes the lock. Whether
there are terms for an agency, or rates for a pair, is left open. The service
is initialized. The module implements **`RateSheets`**: one whole sheet at a time, and
callers that work on a copy of one.

**`ServiceLifecycle`** is one pod with its callers. Every mutex section
that can block is a step: `hs.mu` over `Initialize`, `ddm.mu` over a whole election
round (`mu = "main"` from `Round` until the reply), `IsLeader` and the loops that
ask it, `Stop` reading `isLeader`. `startMu` and `leaderMu` are never held while
anything blocks and are within one step. `wg` counts as the code counts, and
`WaitTimesOut` may happen whenever `wg` is not zero. Loops wait on a context:
`"leader"` becomes `"stale"` when it is cancelled, and `"service"` is `ddm.ctx`,
the fallback of `getLeaderContext`. A closed client makes every later call fail.
`StopRelease` may fail, whether the client is open or not, and may have been run all the
same. The histories `initErr`, `gone`, `hasty` (a `Stop` did not get to wait) and
`refused` (a release failed) only record; no guard reads them.

**`Pricing`** has the functions of `business.go` and `helper.go` as operators on
dates in ticks, with the conversions that matter kept: `Sub` saturates,
`Rounded` and `Truncated` turn a duration into days, `Wrapped` is the overflow
of a product of durations, `Upper` is `strings.ToUpper`, and `Pairs` is the map
that `DumpRates` builds, with later entries replacing earlier ones. The one action,
`Postpone`, asks again for the same stay a day later; the initial states cover
the requests, terms and sheets, whatever they are: `CasesAssumption` says only that
dates are the zero time or lie in the calendar, and that currencies are ones that
`Upper` knows. A date string that is empty and one that does not parse are both the
zero time.

Operators under the comment "Seeded fault" are variants of the operator after them
with a plausible mistake in it. No specification uses them; each
is put in the place of its original to see that a property notices.

## 3. Runs

| Run | Question | Result |
|---|---|---|
| `le_safety` | two pods, both may crash, be stopped, time out, and leave late commands | one leader, who owns the lock with a margin; renewals are granted; `Leadership` is implemented |
| `le_live` | one pod may crash or be stopped at any time, the calls of the other fail for a while | there is a leader again and again; a pod that stops leaves no lock |
| `dd_safety` | two pods whose leadership periods overlap, failing calls whose effect may have happened, a `SET` that runs late | nothing is announced or served that Redis has not held; a refresh brings nothing older than what Redis held when the API answered |
| `dd_live` | calls fail, a pod crashes and the version key is evicted until that ceases | announced revisions reach every follower, published ones reach Redis |
| `dd_loops` | two pods lead in turns, with loops that outlive their periods; one may crash and leave a `SET` behind; terms included | a pod that stays a follower is rid of its loop |
| `dd_regress` | periods overlap | **violated**: the older loop writes an older revision over a newer one |
| `dd_failed_answer` | an answer with `isSuccessful = false` | **violated**: it replaces the backup that pods could load |
| `dd_terms` | terms change and the rates do not | **violated**: followers do not get them |
| `rs_schedule` | a takeover with rates and terms of any age, any mix of slow, failing and useless calls, buffer exactly `WorstDelay` | rates are valid from `TakeoverDelay` on and never expire again; calls for rates are `Retry` apart, but for one kind of takeover |
| `mc_reads` | a caller between two loaders of rates, one of terms, and the clock; envelopes without pairs, without a revision, that do not load, and older ones coming late | `RateSheets` is implemented; no rate is answered after its end; the refresh time of a report is not before the load of its revision; time left means valid |
| `sl_calls` | two callers, any calls at once; timeouts of `Stop`, calls to Redis that fail, releases included, a lock that is lost | `Initialize` never fails, a `Stop` that got to wait leaves no goroutine, the lock of a leader is given back, a service stopped first never leads, every call returns, all goroutines end |
| `pr_quotes` | every base date, frequency and offset, over three months | the due date is near the end of its period, the tenor fits, the rate is of the pair, spot is enough, later is not sooner |

What a violated run means is in the "findings" of `PROJECT.json`, with the
line of the repository that says otherwise.

### Bounds, and why they are enough

- *Election*: two pods suffice for two leaders or a handover, and the theorems
  of section 4 hold for any number. `LockTTL = 5`, `Second = 2` makes
  `RenewTTL = 4`, so the truncation matters; `Interval = 2`, `MaxRound = 1` is
  the largest round that `SafeTiming` (`Max(Interval, MaxRound) + MaxRound <
  RenewTTL`) permits. `age` stops growing by the guards of `Tick`, `ttl` by
  `LockTTL`, `abandoned` is a set of at most three commands per pod.
- *Election, liveness*: `Mortal` is one pod, so that there is a survivor for
  `Failover` to be about; `Flaky` is the survivor, whose calls are the ones that
  matter after the crash. A crashing pod leaves late commands all the same.
- *Data*: `MaxRev = 2` is the smallest number with an older and a newer
  revision. `Slot = {1}`: two pods give two loops, and a loop that outlives its period
  keeps the pod from starting another one, not from following; the theorems are for any
  number of loops. `dd_safety` has overlapping periods and one late `SET`, which is
  enough for an older backup to come after a newer one. Its constraints leave out two
  syncs at the same moment (`OneSync`: a sync changes nothing outside its pod) and
  refreshes of the last revision for age (`LastIsFresh`). It has no crash: a crash is a
  loop that ends with its late `SET`s under way, and it is in `dd_loops`, with a late
  `SET` of the pod that crashes, in `dd_live`, and in the proofs. `dd_live` has no late
  `SET`s (`MaxLate = 0`): they would have to cease, which is a part of `Calm`, and are a
  failure like the others until then. There the version key may go; that rates or terms
  go is in the proofs alone. `MaxTerms = 0` leaves the terms API down in the runs about
  rates: a refresh of terms touches no variable of theirs. Terms are in `dd_loops` and
  `dd_terms`. `Kinds` omits "failed" outside `dd_failed_answer`: its revision 0 is what
  that run is about, and the theorems have all kinds.
- *Memory cache*: one caller, since callers only read and do not see each other;
  two writers, which can load in either order. `MaxTime = 4` with sheets that end
  at 2 and 4 lets a sheet end during a call and a later one follow it.
- *Lifecycle*: two callers are enough for `Initialize` or `Stop` to run twice
  at once; two loops, so that one of an earlier period may still be there. Calls
  repeat without bound.
- *Pricing*: `Day = 4` ticks has midnight, noon and two times between them, so that
  rounding to the nearest day and cutting off differ and a half day is met
  exactly. Months of 31, 28 and 30 days have every kind of middle and end. Tenors
  of 0, 7, 30 and 60 days are met exactly and missed by one in the sweep, which
  runs over the whole calendar. Bookings vary in their dates on one sheet,
  currencies and sheets on one booking. `CHECK_DEADLOCK FALSE`: the sweep ends with
  the calendar.
- *Schedule*: `Buffer = 13` is `WorstDelay` for `Retry = MaxCall = 2`, `RatesInterval = 5`
  and one failure in a row; with 11 TLC finds rates that expire. `Validity = {15, 18}`
  holds the smallest value that `SafeSchedule` and `WellApart` allow. `Start = 20` is
  more than the longest validity, so that rates and terms of every age are among the initial
  states. `Horizon = 70` cuts the clock (a state constraint, no liveness is checked) more
  than two validity periods later.
- Symmetry of the pods is used in safety runs only, and only where all of
  `Flaky`, `Mortal` and `Pod` are the full or the empty set.

### Fairness, and why the code justifies it

- `Tick`, `Start`, `SendCommand`, `HandleReply`, `Release`, `Close`, and each
  step of a loop or a sync: the Go scheduler runs every goroutine, tickers and
  timers fire, every call has a timeout. Weak fairness.
- `Execute` strongly: a pod that sends a command every interval gets some of
  them answered. Without an answer ever, there can be no leader.
  `Failover` speaks of runs where the failures cease (`EventuallyReliable`), with
  unbounded failures before.
- `Exit` and `StopCheck` strongly: `select` chooses at random among ready
  cases, and a Go mutex does not starve a waiter.
- `BecomeLeader` (by some pod) strongly: that is `Failover`, which `le_live`
  checks. `LoseLeadership` has no fairness.
- `ServiceLifecycle`: weak fairness of every step of a call but its beginning, of the
  steps of a round, a sync and a refresh, since each call to Redis or to an API
  has a timeout. Strong fairness of `IsLeaderReturns` (a Go RWMutex does not starve
  a reader), `Exit` and `ContextDone` (a `select` that finds the context done again
  and again takes that case sometime). None for the tickers, timers, callers and
  `LockLost`.
- `RatesAge`: time goes on. `PublishRates`, `PublishTerms`, `Crash`, `Evict`
  and all failures have none. `Calm` is the premise that failures of calls about
  rates and crashes cease.

## 4. Proofs

Every type invariant, every other invariant, every action property and both
refinements that a passing run checks are also theorems, proved for every value of the
constants that satisfies the assumptions of the modules; so is `NoDataLoss`, where
it is true. The runs came first: each inductive invariant was an invariant of a run
before it was proved. A theorem about a history (`DataHistory`) is about `DistributedData`:
the history variables are in no guard. The table names the theorems, and what each assumes beyond
the assumptions on the constants.

| Theorem (`...Proofs`) | States | Assumes |
|---|---|---|
| `TypeCorrect` (LeaderElection) | `TypeOK` | |
| `LeaseMarginHolds`, `LockHeld`, `OneLeader` | `LeaseMargin`, `LeaderHoldsLock`, `AtMostOneLeader` | `SafeTiming` |
| `RenewalGranted`, `ElectionKeepsPromise` | `RenewalNeverRefused`, `ImplementsLeadership` | `SafeTiming` |
| `StopReleases` | `StopReleasesLock` | `GracefulStop` |
| `DataTypeCorrect` (DistributedData) | `TypeOK` | |
| `NothingElseIsAnnounced`, `NothingElseIsServed`, `NoOldAnswerIsWritten` (DataHistory) | `AnnouncedWasStored`, `ServedWasStored`, `WritesAreFresh` | |
| `NothingIsLost` | `NoDataLoss` | `UsableAnswers` |
| `ScheduleTypeCorrect` (RefreshSchedule) | `TypeOK` | |
| `CallsAreSpaced` | `CallsSpaced` | `WellApart` |
| `RatesNeverExpire` | `RatesStayValid` | `SafeSchedule` |
| `CacheTypeCorrect`, `AnswersAreValid`, `RefreshTimeFits`, `TimeLeftFits`, `CacheKeepsRateSheets` (MemoryCache) | `TypeOK`, `AnswersHold`, `RefreshNotBeforeRevision`, `TimeLeftMeansValid`, `KeepsRateSheets` | |
| `LifecycleTypeCorrect`, `InitializationSucceeds`, `NothingIsLeft`, `LockIsGivenBack`, `NeverLeadsAfterStop` (ServiceLifecycle) | `TypeOK`, `InitializeSucceeds`, `NothingLeft`, `LockGivenBack`, `StoppedFirstNeverLeads` | |
| `PricingTypeCorrect`, `RateIsOfThePair`, `TenorIsLongEnough`, `SpotRateIsEnough` (Pricing) | `TypeOK`, `RateOfThePair`, `TenorFits`, `SpotIsEnough` | |
| `DueIsNearPeriodEnd`, `LaterIsDueLater` | `DueNearPeriodEnd`, `LaterIsNotSooner` | `WithinReach` |

### What is assumed, and why it may be

- `SafeTiming` is about a deployment. The defaults of the code (`LockLeaderTTL` 2 min,
  `LeaderElectionInterval` 20 s) satisfy it as long as a round, a stall of the process
  included, is shorter than a minute. It also takes a Redis that keeps the key until it
  expires. It is needed: section 5 has the two leaders.
- `GracefulStop`: `Stop` does not run out of its 10 s, and the TTL is a second at least,
  so that a renewal has an expiry. Nothing is assumed about intervals. Both parts are needed.
- `UsableAnswers`: every answer can be loaded, and Redis does not evict the rates. It
  says nothing of overlapping periods or late `SET`s: they may make Redis older, they do
  not lose what pods serve.
- `WellApart`, `SafeSchedule`: the validity of an answer is not between the
  buffer and 30 s more, and `RatesInterval`, the wait for rates without an end, is no shorter
  than 30 s; for `SafeSchedule` each validity is longer than the buffer, and the buffer
  covers `WorstDelay`, of which `RatesInterval` is a part if it is longer than a call
  and the 30 s.
  With the defaults (buffer 11 min, `RatesRefreshInterval` 5 min, calls of up to 30 s) it
  does so for three failures in a row; with the hour that `examples/main.go:41` sets it does not
  for one (section 5).
- `WithinReach`: the calendar, a month and the days after the payment period are
  shorter than the longest `time.Duration`, 292 years. Beyond that, `Sub` saturates and
  products wrap around (section 5).

`MCRefreshSchedule` and `MCPricing` have TLC evaluate these (`TheoremsApply`), and the runs of
`LeaderElection` and `DistributedData` set the constants that make theirs true.

### Along which argument

*Election.* "A leader owns the lock" is not inductive: it says nothing of
when the lock expires. `Lease(p)` adds how much of it is left, measured against
the age of the pod's round: at least `RenewTTL - age` from the moment Redis
grants a command, and at least `RenewTTL - Max(Interval, MaxRound) - age`
while the next renewal is under way. `Tick` cannot outrun it, since it does
not pass the end of a round, and `SafeTiming` keeps the remainder above zero
(`Margin`). Commands of others cannot disturb it, late or not: they compare the
owner (`StepKeepsOtherLease`, `LateExecuteKeepsLease`). A late command of
the pod itself only sets the expiry anew, unless it is a release, and a release
is not among the abandoned commands of a pod that nobody has stopped:
hence the last conjunct. `OneMindChanges` says that a step changes `Leads` of
one pod at most, from which the refinement follows. `StopReleases` needs no clock:
`KnowsOfLock` says that a pod which owns the lock leads, or is about to learn that it does,
and that `Stop` looks only after the last round.

*Distributed data.* `StepEffect` says what any step, of any loop, sync or late `SET`, may do to
the rates on their way: Redis takes an answer from a loop that is about to store it or from
a `SET` that such a loop left behind; a version comes from a loop that has stored; a pod reads what
Redis has. `Effect` proves it once, and each theorem follows from it alone. `StoredInvariant` adds to
`AnnouncedWasStored` and `ServedWasStored` what is about to be announced or loaded, in loops, syncs and
`late`. `WritesAreFresh` rests on `stored \subseteq 0..latest`: what Redis had held
when the API answered was not newer than the answer. A loop keeps its answer and its
`asked` until the refresh ends, and its late `SET`s are of that answer. `StoredFirst` is the
invariant of `NothingIsLost`: rates are in Redis before any pod has them.

*Schedule.* The two properties are bounds on delays, and each inductive invariant
(`Spaced`, `InTime`) has a clause per step of the loop that says how late, or how early, it may be
there. `InTime` has three modes: the rates in memory are of a call or were not due at takeover (`Kept`),
the pod has taken over with rates that were due and no call has brought others yet (`TakingOver`),
or the last answer has taken the rates away (`Lost`). After `f` failures the next attempt is no
later than `FirstDelay + Delay(f)` after the rates became due, or `Delay(f)` after the takeover, and
`Delay(MaxFailures)` fits into the buffer (`DelayBounds`). The hard clause is the initial refresh,
after which the loop sleeps until a time that was computed before it (`FirstWake`). In `Spaced` that
wake-up is too close to the first call in one case, `TakenOverWhenDue`, which is where the exemption of
`CallsSpaced` comes from.

*Cache.* A caller holds copies from several lock sections. `AnswersHold` needs that the copy
of a sheet and its end are from one section; `RefreshNotBeforeRevision` needs `ReportFits`,
which orders load times: a revision that was read is of a load no later than any refresh time read after
it. For the refinement, each load is one step of `RateSheets` and everything else a stutter
or a look at the sheet.

*Lifecycle.* `Counted`: `wg` is the number of goroutines that are there, which makes
`wg.Wait` mean what `Stop` takes it to mean. `Starting`: only the holder of `hs.mu` is
about to start, so `Start` never refuses. `Gone` says that they stay gone, since only a main loop
starts loops; `Releasing` that after it `isLeader` stands still, so
that of several `Stop`s the one that closes the client first has released the lock, or
found nothing to release, if Redis has refused none of them.

*Pricing.* The answer is a function of the request, so the invariant (`Asked`) is that it is;
the rest is lemmas about the operators. `CalendarProofs` shows that `MonthStart` is the
function its definition says (a table for `n` months can be continued to `n + 1`), that
months follow each other without gap, that every date lies in one month, and what
`Sub`, `Rounded`, `Truncated` and `Wrapped` return within reach. `SelectedTenor` and
`LastIsAnEntry` say which element a search in a list finds. `DueIsNearPeriodEnd` adds up the two roundings,
half a day each at most; `LaterIsDueLater` shows for each frequency that the end of the
period does not move back (`Boundaries`) and that roundings keep the order.

Induction is done without operators as parameters, which these provers cannot
instantiate, on the set of the numbers for which a fact holds (`UpTo`): the least number
missing from it cannot be (`MinOfNat`, from the well-foundedness of `<`).

### What stays with TLC

Liveness: `Failover`, `FollowersConverge`, `Refreshed`, `LoopsEnd`, `CallsReturn` and
`GoroutinesEnd`, which rest on fairness and `ENABLED`, beyond the prover. The three runs that
expect a violation show counterexamples. `NothingIsLost` says what is missing for `NoDataLoss`, and
`NoOldAnswerIsWritten` how far Redis goes back where it does.

## 5. What reading the code showed beyond the runs

Counterexamples that TLC gives with other constants, and that the runs above leave
out. The last four were met by a proof that would not go through:

- `LeaderElection` with `MaxRound = LockTTL = 3`, `Second = Interval = 1`: a round
  as long as the TTL (a stalled process, a slow reply) gives two leaders, since
  `isLeader` stays true while the renewal is on its way
  (`distributed_manager.go:314`). `SafeTiming` rules it out.
- `LeaderElection` with `StopMayTimeOut = TRUE`: when the 10 s of `Stop` run out
  (`distributed_manager.go:90`), it reads `isLeader` while the main loop still runs,
  and the loop may acquire the lock after that; nobody gives it back. `Stop`
  cancels the calls to the APIs but not those to Redis, which have a context of their
  own (`redis.go:49`) and are tried several times. `LockGivenBack` leaves it out with `hasty`.
- `DistributedData` with `PeriodsOverlap = TRUE` and two slots: a loop that is
  scheduled late asks for the leader context (`distributed_manager.go:356`, "for this
  specific leadership period") after the next period has begun, gets that one's,
  and two loops refresh side by side until the leadership ends.
- `RefreshSchedule` with `Buffer = 5`, `Retry = 3`, `Validity = {5, 6}`: an answer
  whose validity is the buffer or a little more is not overdue when it arrives, so that
  no fallback of 30 s applies, and it is due at once or right after. Two calls for rates then
  begin less than `Retry` apart (`distributed_manager.go:194`, `:401`). `WellApart`
  leaves such answers out. If the API then answers with the same sheet, that one is
  due when it arrives, and 30 s pass.
- `LeaderElection` with `LockTTL < Second`: the renewal is `EX 0`, an error
  (`redis.go:189`), so that `isLeader` is cleared while the lock is still the pod's, and
  a `Stop` does not release it. `StopReleases` therefore assumes `RenewTTL > 0`.
- `RefreshSchedule` without `TakenOverWhenDue` in `CallsSpaced`: a pod that takes over at the very
  moment its rates become due sets its first wake-up for that moment (`distributed_manager.go:194`
  asks whether it is before now), calls at once (`:138`), and when the call fails the timer of `:383`
  fires at once: two calls without the 30 s.
- `RefreshSchedule` with `RatesInterval` above the buffer: a pod that takes over with rates without
  an end sets its first wake-up an interval ahead, fetches good rates, and
  sleeps past their end if they are valid for less. `FirstDelay` therefore has `RatesInterval`.

These need no model to be seen, or a run adds little to the reading:

- `Initialize` returns before any data is loaded, though `README.md:36`,
  `examples/main.go:89` and the comment at `hedging.go:191` say that it loads
  them: it only starts the main loop. `GiveMeRate` is refused for a while.
- `Stop` before `Initialize`, or one that overtakes it, finds an empty WaitGroup
  and goes on; the main loop that `Initialize` then starts syncs and runs one election round.
  With the client closed it cannot acquire the lock (`StoppedFirstNeverLeads`);
  before the client is closed it can (`hasty`).
- A release that Redis refuses, or whose reply is lost, is logged (`distributed_manager.go:690`) and not
  tried again by `Stop`: the lock stays until its TTL ends. `LockGivenBack` leaves it out with
  `refused`.
- A pod whose last renewal failed does not lead, but the lock in Redis may still be
  its own; a `Stop` then does not release it, and it waits for its expiry.
- When the wait of `Stop` times out, the goroutine in `wg.Wait` is left behind
  until the others have ended. `hs.ctx` is cancelled and waited for by nobody.
- Terms and rates of one answer are read in two lock sections, and may never have
  been in the cache at the same moment.
- `IsValid` excludes the end of the validity, `GiveMeRate` includes it
  (`After` at `hedging.go:344`, `Before` at `:282`): at that very moment a report
  says invalid and a rate is answered.
- Weekly and bi-weekly periods are cut off from the time of day of the base date:
  a base date later on the same day can be due a day sooner. `LaterIsNotSooner` is
  therefore about base dates at midnight, and `DueNearPeriodEnd` allows a day and
  a half where it is not.
- A booking after its base date has its lead time clamped to zero; moving the stay
  towards the booking then moves the due date back. `Regular` leaves such requests out.
- A zero `BookingCreatedAt` passes the checks for the bases that do not use it;
  `Sub` saturates at 292 years, the product at `hedging.go:290` may wrap around, and the
  due date is arbitrary.
- A pair with tenors and no spot rate is refused with "no tenor, no spot found"
  (`hedging.go:271`), although a tenor has been found.
- In a tenor list that is not sorted the first one long enough is taken, which may
  be much too long; if none is, the last one in the list.
- `MemoryCache.DumpRates` keeps `&s.Rate` (`memory.go:88`). With the per-iteration loop variables of
  Go 1.22, which `go.mod` asks for, every pair has its own; before, all pairs would have
  had the last rate.
- `releaseLeadership` never clears `isLeader` (`distributed_manager.go:686`):
  a stopped pod keeps answering `IsLeader()` with true while another pod leads.
  `Leads` in the module is therefore about pods that have not been stopped.
- A zero `LockLeaderTTL` has no fallback (`hedging.go:167`): `SetNX` then sets
  no expiry and renewals fail; a crash leaves the lock for ever.
- `getNextRefreshTime` returns `nextRatesRefresh` alone although its comment
  (`distributed_manager.go:260`) says "the earliest": due terms are asked for when the timer of the
  rates fires, after hours if the rates are valid for hours, whatever `TermsRefreshInterval`
  says. `nextTermsRefresh` is set and never read. No run is spent on what the
  one line shows.
- A pod that acquires leadership does not look at Redis: it serves the rates it
  has, older ones perhaps, until they are due.
- `refreshDataIfNeeded` asks neither `IsLeader` nor the context: a loop may
  call the APIs once more after its pod has lost leadership.
- A loop of an earlier leadership period may load its answer while the main loop of the same pod,
  which follows again, is between reading the backup and loading it: memory goes back to older
  rates until the next sync. The same loop may load an older answer after the sync.
- A `SET` that was given up and runs late may put an older backup, version or terms over newer ones even
  where no leadership periods overlap. `WritesAreFresh` is what remains true.
- Described in the documents and absent from the code: exponential backoff
  (`DISTRIBUTED_DATA_MANAGEMENT.md:201`), use of `MaxRetries` and `RetryDelay`,
  Pub/Sub.

## 6. Not modelled

- HTTP and JSON, logging, construction of options: no state that changes
  after start. A decoded answer is one of the `Kind`s.
- Redis failover and replication: the code talks to one address.
- Clock skew between pods: durations are local and `SafeTiming` compares
  durations; `ValidUntil` is compared with the local clock of each pod, which
  `RatesAge` treats as one clock.
- The parsing of date strings in its thirteen layouts, the time zone they carry
  (all times are converted to UTC before they are used), and the explanation text.
- Panics: a `NonLeaderSyncInterval` of zero stops the process at
  `distributed_manager.go:281`.
- The leader election stubs of `MemoryCache`, which only return errors.

## 7. Plan

Every component that keeps state is modelled, and everything but liveness that the
passing runs check is proved. What is left, in this order:

1. `DistributedData`: that it implements `Leadership` on its own variables, as
   `LeaderElection` does; and that the announced revision is not the older one for good: from
   some moment on the version and the backup agree, if refreshes no longer overlap and no `SET`
   is late.
2. `Pricing`: `RateOfThePair` for lists in which a pair occurs several times, stated as the
   last entry winning.

Runs stay few: where a later run asks a more important question than one of
the violated ones, it takes its place.
