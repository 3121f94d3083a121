---------------------------- MODULE RefreshSchedule ----------------------------
(***************************************************************************)
(* When the refresh loop of a leader calls the two external APIs: the      *)
(* decisions of shouldRefreshRates and shouldRefreshTerms, the next        *)
(* refresh times, and the timer between two refreshes.  DistributedData    *)
(* leaves out the clock; this module leaves out everything else, and       *)
(* follows one loop on a pod that stays the leader, from the moment the    *)
(* pod takes over with rates and terms of any age.                         *)
(***************************************************************************)
EXTENDS Integers

CONSTANTS
  Buffer,         \* -opts.RateRefreshBuffer: how long before ValidUntil rates are due
  RatesInterval,  \* opts.RatesRefreshInterval, for rates without a ValidUntil
  TermsInterval,  \* opts.TermsRefreshInterval
  Retry,          \* the 30 seconds of calculateNext...Refresh
  MaxCall,        \* opts.HTTPTimeout: the longest a call takes
  Validity,       \* how far ahead ValidUntil of an answer may be
  MaxFailures,    \* how many calls in a row may bring no usable rates (bound)
  Start           \* when the pod takes over

ASSUME ScheduleAssumption ==
  /\ Buffer \in Nat
  /\ RatesInterval \in Nat \ {0}
  /\ TermsInterval \in Nat
  /\ Retry \in Nat \ {0}
  /\ MaxCall \in Nat \ {0}
  /\ Validity \subseteq Nat \ {0}
  /\ MaxFailures \in Nat
  /\ Start \in Nat \ {0}

\* The zero time.Time; the clock is past it.
Zero == 0

\* In place of ValidUntil, when the memory cache has no pairs.
NoData == -1

VARIABLES
  now,         \* the clock
  pc,          \* where the loop is
  initial,     \* whether this is the refresh before the loop proper
  validUntil,  \* ValidUntil of the rates in memory
  termsAt,     \* LastRefresh of the terms in memory
  nextRates,   \* ddm.nextRatesRefresh
  nextTerms,   \* ddm.nextTermsRefresh
  ratesCall,   \* when the last call for rates began
  termsCall,   \* when the last call for terms began
  failures     \* calls that have brought no usable rates since one has

callVars == <<ratesCall, termsCall, failures>>
vars == <<now, pc, initial, validUntil, termsAt, nextRates, nextTerms, callVars>>

LoopStep == {"start", "checkRates", "rates", "checkTerms", "terms", "refreshed", "wait"}

(* The pod has what it has synced from Redis, or fetched when it led        *)
(* before: fresh, due, past its end, without an end, or nothing.            *)
Init ==
  /\ now = Start
  /\ pc = "start"
  /\ initial = TRUE
  /\ validUntil \in {NoData, Zero} \cup {t + v : t \in 1..Start, v \in Validity}
  /\ termsAt \in Zero..Start
  /\ nextRates = Zero /\ nextTerms = Zero
  /\ ratesCall = Zero /\ termsCall = Zero /\ failures = 0

-------------------------------------------------------------------------------
\* shouldRefreshRates: due from the buffer on, the moment itself included.
RatesDue == validUntil \in {NoData, Zero} \/ now >= validUntil - Buffer

\* shouldRefreshTerms: due after the interval, the moment itself excluded.
TermsDue == termsAt = Zero \/ now > termsAt + TermsInterval

\* Seeded fault: a moment in the past is scheduled as it is.
NotInThePastUnchecked(next) == next

\* A refresh is never scheduled in the past.
NotInThePast(next) == IF next < now THEN now + Retry ELSE next

\* calculateNextRatesRefresh
NextRates ==
  CASE validUntil = NoData -> now + Retry
    [] validUntil = Zero   -> now + RatesInterval
    [] OTHER               -> NotInThePast(validUntil - Buffer)

\* calculateNextTermsRefresh
NextTerms == IF termsAt = Zero THEN now + Retry ELSE NotInThePast(termsAt + TermsInterval)

\* updateNextRefreshTimes
UpdateNextRefreshTimes ==
  /\ nextRates' = NextRates
  /\ nextTerms' = NextTerms

\* Seeded fault: the loop wakes up for the terms.
NextRefreshTimeOfTerms == nextTerms

\* getNextRefreshTime
NextRefreshTime == nextRates

-------------------------------------------------------------------------------
\* The refresh times are set once before the initial refresh.
Begin ==
  /\ pc = "start"
  /\ UpdateNextRefreshTimes
  /\ pc' = "checkRates"
  /\ UNCHANGED <<now, initial, validUntil, termsAt, callVars>>

CheckRates ==
  /\ pc = "checkRates"
  /\ IF RatesDue
     THEN pc' = "rates" /\ ratesCall' = now
     ELSE pc' = "checkTerms" /\ UNCHANGED ratesCall
  /\ UNCHANGED <<now, initial, validUntil, termsAt, nextRates, nextTerms, termsCall, failures>>

\* An answer comes after some time, is stored in Redis and loaded.
RatesArrive ==
  /\ pc = "rates"
  /\ now > ratesCall
  /\ \E v \in Validity : validUntil' = now + v
  /\ failures' = 0
  /\ pc' = "checkTerms"
  /\ UNCHANGED <<now, initial, termsAt, nextRates, nextTerms, ratesCall, termsCall>>

\* Seeded fault: the loop returns when the rates cannot be refreshed.
AfterFailureReturn == "returned"

\* refreshDataIfNeeded logs the error and turns to the terms.
AfterFailure == "checkTerms"

(* No usable rates come: the call fails or its answer cannot be stored or   *)
(* loaded, and the old rates stay; or the answer has no pairs, or no end,   *)
(* and takes the place of the old rates.                                    *)
RatesFail ==
  /\ pc = "rates"
  /\ now > ratesCall
  /\ failures < MaxFailures
  /\ failures' = failures + 1
  /\ validUntil' \in {validUntil, NoData, Zero}
  /\ pc' = AfterFailure
  /\ UNCHANGED <<now, initial, termsAt, nextRates, nextTerms, ratesCall, termsCall>>

CheckTerms ==
  /\ pc = "checkTerms"
  /\ IF TermsDue
     THEN pc' = "terms" /\ termsCall' = now
     ELSE pc' = "refreshed" /\ UNCHANGED termsCall
  /\ UNCHANGED <<now, initial, validUntil, termsAt, nextRates, nextTerms, ratesCall, failures>>

TermsArrive ==
  /\ pc = "terms"
  /\ now > termsCall
  /\ termsAt' = now
  /\ pc' = "refreshed"
  /\ UNCHANGED <<now, initial, validUntil, nextRates, nextTerms, callVars>>

TermsFail ==
  /\ pc = "terms"
  /\ now > termsCall
  /\ pc' = "refreshed"
  /\ UNCHANGED <<now, initial, validUntil, termsAt, nextRates, nextTerms, callVars>>

\* Only the refreshes of the loop proper are followed by new refresh times.
Refreshed ==
  /\ pc = "refreshed"
  /\ pc' = "wait"
  /\ initial' = FALSE
  /\ IF initial THEN UNCHANGED <<nextRates, nextTerms>> ELSE UpdateNextRefreshTimes
  /\ UNCHANGED <<now, validUntil, termsAt, callVars>>

\* The timer fires, at once if its moment has passed.
TimerFires ==
  /\ pc = "wait"
  /\ now >= NextRefreshTime
  /\ pc' = "checkRates"
  /\ UNCHANGED <<now, initial, validUntil, termsAt, nextRates, nextTerms, callVars>>

(* Time passes while the loop waits for its timer, and while a call is      *)
(* under way, which takes MaxCall ticks at most.                            *)
Tick ==
  /\ \/ pc = "wait" /\ now < NextRefreshTime
     \/ pc = "rates" /\ now < ratesCall + MaxCall
     \/ pc = "terms" /\ now < termsCall + MaxCall
  /\ now' = now + 1
  /\ UNCHANGED <<pc, initial, validUntil, termsAt, nextRates, nextTerms, callVars>>

Next ==
  \/ Begin \/ Refreshed \/ TimerFires \/ Tick
  \/ CheckRates \/ RatesArrive \/ RatesFail
  \/ CheckTerms \/ TermsArrive \/ TermsFail

Spec == Init /\ [][Next]_vars

-------------------------------------------------------------------------------
\* The type of every variable.
TypeOK ==
  /\ now \in Nat \ {Zero}
  /\ pc \in LoopStep
  /\ initial \in BOOLEAN
  /\ validUntil \in Nat \cup {NoData}
  /\ nextRates \in Int
  /\ {termsAt, nextTerms, ratesCall, termsCall} \subseteq Nat
  /\ failures \in 0..MaxFailures

MaxOf(a, b) == IF a >= b THEN a ELSE b

\* How late the timer may fire for rates that no call has been made for: a
\* call for terms and a wait came first, or the wait that was set at takeover.
FirstDelay == MaxOf(MaxCall + Retry, RatesInterval)

\* From a call for rates that fails to the next one: a call for terms, a wait.
RoundOfFailure == 2 * MaxCall + Retry

(* The longest it may take from the moment rates become due to an answer:   *)
(* MaxFailures calls fail, then one succeeds.                               *)
WorstDelay == FirstDelay + MaxFailures * RoundOfFailure + MaxCall

\* The buffer covers the worst delay, and an answer is not due when it arrives.
SafeSchedule ==
  /\ Buffer >= WorstDelay
  /\ \A v \in Validity : v > Buffer

\* A pod that takes over begins with a call, if its rates are due.
TakeoverDelay == MaxFailures * RoundOfFailure + MaxCall

(* Under SafeSchedule, a pod that has taken over with rates of any age      *)
(* serves rates that are valid TakeoverDelay later, and they never expire   *)
(* again, however the refreshes of rates and terms fall and fail.  Only an  *)
(* answer without pairs or without an end takes them away, for as long as   *)
(* the calls after it fail.                                                 *)
RatesStayValid ==
  now > Start + TakeoverDelay =>
    \/ now < validUntil
    \/ validUntil \in {NoData, Zero} /\ failures > 0

(* An answer is either due when it arrives, and then Retry later again, or  *)
(* not before Retry has passed; and the interval is no shorter than Retry.  *)
WellApart ==
  /\ \A v \in Validity : v < Buffer \/ v >= Buffer + Retry
  /\ RatesInterval >= Retry

(* The pod took over at the very moment its rates became due, and has       *)
(* called once: its first wake-up is set for that moment too.               *)
TakenOverWhenDue == nextRates = Start /\ ratesCall = Start

(* Two calls for rates begin at least Retry apart, except for the second    *)
(* one of such a takeover: a failing API, rates that are due at once and a  *)
(* takeover with old rates do not turn the loop into a busy one.            *)
CallsSpaced ==
  [][ratesCall # Zero /\ ratesCall' # ratesCall =>
       ratesCall' >= ratesCall + Retry \/ TakenOverWhenDue]_vars

===============================================================================
