-------------------------- MODULE RefreshScheduleProofs --------------------------
(***************************************************************************)
(* Proofs about RefreshSchedule, for any buffer, intervals, call times,    *)
(* validities and takeover: calls for rates are spaced, and under          *)
(* SafeSchedule rates do not expire once the pod has taken over.  The      *)
(* clock is unbounded.                                                     *)
(***************************************************************************)
EXTENDS RefreshSchedule, TLAPS

USE ScheduleAssumption

(* What the definitions of the times come to.                               *)
LEMMA NextTypes ==
  ASSUME TypeOK
  PROVE  /\ NextRates \in Int /\ NextTerms \in Nat
         /\ validUntil = NoData => NextRates = now + Retry
         /\ validUntil = Zero => NextRates = now + RatesInterval
         /\ validUntil > Zero /\ validUntil - Buffer < now => NextRates = now + Retry
         /\ validUntil > Zero /\ validUntil - Buffer >= now => NextRates = validUntil - Buffer
  BY DEF TypeOK, NextRates, NextTerms, NotInThePast, NoData, Zero

(* Every variable has its type in every reachable state.                    *)
THEOREM ScheduleTypeCorrect == Spec => []TypeOK
<1>1. Init => TypeOK
  BY DEF Init, TypeOK, LoopStep, NoData, Zero
<1>2. TypeOK /\ [Next]_vars => TypeOK'
  <2> SUFFICES ASSUME TypeOK, [Next]_vars PROVE TypeOK'
    OBVIOUS
  <2> USE DEF TypeOK, LoopStep, callVars, NoData, Zero
  <2>1. CASE UNCHANGED vars
    BY <2>1 DEF vars
  <2>2. CASE Begin \/ Refreshed
    BY <2>2, NextTypes DEF Begin, Refreshed, UpdateNextRefreshTimes
  <2>3. CASE TimerFires \/ Tick
    BY <2>3 DEF TimerFires, Tick
  <2>4. CASE CheckRates \/ CheckTerms
    BY <2>4 DEF CheckRates, CheckTerms
  <2>5. CASE RatesArrive
    BY <2>5 DEF RatesArrive
  <2>6. CASE RatesFail
    BY <2>6 DEF RatesFail, AfterFailure
  <2>7. CASE TermsArrive \/ TermsFail
    BY <2>7 DEF TermsArrive, TermsFail
  <2>8. QED
    BY <2>1, <2>2, <2>3, <2>4, <2>5, <2>6, <2>7 DEF Next
<1>3. QED
  BY <1>1, <1>2, PTL DEF Spec

-------------------------------------------------------------------------------
(***************************************************************************)
(* The spacing of the calls for rates.                                     *)
(***************************************************************************)

(* A call at this moment is far enough from the last one.                   *)
Apart == ratesCall = Zero \/ now >= ratesCall + Retry

(* The wake-up that is set is far enough from the last call.                *)
WakeApart == ratesCall = Zero \/ nextRates >= ratesCall + Retry \/ TakenOverWhenDue

(* So is the wake-up that will be set when the refresh ends.                *)
WillBeApart ==
  \/ Apart
  \/ validUntil \in {NoData, Zero}
  \/ validUntil - Buffer < now
  \/ validUntil - Buffer >= ratesCall + Retry

Spaced ==
  /\ ratesCall <= now
  /\ pc = "start" => ratesCall = Zero /\ initial /\ now = Start
  /\ pc = "checkRates" =>
       /\ Apart \/ TakenOverWhenDue
       /\ initial => ratesCall = Zero /\ nextRates = NextRates /\ now = Start
  /\ pc = "rates" => validUntil \in {NoData, Zero} \/ validUntil - Buffer <= ratesCall
  /\ pc \in {"rates", "checkTerms", "terms", "refreshed"} /\ initial => WakeApart
  /\ pc \in {"checkTerms", "terms", "refreshed", "wait", "checkRates"} => WillBeApart
  /\ pc = "wait" => WakeApart /\ ~initial

LEMMA SpacedInit == Init => Spaced
  BY DEF Init, Spaced, Zero

LEMMA SpacedKept ==
  ASSUME WellApart, TypeOK, Spaced, [Next]_vars
  PROVE  Spaced'
<1> USE DEF TypeOK, callVars, NoData, Zero
<1>1. CASE UNCHANGED vars
  BY <1>1 DEF vars, Spaced, Apart, WakeApart, WillBeApart, TakenOverWhenDue, NextRates, NotInThePast
<1>2. CASE Begin
  BY <1>2 DEF Begin, UpdateNextRefreshTimes, Spaced, Apart, WillBeApart, NextRates, NotInThePast
<1>3. CASE CheckRates
  <2>1. CASE ~RatesDue
    <3>1. /\ pc = "checkRates" /\ pc' = "checkTerms"
          /\ UNCHANGED <<now, initial, validUntil, nextRates, ratesCall>>
          /\ now < validUntil - Buffer
      BY <1>3, <2>1 DEF CheckRates, RatesDue
    <3>2. WillBeApart'
      BY <3>1 DEF Spaced, WillBeApart, Apart
    <3>3. initial => WakeApart'
      BY <3>1 DEF Spaced, WakeApart
    <3>4. QED
      BY <3>1, <3>2, <3>3 DEF Spaced
  <2>2. CASE RatesDue
    <3>1. /\ pc = "checkRates" /\ pc' = "rates" /\ ratesCall' = now
          /\ UNCHANGED <<now, initial, validUntil, nextRates>>
      BY <1>3, <2>2 DEF CheckRates
    <3>2. validUntil \in {NoData, Zero} \/ validUntil - Buffer <= now
      BY <2>2 DEF RatesDue
    <3>3. initial => nextRates >= now + Retry \/ (nextRates = now /\ now = Start)
      BY <3>1, <3>2, NextTypes DEF Spaced, WellApart
    <3>4. initial => WakeApart'
      BY <3>1, <3>3 DEF WakeApart, TakenOverWhenDue
    <3>5. QED
      BY <3>1, <3>2, <3>4 DEF Spaced
  <2>3. QED
    BY <2>1, <2>2
<1>4. CASE RatesArrive
  <2>1. PICK v \in Validity : validUntil' = now + v
    BY <1>4 DEF RatesArrive
  <2>2. v \in Nat /\ (v < Buffer \/ v >= Buffer + Retry)
    BY DEF WellApart
  <2>3. QED
    BY <1>4, <2>1, <2>2 DEF RatesArrive, Spaced, WakeApart, WillBeApart, TakenOverWhenDue
<1>5. CASE RatesFail
  <2>1. /\ pc = "rates" /\ pc' = "checkTerms" /\ now > ratesCall
        /\ UNCHANGED <<now, initial, nextRates, ratesCall>>
        /\ validUntil' \in {validUntil, -1, 0}
    BY <1>5 DEF RatesFail, AfterFailure
  <2>2. WillBeApart'
    <3>1. validUntil \in {NoData, Zero} \/ validUntil - Buffer <= ratesCall
      BY <2>1 DEF Spaced
    <3>2. CASE validUntil' \in {NoData, Zero}
      BY <3>2 DEF WillBeApart
    <3>3. CASE validUntil' \notin {NoData, Zero}
      <4>1. validUntil' = validUntil /\ now' = now
        BY <2>1, <3>3
      <4>2. /\ validUntil \in Int /\ ratesCall \in Int /\ now \in Int
            /\ validUntil - Buffer <= ratesCall
        BY <3>1, <3>3, <4>1
      <4>3. validUntil' - Buffer < now'
        BY <2>1, <4>1, <4>2
      <4>4. QED
        BY <4>3 DEF WillBeApart
    <3>4. QED
      BY <3>2, <3>3
  <2>3. initial => WakeApart'
    <3>1. initial => WakeApart
      BY <2>1 DEF Spaced
    <3>2. QED
      BY <2>1, <3>1 DEF WakeApart, TakenOverWhenDue
  <2>4. QED
    BY <2>1, <2>2, <2>3 DEF Spaced
<1>6. CASE CheckTerms \/ TermsArrive \/ TermsFail
  BY <1>6 DEF CheckTerms, TermsArrive, TermsFail, Spaced, Apart, WakeApart, WillBeApart,
     TakenOverWhenDue
<1>7. CASE Refreshed
  <2>1. /\ pc = "refreshed" /\ pc' = "wait" /\ ~initial'
        /\ UNCHANGED <<now, validUntil, ratesCall>>
        /\ IF initial THEN nextRates' = nextRates ELSE nextRates' = NextRates
    BY <1>7 DEF Refreshed, UpdateNextRefreshTimes
  <2>2. CASE initial
    BY <2>1, <2>2 DEF Spaced, WakeApart, WillBeApart, Apart, TakenOverWhenDue
  <2>3. CASE ~initial
    <3>1. WillBeApart /\ ratesCall <= now
      BY <2>1, <2>3 DEF Spaced
    <3>2. WakeApart'
      BY <2>1, <2>3, <3>1, NextTypes DEF WakeApart, WillBeApart, Apart, WellApart
    <3>3. WillBeApart'
      BY <2>1, <3>1 DEF WillBeApart, Apart
    <3>4. QED
      BY <2>1, <3>1, <3>2, <3>3 DEF Spaced
  <2>4. QED
    BY <2>2, <2>3
<1>8. CASE TimerFires
  BY <1>8 DEF TimerFires, NextRefreshTime, Spaced, Apart, WakeApart, WillBeApart, TakenOverWhenDue
<1>9. CASE Tick
  BY <1>9 DEF Tick, Spaced, Apart, WakeApart, WillBeApart, TakenOverWhenDue
<1>10. QED
  BY <1>1, <1>2, <1>3, <1>4, <1>5, <1>6, <1>7, <1>8, <1>9 DEF Next

(* Two calls for rates begin at least Retry apart, whether they fail, bring *)
(* rates that are due at once or none, and whatever the pod took over with; *)
(* the exception is the second call of a takeover at the very moment.       *)
THEOREM CallsAreSpaced ==
  ASSUME WellApart
  PROVE  Spec => CallsSpaced
<1> DEFINE Far == ratesCall # Zero /\ ratesCall' # ratesCall =>
                    ratesCall' >= ratesCall + Retry \/ TakenOverWhenDue
<1>1. TypeOK /\ Spaced /\ [Next]_vars => [Far]_vars
  <2> SUFFICES ASSUME TypeOK, Spaced, [Next]_vars PROVE Far
    OBVIOUS
  <2>1. CASE CheckRates
    BY <2>1 DEF CheckRates, Spaced, Apart, TypeOK, Zero
  <2>2. CASE ~CheckRates
    BY <2>2 DEF Next, vars, callVars, Begin, Refreshed, TimerFires, Tick, RatesArrive, RatesFail,
       CheckTerms, TermsArrive, TermsFail
  <2>3. QED
    BY <2>1, <2>2
<1>2. TypeOK /\ Spaced /\ [Next]_vars => Spaced'
  BY SpacedKept
<1>3. QED
  BY <1>1, <1>2, SpacedInit, ScheduleTypeCorrect, PTL DEF Spec, CallsSpaced

-------------------------------------------------------------------------------
(***************************************************************************)
(* The rates do not expire.                                                *)
(***************************************************************************)

\* What f calls that fail cost.
Delay(f) == f * RoundOfFailure

LEMMA DelayBounds ==
  /\ Delay(0) = 0
  /\ \A f \in Nat : /\ Delay(f) \in Nat
                     /\ Delay(f + 1) = Delay(f) + 2 * MaxCall + Retry
  /\ \A f \in 0..MaxFailures : Delay(f) <= Delay(MaxFailures)
  /\ TakeoverDelay = Delay(MaxFailures) + MaxCall
  /\ WorstDelay = FirstDelay + Delay(MaxFailures) + MaxCall
<1>1. RoundOfFailure \in Nat /\ RoundOfFailure = 2 * MaxCall + Retry
  BY DEF RoundOfFailure
<1>2. \A f \in Nat : /\ f * RoundOfFailure \in Nat
                     /\ (f + 1) * RoundOfFailure = f * RoundOfFailure + RoundOfFailure
  BY <1>1
<1>3. 0 * RoundOfFailure = 0
  BY <1>1
<1>4. \A f \in 0..MaxFailures : f * RoundOfFailure <= MaxFailures * RoundOfFailure
  <2> SUFFICES ASSUME NEW f \in 0..MaxFailures
               PROVE  f * RoundOfFailure <= MaxFailures * RoundOfFailure
    OBVIOUS
  <2>1. (MaxFailures - f) \in Nat
    OBVIOUS
  <2>2. (MaxFailures - f) * RoundOfFailure \in Nat
    BY <1>2, <2>1
  <2>3. (MaxFailures - f) * RoundOfFailure = MaxFailures * RoundOfFailure - f * RoundOfFailure
    BY <1>1
  <2>4. f * RoundOfFailure \in Int /\ MaxFailures * RoundOfFailure \in Int
    BY <1>2
  <2>5. QED
    BY <2>2, <2>3, <2>4
<1>5. \A f \in Nat : Delay(f) = f * RoundOfFailure
  BY DEF Delay
<1>6. /\ TakeoverDelay = Delay(MaxFailures) + MaxCall
      /\ WorstDelay = FirstDelay + Delay(MaxFailures) + MaxCall
  BY DEF TakeoverDelay, WorstDelay, Delay
<1>7. \A f \in Nat : /\ Delay(f) \in Nat
                     /\ Delay(f + 1) = Delay(f) + 2 * MaxCall + Retry
  <2> SUFFICES ASSUME NEW f \in Nat
               PROVE  Delay(f) \in Nat /\ Delay(f + 1) = Delay(f) + 2 * MaxCall + Retry
    OBVIOUS
  <2>1. Delay(f) = f * RoundOfFailure /\ Delay(f + 1) = (f + 1) * RoundOfFailure
    BY <1>5
  <2>2. f * RoundOfFailure \in Nat
        /\ (f + 1) * RoundOfFailure = f * RoundOfFailure + RoundOfFailure
    BY <1>2
  <2> HIDE DEF Delay
  <2>3. QED
    BY <1>1, <2>1, <2>2
<1>8. \A f \in 0..MaxFailures : Delay(f) <= Delay(MaxFailures)
  BY <1>4 DEF Delay
<1>9. Delay(0) = 0
  BY <1>3 DEF Delay
<1>10. QED
  BY <1>6, <1>7, <1>8, <1>9

LEMMA FirstDelayBounds ==
  FirstDelay \in Nat /\ FirstDelay >= MaxCall + Retry /\ FirstDelay >= RatesInterval
  BY DEF FirstDelay, MaxOf

DueAt == validUntil - Buffer

(* The next call for rates begins at this time at the latest: how far the   *)
(* loop may be in every step.                                               *)
OnTime(limit) ==
  /\ pc = "checkRates" => now <= limit
  /\ pc = "rates" => ratesCall <= limit /\ now <= ratesCall + MaxCall
  /\ pc = "checkTerms" => now <= limit - MaxCall - Retry
  /\ pc = "terms" => termsCall <= limit - MaxCall - Retry /\ now <= termsCall + MaxCall
  /\ pc = "refreshed" => now <= limit - Retry
  /\ pc = "wait" => now <= limit
  /\ pc = "wait" \/ (initial /\ pc \in {"checkTerms", "terms", "refreshed"}) =>
       nextRates <= limit

\* The rates were not due when the pod took over, or a call has brought them.
Kept ==
  /\ validUntil > Zero
  /\ pc # "start" /\ ~(initial /\ pc \in {"checkRates", "rates"})
  /\ OnTime(DueAt + FirstDelay - 1 + Delay(failures))

\* The pod has taken over, and no call has brought rates yet.
TakingOver ==
  /\ OnTime(Start + Delay(failures))
  /\ validUntil > Zero /\ pc \in {"rates", "checkTerms", "terms", "refreshed"} => DueAt <= now

\* The last answer has taken the rates away, or the pod took over without.
Lost == validUntil \in {NoData, Zero} /\ failures > 0

\* The wake-up that is set before the initial refresh.
FirstWake ==
  /\ pc = "start" => now = Start /\ initial
  /\ pc = "wait" => ~initial
  /\ pc = "checkRates" /\ initial => now = Start /\ nextRates = NextRates
  /\ pc = "rates" /\ initial =>
       /\ nextRates <= Start + MaxOf(Retry, RatesInterval)
       /\ validUntil > Zero => nextRates <= Start + Retry

InTime ==
  /\ now >= Start
  /\ FirstWake
  /\ Kept \/ TakingOver \/ Lost

LEMMA FirstWakeKept ==
  ASSUME TypeOK, FirstWake, [Next]_vars
  PROVE  FirstWake'
<1> USE DEF TypeOK, callVars, NoData, Zero
<1>1. CASE UNCHANGED vars
  BY <1>1 DEF vars, FirstWake, NextRates, NotInThePast
<1>2. CASE Begin
  BY <1>2 DEF Begin, UpdateNextRefreshTimes, FirstWake, NextRates, NotInThePast
<1>3. CASE CheckRates
  <2>1. /\ pc = "checkRates"
        /\ pc' = "checkTerms" \/ (pc' = "rates" /\ RatesDue)
        /\ UNCHANGED <<now, initial, validUntil, nextRates>>
    BY <1>3 DEF CheckRates
  <2>2. MaxOf(Retry, RatesInterval) \in Nat
        /\ MaxOf(Retry, RatesInterval) >= Retry /\ MaxOf(Retry, RatesInterval) >= RatesInterval
    BY DEF MaxOf
  <2>3. QED
    BY <2>1, <2>2, NextTypes DEF FirstWake, RatesDue
<1>4. CASE TimerFires \/ Tick
  BY <1>4 DEF TimerFires, Tick, FirstWake
<1>5. CASE \/ RatesArrive \/ RatesFail \/ CheckTerms \/ TermsArrive \/ TermsFail \/ Refreshed
  BY <1>5 DEF RatesArrive, RatesFail, AfterFailure, CheckTerms, TermsArrive, TermsFail,
     Refreshed, FirstWake
<1>6. QED
  BY <1>1, <1>2, <1>3, <1>4, <1>5 DEF Next

LEMMA InTimeKept ==
  ASSUME SafeSchedule, TypeOK, InTime, [Next]_vars
  PROVE  InTime'
<1> DEFINE d == Delay(failures)
<1>0. /\ d \in Nat /\ Delay(0) = 0 /\ (failures = 0 => d = 0)
      /\ FirstDelay \in Nat /\ FirstDelay >= MaxCall + Retry /\ FirstDelay >= RatesInterval
  BY DelayBounds, FirstDelayBounds DEF TypeOK
<1>a. /\ failures' = failures => Delay(failures)' = d
      /\ failures' = failures + 1 => Delay(failures)' = d + 2 * MaxCall + Retry
      /\ failures' = 0 => Delay(failures)' = 0
  BY DelayBounds DEF TypeOK
<1>b. FirstWake'
  BY FirstWakeKept DEF InTime
<1>c. now' >= Start
  BY DEF InTime, Next, vars, callVars, Begin, Refreshed, TimerFires, Tick, CheckRates, RatesArrive,
     RatesFail, CheckTerms, TermsArrive, TermsFail, TypeOK
<1> HIDE DEF d
<1> USE DEF TypeOK, callVars, NoData, Zero, DueAt
<1>1. CASE RatesArrive
  <2>1. PICK v \in Validity : validUntil' = now + v
    BY <1>1 DEF RatesArrive
  <2>2. v \in Nat /\ v > Buffer
    BY DEF SafeSchedule
  <2>3. /\ pc = "rates" /\ pc' = "checkTerms" /\ failures' = 0
        /\ UNCHANGED <<now, initial, nextRates>>
    BY <1>1 DEF RatesArrive
  <2>4. DueAt' \in Int /\ DueAt' >= now + 1 /\ validUntil' > 0
    BY <2>1, <2>2
  <2>5. initial => nextRates <= now + FirstDelay
    BY <1>0, <2>3 DEF InTime, FirstWake, MaxOf
  <2> HIDE DEF DueAt
  <2>6. OnTime(DueAt + FirstDelay - 1 + Delay(failures))'
    BY <1>0, <1>a, <2>3, <2>4, <2>5 DEF OnTime
  <2>7. QED
    BY <1>b, <1>c, <2>3, <2>4, <2>6 DEF InTime, Kept
<1>2. CASE ~RatesArrive /\ Lost
  <2>1. Lost'
    BY <1>2 DEF Lost, Next, vars, Begin, Refreshed, TimerFires, Tick, CheckRates,
       RatesFail, CheckTerms, TermsArrive, TermsFail
  <2>2. QED
    BY <1>b, <1>c, <2>1 DEF InTime
<1>3. CASE RatesFail /\ ~Lost
  <2>1. /\ pc = "rates" /\ pc' = "checkTerms" /\ failures' = failures + 1
        /\ validUntil' \in {validUntil, -1, 0}
        /\ UNCHANGED <<now, initial, nextRates, ratesCall>>
    BY <1>3 DEF RatesFail, AfterFailure
  <2>2. CASE validUntil' \in {-1, 0}
    BY <1>b, <1>c, <2>1, <2>2 DEF InTime, Lost
  <2>3. CASE validUntil' = validUntil /\ validUntil > 0
    <3>1. initial => nextRates <= Start + Retry
      BY <2>1, <2>3 DEF InTime, FirstWake
    <3>2. CASE TakingOver
      <4>1. OnTime(Start + Delay(failures))' /\ DueAt' <= now'
        BY <1>0, <1>a, <2>1, <2>3, <3>1, <3>2 DEF TakingOver, OnTime, d
      <4>2. QED
        BY <1>b, <1>c, <4>1 DEF InTime, TakingOver
    <3>3. CASE Kept
      <4>1. OnTime(DueAt + FirstDelay - 1 + Delay(failures))'
        BY <1>0, <1>a, <2>1, <2>3, <3>3 DEF Kept, OnTime, d
      <4>2. QED
        BY <1>b, <1>c, <2>1, <2>3, <4>1 DEF InTime, Kept
    <3>4. QED
      BY <1>3, <3>2, <3>3 DEF InTime
  <2>4. QED
    BY <2>1, <2>2, <2>3
<1>4. CASE CheckRates /\ ~Lost
  <2>1. /\ pc = "checkRates"
        /\ UNCHANGED <<now, initial, validUntil, nextRates, failures>>
    BY <1>4 DEF CheckRates
  <2>2. CASE RatesDue
    <3>1. pc' = "rates" /\ ratesCall' = now
      BY <1>4, <2>2 DEF CheckRates
    <3>2. Kept => Kept'
      BY <1>a, <2>1, <3>1 DEF Kept, OnTime, d
    <3>3. TakingOver => TakingOver'
      BY <1>a, <2>1, <2>2, <3>1 DEF TakingOver, OnTime, RatesDue, d
    <3>4. QED
      BY <1>4, <1>b, <1>c, <3>2, <3>3 DEF InTime
  <2>3. CASE ~RatesDue
    <3>1. pc' = "checkTerms" /\ validUntil > 0 /\ now < DueAt
      BY <1>4, <2>1, <2>3 DEF CheckRates, RatesDue
    <3>2. initial => nextRates = DueAt
      BY <2>1, <3>1, NextTypes DEF InTime, FirstWake
    <3>3. Kept'
      BY <1>0, <1>a, <2>1, <3>1, <3>2 DEF Kept, OnTime
    <3>4. QED
      BY <1>b, <1>c, <3>3 DEF InTime
  <2>4. QED
    BY <2>2, <2>3
<1>5. CASE Refreshed /\ ~Lost
  <2>1. /\ pc = "refreshed" /\ pc' = "wait" /\ ~initial'
        /\ UNCHANGED <<now, validUntil, failures>>
        /\ IF initial THEN nextRates' = nextRates ELSE nextRates' = NextRates
    BY <1>5 DEF Refreshed, UpdateNextRefreshTimes
  <2>2. CASE Kept
    <3>1. Kept'
      BY <1>0, <1>a, <2>1, <2>2, NextTypes DEF Kept, OnTime
    <3>2. QED
      BY <1>b, <1>c, <3>1 DEF InTime
  <2>3. CASE TakingOver
    <3>1. validUntil > 0
      BY <1>0, <1>5, <2>1, <2>3 DEF TakingOver, OnTime, InTime, Lost, d
    <3>2. TakingOver'
      BY <1>0, <1>a, <2>1, <2>3, <3>1, NextTypes DEF TakingOver, OnTime, d
    <3>3. QED
      BY <1>b, <1>c, <3>2 DEF InTime
  <2>4. QED
    BY <1>5, <2>2, <2>3 DEF InTime
<1>6. CASE (Begin \/ TimerFires \/ Tick \/ CheckTerms \/ TermsArrive \/ TermsFail) /\ ~Lost
  <2>1. UNCHANGED <<validUntil, failures>>
    BY <1>6 DEF Begin, TimerFires, Tick, CheckTerms, TermsArrive, TermsFail
  <2>2. TakingOver => TakingOver'
    <3>1. Begin => TakingOver'
      BY <1>0, <1>a, <2>1 DEF Begin, InTime, FirstWake, TakingOver, OnTime, d
    <3>2. QED
      BY <1>0, <1>a, <1>6, <2>1, <3>1 DEF TakingOver, OnTime, NextRefreshTime, InTime, FirstWake, d,
         TimerFires, Tick, CheckTerms, TermsArrive, TermsFail
  <2>3. Kept => Kept'
    BY <1>0, <1>a, <1>6, <2>1 DEF Kept, OnTime, NextRefreshTime, InTime, FirstWake, d,
       Begin, TimerFires, Tick, CheckTerms, TermsArrive, TermsFail
  <2>4. QED
    BY <1>6, <1>b, <1>c, <2>2, <2>3 DEF InTime
<1>7. CASE UNCHANGED vars
  BY <1>7 DEF vars, InTime, FirstWake, NextRates, NotInThePast, Kept, TakingOver, OnTime, Lost, Delay
<1>8. QED
  BY <1>1, <1>2, <1>3, <1>4, <1>5, <1>6, <1>7 DEF Next

(* Under SafeSchedule a pod that has taken over with rates of any age       *)
(* serves valid rates TakeoverDelay later, and they never expire again,     *)
(* however the refreshes of rates and terms fall and fail.                  *)
THEOREM RatesNeverExpire ==
  ASSUME SafeSchedule
  PROVE  Spec => []RatesStayValid
<1>1. Init => InTime
  <2> SUFFICES ASSUME Init PROVE InTime
    OBVIOUS
  <2>1. FirstWake /\ now >= Start /\ TakingOver
    BY DEF Init, FirstWake, TakingOver, OnTime
  <2>2. QED
    BY <2>1 DEF InTime
<1>2. TypeOK /\ InTime /\ [Next]_vars => InTime'
  BY InTimeKept
<1>3. TypeOK /\ InTime => RatesStayValid
  <2> SUFFICES ASSUME TypeOK, InTime, now > Start + TakeoverDelay, ~Lost PROVE now < validUntil
    BY DEF RatesStayValid, Lost
  <2>1. /\ Delay(failures) \in Nat /\ Delay(MaxFailures) \in Nat
        /\ Delay(failures) <= Delay(MaxFailures)
        /\ TakeoverDelay = Delay(MaxFailures) + MaxCall
        /\ Buffer >= FirstDelay + Delay(MaxFailures) + MaxCall
        /\ FirstDelay \in Nat /\ FirstDelay >= MaxCall + Retry
    BY DelayBounds, FirstDelayBounds DEF TypeOK, SafeSchedule
  <2>2. ~TakingOver
    BY <2>1 DEF TakingOver, OnTime, InTime, FirstWake, TypeOK, LoopStep
  <2>3. Kept
    BY <2>2 DEF InTime
  <2>4. now <= DueAt + FirstDelay - 1 + Delay(failures) + MaxCall
    BY <2>1, <2>3 DEF Kept, OnTime, DueAt, TypeOK, LoopStep
  <2>5. QED
    BY <2>1, <2>4 DEF DueAt, TypeOK, NoData
<1>4. QED
  BY <1>1, <1>2, <1>3, ScheduleTypeCorrect, PTL DEF Spec

===============================================================================
