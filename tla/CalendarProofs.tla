------------------------------ MODULE CalendarProofs ------------------------------
(***************************************************************************)
(* Lemmas about the calendar and the arithmetic of Pricing: least and      *)
(* greatest elements, division by a day, and the months.                   *)
(***************************************************************************)
EXTENDS Pricing, WellFoundedInduction, TLAPS

(* A set of natural numbers has a least element.                            *)
LEMMA MinOfNat ==
  ASSUME NEW S \in SUBSET Nat, S # {}
  PROVE  Min(S) \in S /\ \A y \in S : Min(S) <= y
<1> DEFINE less == {p \in Nat \X Nat : p[1] < p[2]}
<1>1. OpToRel(<, Nat) = less
  BY DEF OpToRel
<1>2. PICK x \in S : \A y \in S : ~(<<y, x>> \in less)
  <2> HIDE DEF less
  <2>1. QED
    BY <1>1, WFMin, NatLessThanWellFounded
<1>3. ASSUME NEW y \in S PROVE x <= y
  <2>1. <<y, x>> \in Nat \X Nat /\ ~(<<y, x>> \in less)
    BY <1>2
  <2>2. ~(y < x)
    BY <2>1
  <2>3. QED
    BY <2>2
<1>4. QED
  BY <1>3 DEF Min

(* A bounded one has a greatest element.                                    *)
LEMMA MaxOfRange ==
  ASSUME NEW n \in Nat, NEW S \in SUBSET (1..n), S # {}
  PROVE  Max(S) \in S /\ \A y \in S : y <= Max(S)
<1> DEFINE mirror == {n - x : x \in S}
<1>1. mirror \in SUBSET Nat /\ mirror # {}
  <2>1. \A x \in S : n - x \in Nat
    OBVIOUS
  <2>2. QED
    BY <2>1
<1>2. PICK x \in S : Min(mirror) = n - x
  BY <1>1, MinOfNat
<1>3. ASSUME NEW y \in S PROVE y <= x
  <2>1. n - x <= n - y
    <3>1. n - y \in mirror
      OBVIOUS
    <3>2. \A z \in mirror : Min(mirror) <= z
      BY <1>1, MinOfNat
    <3> HIDE DEF mirror
    <3>3. QED
      BY <1>2, <3>1, <3>2
  <2>2. QED
    BY <2>1
<1>4. QED
  BY <1>3 DEF Max

(* Induction up to n, with the set of the numbers for which a fact holds.   *)
LEMMA UpTo ==
  ASSUME NEW n \in Nat, NEW S, n >= 1 => 1 \in S, \A m \in 1..(n - 1) : m \in S => m + 1 \in S
  PROVE  \A m \in 1..n : m \in S
<1> SUFFICES ASSUME 1..n \ S # {} PROVE FALSE
  OBVIOUS
<1> DEFINE rest == 1..n \ S
<1>1. rest \in SUBSET Nat /\ rest # {}
  OBVIOUS
<1>2. PICK m \in rest : \A y \in rest : m <= y
  BY <1>1, MinOfNat
<1>3. m # 1 /\ m - 1 \in 1..(n - 1)
  BY <1>2
<1>4. m - 1 \in S
  BY <1>2, <1>3
<1>5. (m - 1) + 1 \in S
  BY <1>3, <1>4
<1>6. QED
  BY <1>2, <1>5

-------------------------------------------------------------------------------
(***************************************************************************)
(* Division by a day.                                                      *)
(***************************************************************************)
LEMMA DayIsNat == Day \in Nat \ {0} /\ Day \div 2 \in Nat /\ 2 * (Day \div 2) = Day
  BY PricingAssumption

LEMMA DivDay ==
  ASSUME NEW x \in Nat
  PROVE  /\ x \div Day \in Nat /\ (x \div Day) * Day \in Nat
         /\ (x \div Day) * Day <= x /\ x < (x \div Day) * Day + Day
         /\ x % Day = x - (x \div Day) * Day
  BY DayIsNat

LEMMA DivDayIs ==
  ASSUME NEW x \in Nat, NEW q \in Nat, q * Day <= x, x < q * Day + Day
  PROVE  x \div Day = q
  BY DayIsNat

-------------------------------------------------------------------------------
(***************************************************************************)
(* The months.                                                             *)
(***************************************************************************)
Months == Len(MonthDays)

LEMMA MonthsTypes ==
  /\ Months \in Nat \ {0}
  /\ DOMAIN MonthDays = 1..Months
  /\ \A m \in 1..Months : MonthDays[m] \in 28..31
<1>1. MonthDays \in Seq(28..31) /\ MonthDays # <<>>
  BY PricingAssumption
<1>2. QED
  BY <1>1 DEF Months

(* What a table of the first days of n months is.                           *)
StartsUpTo(n, g) ==
  g = [m \in 1..n |-> IF m = 1 THEN FirstDay ELSE g[m - 1] + MonthDays[m - 1]]

(* There is such a table, so MonthStart is one.                             *)
LEMMA MonthStartRecursion == StartsUpTo(Months + 1, MonthStart)
<1> DEFINE ok == {n \in 1..(Months + 1) : \E g : StartsUpTo(n, g)}
<1>1. 1 \in ok
  <2> DEFINE one == [m \in 1..1 |-> FirstDay]
  <2>1. StartsUpTo(1, one)
    BY DEF StartsUpTo
  <2>2. QED
    BY <2>1, MonthsTypes
<1>2. ASSUME NEW n \in 1..Months, n \in ok PROVE n + 1 \in ok
  <2>1. PICK g : StartsUpTo(n, g)
    BY <1>2
  <2> DEFINE h == [m \in 1..(n + 1) |-> IF m = n + 1 THEN g[n] + MonthDays[n] ELSE g[m]]
  <2>2. ASSUME NEW m \in 1..(n + 1)
        PROVE  h[m] = IF m = 1 THEN FirstDay ELSE h[m - 1] + MonthDays[m - 1]
    <3>1. CASE m = n + 1
      BY <3>1
    <3>2. CASE m # n + 1
      <4>1. m \in 1..n /\ (m # 1 => m - 1 \in 1..n)
        BY <3>2
      <4>2. g[m] = IF m = 1 THEN FirstDay ELSE g[m - 1] + MonthDays[m - 1]
        BY <2>1, <4>1 DEF StartsUpTo
      <4>3. QED
        BY <3>2, <4>1, <4>2
    <3>3. QED
      BY <3>1, <3>2
  <2>3. StartsUpTo(n + 1, h)
    <3>1. h = [m \in 1..(n + 1) |-> h[m]]
      OBVIOUS
    <3> HIDE DEF h
    <3>2. QED
      BY <2>2, <3>1 DEF StartsUpTo
  <2>4. QED
    BY <2>3, MonthsTypes
<1>3. Months + 1 \in ok
  <2>1. \A m \in 1..((Months + 1) - 1) : m \in ok => m + 1 \in ok
    BY <1>2, MonthsTypes
  <2>2. Months + 1 \in Nat /\ Months + 1 \in 1..(Months + 1)
    BY MonthsTypes
  <2> HIDE DEF ok
  <2>3. QED
    BY <1>1, <2>1, <2>2, UpTo
<1>4. MonthStart = CHOOSE g : StartsUpTo(Months + 1, g)
  BY DEF MonthStart, StartsUpTo, Months
<1>5. QED
  BY <1>3, <1>4

LEMMA MonthStarts ==
  /\ MonthStart[1] = FirstDay
  /\ \A m \in 1..Months : MonthStart[m + 1] = MonthStart[m] + MonthDays[m]
  /\ \A m \in 1..(Months + 1) : MonthStart[m] \in Nat /\ MonthStart[m] >= FirstDay
<1>1. \A m \in 1..(Months + 1) :
        MonthStart[m] = IF m = 1 THEN FirstDay ELSE MonthStart[m - 1] + MonthDays[m - 1]
  BY MonthStartRecursion DEF StartsUpTo
<1>2. MonthStart[1] = FirstDay
  BY <1>1, MonthsTypes
<1>3. ASSUME NEW m \in 1..Months PROVE MonthStart[m + 1] = MonthStart[m] + MonthDays[m]
  <2>1. m + 1 \in 1..(Months + 1) /\ m + 1 # 1 /\ (m + 1) - 1 = m
    BY MonthsTypes
  <2>2. QED
    BY <1>1, <2>1
<1>4. \A m \in 1..(Months + 1) : MonthStart[m] \in Nat /\ MonthStart[m] >= FirstDay
  <2> DEFINE S == {m \in 1..(Months + 1) : MonthStart[m] \in Nat /\ MonthStart[m] >= FirstDay}
  <2>1. 1 \in S
    BY <1>2, MonthsTypes, PricingAssumption
  <2>2. ASSUME NEW m \in 1..((Months + 1) - 1), m \in S PROVE m + 1 \in S
    <3>1. m \in 1..Months /\ m + 1 \in 1..(Months + 1)
      BY MonthsTypes
    <3>2. MonthDays[m] \in Nat
      BY <3>1, MonthsTypes
    <3>3. MonthStart[m] \in Nat /\ MonthStart[m] >= FirstDay /\ FirstDay \in Nat
      BY <2>2, PricingAssumption
    <3>4. MonthStart[m + 1] \in Nat /\ MonthStart[m + 1] >= FirstDay
      BY <1>3, <3>1, <3>2, <3>3
    <3>5. QED
      BY <3>1, <3>4
  <2>3. \A m \in 1..(Months + 1) : m \in S
    <3>1. Months + 1 \in Nat
      BY MonthsTypes
    <3> HIDE DEF S
    <3>2. QED
      BY <2>1, <2>2, <3>1, UpTo
  <2>4. QED
    BY <2>3
<1>5. QED
  BY <1>2, <1>3, <1>4

(* The months follow one another.                                           *)
LEMMA MonthsInOrder ==
  ASSUME NEW i \in 1..(Months + 1), NEW j \in 1..(Months + 1), i <= j
  PROVE  MonthStart[i] <= MonthStart[j]
<1> DEFINE S == {n \in 1..(Months + 1) : n >= i => MonthStart[i] <= MonthStart[n]}
<1>1. 1 \in S
  BY MonthStarts, MonthsTypes
<1>2. ASSUME NEW m \in 1..((Months + 1) - 1), m \in S PROVE m + 1 \in S
  <2>1. m \in 1..Months /\ m + 1 \in 1..(Months + 1)
    BY MonthsTypes
  <2>2. MonthDays[m] \in Nat /\ MonthStart[m] \in Nat /\ MonthStart[i] \in Nat
    <3>1. MonthDays[m] \in 28..31
      BY <2>1, MonthsTypes
    <3>2. m \in 1..(Months + 1)
      BY <2>1, MonthsTypes
    <3>3. QED
      BY <3>1, <3>2, MonthStarts
  <2>3. MonthStart[m + 1] = MonthStart[m] + MonthDays[m]
    BY <2>1, MonthStarts
  <2>4. CASE i <= m
    BY <1>2, <2>1, <2>2, <2>3, <2>4
  <2>5. CASE i = m + 1
    BY <2>1, <2>2, <2>3, <2>5
  <2>6. CASE i > m + 1
    BY <2>1, <2>6, MonthsTypes
  <2>7. QED
    BY <2>4, <2>5, <2>6, MonthsTypes
<1>3. Months + 1 \in Nat
  BY MonthsTypes
<1>4. j \in S
  <2> HIDE DEF S
  <2>1. QED
    BY <1>1, <1>2, <1>3, UpTo
<1>5. QED
  BY <1>4

(* A day lies in one month at most.                                         *)
LEMMA OneMonth ==
  ASSUME NEW d \in Nat, NEW i \in 1..Months, NEW j \in 1..Months,
         d \in MonthStart[i]..(MonthStart[i + 1] - 1), d \in MonthStart[j]..(MonthStart[j + 1] - 1)
  PROVE  i = j
<1>1. ASSUME NEW k \in 1..Months, NEW l \in 1..Months, k < l,
             d \in MonthStart[k]..(MonthStart[k + 1] - 1), d \in MonthStart[l]..(MonthStart[l + 1] - 1)
      PROVE  FALSE
  <2>1. k + 1 \in 1..(Months + 1) /\ l \in 1..(Months + 1) /\ k + 1 <= l
    BY <1>1, MonthsTypes
  <2>2. MonthStart[k + 1] <= MonthStart[l] /\ MonthStart[k + 1] \in Nat /\ MonthStart[l] \in Nat
    BY <2>1, MonthsInOrder, MonthStarts
  <2>3. QED
    BY <1>1, <2>2
<1>2. QED
  BY <1>1, MonthsTypes

(* Every day of the calendar lies in a month.                               *)
LEMMA SomeMonth ==
  ASSUME NEW d \in Nat, FirstDay <= d, d < MonthStart[Months + 1]
  PROVE  \E m \in 1..Months : d \in MonthStart[m]..(MonthStart[m + 1] - 1)
<1> DEFINE later == {m \in 1..(Months + 1) : d < MonthStart[m]}
<1>1. later \in SUBSET Nat /\ Months + 1 \in later
  BY MonthsTypes
<1>2. PICK n \in later : \A k \in later : n <= k
  <2> HIDE DEF later
  <2>1. QED
    BY <1>1, MinOfNat
<1>3. n # 1
  BY <1>2, MonthStarts, PricingAssumption
<1>4. n - 1 \in 1..Months /\ n - 1 \in 1..(Months + 1) /\ (n - 1) + 1 = n
  BY <1>2, <1>3, MonthsTypes
<1>5. ~(d < MonthStart[n - 1])
  BY <1>2, <1>4
<1>6. MonthStart[n - 1] \in Nat /\ MonthStart[n] \in Nat
  BY <1>2, <1>4, MonthStarts
<1>7. d \in MonthStart[n - 1]..(MonthStart[(n - 1) + 1] - 1)
  BY <1>2, <1>4, <1>5, <1>6
<1>8. QED
  BY <1>4, <1>7

(* Where a moment lies in its month.                                        *)
LEMMA InItsMonth ==
  ASSUME NEW t \in Dates \ {Zero}
  PROVE  /\ t \in Nat /\ t \div Day \in Nat
         /\ MonthOf(t) \in 1..Months
         /\ MonthStart[MonthOf(t)] \in Nat
         /\ t \div Day \in MonthStart[MonthOf(t)]..(MonthStart[MonthOf(t) + 1] - 1)
         /\ LastDayOfMonth(t) \in 28..31
         /\ DayOfMonth(t) \in 1..LastDayOfMonth(t)
         /\ t \div Day = MonthStart[MonthOf(t)] + DayOfMonth(t) - 1
         /\ MonthStart[MonthOf(t) + 1] = MonthStart[MonthOf(t)] + LastDayOfMonth(t)
<1> DEFINE d == t \div Day
<1>1. /\ t \in Nat /\ FirstDay * Day <= t /\ t < MonthStart[Months + 1] * Day
      /\ MonthStart[Months + 1] \in Nat /\ FirstDay \in Nat
  <2>1. MonthStart[Months + 1] \in Nat /\ FirstDay \in Nat
    BY MonthStarts, MonthsTypes, PricingAssumption
  <2>2. FirstDay * Day \in Nat /\ MonthStart[Months + 1] * Day \in Nat
    BY <2>1, DayIsNat
  <2>3. QED
    BY <2>1, <2>2 DEF Dates, CalendarEnd, Months
<1>2. d \in Nat /\ d * Day <= t /\ t < d * Day + Day
  BY <1>1, DivDay
<1>3. FirstDay <= d /\ d < MonthStart[Months + 1]
  <2>1. ASSUME d < FirstDay PROVE FALSE
    <3>1. (d + 1) * Day <= FirstDay * Day /\ (d + 1) * Day = d * Day + Day
      BY <1>1, <1>2, <2>1, DayIsNat
    <3>2. QED
      BY <1>1, <1>2, <3>1, DayIsNat
  <2>2. ASSUME MonthStart[Months + 1] <= d PROVE FALSE
    <3>1. MonthStart[Months + 1] * Day <= d * Day
      BY <1>1, <1>2, <2>2, DayIsNat
    <3>2. QED
      BY <1>1, <1>2, <3>1, DayIsNat
  <2>3. QED
    BY <1>1, <1>2, <2>1, <2>2
<1>4. MonthOf(t) \in 1..Months /\ d \in MonthStart[MonthOf(t)]..(MonthStart[MonthOf(t) + 1] - 1)
  <2>1. \E m \in DOMAIN MonthDays : t \div Day \in MonthStart[m]..(MonthStart[m + 1] - 1)
    BY <1>2, <1>3, SomeMonth, MonthsTypes
  <2>2. QED
    BY <2>1, MonthsTypes DEF MonthOf
<1> HIDE DEF d
<1>5. /\ MonthStart[MonthOf(t)] \in Nat
      /\ LastDayOfMonth(t) \in 28..31
      /\ MonthStart[MonthOf(t) + 1] = MonthStart[MonthOf(t)] + LastDayOfMonth(t)
  BY <1>4, MonthStarts, MonthsTypes DEF LastDayOfMonth
<1>6. DayOfMonth(t) = d - MonthStart[MonthOf(t)] + 1
  BY DEF DayOfMonth, d
<1>7. DayOfMonth(t) \in 1..LastDayOfMonth(t) /\ d = MonthStart[MonthOf(t)] + DayOfMonth(t) - 1
  BY <1>2, <1>4, <1>5, <1>6
<1>8. QED
  BY <1>1, <1>2, <1>4, <1>5, <1>7 DEF d

-------------------------------------------------------------------------------
(***************************************************************************)
(* The payment periods.                                                    *)
(***************************************************************************)
LEMMA MinIs ==
  ASSUME NEW S \in SUBSET Int, NEW x \in S, \A y \in S : x <= y
  PROVE  Min(S) = x
<1>1. Min(S) \in S /\ \A y \in S : Min(S) <= y
  BY DEF Min
<1>2. x \in Int /\ Min(S) \in Int /\ x <= Min(S) /\ Min(S) <= x
  BY <1>1
<1>3. QED
  BY <1>2

LEMMA MaxIs ==
  ASSUME NEW S \in SUBSET Int, NEW x \in S, \A y \in S : y <= x
  PROVE  Max(S) = x
<1>1. Max(S) \in S /\ \A y \in S : Max(S) >= y
  BY DEF Max
<1>2. x \in Int /\ Max(S) \in Int /\ Max(S) <= x /\ x <= Max(S)
  BY <1>1
<1>3. QED
  BY <1>2

(* The quarter or the half of its month in which a moment lies.             *)
QuarterEnd(d, last) == IF d <= 7 THEN 7 ELSE IF d <= 15 THEN 15 ELSE IF d <= 23 THEN 23 ELSE last
HalfEnd(d, mid, last) == IF d <= mid THEN mid ELSE last

LEMMA Boundaries ==
  ASSUME NEW t \in Dates \ {Zero}
  PROVE  /\ BoundaryDay(t, "Weekly") = QuarterEnd(DayOfMonth(t), LastDayOfMonth(t))
         /\ BoundaryDay(t, "BiWeekly") = HalfEnd(DayOfMonth(t), MidDayOfMonth(t), LastDayOfMonth(t))
         /\ MidDayOfMonth(t) \in 14..16
<1> DEFINE d == DayOfMonth(t)
           last == LastDayOfMonth(t)
           mid == MidDayOfMonth(t)
<1>1. last \in 28..31 /\ d \in 1..last
  BY InItsMonth
<1>2. mid \in 14..16
  BY <1>1 DEF MidDayOfMonth
<1> HIDE DEF d, last, mid
<1>3. Min({e \in {7, 15, 23, last} : d <= e}) = QuarterEnd(d, last)
  <2> DEFINE S == {e \in {7, 15, 23, last} : d <= e}
  <2>1. S \in SUBSET Int
    BY <1>1
  <2>2. QuarterEnd(d, last) \in S /\ \A y \in S : QuarterEnd(d, last) <= y
    BY <1>1 DEF QuarterEnd
  <2> HIDE DEF S
  <2>3. Min(S) = QuarterEnd(d, last)
    BY <2>1, <2>2, MinIs
  <2>4. QED
    BY <2>3 DEF S
<1>4. Min({e \in {mid, last} : d <= e}) = HalfEnd(d, mid, last)
  <2> DEFINE S == {e \in {mid, last} : d <= e}
  <2>1. S \in SUBSET Int
    BY <1>1, <1>2
  <2>2. HalfEnd(d, mid, last) \in S /\ \A y \in S : HalfEnd(d, mid, last) <= y
    BY <1>1, <1>2 DEF HalfEnd
  <2> HIDE DEF S
  <2>3. Min(S) = HalfEnd(d, mid, last)
    BY <2>1, <2>2, MinIs
  <2>4. QED
    BY <2>3 DEF S
<1>5. QED
  BY <1>2, <1>3, <1>4 DEF BoundaryDay, EndsFrom, d, last, mid

(* How many days ahead of the day of t its period ends.                     *)
Ahead(t, freq) ==
  CASE freq = "Weekly" -> QuarterEnd(DayOfMonth(t), LastDayOfMonth(t)) - DayOfMonth(t)
    [] freq = "BiWeekly" -> HalfEnd(DayOfMonth(t), MidDayOfMonth(t), LastDayOfMonth(t)) - DayOfMonth(t)
    [] freq = "Daily" -> 0
    [] freq = "SpecificDaysOfWeek" -> 7
    [] OTHER -> LastDayOfMonth(t) - DayOfMonth(t)

LEMMA AheadBounds ==
  ASSUME NEW t \in Dates \ {Zero}, NEW freq
  PROVE  Ahead(t, freq) \in 0..30
<1>1. /\ LastDayOfMonth(t) \in 28..31 /\ DayOfMonth(t) \in 1..LastDayOfMonth(t)
      /\ MidDayOfMonth(t) \in 14..16
  BY InItsMonth, Boundaries
<1>2. /\ QuarterEnd(DayOfMonth(t), LastDayOfMonth(t)) - DayOfMonth(t) \in 0..30
      /\ HalfEnd(DayOfMonth(t), MidDayOfMonth(t), LastDayOfMonth(t)) - DayOfMonth(t) \in 0..30
      /\ LastDayOfMonth(t) - DayOfMonth(t) \in 0..30
  BY <1>1 DEF QuarterEnd, HalfEnd
<1>3. QED
  BY <1>2 DEF Ahead

(* The midnight some days ahead.                                            *)
LEMMA MidnightAhead ==
  ASSUME NEW t \in Dates \ {Zero}, NEW k \in Nat
  PROVE  Midnight(t, DayOfMonth(t) + k) = (t \div Day + k) * Day
<1>1. /\ MonthStart[MonthOf(t)] \in Nat /\ DayOfMonth(t) \in Nat
      /\ t \div Day = MonthStart[MonthOf(t)] + DayOfMonth(t) - 1
  BY InItsMonth
<1>2. MonthStart[MonthOf(t)] + (DayOfMonth(t) + k) - 1 = t \div Day + k
  BY <1>1
<1>3. QED
  BY <1>2 DEF Midnight

(* A quarter or a half is counted from the time of the base date: in days   *)
(* that are begun one is lost.                                              *)
LEMMA DaysCounted ==
  ASSUME NEW t \in Dates \ {Zero}, NEW freq
  PROVE  /\ DaysToBoundary(t, freq) \in Nat
         /\ DaysToBoundary(t, freq) <= Ahead(t, freq)
         /\ DaysToBoundary(t, freq) >= Ahead(t, freq) - 1
         /\ t % Day = 0 => DaysToBoundary(t, freq) = Ahead(t, freq)
<1> DEFINE k == Ahead(t, freq)
           q == t \div Day
           r == t % Day
<1>1. k \in 0..30
  BY AheadBounds
<1>2. CASE freq \notin {"Weekly", "BiWeekly"}
  <2>1. DaysToBoundary(t, freq) = k
    BY <1>2 DEF DaysToBoundary, Ahead
  <2>2. QED
    BY <1>1, <2>1
<1>3. CASE freq \in {"Weekly", "BiWeekly"}
  <2>1. DaysToBoundary(t, freq) = Truncated(Midnight(t, BoundaryDay(t, freq)) - t)
    BY <1>3 DEF DaysToBoundary
  <2>2. DayOfMonth(t) \in Nat /\ BoundaryDay(t, freq) \in Nat /\ k = BoundaryDay(t, freq) - DayOfMonth(t)
    <3>1. /\ LastDayOfMonth(t) \in 28..31 /\ DayOfMonth(t) \in 1..LastDayOfMonth(t)
          /\ MidDayOfMonth(t) \in 14..16
      BY InItsMonth, Boundaries
    <3>2. /\ QuarterEnd(DayOfMonth(t), LastDayOfMonth(t)) \in Nat
          /\ HalfEnd(DayOfMonth(t), MidDayOfMonth(t), LastDayOfMonth(t)) \in Nat
      BY <3>1 DEF QuarterEnd, HalfEnd
    <3>3. QED
      BY <1>3, <3>1, <3>2, Boundaries DEF Ahead
  <2>3. BoundaryDay(t, freq) = DayOfMonth(t) + k
    BY <2>2
  <2>4. Midnight(t, BoundaryDay(t, freq)) = (q + k) * Day
    BY <1>1, <2>3, MidnightAhead
  <2>5. /\ t \in Nat /\ q \in Nat /\ q * Day \in Nat /\ q * Day <= t /\ t < q * Day + Day
        /\ r = t - q * Day
    BY InItsMonth, DivDay
  <2> HIDE DEF k, q, r
  <2>6. (q + k) * Day = q * Day + k * Day /\ k * Day \in Nat
    BY <1>1, <2>5, DayIsNat
  <2>7. DaysToBoundary(t, freq) = Truncated(k * Day - r) /\ r \in 0..(Day - 1)
    BY <2>1, <2>4, <2>5, <2>6, DayIsNat
  <2>8. CASE k = 0
    <3>1. k * Day - r <= 0 /\ -(k * Day - r) = r
      BY <2>6, <2>7, <2>8, DayIsNat
    <3>2. r \div Day = 0 /\ 0 \div Day = 0
      BY <2>7, DayIsNat
    <3>3. Truncated(k * Day - r) = 0
      BY <2>6, <2>7, <2>8, <3>1, <3>2, DayIsNat DEF Truncated
    <3>4. QED
      BY <2>7, <2>8, <3>3 DEF k, r
  <2>9. CASE k # 0 /\ r = 0
    <3>1. k \in Nat /\ k * Day - r = k * Day
      BY <1>1, <2>6, <2>9
    <3>2. (k * Day) \div Day = k
      BY <2>6, <3>1, DivDayIs, DayIsNat
    <3>3. QED
      BY <2>6, <2>7, <3>1, <3>2 DEF Truncated, k
  <2>10. CASE k # 0 /\ r # 0
    <3>1. k - 1 \in Nat /\ k \in Nat /\ (k - 1) * Day = k * Day - Day
      BY <1>1, <2>10, DayIsNat
    <3>2. (k - 1) * Day \in Nat
      BY <3>1, DayIsNat
    <3>3. k * Day - r \in Nat /\ (k - 1) * Day <= k * Day - r /\ k * Day - r < (k - 1) * Day + Day
      BY <2>6, <2>7, <2>10, <3>1, <3>2, DayIsNat
    <3>4. (k * Day - r) \div Day = k - 1
      BY <3>1, <3>3, DivDayIs
    <3>5. QED
      BY <2>7, <2>10, <3>1, <3>3, <3>4 DEF Truncated, k, r
  <2>11. QED
    BY <2>8, <2>9, <2>10
<1>4. QED
  BY <1>2, <1>3

-------------------------------------------------------------------------------
(***************************************************************************)
(* Durations.                                                              *)
(***************************************************************************)
LEMMA MinOfTwo ==
  ASSUME NEW a \in Int, NEW b \in Int
  PROVE  Min({a, b}) = IF a <= b THEN a ELSE b
<1>1. CASE a <= b
  BY <1>1, MinIs
<1>2. CASE ~(a <= b)
  BY <1>2, MinIs
<1>3. QED
  BY <1>1, <1>2

LEMMA MaxOfTwo ==
  ASSUME NEW a \in Int, NEW b \in Int
  PROVE  Max({a, b}) = IF a >= b THEN a ELSE b
<1>1. CASE a >= b
  BY <1>1, MaxIs
<1>2. CASE ~(a >= b)
  BY <1>2, MaxIs
<1>3. QED
  BY <1>1, <1>2

LEMMA Clamped ==
  ASSUME NEW n \in Int
  PROVE  ClampNonNegative(n) = IF n >= 0 THEN n ELSE 0
  BY MaxOfTwo DEF ClampNonNegative

LEMMA SubIs ==
  ASSUME NEW a \in Int, NEW b \in Int
  PROVE  /\ Sub(a, b) \in Int
         /\ 0 <= a - b /\ a - b <= MaxDuration => Sub(a, b) = a - b
<1>1. MaxDuration \in Nat /\ a - b \in Int /\ -MaxDuration - 1 \in Int
  BY PricingAssumption
<1> DEFINE least == Min({a - b, MaxDuration})
<1>2. least = IF a - b <= MaxDuration THEN a - b ELSE MaxDuration
  BY <1>1, MinOfTwo
<1>3. Sub(a, b) = Max({least, -MaxDuration - 1})
  BY DEF Sub
<1> HIDE DEF least
<1>4. least \in Int
  BY <1>1, <1>2
<1>5. Sub(a, b) = IF least >= -MaxDuration - 1 THEN least ELSE -MaxDuration - 1
  BY <1>1, <1>3, <1>4, MaxOfTwo
<1>6. QED
  BY <1>1, <1>2, <1>5

LEMMA WrappedIs ==
  ASSUME NEW d \in Int
  PROVE  /\ Wrapped(d) \in Int
         /\ 0 <= d /\ d <= MaxDuration => Wrapped(d) = d
<1> DEFINE span == 2 * (MaxDuration + 1)
<1>1. MaxDuration \in Nat /\ span \in Nat \ {0}
  BY PricingAssumption
<1>2. Wrapped(d) = ((d + MaxDuration + 1) % span) - (MaxDuration + 1)
  BY DEF Wrapped
<1>3. d + MaxDuration + 1 \in Int
  BY <1>1
<1>4. ASSUME NEW x \in Int PROVE x % span \in Int /\ (x \in 0..(span - 1) => x % span = x)
  <2> HIDE DEF span
  <2>1. QED
    BY <1>1
<1>5. 0 <= d /\ d <= MaxDuration => d + MaxDuration + 1 \in 0..(span - 1)
  BY <1>1
<1> HIDE DEF span
<1>6. QED
  BY <1>1, <1>2, <1>3, <1>4, <1>5

LEMMA RoundedIsInt ==
  ASSUME NEW d \in Int
  PROVE  Rounded(d) \in Int
<1> DEFINE h == Day \div 2
<1>1. h \in Nat /\ Day \in Nat \ {0}
  BY DayIsNat
<1> HIDE DEF h
<1>2. CASE d >= 0
  <2>1. d + h \in Nat
    BY <1>1, <1>2
  <2>2. QED
    BY <1>2, <2>1, DivDay DEF Rounded, h
<1>3. CASE ~(d >= 0)
  <2>1. -d + h \in Nat
    BY <1>1, <1>3
  <2>2. (-d + h) \div Day \in Nat
    BY <2>1, DivDay
  <2>3. QED
    BY <1>3, <2>2 DEF Rounded, h
<1>4. QED
  BY <1>2, <1>3

(* The days from the booking to the base date, to the nearest whole day.    *)
LEMMA LeadIs ==
  ASSUME NEW created \in Nat, NEW base \in Nat, created <= base, base - created <= MaxDuration
  PROVE  /\ Lead(created, base) \in Nat /\ Lead(created, base) * Day \in Nat
         /\ Lead(created, base) = (base - created + Day \div 2) \div Day
         /\ created + Lead(created, base) * Day - base <= Day \div 2
         /\ created + Lead(created, base) * Day - base > -(Day \div 2)
<1> DEFINE x == base - created
           h == Day \div 2
           n == (x + h) \div Day
<1>1. x \in Nat /\ h \in Nat /\ 2 * h = Day /\ x + h \in Nat
  BY DayIsNat
<1>2. n \in Nat /\ n * Day \in Nat /\ n * Day <= x + h /\ x + h < n * Day + Day
  BY <1>1, DivDay
<1>3. Sub(base, created) = x
  BY <1>1, SubIs
<1>4. Lead(created, base) = n
  <2>1. Rounded(x) = n
    BY <1>1 DEF Rounded
  <2> HIDE DEF x, n
  <2>2. QED
    BY <1>2, <1>3, <2>1, Clamped DEF Lead
<1> HIDE DEF n, h
<1>5. created + n * Day - base <= h /\ created + n * Day - base > -h
  BY <1>1, <1>2
<1>6. QED
  BY <1>2, <1>4, <1>5 DEF n, h

LEMMA LeadIsNat ==
  ASSUME NEW created \in Nat, NEW base \in Nat
  PROVE  Lead(created, base) \in Nat
<1>1. Sub(base, created) \in Int
  BY SubIs
<1>2. Rounded(Sub(base, created)) \in Int
  BY <1>1, RoundedIsInt
<1>3. QED
  BY <1>2, Clamped DEF Lead

===================================================================================
