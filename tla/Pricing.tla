--------------------------------- MODULE Pricing ---------------------------------
(***************************************************************************)
(* What GiveMeRate computes from a request, the payment terms of the       *)
(* agency and a rate sheet: the base date, the days to hedge, the tenor,   *)
(* the rate and the due date.  A behaviour asks for the rate of one        *)
(* booking, and again and again after the stay was moved by a day.         *)
(*                                                                         *)
(* A time is a number of ticks, Day of them to a day, in a calendar of     *)
(* months whose first day is FirstDay; time 0 is the zero time.Time, which *)
(* lies further back than a Duration reaches.  A date string that is empty *)
(* or does not parse is the zero time as well.                             *)
(***************************************************************************)
EXTENDS Integers, SequencesExt

CONSTANTS
  Day,          \* ticks to a day, an even number
  MonthDays,    \* the lengths of the months
  FirstDay,     \* the first day of the first month
  MaxDuration,  \* the longest time.Duration; the shortest is -MaxDuration - 1
  Upper,        \* strings.ToUpper on the currencies there are
  BpddNames,    \* the names of the base dates by code
  FreqNames,    \* the names of the frequencies by code
  Cases,        \* what callers ask, with the payment terms and the sheet in memory, see CasesAssumption
  Now           \* when the caller asks

Zero == 0

ASSUME PricingAssumption ==
  /\ Day \in Nat \ {0} /\ Day % 2 = 0
  /\ MonthDays \in Seq(28..31) /\ MonthDays # <<>>
  /\ MaxDuration \in Nat
  /\ FirstDay \in Nat /\ FirstDay * Day > MaxDuration
  /\ Now \in Nat \ {0}

VARIABLES
  request,  \* the GiveMeRateReq
  term,     \* the payment terms of its agency
  sheet,    \* the rate sheet in memory
  quote     \* the answer

vars == <<request, term, sheet, quote>>

-------------------------------------------------------------------------------
(***************************************************************************)
(* Durations and dates.                                                    *)
(***************************************************************************)

\* Time.Sub saturates, the product of a Duration wraps around.
Sub(a, b) == Max({Min({a - b, MaxDuration}), -MaxDuration - 1})
Wrapped(d) == ((d + MaxDuration + 1) % (2 * (MaxDuration + 1))) - (MaxDuration + 1)

\* int(d.Hours() / 24) and int(math.Round(d.Hours() / 24))
Truncated(d) == IF d >= 0 THEN d \div Day ELSE -((-d) \div Day)
Rounded(d) == IF d >= 0 THEN (d + Day \div 2) \div Day ELSE -((-d + Day \div 2) \div Day)

\* Seeded fault: negative numbers of days pass.
Unclamped(n) == n

ClampNonNegative(n) == Max({n, 0})

\* MonthStart[m] is the first day of month m; there is one more than months.
MonthStart[m \in 1..(Len(MonthDays) + 1)] ==
  IF m = 1 THEN FirstDay ELSE MonthStart[m - 1] + MonthDays[m - 1]

MonthOf(t) ==
  CHOOSE m \in DOMAIN MonthDays : t \div Day \in MonthStart[m]..(MonthStart[m + 1] - 1)

DayOfMonth(t) == t \div Day - MonthStart[MonthOf(t)] + 1
LastDayOfMonth(t) == MonthDays[MonthOf(t)]
MidDayOfMonth(t) == (LastDayOfMonth(t) + 1) \div 2

\* The midnight at which a day of the month of t begins.
Midnight(t, day) == (MonthStart[MonthOf(t)] + day - 1) * Day

-------------------------------------------------------------------------------
(***************************************************************************)
(* What callers ask, and what the caches may hold.                         *)
(***************************************************************************)
CalendarEnd == MonthStart[Len(MonthDays) + 1] * Day
Dates == {Zero} \cup (FirstDay * Day)..(CalendarEnd - 1)
Currencies == DOMAIN Upper

Requests ==
  [created : Dates, checkIn : Dates, checkOut : Dates, deadline : Dates,
   nonrefundable : BOOLEAN, from : Currencies, to : Currencies]
PaymentTerms == [bpdd : Int, freq : Int, daysAfter : Int]
Tenor == [days : Int, rate : Int]
HedgedPair == [from : Currencies, to : Currencies, tenors : Seq(Tenor)]
SpotPair == [from : Currencies, to : Currencies, rate : Int]
Sheets == [hedged : Seq(HedgedPair), spot : Seq(SpotPair), rev : Nat, validUntil : Nat]

ASSUME CasesAssumption == Cases \subseteq [request : Requests, term : PaymentTerms, sheet : Sheets]

-------------------------------------------------------------------------------
(***************************************************************************)
(* The base date.                                                          *)
(***************************************************************************)

\* An enum that the API does not name has no name, or the default for code 0.
NameOf(names, code, default) ==
  IF code \in DOMAIN names THEN names[code] ELSE IF code = 0 THEN default ELSE ""

PrimaryDate(r, bpdd) ==
  CASE bpdd \in {"Default", "CheckIn", "CheckInAndNonRefundable"} -> r.checkIn
    [] bpdd \in {"CheckOut", "CheckOutAndNonRefundable"} -> r.checkOut
    [] bpdd \in {"CancellationDeadline", "CancellationDeadlineAndNonRefundable"} -> r.deadline
    [] bpdd = "CreationDate" -> r.created
    [] OTHER -> Zero

Known == {"Default", "CheckIn", "CheckInAndNonRefundable", "CheckOut", "CheckOutAndNonRefundable",
          "CancellationDeadline", "CancellationDeadlineAndNonRefundable", "CreationDate"}

\* Where a booking that cannot be refunded counts from its creation.
FromCreation == {"Default", "CheckInAndNonRefundable", "CheckOutAndNonRefundable",
                 "CancellationDeadlineAndNonRefundable"}

(* The base date, if there is one.  The primary date must be there even     *)
(* where it is not used.  An unknown base falls back to the check-in, then  *)
(* to the creation of the booking, which may be the zero time.              *)
ChooseBaseDate(r, bpdd) ==
  LET primary == PrimaryDate(r, bpdd)
      used == IF bpdd \in FromCreation /\ r.nonrefundable THEN r.created ELSE primary
  IN IF bpdd \in Known
     THEN IF primary = Zero \/ used = Zero THEN {} ELSE {used}
     ELSE {IF r.checkIn # Zero THEN r.checkIn ELSE r.created}

-------------------------------------------------------------------------------
(***************************************************************************)
(* The days to hedge.                                                      *)
(***************************************************************************)

\* Seeded fault: a base date on a boundary counts to the next one.
EndsFromStrict(t, ends) == {d \in ends : DayOfMonth(t) < d} \cup {LastDayOfMonth(t)}

EndsFrom(t, ends) == {d \in ends : DayOfMonth(t) <= d}

\* The day on which the quarter, or the half, of the month ends.
BoundaryDay(base, freq) ==
  CASE freq = "Weekly" -> Min(EndsFrom(base, {7, 15, 23, LastDayOfMonth(base)}))
    [] freq = "BiWeekly" -> Min(EndsFrom(base, {MidDayOfMonth(base), LastDayOfMonth(base)}))

(* A month is counted from the day of the base date, a quarter or a half of *)
(* one from its time, down to whole days.                                   *)
DaysToBoundary(base, freq) ==
  CASE freq \in {"Weekly", "BiWeekly"} -> Truncated(Midnight(base, BoundaryDay(base, freq)) - base)
    [] freq = "Daily" -> 0
    [] freq = "SpecificDaysOfWeek" -> 7
    [] OTHER -> LastDayOfMonth(base) - DayOfMonth(base)

DaysDueFromFrequency(base, freq, daysAfter) ==
  IF base = Zero THEN 0 ELSE ClampNonNegative(DaysToBoundary(base, freq) + daysAfter)

Lead(created, base) == ClampNonNegative(Rounded(Sub(base, created)))

-------------------------------------------------------------------------------
(***************************************************************************)
(* The pairs of a sheet, and the tenor.                                    *)
(***************************************************************************)
PairKey(p) == <<Upper[p.from], Upper[p.to]>>

Keys(list) == {PairKey(list[i]) : i \in DOMAIN list}

LastOf(list, key) == list[SelectLastInSeq(list, LAMBDA p : PairKey(p) = key)]

\* Seeded fault: all pairs point to the one loop variable.
SpotOfAliased(list, key) == list[Len(list)].rate

SpotOf(list, key) == LastOf(list, key).rate

\* DumpRates: by pair, the last of the tenor lists and the last spot rate, if any.
Pairs(s) ==
  [k \in Keys(s.hedged) \cup Keys(s.spot) |->
    [tenors |-> IF k \in Keys(s.hedged) THEN LastOf(s.hedged, k).tenors ELSE <<>>,
     spot |-> IF k \in Keys(s.spot) THEN {SpotOf(s.spot, k)} ELSE {}]]

NoTenor == [days |-> 0, rate |-> 0]

\* Seeded fault: a tenor of just the right length is passed over.
LongEnoughStrict(t, days) == t.days > days

LongEnough(t, days) == t.days >= days

\* Seeded fault: the first tenor stands in when none is long enough.
LongestFirst(tenors) == tenors[1]

\* The tenor that stands in when none is long enough.
Longest(tenors) == tenors[Len(tenors)]

\* The first tenor in list order that is long enough, else the last.
SelectTenor(tenors, days) ==
  LET first == SelectInSeq(tenors, LAMBDA t : LongEnough(t, days))
  IN CASE tenors = <<>> -> NoTenor
       [] first # 0 -> tenors[first]
       [] OTHER -> Longest(tenors)

-------------------------------------------------------------------------------
(***************************************************************************)
(* GiveMeRate.                                                             *)
(***************************************************************************)
Refused == [type |-> "error", base |-> Zero, days |-> 0, tenor |-> 0, rate |-> 0, due |-> Zero]

BaseDates(r, t) == ChooseBaseDate(r, NameOf(BpddNames, t.bpdd, "Default"))

DaysToHedge(r, t, base) ==
  ClampNonNegative(Lead(r.created, base)
    + DaysDueFromFrequency(base, NameOf(FreqNames, t.freq, "Monthly"), t.daysAfter))

\* Seeded fault: a pair without tenors is refused.
HasRateAndTenor(pair) == pair.spot # {} /\ pair.tenors # <<>>

\* A pair needs a spot rate also where a tenor is found.
HasRate(pair) == pair.spot # {}

\* All that GiveMeRate checks on its way.
Answered(r, t, s) ==
  /\ BaseDates(r, t) # {}
  /\ PairKey(r) \in DOMAIN Pairs(s)
  /\ Upper[r.from] # Upper[r.to]
  /\ HasRate(Pairs(s)[PairKey(r)])
  /\ s.validUntil # Zero /\ s.validUntil >= Now
  /\ s.rev # 0

\* The spot rate stands in where the tenor has no rate, or no days.
Answer(r, t, s) ==
  LET base == CHOOSE b \in BaseDates(r, t) : TRUE
      days == DaysToHedge(r, t, base)
      pair == Pairs(s)[PairKey(r)]
      tenor == SelectTenor(pair.tenors, days)
      hedged == tenor.rate # 0 /\ tenor.days # 0
  IN [type |-> IF hedged THEN "Hedged" ELSE "Spot",
      base |-> base,
      days |-> days,
      tenor |-> tenor.days,
      rate |-> IF hedged THEN tenor.rate ELSE CHOOSE rate \in pair.spot : TRUE,
      due |-> r.created + Wrapped(days * Day)]

GiveMeRate(r, t, s) == IF Answered(r, t, s) THEN Answer(r, t, s) ELSE Refused

-------------------------------------------------------------------------------
Init ==
  /\ \E c \in Cases : request = c.request /\ term = c.term /\ sheet = c.sheet
  /\ quote = GiveMeRate(request, term, sheet)

DayLater(t) == IF t = Zero THEN Zero ELSE t + Day

\* The stay is moved by a day, within the calendar, and the caller asks again.
Postpone ==
  /\ request' = [request EXCEPT !.checkIn = DayLater(@), !.checkOut = DayLater(@), !.deadline = DayLater(@)]
  /\ \A t \in {request'.checkIn, request'.checkOut, request'.deadline} : t < CalendarEnd
  /\ quote' = GiveMeRate(request', term, sheet)
  /\ UNCHANGED <<term, sheet>>

Next == Postpone

Spec == Init /\ [][Next]_vars

-------------------------------------------------------------------------------
(***************************************************************************)
(* Properties.                                                             *)
(***************************************************************************)

\* The type of an answer; a number of days is never negative.
TypeOK ==
  /\ quote.type \in {"error", "Hedged", "Spot"}
  /\ quote.base \in Dates
  /\ quote.days \in Nat
  /\ {quote.tenor, quote.rate, quote.due} \subseteq Int

Regular == quote # Refused /\ Zero < request.created /\ request.created <= quote.base

Frequency == NameOf(FreqNames, term.freq, "Monthly")

\* Where the payment period of the base date ends, by the calendar alone.
PeriodEnd ==
  LET d == DayOfMonth(quote.base)
      ends == CASE Frequency = "Weekly" -> {7, 15, 23}
                [] Frequency = "BiWeekly" -> {MidDayOfMonth(quote.base)}
                [] OTHER -> {}
      offset == CASE Frequency = "Daily" -> 0
                  [] Frequency = "SpecificDaysOfWeek" -> 7
                  [] d <= Max(ends \cup {0}) -> Min({e \in ends : d <= e}) - d
                  [] OTHER -> LastDayOfMonth(quote.base) - d
  IN Midnight(quote.base, d + offset)

(* From the first day of the calendar, the last one and a month and n days  *)
(* more are within the reach of a Duration, which is 292 years.             *)
InReach(n) == CalendarEnd - FirstDay * Day + (31 + n) * Day <= MaxDuration

(* Then no difference of two dates saturates, and no due date overflows.    *)
WithinReach == InReach(0) /\ \A c \in Cases : InReach(c.term.daysAfter)

(* The due date is counted in whole days from the time of booking, with two *)
(* roundings on the way.  Within reach they do no harm: it falls within     *)
(* half a day of the end of the period and the days after if the base date  *)
(* is a date, and less than a day and a half from it if it is a time.       *)
DueNearPeriodEnd ==
  Regular /\ term.daysAfter >= 0 =>
    LET off == quote.due - (PeriodEnd + term.daysAfter * Day)
        slack == IF quote.base % Day = 0 THEN Day \div 2 ELSE Day + Day \div 2 - 1
    IN off \in (-slack)..slack

Tenors == Pairs(sheet)[PairKey(request)].tenors
Ascending == \A i, j \in DOMAIN Tenors : i < j => Tenors[i].days < Tenors[j].days

(* A hedged rate covers the days to hedge if any tenor of the pair does,    *)
(* and is for no longer than it takes if the API sorts its tenors.          *)
TenorFits ==
  quote.type = "Hedged" =>
    LET long == {i \in DOMAIN Tenors : Tenors[i].days >= quote.days}
    IN long # {} =>
         /\ quote.tenor >= quote.days
         /\ Ascending => \A i \in long : quote.tenor <= Tenors[i].days

(* A rate is one that the API gave for the very pair, spot or hedged as it  *)
(* says, whatever the case of the currencies and the order of the lists.    *)
RateOfThePair ==
  /\ quote.type = "Spot" =>
       \E i \in DOMAIN sheet.spot :
         PairKey(sheet.spot[i]) = PairKey(request) /\ sheet.spot[i].rate = quote.rate
  /\ quote.type = "Hedged" =>
       \E i \in DOMAIN sheet.hedged :
         /\ PairKey(sheet.hedged[i]) = PairKey(request)
         /\ \E j \in DOMAIN sheet.hedged[i].tenors :
              sheet.hedged[i].tenors[j] = [days |-> quote.tenor, rate |-> quote.rate]

(* "If tenor not found it should use spot as fallback": a booking with all  *)
(* its dates is answered from every valid sheet with a spot rate.           *)
SpotIsEnough ==
  /\ Zero \notin {request.created, request.checkIn, request.checkOut, request.deadline}
  /\ Upper[request.from] # Upper[request.to]
  /\ PairKey(request) \in Keys(sheet.spot)
  /\ sheet.validUntil >= Now
  /\ sheet.rev # 0
  => quote # Refused

(* A stay that is moved to a later day is not due sooner, nor hedged for a  *)
(* shorter time, if it begins after the booking and its dates are dates,    *)
(* and as long as all of them are within reach.                             *)
LaterIsNotSooner ==
  [][ Regular /\ quote.base % Day = 0 /\ Ascending /\ quote' # Refused =>
        quote'.due >= quote.due /\ quote'.tenor >= quote.tenor ]_vars

=================================================================================
