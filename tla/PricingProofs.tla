------------------------------ MODULE PricingProofs ------------------------------
(***************************************************************************)
(* Proofs about Pricing.                                                   *)
(***************************************************************************)
EXTENDS CalendarProofs

-------------------------------------------------------------------------------
(***************************************************************************)
(* The tenor.                                                              *)
(***************************************************************************)

(* The tenor that is selected is one of the list.  If any is long enough,   *)
(* it is the first of those, else the last of the list.                     *)
LEMMA SelectedTenor ==
  ASSUME NEW tenors \in Seq(Tenor), tenors # <<>>, NEW days
  PROVE  \E j \in DOMAIN tenors :
           /\ SelectTenor(tenors, days) = tenors[j]
           /\ \A i \in DOMAIN tenors : tenors[i].days >= days =>
                tenors[j].days >= days /\ j <= i
           /\ tenors[j].days >= days \/ j = Len(tenors)
<1> DEFINE long == {i \in 1..Len(tenors) : tenors[i].days >= days}
<1>1. Len(tenors) \in Nat \ {0} /\ DOMAIN tenors = 1..Len(tenors)
  OBVIOUS
<1>2. SelectInSeq(tenors, LAMBDA t : LongEnough(t, days)) = IF long # {} THEN Min(long) ELSE 0
  BY DEF SelectInSeq, LongEnough
<1>3. CASE long = {}
  <2>1. SelectTenor(tenors, days) = tenors[Len(tenors)]
    BY <1>2, <1>3 DEF SelectTenor, Longest
  <2>2. QED
    BY <1>1, <1>3, <2>1
<1>4. CASE long # {}
  <2>1. Min(long) \in long /\ \A i \in long : Min(long) <= i
    <3>1. long \in SUBSET Nat
      BY <1>1
    <3> HIDE DEF long
    <3>2. QED
      BY <1>4, <3>1, MinOfNat
  <2>2. SelectTenor(tenors, days) = tenors[Min(long)]
    BY <1>2, <1>4, <2>1 DEF SelectTenor
  <2>3. Min(long) \in DOMAIN tenors /\ tenors[Min(long)].days >= days
    BY <1>1, <2>1
  <2>4. \A i \in DOMAIN tenors : tenors[i].days >= days => Min(long) <= i
    BY <1>1, <2>1
  <2> HIDE DEF long
  <2>5. QED
    BY <2>2, <2>3, <2>4
<1>5. QED
  BY <1>3, <1>4

(* Where there is no tenor to select, NoTenor stands in.                    *)
LEMMA NothingSelected ==
  ASSUME NEW days
  PROVE  SelectTenor(<<>>, days) = NoTenor
<1>1. SelectInSeq(<<>>, LAMBDA t : LongEnough(t, days)) = 0
  BY DEF SelectInSeq
<1>2. QED
  BY <1>1 DEF SelectTenor

LEMMA TenorDays ==
  ASSUME NEW tenors \in Seq(Tenor), NEW days
  PROVE  SelectTenor(tenors, days).days \in Int
<1>1. CASE tenors = <<>>
  BY <1>1, NothingSelected DEF NoTenor
<1>2. CASE tenors # <<>>
  <2>1. PICK j \in DOMAIN tenors : SelectTenor(tenors, days) = tenors[j]
    BY <1>2, SelectedTenor
  <2>2. tenors[j] \in Tenor
    BY <2>1
  <2>3. QED
    BY <2>1, <2>2 DEF Tenor
<1>3. QED
  BY <1>1, <1>2

(* In a list that ascends, more days do not select a shorter tenor.         *)
LEMMA MoreDaysLongerTenor ==
  ASSUME NEW tenors \in Seq(Tenor), NEW less \in Int, NEW more \in Int, less <= more,
         \A i, j \in DOMAIN tenors : i < j => tenors[i].days < tenors[j].days
  PROVE  SelectTenor(tenors, less).days <= SelectTenor(tenors, more).days
<1>1. CASE tenors = <<>>
  BY <1>1, NothingSelected DEF NoTenor
<1>2. CASE tenors # <<>>
  <2>1. ASSUME NEW i \in DOMAIN tenors PROVE tenors[i].days \in Int /\ i \in Nat /\ i <= Len(tenors)
    <3>1. tenors[i] \in Tenor
      OBVIOUS
    <3>2. QED
      BY <3>1 DEF Tenor
  <2>2. PICK j \in DOMAIN tenors :
          /\ SelectTenor(tenors, less) = tenors[j]
          /\ \A i \in DOMAIN tenors : tenors[i].days >= less => tenors[j].days >= less /\ j <= i
    BY <1>2, SelectedTenor
  <2>3. PICK l \in DOMAIN tenors :
          /\ SelectTenor(tenors, more) = tenors[l]
          /\ tenors[l].days >= more \/ l = Len(tenors)
    BY <1>2, SelectedTenor
  <2>4. j <= l
    <3>1. tenors[l].days >= more => tenors[l].days >= less
      BY <2>1
    <3>2. QED
      BY <2>1, <2>2, <2>3, <3>1
  <2>5. j = l \/ j < l
    BY <2>1, <2>4
  <2>6. tenors[j].days <= tenors[l].days
    BY <2>1, <2>5
  <2>7. QED
    BY <2>2, <2>3, <2>6
<1>3. QED
  BY <1>1, <1>2

-------------------------------------------------------------------------------
(***************************************************************************)
(* The pairs of a sheet.                                                   *)
(***************************************************************************)

(* LastOf is an entry of the list for the key.                              *)
LEMMA LastIsAnEntry ==
  ASSUME NEW S, NEW list \in Seq(S), NEW key \in Keys(list)
  PROVE  \E i \in DOMAIN list : LastOf(list, key) = list[i] /\ PairKey(list[i]) = key
<1> DEFINE of == {i \in 1..Len(list) : PairKey(list[i]) = key}
<1>1. Len(list) \in Nat /\ DOMAIN list = 1..Len(list)
  OBVIOUS
<1>2. of # {}
  BY <1>1 DEF Keys
<1>3. SelectLastInSeq(list, LAMBDA p : PairKey(p) = key) = Max(of)
  BY <1>2 DEF SelectLastInSeq
<1>4. Max(of) \in of
  <2>1. of \in SUBSET (1..Len(list))
    OBVIOUS
  <2> HIDE DEF of
  <2>2. QED
    BY <1>1, <1>2, <2>1, MaxOfRange
<1>5. QED
  BY <1>1, <1>3, <1>4 DEF LastOf

(* The tenors of an entry have the type of tenors.                          *)
LEMMA TenorsOfAnEntry ==
  ASSUME NEW list \in Seq(HedgedPair), NEW i \in DOMAIN list
  PROVE  list[i].tenors \in Seq(Tenor)
<1>1. list[i] \in HedgedPair
  OBVIOUS
<1>2. QED
  BY <1>1 DEF HedgedPair

-------------------------------------------------------------------------------
(***************************************************************************)
(* What every state is: an answer to a request that callers may make.      *)
(***************************************************************************)
Asked ==
  /\ request \in Requests
  /\ term \in PaymentTerms /\ \E c \in Cases : term = c.term
  /\ sheet \in Sheets
  /\ quote = GiveMeRate(request, term, sheet)

LEMMA DateLater ==
  ASSUME NEW t \in Dates, DayLater(t) < CalendarEnd
  PROVE  DayLater(t) \in Dates
<1>1. CASE t = Zero
  BY <1>1 DEF DayLater, Dates
<1>2. CASE t # Zero
  <2>1. Months + 1 \in 1..(Months + 1)
    BY MonthsTypes
  <2>2. MonthStart[Months + 1] \in Nat /\ FirstDay \in Nat
    BY <2>1, MonthStarts, PricingAssumption
  <2>3. CalendarEnd \in Nat /\ FirstDay * Day \in Nat
    BY <2>2, DayIsNat DEF CalendarEnd, Months
  <2>4. t \in (FirstDay * Day)..(CalendarEnd - 1)
    BY <1>2 DEF Dates
  <2>5. DayLater(t) = t + Day
    BY <1>2 DEF DayLater
  <2>6. QED
    BY <2>3, <2>4, <2>5, DayIsNat DEF Dates
<1>3. QED
  BY <1>1, <1>2

LEMMA AskedInit == Init => Asked
<1> SUFFICES ASSUME Init PROVE Asked
  OBVIOUS
<1>1. PICK c \in Cases : request = c.request /\ term = c.term /\ sheet = c.sheet
  BY DEF Init
<1>2. c \in [request : Requests, term : PaymentTerms, sheet : Sheets]
  BY CasesAssumption
<1>3. QED
  BY <1>1, <1>2 DEF Init, Asked

LEMMA AskedKept == Asked /\ [Next]_vars => Asked'
<1> SUFFICES ASSUME Asked, [Next]_vars PROVE Asked'
  OBVIOUS
<1>1. CASE Postpone
  <2>1. /\ request' = [request EXCEPT !.checkIn = DayLater(@), !.checkOut = DayLater(@),
                                      !.deadline = DayLater(@)]
        /\ \A t \in {request'.checkIn, request'.checkOut, request'.deadline} : t < CalendarEnd
        /\ quote' = GiveMeRate(request', term, sheet)
        /\ UNCHANGED <<term, sheet>>
    BY <1>1 DEF Postpone
  <2>2. /\ request'.checkIn = DayLater(request.checkIn)
        /\ request'.checkOut = DayLater(request.checkOut)
        /\ request'.deadline = DayLater(request.deadline)
    BY <2>1 DEF Asked, Requests
  <2>3. DayLater(request.checkIn) \in Dates /\ DayLater(request.checkOut) \in Dates /\ DayLater(request.deadline) \in Dates
    BY <2>1, <2>2, DateLater DEF Asked, Requests
  <2>4. request' \in Requests
    BY <2>1, <2>3 DEF Asked, Requests
  <2>5. QED
    BY <2>1, <2>4 DEF Asked
<1>2. CASE UNCHANGED vars
  BY <1>2 DEF Asked, vars, GiveMeRate
<1>3. QED
  BY <1>1, <1>2 DEF Next

LEMMA AlwaysAsked == Spec => []Asked
  BY AskedInit, AskedKept, PTL DEF Spec

(* An answer that is no refusal is the one of Answer.                       *)
LEMMA AnAnswer ==
  ASSUME Asked, quote.type # "error"
  PROVE  /\ Answered(request, term, sheet)
         /\ quote = Answer(request, term, sheet)
BY DEF Asked, GiveMeRate, Refused

(* The tenors and the spot rate of the pair that is asked for, and what an  *)
(* answer takes from them.                                                  *)
Key == PairKey(request)
Pair == Pairs(sheet)[Key]
Selected == SelectTenor(Pair.tenors, quote.days)

LEMMA AnswerRates ==
  ASSUME Asked, quote.type # "error"
  PROVE  /\ Pair.tenors = IF Key \in Keys(sheet.hedged) THEN LastOf(sheet.hedged, Key).tenors ELSE <<>>
         /\ Pair.spot # {}
         /\ Pair.spot = IF Key \in Keys(sheet.spot) THEN {SpotOf(sheet.spot, Key)} ELSE {}
         /\ quote.type = IF Selected.rate # 0 /\ Selected.days # 0 THEN "Hedged" ELSE "Spot"
         /\ quote.tenor = Selected.days
         /\ quote.rate = IF Selected.rate # 0 /\ Selected.days # 0 THEN Selected.rate
                         ELSE CHOOSE rate \in Pair.spot : TRUE
<1>1. Key \in Keys(sheet.hedged) \cup Keys(sheet.spot) /\ Pair.spot # {}
  BY AnAnswer DEF Answered, Pairs, HasRate, Key, Pair
<1>2. /\ Pair.tenors = IF Key \in Keys(sheet.hedged) THEN LastOf(sheet.hedged, Key).tenors ELSE <<>>
      /\ Pair.spot = IF Key \in Keys(sheet.spot) THEN {SpotOf(sheet.spot, Key)} ELSE {}
  BY <1>1 DEF Pairs, Pair
<1>3. quote = Answer(request, term, sheet)
  BY AnAnswer
<1>4. /\ quote.type = IF Selected.rate # 0 /\ Selected.days # 0 THEN "Hedged" ELSE "Spot"
      /\ quote.tenor = Selected.days
      /\ quote.rate = IF Selected.rate # 0 /\ Selected.days # 0 THEN Selected.rate
                      ELSE CHOOSE rate \in Pair.spot : TRUE
  BY <1>3 DEF Answer, Selected, Pair, Key
<1>5. QED
  BY <1>1, <1>2, <1>4

(* A tenor that is selected is one of the sheet for the pair.               *)
LEMMA SelectedIsOfThePair ==
  ASSUME Asked, quote.type # "error"
  PROVE  /\ Pair.tenors \in Seq(Tenor)
         /\ Pair.tenors = <<>> => Selected = NoTenor
         /\ Pair.tenors # <<>> =>
              /\ \E j \in DOMAIN Pair.tenors : Selected = Pair.tenors[j]
              /\ \E i \in DOMAIN sheet.hedged :
                   PairKey(sheet.hedged[i]) = Key /\ sheet.hedged[i].tenors = Pair.tenors
<1>1. sheet.hedged \in Seq(HedgedPair)
  BY DEF Asked, Sheets
<1>2. ASSUME Key \in Keys(sheet.hedged)
      PROVE  \E i \in DOMAIN sheet.hedged :
               /\ PairKey(sheet.hedged[i]) = Key
               /\ sheet.hedged[i].tenors = Pair.tenors
               /\ Pair.tenors \in Seq(Tenor)
  <2>1. Pair.tenors = LastOf(sheet.hedged, Key).tenors
    BY <1>2, AnswerRates
  <2>2. QED
    BY <1>1, <1>2, <2>1, LastIsAnEntry, TenorsOfAnEntry
<1>3. Key \notin Keys(sheet.hedged) => Pair.tenors = <<>>
  BY AnswerRates
<1>4. Pair.tenors \in Seq(Tenor)
  <2>1. <<>> \in Seq(Tenor)
    OBVIOUS
  <2>2. QED
    BY <1>2, <1>3, <2>1
<1>5. Pair.tenors = <<>> => Selected = NoTenor
  BY NothingSelected DEF Selected
<1>6. Pair.tenors # <<>> => \E j \in DOMAIN Pair.tenors : Selected = Pair.tenors[j]
  BY <1>4, SelectedTenor DEF Selected
<1>7. QED
  BY <1>2, <1>3, <1>4, <1>5, <1>6

LEMMA RateAndTenorTypes ==
  ASSUME Asked, quote.type # "error"
  PROVE  quote.tenor \in Int /\ quote.rate \in Int
<1>1. Selected.days \in Int /\ Selected.rate \in Int
  <2>1. CASE Pair.tenors = <<>>
    BY <2>1, SelectedIsOfThePair DEF NoTenor
  <2>2. CASE Pair.tenors # <<>>
    <3>1. PICK j \in DOMAIN Pair.tenors : Selected = Pair.tenors[j]
      BY <2>2, SelectedIsOfThePair
    <3>2. Pair.tenors[j] \in Tenor
      BY <3>1, SelectedIsOfThePair
    <3>3. QED
      BY <3>1, <3>2 DEF Tenor
  <2>3. QED
    BY <2>1, <2>2
<1>2. CASE Selected.rate # 0 /\ Selected.days # 0
  BY <1>1, <1>2, AnswerRates
<1>3. CASE ~(Selected.rate # 0 /\ Selected.days # 0)
  <2>1. Key \in Keys(sheet.spot) /\ quote.rate = SpotOf(sheet.spot, Key)
    BY <1>3, AnswerRates
  <2>2. sheet.spot \in Seq(SpotPair)
    BY DEF Asked, Sheets
  <2>3. PICK i \in DOMAIN sheet.spot : quote.rate = sheet.spot[i].rate
    BY <2>1, <2>2, LastIsAnEntry DEF SpotOf
  <2>4. sheet.spot[i] \in SpotPair
    BY <2>2, <2>3
  <2>5. QED
    BY <1>1, <2>3, <2>4, AnswerRates DEF SpotPair
<1>4. QED
  BY <1>2, <1>3

(* A rate is one that the API gave for the very pair, spot or hedged as it  *)
(* says, whatever the case of the currencies and the order of the lists.    *)
THEOREM RateIsOfThePair == Spec => []RateOfThePair
<1>1. Asked => RateOfThePair
  <2> SUFFICES ASSUME Asked PROVE RateOfThePair
    OBVIOUS
  <2>1. ASSUME quote.type = "Spot"
        PROVE  \E i \in DOMAIN sheet.spot :
                 PairKey(sheet.spot[i]) = Key /\ sheet.spot[i].rate = quote.rate
    <3>1. Key \in Keys(sheet.spot) /\ quote.rate = SpotOf(sheet.spot, Key)
      BY <2>1, AnswerRates
    <3>2. sheet.spot \in Seq(SpotPair)
      BY DEF Asked, Sheets
    <3>3. QED
      BY <3>1, <3>2, LastIsAnEntry DEF SpotOf
  <2>2. ASSUME quote.type = "Hedged"
        PROVE  \E i \in DOMAIN sheet.hedged :
                 /\ PairKey(sheet.hedged[i]) = Key
                 /\ \E j \in DOMAIN sheet.hedged[i].tenors :
                      sheet.hedged[i].tenors[j] = [days |-> quote.tenor, rate |-> quote.rate]
    <3>1. /\ Selected.rate = quote.rate /\ Selected.days = quote.tenor /\ Selected.rate # 0
      BY <2>2, AnswerRates
    <3>2. Pair.tenors # <<>>
      BY <2>2, <3>1, SelectedIsOfThePair DEF NoTenor
    <3>3. PICK j \in DOMAIN Pair.tenors : Selected = Pair.tenors[j]
      BY <2>2, <3>2, SelectedIsOfThePair
    <3>4. Pair.tenors[j] \in Tenor
      BY <2>2, <3>3, SelectedIsOfThePair
    <3>5. Pair.tenors[j] = [days |-> quote.tenor, rate |-> quote.rate]
      BY <3>1, <3>3, <3>4 DEF Tenor
    <3>6. QED
      BY <2>2, <3>2, <3>3, <3>5, SelectedIsOfThePair
  <2>3. QED
    BY <2>1, <2>2 DEF RateOfThePair, Key
<1>2. QED
  BY <1>1, AlwaysAsked, PTL

(* A hedged rate covers the days to hedge if any tenor of the pair does,    *)
(* and is for no longer than it takes if the API sorts its tenors.          *)
THEOREM TenorIsLongEnough == Spec => []TenorFits
<1>1. ASSUME Asked, quote.type = "Hedged" PROVE TenorFits
  <2>1. quote.tenor = Selected.days /\ Selected.days # 0
    BY <1>1, AnswerRates
  <2>2. Tenors = Pair.tenors /\ Tenors # <<>> /\ Tenors \in Seq(Tenor)
    BY <1>1, <2>1, SelectedIsOfThePair DEF NoTenor, Tenors, Pair, Key
  <2>3. PICK j \in DOMAIN Tenors :
          /\ quote.tenor = Tenors[j].days
          /\ \A i \in DOMAIN Tenors : Tenors[i].days >= quote.days =>
               Tenors[j].days >= quote.days /\ j <= i
    BY <2>1, <2>2, SelectedTenor DEF Selected
  <2>4. ASSUME NEW i \in DOMAIN Tenors PROVE Tenors[i].days \in Int /\ i \in Nat
    <3>1. Tenors[i] \in Tenor
      BY <2>2
    <3>2. QED
      BY <2>2, <3>1 DEF Tenor
  <2>5. ASSUME Ascending, NEW i \in DOMAIN Tenors, Tenors[i].days >= quote.days
        PROVE  quote.tenor <= Tenors[i].days
    <3>1. j = i \/ j < i
      BY <2>3, <2>4, <2>5
    <3>2. QED
      BY <2>3, <2>4, <2>5, <3>1 DEF Ascending
  <2>6. QED
    BY <2>3, <2>5 DEF TenorFits
<1>2. Asked => TenorFits
  BY <1>1 DEF TenorFits
<1>3. QED
  BY <1>2, AlwaysAsked, PTL

(* A booking with all its dates is answered from every valid sheet with a   *)
(* spot rate for its pair, whatever the payment terms and the tenors.       *)
THEOREM SpotRateIsEnough == Spec => []SpotIsEnough
<1> DEFINE dates == Zero \notin {request.created, request.checkIn, request.checkOut, request.deadline}
           key == PairKey(request)
<1>1. ASSUME Asked, dates PROVE BaseDates(request, term) # {}
  <2>1. ASSUME NEW bpdd \in Known PROVE PrimaryDate(request, bpdd) # Zero
    BY <1>1, <2>1 DEF Known, PrimaryDate
  <2>2. ASSUME NEW bpdd PROVE ChooseBaseDate(request, bpdd) # {}
    BY <1>1, <2>1 DEF ChooseBaseDate
  <2>3. QED
    BY <2>2 DEF BaseDates
<1>2. ASSUME key \in Keys(sheet.spot)
      PROVE  key \in DOMAIN Pairs(sheet) /\ HasRate(Pairs(sheet)[key])
  BY <1>2 DEF Pairs, HasRate
<1>3. Asked => SpotIsEnough
  <2> SUFFICES ASSUME Asked, dates, Upper[request.from] # Upper[request.to], key \in Keys(sheet.spot),
                      sheet.validUntil >= Now, sheet.rev # 0
               PROVE  quote # Refused
    BY DEF SpotIsEnough
  <2>1. sheet.validUntil # Zero
    BY PricingAssumption DEF Zero, Asked, Sheets
  <2>2. Answered(request, term, sheet)
    BY <1>1, <1>2, <2>1 DEF Answered
  <2>3. quote.type \in {"Hedged", "Spot"}
    BY <2>2 DEF Asked, GiveMeRate, Answer
  <2>4. QED
    BY <2>3 DEF Refused
<1>4. QED
  BY <1>3, AlwaysAsked, PTL

-------------------------------------------------------------------------------
(***************************************************************************)
(* The base date and the days to hedge.                                    *)
(***************************************************************************)
LEMMA BaseDateIsADate ==
  ASSUME NEW r \in Requests, NEW bpdd, NEW base \in ChooseBaseDate(r, bpdd)
  PROVE  base \in Dates
<1>1. {r.created, r.checkIn, r.checkOut, r.deadline, Zero} \subseteq Dates
  BY DEF Requests, Dates
<1>2. PrimaryDate(r, bpdd) \in Dates
  BY <1>1 DEF PrimaryDate
<1>3. QED
  BY <1>1, <1>2 DEF ChooseBaseDate

(* What the fields of an answer are.                                        *)
LEMMA AnswerFields ==
  ASSUME NEW r \in Requests, NEW t, NEW s, Answered(r, t, s), NEW a, a = Answer(r, t, s)
  PROVE  /\ a.type \in {"Hedged", "Spot"}
         /\ a.base \in Dates /\ a.base \in BaseDates(r, t)
         /\ a.days = DaysToHedge(r, t, a.base)
         /\ a.due = r.created + Wrapped(a.days * Day)
         /\ a.tenor = SelectTenor(Pairs(s)[PairKey(r)].tenors, a.days).days
<1> DEFINE base == CHOOSE b \in BaseDates(r, t) : TRUE
<1>1. base \in BaseDates(r, t)
  BY DEF Answered
<1>2. /\ a.type \in {"Hedged", "Spot"} /\ a.base = base
      /\ a.days = DaysToHedge(r, t, base)
      /\ a.due = r.created + Wrapped(a.days * Day)
      /\ a.tenor = SelectTenor(Pairs(s)[PairKey(r)].tenors, a.days).days
  BY DEF Answer
<1>3. base \in Dates
  BY <1>1, BaseDateIsADate DEF BaseDates
<1>4. QED
  BY <1>1, <1>2, <1>3

LEMMA DatesAreNat == Dates \subseteq Nat
<1>1. Zero \in Nat
  BY DEF Zero
<1>2. \A t \in Dates \ {Zero} : t \in Nat
  BY InItsMonth
<1>3. QED
  BY <1>1, <1>2

FrequencyOf(t) == NameOf(FreqNames, t.freq, "Monthly")

(* The days from the base date on.                                          *)
DaysFrom(t, base) == ClampNonNegative(DaysToBoundary(base, FrequencyOf(t)) + t.daysAfter)

(* Where there is a base date, the days to hedge are the days before it and *)
(* those from it on; neither is negative.                                   *)
LEMMA DaysToHedgeIs ==
  ASSUME NEW r \in Requests, NEW t \in PaymentTerms, NEW base \in Dates
  PROVE  /\ DaysToHedge(r, t, base) \in Nat
         /\ base # Zero => /\ DaysFrom(t, base) \in Nat
                           /\ DaysToHedge(r, t, base) = Lead(r.created, base) + DaysFrom(t, base)
<1> DEFINE lead == Lead(r.created, base)
           due == DaysDueFromFrequency(base, FrequencyOf(t), t.daysAfter)
<1>1. r.created \in Nat /\ base \in Nat /\ t.daysAfter \in Int
  BY DatesAreNat DEF Requests, PaymentTerms
<1>2. lead \in Nat
  BY <1>1, LeadIsNat
<1>3. ASSUME base # Zero PROVE DaysFrom(t, base) \in Nat /\ due = DaysFrom(t, base)
  <2>1. DaysToBoundary(base, FrequencyOf(t)) \in Nat
    BY <1>3, DaysCounted
  <2>2. DaysToBoundary(base, FrequencyOf(t)) + t.daysAfter \in Int
    BY <1>1, <2>1
  <2>3. QED
    BY <1>3, <2>2, Clamped DEF DaysDueFromFrequency, DaysFrom
<1>4. base = Zero => due = 0
  BY DEF DaysDueFromFrequency
<1>5. DaysToHedge(r, t, base) = ClampNonNegative(lead + due)
  BY DEF DaysToHedge, FrequencyOf
<1> HIDE DEF lead, due
<1>6. due \in Nat /\ lead + due \in Nat
  BY <1>2, <1>3, <1>4
<1>7. DaysToHedge(r, t, base) = lead + due
  BY <1>5, <1>6, Clamped
<1>8. QED
  BY <1>3, <1>6, <1>7 DEF lead

(* Every answer has its type, and a number of days is never negative.       *)
THEOREM PricingTypeCorrect == Spec => []TypeOK
<1>1. ASSUME Asked, quote.type # "error" PROVE TypeOK
  <2>1. /\ quote.base \in Dates /\ quote.days \in Nat
        /\ quote.due = request.created + Wrapped(quote.days * Day)
    BY <1>1, AnAnswer, AnswerFields, DaysToHedgeIs DEF Asked
  <2>2. quote.due \in Int
    <3>1. request.created \in Nat
      BY <1>1, DatesAreNat DEF Asked, Requests
    <3>2. quote.days * Day \in Int
      BY <2>1, DayIsNat
    <3>3. Wrapped(quote.days * Day) \in Int
      BY <3>2, WrappedIs
    <3>4. QED
      BY <2>1, <3>1, <3>3
  <2>3. quote.type \in {"Hedged", "Spot"}
    BY <1>1, AnAnswer DEF Answer
  <2>4. quote.tenor \in Int /\ quote.rate \in Int
    BY <1>1, RateAndTenorTypes
  <2>5. QED
    BY <2>1, <2>2, <2>3, <2>4 DEF TypeOK
<1>2. ASSUME Asked, quote.type = "error" PROVE TypeOK
  <2>1. quote = Refused
    BY <1>2 DEF Asked, GiveMeRate, Answer
  <2>2. QED
    BY <2>1 DEF TypeOK, Refused, Dates, Zero
<1>3. Asked => TypeOK
  BY <1>1, <1>2
<1>4. QED
  BY <1>3, AlwaysAsked, PTL

-------------------------------------------------------------------------------
(***************************************************************************)
(* The due date.                                                           *)
(***************************************************************************)

LEMMA Apart ==
  ASSUME NEW created \in Dates \ {Zero}, NEW base \in Dates \ {Zero}
  PROVE  /\ created \in Nat /\ base \in Nat
         /\ FirstDay * Day \in Nat /\ CalendarEnd \in Nat
         /\ base - created < CalendarEnd - FirstDay * Day
<1>1. Months + 1 \in 1..(Months + 1)
  BY MonthsTypes
<1>2. MonthStart[Months + 1] \in Nat /\ FirstDay \in Nat
  BY <1>1, MonthStarts, PricingAssumption
<1>3. CalendarEnd \in Nat /\ FirstDay * Day \in Nat
  BY <1>2, DayIsNat DEF CalendarEnd, Months
<1>4. QED
  BY <1>3 DEF Dates

(* Within reach the due date is the days to hedge after the booking.        *)
LEMMA DueIs ==
  ASSUME NEW r \in Requests, NEW t \in PaymentTerms, NEW base \in Dates \ {Zero},
         r.created # Zero, r.created <= base, InReach(0), InReach(t.daysAfter)
  PROVE  /\ base - r.created <= MaxDuration
         /\ Wrapped(DaysToHedge(r, t, base) * Day) = DaysToHedge(r, t, base) * Day
<1> DEFINE lead == Lead(r.created, base)
           from == DaysFrom(t, base)
           days == DaysToHedge(r, t, base)
           calendar == CalendarEnd - FirstDay * Day
<1>1. r.created \in Nat /\ base \in Nat /\ base - r.created < calendar /\ calendar \in Int
  BY Apart DEF Requests
<1>2. t.daysAfter \in Int /\ MaxDuration \in Nat
  BY PricingAssumption DEF PaymentTerms
<1> HIDE DEF calendar
<1>3. base - r.created <= MaxDuration
  <2>1. 31 * Day \in Nat
    BY DayIsNat
  <2>2. calendar + 31 * Day <= MaxDuration
    BY DEF InReach, calendar
  <2>3. QED
    BY <1>1, <1>2, <2>1, <2>2
<1>4. /\ lead \in Nat /\ lead * Day \in Nat
      /\ lead * Day <= base - r.created + Day
  <2>1. Day \div 2 \in Nat /\ Day \div 2 <= Day /\ Day \in Nat
    BY DayIsNat
  <2>2. /\ lead \in Nat /\ lead * Day \in Nat
        /\ r.created + lead * Day - base <= Day \div 2
    BY <1>1, <1>3, LeadIs
  <2> HIDE DEF lead
  <2>3. QED
    BY <1>1, <2>1, <2>2
<1>5. PICK n \in {0, t.daysAfter} : from \in Nat /\ n \in Int /\ from <= 30 + n
  <2>1. DaysToBoundary(base, FrequencyOf(t)) \in Nat /\ DaysToBoundary(base, FrequencyOf(t)) <= 30
    BY DaysCounted, AheadBounds
  <2>2. from = IF DaysToBoundary(base, FrequencyOf(t)) + t.daysAfter >= 0
               THEN DaysToBoundary(base, FrequencyOf(t)) + t.daysAfter ELSE 0
    BY <1>2, <2>1, Clamped DEF DaysFrom
  <2> HIDE DEF from
  <2>3. CASE t.daysAfter >= 0
    BY <1>2, <2>1, <2>2, <2>3
  <2>4. CASE ~(t.daysAfter >= 0)
    BY <1>2, <2>1, <2>2, <2>4
  <2>5. QED
    BY <2>3, <2>4
<1>6. days = lead + from
  BY DaysToHedgeIs
<1> HIDE DEF days, lead, from
<1>7. days * Day = lead * Day + from * Day /\ from * Day \in Nat
  BY <1>4, <1>5, <1>6, DayIsNat
<1>8. from * Day <= (30 + n) * Day /\ (31 + n) * Day = (30 + n) * Day + Day
  BY <1>5, DayIsNat
<1>9. calendar + (31 + n) * Day <= MaxDuration
  BY <1>5 DEF InReach, calendar
<1>10. (30 + n) * Day \in Int /\ Day \in Nat
  BY <1>5, DayIsNat
<1>11. days * Day \in Nat /\ days * Day <= MaxDuration
  BY <1>1, <1>2, <1>4, <1>7, <1>8, <1>9, <1>10
<1>12. QED
  BY <1>3, <1>11, WrappedIs DEF days

(* What Regular says of an answer, and what WithinReach of its terms.       *)
LEMMA RegularIs ==
  ASSUME Asked, Regular
  PROVE  /\ quote.type # "error"
         /\ Answered(request, term, sheet) /\ quote = Answer(request, term, sheet)
         /\ request.created \in Dates \ {Zero} /\ quote.base \in Dates \ {Zero}
         /\ request.created <= quote.base
         /\ quote.days = DaysToHedge(request, term, quote.base)
         /\ quote.due = request.created + Wrapped(quote.days * Day)
<1>1. Answered(request, term, sheet) /\ quote = Answer(request, term, sheet)
  BY DEF Asked, Regular, GiveMeRate
<1>2. /\ quote.type \in {"Hedged", "Spot"} /\ quote.base \in Dates
      /\ quote.days = DaysToHedge(request, term, quote.base)
      /\ quote.due = request.created + Wrapped(quote.days * Day)
  BY <1>1, AnswerFields DEF Asked
<1>3. request.created \in Dates \ {Zero} /\ quote.base # Zero /\ request.created <= quote.base
  <2>1. request.created \in Dates /\ request.created \in Nat /\ quote.base \in Nat
    BY <1>2, DatesAreNat DEF Asked, Requests
  <2>2. 0 < request.created /\ request.created <= quote.base
    BY DEF Regular, Zero
  <2>3. QED
    BY <2>1, <2>2 DEF Zero
<1>4. QED
  BY <1>1, <1>2, <1>3

(* PeriodEnd, which looks at the calendar alone, is Ahead days from the day *)
(* of the base date.                                                        *)
LEMMA PeriodEndIs ==
  ASSUME quote.base \in Dates \ {Zero}
  PROVE  PeriodEnd = (quote.base \div Day + Ahead(quote.base, Frequency)) * Day
<1> DEFINE d == DayOfMonth(quote.base)
           last == LastDayOfMonth(quote.base)
           mid == MidDayOfMonth(quote.base)
           ends == CASE Frequency = "Weekly" -> {7, 15, 23}
                     [] Frequency = "BiWeekly" -> {mid}
                     [] OTHER -> {}
           offset == CASE Frequency = "Daily" -> 0
                       [] Frequency = "SpecificDaysOfWeek" -> 7
                       [] d <= Max(ends \cup {0}) -> Min({e \in ends : d <= e}) - d
                       [] OTHER -> last - d
<1>1. last \in 28..31 /\ d \in 1..last /\ mid \in 14..16
  BY InItsMonth, Boundaries
<1>2. PeriodEnd = Midnight(quote.base, d + offset)
  BY DEF PeriodEnd
<1> HIDE DEF d, last, mid
<1>3. offset = Ahead(quote.base, Frequency)
  <2>1. CASE Frequency = "Weekly"
    <3>1. ends = {7, 15, 23} /\ Max(ends \cup {0}) = 23
      <4>1. {7, 15, 23} \cup {0} \in SUBSET Int
        OBVIOUS
      <4>2. Max({7, 15, 23} \cup {0}) = 23
        BY <4>1, MaxIs
      <4>3. QED
        BY <2>1, <4>2
    <3>2. ASSUME d <= 23 PROVE Min({e \in {7, 15, 23} : d <= e}) = QuarterEnd(d, last)
      <4> DEFINE S == {e \in {7, 15, 23} : d <= e}
      <4>1. S \in SUBSET Int /\ QuarterEnd(d, last) \in S /\ \A y \in S : QuarterEnd(d, last) <= y
        BY <1>1, <3>2 DEF QuarterEnd
      <4> HIDE DEF S
      <4>2. Min(S) = QuarterEnd(d, last)
        BY <4>1, MinIs
      <4>3. QED
        BY <4>2 DEF S
    <3>3. ~(d <= 23) => QuarterEnd(d, last) = last
      BY <1>1 DEF QuarterEnd
    <3>4. offset = QuarterEnd(d, last) - d
      BY <2>1, <3>1, <3>2, <3>3
    <3>5. QED
      BY <2>1, <3>4 DEF Ahead, d, last
  <2>2. CASE Frequency = "BiWeekly"
    <3>1. ends = {mid} /\ Max(ends \cup {0}) = mid
      <4>1. {mid} \cup {0} \in SUBSET Int
        BY <1>1
      <4>2. Max({mid} \cup {0}) = mid
        BY <1>1, <4>1, MaxIs
      <4>3. QED
        BY <2>2, <4>2
    <3>2. ASSUME d <= mid PROVE Min({e \in {mid} : d <= e}) = mid
      <4>1. {e \in {mid} : d <= e} = {mid}
        BY <3>2
      <4>2. Min({mid}) = mid
        BY <1>1, MinIs
      <4>3. QED
        BY <4>1, <4>2
    <3>3. offset = HalfEnd(d, mid, last) - d
      BY <2>2, <3>1, <3>2 DEF HalfEnd
    <3>4. QED
      BY <2>2, <3>3 DEF Ahead, d, last, mid
  <2>3. CASE Frequency \notin {"Weekly", "BiWeekly"}
    <3>1. ends = {} /\ ~(d <= Max(ends \cup {0}))
      <4>1. Max({} \cup {0}) = 0
        BY MaxIs
      <4>2. QED
        BY <1>1, <2>3, <4>1
    <3>2. QED
      BY <2>3, <3>1 DEF Ahead, d, last
  <2>4. QED
    BY <2>1, <2>2, <2>3
<1>4. Ahead(quote.base, Frequency) \in Nat
  BY AheadBounds
<1> HIDE DEF offset
<1>5. QED
  BY <1>2, <1>3, <1>4, MidnightAhead DEF d

(* The two roundings on the way do no harm: the due date falls within half  *)
(* a day of the end of the period, and the days after, if the base date is  *)
(* a date, and less than a day and a half from it if it is a time.          *)
THEOREM DueIsNearPeriodEnd ==
  ASSUME WithinReach
  PROVE  Spec => []DueNearPeriodEnd
<1>1. ASSUME Asked, Regular, term.daysAfter >= 0 PROVE DueNearPeriodEnd
  <2> DEFINE base == quote.base
             created == request.created
             after == term.daysAfter
             lead == Lead(created, base)
             counted == DaysToBoundary(base, Frequency)
             k == Ahead(base, Frequency)
             q == base \div Day
             r == base % Day
             h == Day \div 2
             off == quote.due - (PeriodEnd + after * Day)
  <2>1. /\ created \in Nat /\ base \in Nat /\ created <= base
        /\ base \in Dates \ {Zero} /\ created # Zero /\ after \in Nat
    <3>1. term.daysAfter \in Int
      BY <1>1 DEF Asked, PaymentTerms
    <3>2. /\ created \in Dates \ {Zero} /\ base \in Dates \ {Zero} /\ created <= base
      BY <1>1, RegularIs
    <3>3. after \in Nat
      BY <1>1, <3>1
    <3> HIDE DEF after, created, base
    <3>4. QED
      BY <3>2, <3>3, DatesAreNat
  <2>2. InReach(0) /\ InReach(after)
    BY <1>1 DEF WithinReach, Asked
  <2>3. base - created <= MaxDuration /\ quote.due = created + quote.days * Day
    BY <1>1, <2>1, <2>2, RegularIs, DueIs DEF Asked
  <2>4. /\ counted \in Nat /\ counted <= k /\ k <= counted + 1 /\ k \in Nat
        /\ r = 0 => counted = k
    BY <2>1, DaysCounted, AheadBounds
  <2>5. quote.days = lead + (counted + after)
    <3>1. DaysFrom(term, base) = counted + after
      <4>1. counted + after \in Int /\ counted + after >= 0
        BY <2>1, <2>4
      <4>2. QED
        BY <4>1, Clamped DEF DaysFrom, FrequencyOf, Frequency
    <3>2. QED
      BY <1>1, <2>1, <3>1, RegularIs, DaysToHedgeIs DEF Asked
  <2>6. /\ lead \in Nat /\ lead * Day \in Nat
        /\ created + lead * Day - base <= h /\ created + lead * Day - base > -h
    BY <2>1, <2>3, LeadIs
  <2>7. PeriodEnd = (q + k) * Day
    BY <2>1, PeriodEndIs
  <2>8. q \in Nat /\ q * Day \in Nat /\ q * Day <= base /\ base < q * Day + Day /\ r = base - q * Day
    BY <2>1, DivDay
  <2>9. h \in Nat /\ Day = 2 * h /\ Day \in Nat \ {0}
    BY DayIsNat
  <2> HIDE DEF lead, counted, k, q, r, h
  <2>10. /\ quote.days * Day = lead * Day + counted * Day + after * Day
         /\ (q + k) * Day = q * Day + k * Day
         /\ counted * Day \in Nat /\ after * Day \in Nat /\ k * Day \in Nat
    BY <2>1, <2>4, <2>5, <2>6, <2>8, <2>9
  <2>11. counted = k => counted * Day = k * Day
    OBVIOUS
  <2>12. counted # k => k * Day = counted * Day + Day
    <3>1. counted # k => k = counted + 1
      BY <2>4
    <3>2. (counted + 1) * Day = counted * Day + Day
      BY <2>4, <2>9
    <3>3. QED
      BY <3>1, <3>2
  <2>13. off = (created + lead * Day - base) + r + (counted * Day - k * Day)
    BY <2>1, <2>3, <2>6, <2>7, <2>8, <2>10
  <2>14. r = 0 => off \in (-h)..h
    BY <2>1, <2>4, <2>6, <2>9, <2>10, <2>11, <2>13
  <2>15. r # 0 => off \in (-(Day + h - 1))..(Day + h - 1)
    BY <2>1, <2>6, <2>8, <2>9, <2>10, <2>11, <2>12, <2>13
  <2>16. QED
    BY <2>14, <2>15 DEF DueNearPeriodEnd, r, h
<1>2. Asked => DueNearPeriodEnd
  BY <1>1 DEF DueNearPeriodEnd
<1>3. QED
  BY <1>2, AlwaysAsked, PTL

-------------------------------------------------------------------------------
(***************************************************************************)
(* A stay that is moved to the next day.                                   *)
(***************************************************************************)
LEMMA DayAfter ==
  ASSUME NEW t \in Nat
  PROVE  (t + Day) \div Day = t \div Day + 1 /\ (t + Day) % Day = t % Day
<1> DEFINE q == t \div Day
<1>1. q \in Nat /\ q * Day \in Nat /\ q * Day <= t /\ t < q * Day + Day /\ t % Day = t - q * Day
  BY DivDay
<1> HIDE DEF q
<1>2. q + 1 \in Nat /\ t + Day \in Nat /\ (q + 1) * Day = q * Day + Day /\ Day \in Nat
  BY <1>1, DayIsNat
<1>3. (t + Day) \div Day = q + 1
  BY <1>1, <1>2, DivDayIs
<1>4. (t + Day) % Day = (t + Day) - ((t + Day) \div Day) * Day
  BY <1>2, DivDay
<1>5. QED
  BY <1>1, <1>2, <1>3, <1>4 DEF q

(* The period of the next day does not end sooner.                          *)
LEMMA AheadNextDay ==
  ASSUME NEW t \in Dates \ {Zero}, t + Day \in Dates \ {Zero}, NEW freq
  PROVE  Ahead(t + Day, freq) >= Ahead(t, freq) - 1
<1> DEFINE d == DayOfMonth(t)
           last == LastDayOfMonth(t)
           mid == MidDayOfMonth(t)
           m == MonthOf(t)
<1>1. /\ t \in Nat /\ last \in 28..31 /\ d \in 1..last /\ mid \in 14..16
      /\ m \in 1..Months /\ MonthStart[m] \in Nat
      /\ t \div Day = MonthStart[m] + d - 1
      /\ MonthStart[m + 1] = MonthStart[m] + last
  BY InItsMonth, Boundaries
<1>2. Ahead(t, freq) \in 0..30 /\ Ahead(t + Day, freq) \in 0..30
  BY AheadBounds
<1>3. CASE d = last
  <2>1. /\ QuarterEnd(d, last) - d <= 1 /\ HalfEnd(d, mid, last) - d <= 1 /\ last - d <= 1
    BY <1>1, <1>3 DEF QuarterEnd, HalfEnd
  <2>2. CASE freq = "SpecificDaysOfWeek"
    BY <2>2 DEF Ahead
  <2>3. CASE freq # "SpecificDaysOfWeek"
    <3>1. Ahead(t, freq) <= 1
      BY <2>1, <2>3 DEF Ahead
    <3>2. QED
      BY <1>2, <3>1
  <2>4. QED
    BY <2>2, <2>3
<1>4. CASE d # last
  <2> HIDE DEF d, last, mid, m
  <2>1. (t + Day) \div Day = MonthStart[m] + d
    BY <1>1, DayAfter
  <2>2. /\ (t + Day) \div Day \in Nat
        /\ (t + Day) \div Day \in MonthStart[m]..(MonthStart[m + 1] - 1)
    BY <1>1, <1>4, <2>1
  <2>3. MonthOf(t + Day) = m
    <3>1. /\ MonthOf(t + Day) \in 1..Months
          /\ (t + Day) \div Day \in MonthStart[MonthOf(t + Day)]..(MonthStart[MonthOf(t + Day) + 1] - 1)
      BY InItsMonth
    <3>2. QED
      BY <1>1, <2>2, <3>1, OneMonth
  <2>4. /\ DayOfMonth(t + Day) = d + 1 /\ LastDayOfMonth(t + Day) = last /\ MidDayOfMonth(t + Day) = mid
    <3>1. LastDayOfMonth(t + Day) = last
      BY <2>3 DEF LastDayOfMonth, last, m
    <3>2. MidDayOfMonth(t + Day) = mid
      BY <3>1 DEF MidDayOfMonth, mid, last
    <3>3. DayOfMonth(t + Day) = d + 1
      BY <1>1, <2>1, <2>3 DEF DayOfMonth
    <3>4. QED
      BY <3>1, <3>2, <3>3
  <2>5. /\ QuarterEnd(d + 1, last) >= QuarterEnd(d, last)
        /\ HalfEnd(d + 1, mid, last) >= HalfEnd(d, mid, last)
        /\ {QuarterEnd(d, last), HalfEnd(d, mid, last)} \subseteq Int
        /\ {QuarterEnd(d + 1, last), HalfEnd(d + 1, mid, last)} \subseteq Int
    BY <1>1, <1>4 DEF QuarterEnd, HalfEnd
  <2>6. /\ Ahead(t, freq) = CASE freq = "Weekly" -> QuarterEnd(d, last) - d
                              [] freq = "BiWeekly" -> HalfEnd(d, mid, last) - d
                              [] freq = "Daily" -> 0
                              [] freq = "SpecificDaysOfWeek" -> 7
                              [] OTHER -> last - d
        /\ Ahead(t + Day, freq) = CASE freq = "Weekly" -> QuarterEnd(d + 1, last) - (d + 1)
                                    [] freq = "BiWeekly" -> HalfEnd(d + 1, mid, last) - (d + 1)
                                    [] freq = "Daily" -> 0
                                    [] freq = "SpecificDaysOfWeek" -> 7
                                    [] OTHER -> last - (d + 1)
    BY <2>4 DEF Ahead, d, last, mid
  <2>7. QED
    BY <1>1, <2>5, <2>6
<1>5. QED
  BY <1>3, <1>4

LEMMA LeadNextDay ==
  ASSUME NEW created \in Nat, NEW base \in Nat, created <= base, base + Day - created <= MaxDuration
  PROVE  Lead(created, base + Day) = Lead(created, base) + 1
<1> DEFINE x == base - created + Day \div 2
<1>1. Day \in Nat /\ Day \div 2 \in Nat /\ MaxDuration \in Nat
  BY DayIsNat, PricingAssumption
<1>2. x \in Nat /\ base - created <= MaxDuration /\ base + Day \in Nat /\ created <= base + Day
  BY <1>1
<1>3. Lead(created, base) = x \div Day
  BY <1>2, LeadIs
<1>4. Lead(created, base + Day) = (base + Day - created + Day \div 2) \div Day
  <2> DEFINE b == base + Day
  <2>1. b \in Nat /\ created <= b /\ b - created <= MaxDuration
    BY <1>1, <1>2
  <2> HIDE DEF b
  <2>2. Lead(created, b) = (b - created + Day \div 2) \div Day
    BY <2>1, LeadIs
  <2>3. QED
    BY <1>1, <2>2 DEF b
<1>5. base + Day - created + Day \div 2 = x + Day
  BY <1>1
<1> HIDE DEF x
<1>6. QED
  BY <1>2, <1>3, <1>4, <1>5, DayAfter

(* From one day to the next the days to hedge do not become fewer, if base  *)
(* dates are dates.                                                         *)
LEMMA DaysNextDay ==
  ASSUME NEW r \in Requests, NEW q \in Requests, NEW t \in PaymentTerms,
         q.created = r.created, r.created # Zero,
         NEW base \in Dates \ {Zero}, base + Day \in Dates \ {Zero},
         base % Day = 0, r.created <= base, base + Day - r.created <= MaxDuration
  PROVE  DaysToHedge(q, t, base + Day) >= DaysToHedge(r, t, base)
<1>1. r.created \in Nat /\ base \in Nat /\ t.daysAfter \in Int
  BY DatesAreNat DEF Requests, PaymentTerms
<1>2. Lead(q.created, base + Day) = Lead(r.created, base) + 1 /\ Lead(r.created, base) \in Nat
  BY <1>1, LeadNextDay, LeadIsNat
<1> DEFINE f == FrequencyOf(t)
           n == DaysToBoundary(base, f)
           o == DaysToBoundary(base + Day, f)
<1>3. n \in Nat /\ o \in Nat /\ o >= n - 1
  <2>1. n = Ahead(base, f) /\ n \in Nat
    BY DaysCounted
  <2>2. (base + Day) % Day = 0
    BY <1>1, DayAfter
  <2>3. o = Ahead(base + Day, f) /\ o \in Nat
    BY <2>2, DaysCounted
  <2>4. QED
    BY <2>1, <2>3, AheadNextDay
<1>4. DaysFrom(t, base) = IF n + t.daysAfter >= 0 THEN n + t.daysAfter ELSE 0
  BY <1>1, <1>3, Clamped DEF DaysFrom
<1>5. DaysFrom(t, base + Day) = IF o + t.daysAfter >= 0 THEN o + t.daysAfter ELSE 0
  BY <1>1, <1>3, Clamped DEF DaysFrom
<1>6. /\ DaysToHedge(r, t, base) = Lead(r.created, base) + DaysFrom(t, base)
      /\ DaysToHedge(q, t, base + Day) = Lead(q.created, base + Day) + DaysFrom(t, base + Day)
  BY DaysToHedgeIs
<1> HIDE DEF n, o
<1>7. QED
  BY <1>1, <1>2, <1>3, <1>4, <1>5, <1>6

(* The base date of a stay that is moved stays, or is moved with it.        *)
LEMMA BaseNextDay ==
  ASSUME NEW r \in Requests, NEW q \in Requests, NEW bpdd,
         q.created = r.created, q.nonrefundable = r.nonrefundable,
         q.checkIn = DayLater(r.checkIn), q.checkOut = DayLater(r.checkOut),
         q.deadline = DayLater(r.deadline),
         NEW base \in ChooseBaseDate(r, bpdd), NEW moved \in ChooseBaseDate(q, bpdd)
  PROVE  moved = base \/ (base # Zero /\ moved = base + Day)
<1>1. ASSUME NEW t \in Nat PROVE /\ t = Zero => DayLater(t) = Zero
                                 /\ t # Zero => DayLater(t) = t + Day /\ DayLater(t) # Zero
  BY DayIsNat DEF DayLater, Zero
<1>2. {r.created, r.checkIn, r.checkOut, r.deadline} \subseteq Nat
  BY DatesAreNat DEF Requests
<1>3. CASE bpdd \in Known
  <2>1. PrimaryDate(q, bpdd) = PrimaryDate(r, bpdd) \/ PrimaryDate(q, bpdd) = DayLater(PrimaryDate(r, bpdd))
    BY <1>3 DEF Known, PrimaryDate
  <2>2. PrimaryDate(r, bpdd) \in Nat
    BY <1>2, <1>3 DEF Known, PrimaryDate
  <2>3. QED
    BY <1>1, <1>3, <2>1, <2>2 DEF ChooseBaseDate
<1>4. CASE bpdd \notin Known
  BY <1>1, <1>2, <1>4 DEF ChooseBaseDate
<1>5. QED
  BY <1>3, <1>4

(* A stay that is moved to a later day is not due sooner, nor hedged for a  *)
(* shorter time, if it begins after the booking and its dates are dates.    *)
THEOREM LaterIsDueLater ==
  ASSUME WithinReach
  PROVE  Spec => LaterIsNotSooner
<1> DEFINE NotSooner ==
      Regular /\ quote.base % Day = 0 /\ Ascending /\ quote' # Refused =>
        quote'.due >= quote.due /\ quote'.tenor >= quote.tenor
<1>1. ASSUME Asked, Asked', Postpone, Regular, quote.base % Day = 0, Ascending, quote' # Refused
      PROVE  quote'.due >= quote.due /\ quote'.tenor >= quote.tenor
  <2> DEFINE base == quote.base
             moved == quote'.base
             created == request.created
             days == quote.days
             newDays == quote'.days
  <2>1. /\ term' = term /\ sheet' = sheet
        /\ request' = [request EXCEPT !.checkIn = DayLater(@), !.checkOut = DayLater(@),
                                      !.deadline = DayLater(@)]
    BY <1>1 DEF Postpone
  <2>2. /\ request \in Requests /\ request' \in Requests /\ term \in PaymentTerms
        /\ InReach(0) /\ InReach(term.daysAfter)
    BY <1>1 DEF Asked, WithinReach
  <2>3. /\ request'.created = request.created /\ request'.nonrefundable = request.nonrefundable
        /\ request'.from = request.from /\ request'.to = request.to
        /\ request'.checkIn = DayLater(request.checkIn)
        /\ request'.checkOut = DayLater(request.checkOut)
        /\ request'.deadline = DayLater(request.deadline)
    BY <2>1, <2>2 DEF Requests
  <2>4. /\ quote.type # "error"
        /\ Answered(request, term, sheet) /\ quote = Answer(request, term, sheet)
        /\ created \in Dates \ {Zero} /\ base \in Dates \ {Zero} /\ created <= base
        /\ days = DaysToHedge(request, term, base)
        /\ quote.due = created + Wrapped(days * Day)
    BY <1>1, RegularIs
  <2>5. Answered(request', term, sheet) /\ quote' = Answer(request', term, sheet)
    BY <1>1, <2>1 DEF Asked, GiveMeRate
  <2>6. /\ base \in BaseDates(request, term)
        /\ quote.tenor = SelectTenor(Pairs(sheet)[PairKey(request)].tenors, days).days
    BY <2>2, <2>4, AnswerFields
  <2>7. /\ moved \in Dates /\ moved \in BaseDates(request', term)
        /\ newDays = DaysToHedge(request', term, moved)
        /\ quote'.due = created + Wrapped(newDays * Day)
        /\ quote'.tenor = SelectTenor(Pairs(sheet)[PairKey(request')].tenors, newDays).days
    BY <2>2, <2>3, <2>5, AnswerFields
  <2>8. moved = base \/ moved = base + Day
    BY <2>2, <2>3, <2>6, <2>7, BaseNextDay DEF BaseDates
  <2>9. /\ created \in Nat /\ base \in Nat /\ moved \in Nat
        /\ moved \in Dates \ {Zero} /\ created <= moved
    <3>1. created \in Nat /\ base \in Nat /\ moved \in Nat /\ Day \in Nat
      BY <2>4, <2>7, DatesAreNat, DayIsNat
    <3>2. base # 0 /\ created # 0
      BY <2>4 DEF Zero
    <3> HIDE DEF created, base, moved
    <3>3. moved # 0 /\ created <= moved
      BY <2>4, <2>8, <3>1, <3>2
    <3>4. QED
      BY <2>7, <3>1, <3>3 DEF Zero
  <2>10. days \in Nat /\ newDays \in Nat
    BY <2>2, <2>4, <2>7, DaysToHedgeIs
  <2>11. newDays >= days
    <3>1. CASE moved = base
      <4>1. newDays = days
        BY <2>3, <2>4, <2>7, <3>1 DEF DaysToHedge
      <4>2. QED
        BY <2>10, <4>1
    <3>2. CASE moved = base + Day
      <4>1. base + Day - created <= MaxDuration
        <5>1. moved - request'.created <= MaxDuration
          BY <2>2, <2>3, <2>4, <2>9, DueIs
        <5> HIDE DEF base, moved
        <5>2. QED
          BY <2>3, <2>9, <3>2, <5>1, DayIsNat
      <4>2. QED
        BY <1>1, <2>2, <2>3, <2>4, <2>7, <2>9, <3>2, <4>1, DaysNextDay
    <3>3. QED
      BY <2>8, <3>1, <3>2
  <2>12. quote'.due >= quote.due
    <3>1. Wrapped(days * Day) = days * Day
      BY <2>2, <2>4, DueIs
    <3>2. Wrapped(newDays * Day) = newDays * Day
      BY <2>2, <2>3, <2>4, <2>7, <2>9, DueIs
    <3> HIDE DEF days, newDays, created
    <3>3. days * Day <= newDays * Day /\ days * Day \in Nat /\ newDays * Day \in Nat
      BY <2>10, <2>11, DayIsNat
    <3>4. QED
      BY <2>4, <2>7, <2>9, <3>1, <3>2, <3>3
  <2>13. quote'.tenor >= quote.tenor
    <3>1. PairKey(request') = Key
      BY <2>3 DEF PairKey, Key
    <3>2. Tenors \in Seq(Tenor) /\ Tenors = Pair.tenors
      BY <1>1, <2>4, SelectedIsOfThePair DEF Tenors, Pair, Key
    <3>3. \A i, j \in DOMAIN Tenors : i < j => Tenors[i].days < Tenors[j].days
      BY <1>1 DEF Ascending
    <3>4. /\ quote.tenor = SelectTenor(Tenors, days).days
          /\ quote'.tenor = SelectTenor(Tenors, newDays).days
      BY <2>6, <2>7, <3>1 DEF Tenors, Key
    <3>5. quote.tenor \in Int /\ quote'.tenor \in Int
      BY <3>2, <3>4, TenorDays
    <3> HIDE DEF days, newDays
    <3>6. SelectTenor(Tenors, days).days <= SelectTenor(Tenors, newDays).days
      BY <2>10, <2>11, <3>2, <3>3, MoreDaysLongerTenor
    <3>7. QED
      BY <3>4, <3>5, <3>6
  <2>14. QED
    BY <2>12, <2>13
<1>2. Asked /\ Asked' /\ [Next]_vars => [NotSooner]_vars
  <2> SUFFICES ASSUME Asked, Asked', Next PROVE NotSooner
    OBVIOUS
  <2>1. QED
    BY <1>1 DEF Next
<1> HIDE DEF NotSooner
<1>3. Spec => [][NotSooner]_vars
  BY <1>2, AlwaysAsked, PTL DEF Spec
<1>4. QED
  BY <1>3 DEF LaterIsNotSooner, NotSooner

================================================================================
