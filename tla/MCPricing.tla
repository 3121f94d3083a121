------------------------------- MODULE MCPricing -------------------------------
(* Values of the constants of Pricing for TLC. *)
EXTENDS Pricing

Months == <<31, 28, 30>>

UpperCase == [c \in {"eur", "EUR", "USD", "TRY"} |-> IF c = "eur" THEN "EUR" ELSE c]

\* Code 0 is left to the default, and the last code has no name.
Bases == <<"CheckIn", "CheckInAndNonRefundable", "CheckOut", "CheckOutAndNonRefundable",
           "CreationDate", "CancellationDeadline", "CancellationDeadlineAndNonRefundable">>
Frequencies == <<"Weekly", "BiWeekly", "Daily", "SpecificDaysOfWeek", "Quarterly">>

At(day, tick) == (FirstDay + day) * Day + tick

Asks(created, checkIn, nights, deadline, nonrefundable, from, to) ==
  [created |-> created, checkIn |-> checkIn, checkOut |-> IF checkIn = Zero THEN Zero ELSE checkIn + nights * Day,
   deadline |-> deadline, nonrefundable |-> nonrefundable, from |-> from, to |-> to]

Terms == [bpdd : 0..8, freq : 0..6, daysAfter : {-3, 0, 2}]

Hedged(from, to, tenors) == [from |-> from, to |-> to, tenors |-> tenors]
SpotRate(from, to, rate) == [from |-> from, to |-> to, rate |-> rate]
TenorOf(days, rate) == [days |-> days, rate |-> rate]

(* Tenors in order, one of them without a rate; a sheet with pairs twice    *)
(* and tenors out of order; sheets without a spot rate, without tenors, and *)
(* past their end.                                                          *)
Sorted == <<TenorOf(0, 11), TenorOf(7, 12), TenorOf(30, 0), TenorOf(60, 13)>>
GoodSheet ==
  [hedged |-> <<Hedged("EUR", "USD", Sorted)>>,
   spot |-> <<SpotRate("EUR", "USD", 1), SpotRate("TRY", "USD", 2), SpotRate("USD", "USD", 3)>>,
   rev |-> 1, validUntil |-> Now]
SomeSheets ==
  { GoodSheet,
    [GoodSheet EXCEPT !.hedged = @ \o <<Hedged("eur", "USD", <<TenorOf(90, 21), TenorOf(30, 22)>>)>>],
    [GoodSheet EXCEPT !.spot = <<>>],
    [GoodSheet EXCEPT !.hedged = <<>>],
    [GoodSheet EXCEPT !.validUntil = Now - 1] }

(* Bookings without a date of creation, by night and at noon; check-ins     *)
(* that are missing, or dates; deadlines that are missing, or times.        *)
Bookings ==
  { Asks(created, checkIn, 2, deadline, nonrefundable, "EUR", "USD") :
      created \in {Zero, At(0, 1), At(16, 2)}, checkIn \in {Zero, At(0, 0)},
      deadline \in {Zero, At(0, 1), At(0, 3)}, nonrefundable \in BOOLEAN }

\* One stay in any currency.
Conversions ==
  { Asks(At(0, 2), At(0, 0), 2, At(0, 0), FALSE, from, "USD") : from \in {"eur", "EUR", "TRY", "USD"} }

Combined(requests, terms, sheets) == [request : requests, term : terms, sheet : sheets]

\* All bookings from one sheet, and all conversions from all of them.
SomeCases ==
  Combined(Bookings, Terms, {GoodSheet})
    \cup Combined(Conversions, {t \in Terms : t.bpdd = 0 /\ t.freq \in {0, 1}}, SomeSheets)

\* The theorems about due dates apply.
ASSUME TheoremsApply == WithinReach

================================================================================
