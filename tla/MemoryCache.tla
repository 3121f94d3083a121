------------------------------- MODULE MemoryCache -------------------------------
(***************************************************************************)
(* The memory cache of a pod between those who load it, the refresh loop   *)
(* and the sync, and those who read it, the callers of GiveMeRate and      *)
(* GetLatestRevision of an initialized service.  A lock section of the     *)
(* RWMutex is one step; a call takes several of them, and anything may     *)
(* happen in between.  The rates themselves are left to Pricing.           *)
(*                                                                         *)
(* Times are ticks, and time 0 is the zero time.Time.                      *)
(***************************************************************************)
EXTENDS Integers

CONSTANTS
  Caller,     \* the goroutines of the application
  Writer,     \* the goroutines that load rates: a refresh loop and the main loop
  Envelopes,  \* the answers the rates API gives in the course of time
  NoPairs,    \* stands for an empty map of pairs
  MaxTime     \* the last tick (bound)

Zero == 0

(* "undated" has a date that does not parse; "failed" has isSuccessful =    *)
(* false.  An envelope exists from its tenor calculation date on.           *)
ASSUME CacheAssumption ==
  /\ MaxTime \in Nat \ {0}
  /\ \A e \in Envelopes :
       /\ DOMAIN e = {"rev", "pairs", "validUntil", "calcDate", "kind"}
       /\ e.rev \in Nat
       /\ e.validUntil \in Nat
       /\ e.calcDate \in Nat
       /\ e.kind \in {"ok", "undated", "failed"}

VARIABLES
  now,      \* the clock
  rates,    \* mc.rates
  terms,    \* mc.paymentTerms, known by the time they were fetched
  loading,  \* the envelope that a writer has got hold of
  pc,       \* where each caller is
  seen,     \* the RateData that a call to GiveMeRate works with
  answer,   \* what the last call, to GiveMeRate, has answered
  info      \* the RevisionInfo that GetLatestRevision puts together

callerVars == <<pc, seen, answer, info>>
vars == <<now, rates, terms, loading, callerVars>>

Nothing == [kind |-> "none"]
NoSheet == [pairs |-> NoPairs, rev |-> 0, validUntil |-> Zero]
NoAnswer == [sheet |-> NoSheet, at |-> Zero]
NoInfo == [rev |-> 0, validUntil |-> Zero, loadedAt |-> Zero, ratesRefresh |-> Zero,
           termsRefresh |-> Zero, isValid |-> FALSE, untilExpiry |-> 0]

Step == {"idle", "getTerms", "getRates", "price"} \cup
        {"metadata", "ratesRefresh", "termsRefresh", "isValid", "expiry"}

Init ==
  /\ now = 1
  /\ rates = [sheet |-> NoSheet, calcDate |-> Zero, lastRefreshed |-> Zero]
  /\ terms = Zero
  /\ loading = [w \in Writer |-> Nothing]
  /\ pc = [c \in Caller |-> "idle"]
  /\ seen = [c \in Caller |-> NoSheet]
  /\ answer = [c \in Caller |-> NoAnswer]
  /\ info = [c \in Caller |-> NoInfo]

-------------------------------------------------------------------------------
(***************************************************************************)
(* The writers.                                                            *)
(***************************************************************************)

\* What DumpRates keeps of an envelope.
SheetOf(e) == [pairs |-> e.pairs, rev |-> e.rev, validUntil |-> e.validUntil]

\* An answer of the API, or what Redis has of it, which may be an older one.
GetEnvelope(w) ==
  /\ loading[w] = Nothing
  /\ \E e \in Envelopes :
       e.calcDate <= now /\ loading' = [loading EXCEPT ![w] = e]
  /\ UNCHANGED <<now, rates, terms, callerVars>>

Stored(e) == [sheet |-> SheetOf(e), calcDate |-> e.calcDate, lastRefreshed |-> now]

\* Seeded fault: DumpRates stores before it looks at isSuccessful and the dates.
LoadedUnchecked(e) == Stored(e)

\* Seeded fault: the revision is stored when the envelope has no pairs, the rest not.
LoadedInPart(e) ==
  CASE e.kind # "ok" -> rates
    [] e.kind = "ok" /\ e.pairs = NoPairs -> [rates EXCEPT !.sheet.rev = e.rev]
    [] OTHER -> Stored(e)

\* Seeded fault: the time of the calculation passes for the time of the refresh.
LoadedThatDay(e) ==
  IF e.kind = "ok" THEN [Stored(e) EXCEPT !.lastRefreshed = e.calcDate] ELSE rates

\* An envelope that is refused, before the lock is taken, leaves the cache as it is.
Loaded(e) == IF e.kind = "ok" THEN Stored(e) ELSE rates

\* DumpRates stores all of a good envelope, with the time, in one lock section.
DumpRates(w) ==
  /\ loading[w] # Nothing
  /\ rates' = Loaded(loading[w])
  /\ loading' = [loading EXCEPT ![w] = Nothing]
  /\ UNCHANGED <<now, terms, callerVars>>

\* DumpTerms: terms come with the time they were fetched, now or earlier.
DumpTerms ==
  /\ terms' \in 1..now
  /\ UNCHANGED <<now, rates, loading, callerVars>>

-------------------------------------------------------------------------------
(***************************************************************************)
(* GiveMeRate.                                                             *)
(***************************************************************************)
GoesTo(c, step) == pc' = [pc EXCEPT ![c] = step]

BeginQuote(c) ==
  /\ pc[c] = "idle"
  /\ GoesTo(c, "getTerms")
  /\ answer' = [answer EXCEPT ![c] = NoAnswer]
  /\ info' = [info EXCEPT ![c] = NoInfo]
  /\ UNCHANGED <<now, rates, terms, loading, seen>>

\* The agency has no terms, or the days to hedge can be computed.
GetTerms(c) ==
  /\ pc[c] = "getTerms"
  /\ \/ GoesTo(c, "idle")
     \/ terms # Zero /\ GoesTo(c, "getRates")
  /\ UNCHANGED <<now, rates, terms, loading, seen, answer, info>>

(* The pair is not there, or it is read together with the revision and its  *)
(* end in one lock section.                                                 *)
GetRates(c) ==
  /\ pc[c] = "getRates"
  /\ \/ GoesTo(c, "idle") /\ UNCHANGED seen
     \/ /\ rates.sheet.pairs # NoPairs
        /\ GoesTo(c, "price")
        /\ seen' = [seen EXCEPT ![c] = rates.sheet]
  /\ UNCHANGED <<now, rates, terms, loading, answer, info>>

\* Seeded fault: the end of the validity is read afresh when it is looked at.
StillValidReread(sheet) == rates.sheet.validUntil # Zero /\ rates.sheet.validUntil >= now

StillValid(sheet) == sheet.validUntil # Zero /\ sheet.validUntil >= now

(* The rest of the call works on what it has read, and looks at the clock;  *)
(* there may be no spot rate, or nothing to convert.                        *)
Price(c) ==
  /\ pc[c] = "price"
  /\ \/ UNCHANGED answer
     \/ /\ StillValid(seen[c]) /\ seen[c].rev # 0
        /\ answer' = [answer EXCEPT ![c] = [sheet |-> seen[c], at |-> now]]
  /\ seen' = [seen EXCEPT ![c] = NoSheet]
  /\ GoesTo(c, "idle")
  /\ UNCHANGED <<now, rates, terms, loading, info>>

-------------------------------------------------------------------------------
(***************************************************************************)
(* GetLatestRevision.  "loadedAt" is auxiliary: when the revision that is  *)
(* reported was loaded.                                                    *)
(***************************************************************************)
BeginReport(c) ==
  /\ pc[c] = "idle"
  /\ GoesTo(c, "metadata")
  /\ answer' = [answer EXCEPT ![c] = NoAnswer]
  /\ info' = [info EXCEPT ![c] = NoInfo]
  /\ UNCHANGED <<now, rates, terms, loading, seen>>

ReadMetadata(c) ==
  /\ pc[c] = "metadata"
  /\ IF rates.sheet.pairs = NoPairs \/ rates.sheet.rev = 0
     THEN GoesTo(c, "idle") /\ UNCHANGED info
     ELSE /\ GoesTo(c, "ratesRefresh")
          /\ info' = [info EXCEPT ![c].rev = rates.sheet.rev,
                                  ![c].validUntil = rates.sheet.validUntil,
                                  ![c].loadedAt = rates.lastRefreshed]
  /\ UNCHANGED <<now, rates, terms, loading, seen, answer>>

ReadRatesRefresh(c) ==
  /\ pc[c] = "ratesRefresh"
  /\ info' = [info EXCEPT ![c].ratesRefresh = rates.lastRefreshed]
  /\ GoesTo(c, "termsRefresh")
  /\ UNCHANGED <<now, rates, terms, loading, seen, answer>>

ReadTermsRefresh(c) ==
  /\ pc[c] = "termsRefresh"
  /\ info' = [info EXCEPT ![c].termsRefresh = terms]
  /\ GoesTo(c, "isValid")
  /\ UNCHANGED <<now, rates, terms, loading, seen, answer>>

\* The two last fields look at the clock one after the other.
SetIsValid(c) ==
  /\ pc[c] = "isValid"
  /\ info' = [info EXCEPT ![c].isValid = info[c].validUntil # Zero /\ info[c].validUntil > now]
  /\ GoesTo(c, "expiry")
  /\ UNCHANGED <<now, rates, terms, loading, seen, answer>>

\* Seeded fault: the end of the validity is read once more.
TimeLeftReread(c) == rates.sheet.validUntil - now

TimeLeft(c) == info[c].validUntil - now

SetTimeUntilExpiry(c) ==
  /\ pc[c] = "expiry"
  /\ info' = [info EXCEPT ![c].untilExpiry = TimeLeft(c)]
  /\ GoesTo(c, "idle")
  /\ UNCHANGED <<now, rates, terms, loading, seen, answer>>

-------------------------------------------------------------------------------
Tick ==
  /\ now < MaxTime
  /\ now' = now + 1
  /\ UNCHANGED <<rates, terms, loading, callerVars>>

Quote(c) == BeginQuote(c) \/ GetTerms(c) \/ GetRates(c) \/ Price(c)

Report(c) ==
  \/ BeginReport(c) \/ ReadMetadata(c) \/ ReadRatesRefresh(c) \/ ReadTermsRefresh(c)
  \/ SetIsValid(c) \/ SetTimeUntilExpiry(c)

Next ==
  \/ \E c \in Caller : Quote(c) \/ Report(c)
  \/ \E w \in Writer : GetEnvelope(w) \/ DumpRates(w)
  \/ DumpTerms
  \/ Tick

Spec == Init /\ [][Next]_vars

-------------------------------------------------------------------------------
(***************************************************************************)
(* Properties.                                                             *)
(***************************************************************************)
Sheets == {SheetOf(e) : e \in {d \in Envelopes : d.kind = "ok"}}

\* The type of every variable: what is in the cache is one good sheet, or none.
TypeOK ==
  /\ now \in 1..MaxTime
  /\ rates.sheet \in Sheets \cup {NoSheet}
  /\ rates.calcDate \in 0..now
  /\ rates.lastRefreshed \in 0..now
  /\ terms \in 0..now
  /\ loading \in [Writer -> Envelopes \cup {Nothing}]
  /\ pc \in [Caller -> Step]
  /\ seen \in [Caller -> Sheets \cup {NoSheet}]
  /\ DOMAIN answer = Caller
  /\ DOMAIN info = Caller

(* A caller of GiveMeRate works with one rate sheet as it was loaded, while *)
(* others load the next: the cache implements RateSheets.                   *)
Promise == INSTANCE RateSheets WITH
  Sheet <- Sheets, Blank <- NoSheet, current <- rates.sheet, copy <- seen
KeepsRateSheets == Promise!Spec

(* "rate validUntil has passed, it's not valid anymore": no rate is         *)
(* answered after the end of the very sheet it comes from, and the revision *)
(* that is answered is the one of that sheet.                               *)
AnswersHold ==
  \A c \in Caller :
    answer[c] # NoAnswer =>
      /\ answer[c].sheet \in Sheets
      /\ answer[c].sheet.pairs # NoPairs
      /\ answer[c].sheet.rev # 0
      /\ answer[c].at <= answer[c].sheet.validUntil

(* GetLatestRevision may report the refresh time of a later load than that  *)
(* of the revision, never of an earlier one: data that was loaded again     *)
(* does not look older than it is.                                          *)
RefreshNotBeforeRevision ==
  \A c \in Caller :
    info[c].ratesRefresh # Zero => info[c].ratesRefresh >= info[c].loadedAt

(* IsValid and TimeUntilExpiry of a report look at the clock one after the  *)
(* other: time that is left means valid, though not the other way round.    *)
TimeLeftMeansValid ==
  \A c \in Caller : info[c].untilExpiry > 0 => info[c].isValid

=================================================================================
