---------------------------- MODULE MemoryCacheProofs ----------------------------
(***************************************************************************)
(* Proofs about MemoryCache, for any callers, writers and envelopes: a     *)
(* quote works with one sheet and holds at the moment it is answered, and  *)
(* a report of the latest revision does not contradict itself, though both *)
(* read the cache and the clock in several steps.                          *)
(***************************************************************************)
EXTENDS MemoryCache, TLAPS

USE CacheAssumption

Info == [rev : Nat, validUntil : Nat, loadedAt : Nat, ratesRefresh : Nat,
         termsRefresh : Nat, isValid : BOOLEAN, untilExpiry : Int]

Rates == [sheet : Sheets \cup {NoSheet}, calcDate : Nat, lastRefreshed : Nat]

(* TypeOK, with the types of what it leaves open, and what a writer has got *)
(* hold of is not of a later day.                                           *)
Typed ==
  /\ TypeOK
  /\ rates \in Rates
  /\ answer \in [Caller -> [sheet : Sheets \cup {NoSheet}, at : Nat]]
  /\ info \in [Caller -> Info]
  /\ \A w \in Writer : loading[w] # Nothing => loading[w].calcDate <= now

(* A good envelope makes a sheet.                                           *)
LEMMA SheetTypes ==
  /\ \A e \in Envelopes : e.kind = "ok" => SheetOf(e) \in Sheets
  /\ \A s \in Sheets \cup {NoSheet} : s.rev \in Nat /\ s.validUntil \in Nat
  /\ NoSheet.rev = 0 /\ NoSheet.pairs = NoPairs
<1>1. \A e \in Envelopes : SheetOf(e).rev = e.rev /\ SheetOf(e).validUntil = e.validUntil
  BY DEF SheetOf
<1>2. NoSheet.rev = 0 /\ NoSheet.validUntil = 0 /\ NoSheet.pairs = NoPairs
  BY DEF NoSheet, Zero
<1>3. \A s \in Sheets : \E e \in Envelopes : s = SheetOf(e)
  BY DEF Sheets
<1>4. QED
  BY <1>1, <1>2, <1>3 DEF Sheets

LEMMA InitTyped == Init => Typed
<1> SUFFICES ASSUME Init PROVE Typed
  OBVIOUS
<1>1. NoInfo \in Info
  BY DEF NoInfo, Info, Zero
<1>2. NoAnswer \in [sheet : Sheets \cup {NoSheet}, at : Nat]
  BY DEF NoAnswer, Zero
<1>3. TypeOK
  BY DEF Init, TypeOK, Zero, Step
<1>4. QED
  BY <1>1, <1>2, <1>3 DEF Init, Typed, Rates, Zero

(* The steps of those who do not ask keep the types.                        *)
LEMMA LoadingTyped ==
  ASSUME Typed,
         (\E w \in Writer : GetEnvelope(w) \/ DumpRates(w)) \/ DumpTerms \/ Tick
  PROVE  Typed'
<1>0. now \in Nat /\ now <= MaxTime
  BY DEF Typed, TypeOK
<1>1. ASSUME NEW w \in Writer, GetEnvelope(w)
      PROVE  Typed'
  BY <1>1 DEF GetEnvelope, Typed, TypeOK, callerVars
<1>2. ASSUME NEW w \in Writer, DumpRates(w)
      PROVE  Typed'
  <2>1. loading[w] \in Envelopes /\ loading[w].calcDate <= now
    BY <1>2 DEF DumpRates, Typed, TypeOK
  <2>2. /\ rates' \in Rates /\ rates'.calcDate \in 0..now /\ rates'.lastRefreshed \in 0..now
    <3>1. CASE loading[w].kind = "ok"
      <4>1. rates' = [sheet |-> SheetOf(loading[w]), calcDate |-> loading[w].calcDate,
                      lastRefreshed |-> now]
        BY <1>2, <3>1 DEF DumpRates, Loaded, Stored
      <4>2. SheetOf(loading[w]) \in Sheets
        BY <2>1, <3>1, SheetTypes
      <4>3. QED
        BY <1>0, <2>1, <4>1, <4>2 DEF Rates
    <3>2. CASE loading[w].kind # "ok"
      BY <1>2, <3>2 DEF DumpRates, Loaded, Typed, TypeOK
    <3>3. QED
      BY <3>1, <3>2
  <2>3. rates'.sheet \in Sheets \cup {NoSheet}
    BY <2>2 DEF Rates
  <2>4. QED
    BY <1>2, <2>2, <2>3 DEF DumpRates, Typed, TypeOK, callerVars
<1>3. CASE DumpTerms
  BY <1>0, <1>3 DEF DumpTerms, Typed, TypeOK, callerVars
<1>4. CASE Tick
  BY <1>0, <1>4 DEF Tick, Typed, TypeOK, callerVars
<1>5. QED
  BY <1>1, <1>2, <1>3, <1>4

(* So do those of a call to GiveMeRate, ...                                 *)
LEMMA QuoteTyped ==
  ASSUME Typed, NEW c \in Caller, Quote(c)
  PROVE  Typed'
<1>1. NoInfo \in Info
  BY DEF NoInfo, Info, Zero
<1>2. NoAnswer \in [sheet : Sheets \cup {NoSheet}, at : Nat]
  BY DEF NoAnswer, Zero
<1>3. CASE BeginQuote(c)
  BY <1>1, <1>2, <1>3 DEF BeginQuote, GoesTo, Step, Typed, TypeOK
<1>4. CASE GetTerms(c)
  BY <1>4 DEF GetTerms, GoesTo, Step, Typed, TypeOK
<1>5. CASE GetRates(c)
  BY <1>5 DEF GetRates, GoesTo, Step, Typed, TypeOK
<1>6. CASE Price(c)
  <2>1. [sheet |-> seen[c], at |-> now] \in [sheet : Sheets \cup {NoSheet}, at : Nat]
    BY DEF Typed, TypeOK
  <2>2. answer' \in [Caller -> [sheet : Sheets \cup {NoSheet}, at : Nat]] /\ DOMAIN answer' = Caller
    BY <1>6, <2>1 DEF Price, Typed, TypeOK
  <2>3. QED
    BY <1>6, <2>2 DEF Price, GoesTo, Step, Typed, TypeOK
<1>7. QED
  BY <1>3, <1>4, <1>5, <1>6 DEF Quote

(* ... and those of a call to GetLatestRevision.                            *)
LEMMA ReportTyped ==
  ASSUME Typed, NEW c \in Caller, Report(c)
  PROVE  Typed'
<1>0. /\ info[c] \in Info /\ now \in Nat /\ terms \in Nat
      /\ rates.sheet.rev \in Nat /\ rates.sheet.validUntil \in Nat /\ rates.lastRefreshed \in Nat
  BY SheetTypes DEF Typed, TypeOK
<1>1. CASE BeginReport(c)
  <2>1. NoInfo \in Info
    BY DEF NoInfo, Info, Zero
  <2>2. NoAnswer \in [sheet : Sheets \cup {NoSheet}, at : Nat]
    BY DEF NoAnswer, Zero
  <2>3. QED
    BY <1>1, <2>1, <2>2 DEF BeginReport, GoesTo, Step, Typed, TypeOK
<1>2. ASSUME ~BeginReport(c)
      PROVE  Typed'
  <2>1. UNCHANGED <<now, rates, terms, loading, seen, answer>>
    BY <1>2 DEF Report, ReadMetadata, ReadRatesRefresh, ReadTermsRefresh, SetIsValid,
       SetTimeUntilExpiry
  <2>2. pc' \in [Caller -> Step]
    BY <1>2 DEF Report, ReadMetadata, ReadRatesRefresh, ReadTermsRefresh, SetIsValid,
       SetTimeUntilExpiry, GoesTo, Step, Typed, TypeOK
  <2>3. info' \in [Caller -> Info]
    <3>1. CASE ReadMetadata(c)
      BY <1>0, <3>1 DEF ReadMetadata, Typed, Info
    <3>2. CASE ReadRatesRefresh(c)
      BY <1>0, <3>2 DEF ReadRatesRefresh, Typed, Info
    <3>3. CASE ReadTermsRefresh(c)
      BY <1>0, <3>3 DEF ReadTermsRefresh, Typed, Info
    <3>4. CASE SetIsValid(c)
      BY <1>0, <3>4 DEF SetIsValid, Typed, Info
    <3>5. CASE SetTimeUntilExpiry(c)
      BY <1>0, <3>5 DEF SetTimeUntilExpiry, TimeLeft, Typed, Info
    <3>6. QED
      BY <1>2, <3>1, <3>2, <3>3, <3>4, <3>5 DEF Report
  <2>4. QED
    BY <2>1, <2>2, <2>3 DEF Typed, TypeOK
<1>3. QED
  BY <1>1, <1>2

LEMMA AlwaysTyped == Spec => []Typed
<1>1. Typed /\ [Next]_vars => Typed'
  <2>1. Typed /\ UNCHANGED vars => Typed'
    BY DEF vars, callerVars, Typed, TypeOK
  <2>2. QED
    BY <2>1, LoadingTyped, QuoteTyped, ReportTyped DEF Next
<1>2. QED
  BY <1>1, InitTyped, PTL DEF Spec

(* Every variable has its type: the cache never holds a part of a sheet or  *)
(* one that the checks of DumpRates refuse.                                 *)
THEOREM CacheTypeCorrect == Spec => []TypeOK
<1>1. Typed => TypeOK
  BY DEF Typed
<1>2. QED
  BY <1>1, AlwaysTyped, PTL

(* What a step leaves alone for a caller that does not take it, and where   *)
(* the clock and the time of the last refresh go meanwhile.                 *)
LEMMA OthersStep ==
  ASSUME Typed, [Next]_vars, NEW c \in Caller, ~Quote(c), ~Report(c)
  PROVE  /\ pc'[c] = pc[c] /\ seen'[c] = seen[c] /\ answer'[c] = answer[c] /\ info'[c] = info[c]
         /\ now' \in Nat /\ now' >= now
         /\ rates'.lastRefreshed \in Nat /\ rates'.lastRefreshed >= rates.lastRefreshed
<1>0. now \in Nat /\ rates.lastRefreshed \in 0..now
  BY DEF Typed, TypeOK
<1>1. ASSUME NEW d \in Caller, Quote(d) \/ Report(d)
      PROVE  /\ pc'[c] = pc[c] /\ seen'[c] = seen[c] /\ answer'[c] = answer[c]
             /\ info'[c] = info[c] /\ UNCHANGED <<now, rates>>
  <2>0. c # d /\ pc \in [Caller -> Step] /\ info \in [Caller -> Info] /\ DOMAIN answer = Caller
        /\ seen \in [Caller -> Sheets \cup {NoSheet}]
    BY <1>1 DEF Typed, TypeOK
  <2>1. CASE Quote(d) \/ BeginReport(d)
    BY <2>0, <2>1 DEF Quote, BeginQuote, GetTerms, GetRates, Price, BeginReport, GoesTo, Typed
  <2>2. CASE Report(d) /\ ~BeginReport(d)
    <3>1. UNCHANGED <<now, rates, seen, answer>> /\ pc'[c] = pc[c]
      BY <2>0, <2>2 DEF Report, ReadMetadata, ReadRatesRefresh, ReadTermsRefresh, SetIsValid,
         SetTimeUntilExpiry, GoesTo
    <3>2. info'[c] = info[c]
      <4>1. CASE ReadMetadata(d)
        BY <2>0, <4>1 DEF ReadMetadata
      <4>2. CASE ReadRatesRefresh(d) \/ ReadTermsRefresh(d)
        BY <2>0, <4>2 DEF ReadRatesRefresh, ReadTermsRefresh
      <4>3. CASE SetIsValid(d) \/ SetTimeUntilExpiry(d)
        BY <2>0, <4>3 DEF SetIsValid, SetTimeUntilExpiry
      <4>4. QED
        BY <2>2, <4>1, <4>2, <4>3 DEF Report
    <3>3. QED
      BY <3>1, <3>2
  <2>3. QED
    BY <1>1, <2>1, <2>2
<1>2. ASSUME NEW w \in Writer, DumpRates(w)
      PROVE  /\ UNCHANGED <<now, callerVars>>
             /\ rates'.lastRefreshed \in {rates.lastRefreshed, now}
  BY <1>2 DEF DumpRates, Loaded, Stored
<1>3. CASE (\E w \in Writer : GetEnvelope(w)) \/ DumpTerms \/ UNCHANGED vars
  BY <1>0, <1>3 DEF GetEnvelope, DumpTerms, vars, callerVars
<1>4. CASE Tick
  BY <1>0, <1>4 DEF Tick, callerVars
<1>5. QED
  BY <1>0, <1>1, <1>2, <1>3, <1>4 DEF Next, callerVars

-------------------------------------------------------------------------------
(***************************************************************************)
(* Quotes.                                                                 *)
(***************************************************************************)

(* A caller that is about to price has a sheet with pairs; an answer holds. *)
Quoting(c) ==
  /\ pc[c] = "price" => seen[c].pairs # NoPairs
  /\ answer[c] # NoAnswer =>
       /\ answer[c].sheet \in Sheets
       /\ answer[c].sheet.pairs # NoPairs
       /\ answer[c].sheet.rev # 0
       /\ answer[c].at <= answer[c].sheet.validUntil

LEMMA QuotingKept ==
  ASSUME Typed, [Next]_vars, NEW c \in Caller, Quoting(c)
  PROVE  Quoting(c)'
<1> USE DEF Quoting, Typed, TypeOK
<1>1. CASE BeginQuote(c) \/ BeginReport(c)
  BY <1>1 DEF BeginQuote, BeginReport, GoesTo
<1>2. CASE GetTerms(c)
  BY <1>2 DEF GetTerms, GoesTo
<1>3. CASE GetRates(c)
  BY <1>3 DEF GetRates, GoesTo
<1>4. CASE Price(c)
  <2>1. pc'[c] = "idle" /\ seen[c].pairs # NoPairs
    BY <1>4 DEF Price, GoesTo
  <2>2. CASE UNCHANGED answer
    BY <2>1, <2>2
  <2>3. CASE /\ StillValid(seen[c]) /\ seen[c].rev # 0
             /\ answer' = [answer EXCEPT ![c] = [sheet |-> seen[c], at |-> now]]
    <3>1. seen[c] \in Sheets
      BY <2>3, SheetTypes
    <3>2. answer'[c].sheet = seen[c] /\ answer'[c].at = now
      BY <2>3
    <3>3. now <= seen[c].validUntil
      BY <2>3, <3>1, SheetTypes DEF StillValid
    <3>4. QED
      BY <2>1, <2>3, <3>1, <3>2, <3>3
  <2>4. QED
    BY <1>4, <2>2, <2>3 DEF Price
<1>5. CASE Report(c) /\ ~BeginReport(c)
  BY <1>5 DEF Report, ReadMetadata, ReadRatesRefresh, ReadTermsRefresh, SetIsValid,
     SetTimeUntilExpiry, GoesTo
<1>6. CASE ~Quote(c) /\ ~Report(c)
  <2>1. pc'[c] = pc[c] /\ seen'[c] = seen[c] /\ answer'[c] = answer[c]
    BY <1>6, OthersStep
  <2>2. QED
    BY <2>1
<1>7. QED
  BY <1>1, <1>2, <1>3, <1>4, <1>5, <1>6 DEF Quote

(* "it's not valid anymore": no rate is answered after the end of the very  *)
(* sheet it comes from, whatever is loaded while the call is under way.     *)
THEOREM AnswersAreValid == Spec => []AnswersHold
<1> DEFINE Inv == \A c \in Caller : Quoting(c)
<1>1. Init => Inv
  BY DEF Init, Quoting
<1>2. Typed /\ Inv /\ [Next]_vars => Inv'
  BY QuotingKept
<1>3. Inv => AnswersHold
  BY DEF Quoting, AnswersHold
<1>4. QED
  BY <1>1, <1>2, <1>3, AlwaysTyped, PTL DEF Spec

-------------------------------------------------------------------------------
(***************************************************************************)
(* Reports.                                                                *)
(***************************************************************************)
Reporting == {"metadata", "ratesRefresh", "termsRefresh", "isValid", "expiry"}

(* How far a report has come says which of its fields are still blank, what *)
(* it knows of the last refresh, and what the clock cannot undo.            *)
ReportFits(c) ==
  /\ pc[c] \in {"metadata", "ratesRefresh"} => info[c].ratesRefresh = Zero
  /\ pc[c] = "ratesRefresh" => info[c].loadedAt <= rates.lastRefreshed
  /\ info[c].ratesRefresh # Zero => info[c].ratesRefresh >= info[c].loadedAt
  /\ pc[c] \in Reporting => info[c].untilExpiry = 0
  /\ pc[c] = "expiry" => info[c].isValid \/ info[c].validUntil <= now
  /\ info[c].untilExpiry > 0 => info[c].isValid

LEMMA ReportStepFits ==
  ASSUME Typed, NEW c \in Caller, Report(c), ReportFits(c)
  PROVE  ReportFits(c)'
<1>0. /\ pc \in [Caller -> Step] /\ info \in [Caller -> Info] /\ info[c] \in Info
      /\ now \in Nat \ {0} /\ rates.lastRefreshed \in Nat
      /\ rates.sheet.rev \in Nat /\ rates.sheet.validUntil \in Nat
  BY SheetTypes DEF Typed, TypeOK
<1>1. CASE BeginReport(c)
  BY <1>0, <1>1 DEF BeginReport, GoesTo, NoInfo, ReportFits, Reporting, Zero
<1>2. CASE ReadMetadata(c)
  <2>1. CASE rates.sheet.pairs = NoPairs \/ rates.sheet.rev = 0
    BY <1>0, <1>2, <2>1 DEF ReadMetadata, GoesTo, ReportFits, Reporting
  <2>2. CASE ~(rates.sheet.pairs = NoPairs \/ rates.sheet.rev = 0)
    <3>1. /\ pc[c] = "metadata" /\ pc'[c] = "ratesRefresh" /\ UNCHANGED <<rates, now>>
          /\ info'[c].ratesRefresh = info[c].ratesRefresh
          /\ info'[c].untilExpiry = info[c].untilExpiry
          /\ info'[c].loadedAt = rates.lastRefreshed
      BY <1>0, <1>2, <2>2 DEF ReadMetadata, GoesTo, Info
    <3>2. QED
      BY <1>0, <3>1 DEF ReportFits, Reporting
  <2>3. QED
    BY <2>1, <2>2
<1>3. CASE ReadRatesRefresh(c)
  <2>1. /\ pc[c] = "ratesRefresh" /\ pc'[c] = "termsRefresh" /\ UNCHANGED <<rates, now>>
        /\ info'[c].ratesRefresh = rates.lastRefreshed
        /\ info'[c].untilExpiry = info[c].untilExpiry
        /\ info'[c].loadedAt = info[c].loadedAt
    BY <1>0, <1>3 DEF ReadRatesRefresh, GoesTo, Info
  <2>2. QED
    BY <1>0, <2>1 DEF ReportFits, Reporting
<1>4. CASE ReadTermsRefresh(c)
  <2>1. /\ pc[c] = "termsRefresh" /\ pc'[c] = "isValid" /\ UNCHANGED <<rates, now>>
        /\ info'[c].ratesRefresh = info[c].ratesRefresh
        /\ info'[c].untilExpiry = info[c].untilExpiry
        /\ info'[c].loadedAt = info[c].loadedAt
    BY <1>0, <1>4 DEF ReadTermsRefresh, GoesTo, Info
  <2>2. QED
    BY <1>0, <2>1 DEF ReportFits, Reporting
<1>5. CASE SetIsValid(c)
  <2>1. /\ pc[c] = "isValid" /\ pc'[c] = "expiry" /\ UNCHANGED <<rates, now>>
        /\ info'[c].ratesRefresh = info[c].ratesRefresh
        /\ info'[c].untilExpiry = info[c].untilExpiry
        /\ info'[c].loadedAt = info[c].loadedAt
        /\ info'[c].validUntil = info[c].validUntil
        /\ info'[c].isValid <=> info[c].validUntil # Zero /\ info[c].validUntil > now
    BY <1>0, <1>5 DEF SetIsValid, GoesTo, Info
  <2>2. info[c].validUntil \in Nat
    BY <1>0 DEF Info
  <2>3. QED
    BY <1>0, <2>1, <2>2 DEF ReportFits, Reporting, Zero
<1>6. CASE SetTimeUntilExpiry(c)
  <2>1. /\ pc[c] = "expiry" /\ pc'[c] = "idle" /\ UNCHANGED <<rates, now>>
        /\ info'[c].ratesRefresh = info[c].ratesRefresh
        /\ info'[c].untilExpiry = info[c].validUntil - now
        /\ info'[c].loadedAt = info[c].loadedAt
        /\ info'[c].isValid = info[c].isValid
    BY <1>0, <1>6 DEF SetTimeUntilExpiry, TimeLeft, GoesTo, Info
  <2>2. info[c].validUntil \in Nat
    BY <1>0 DEF Info
  <2>3. QED
    BY <1>0, <2>1, <2>2 DEF ReportFits, Reporting
<1>7. QED
  BY <1>1, <1>2, <1>3, <1>4, <1>5, <1>6 DEF Report

(* The clock and the time of the last refresh only go forward.              *)
LEMMA OtherStepFits ==
  ASSUME Typed, [Next]_vars, NEW c \in Caller, ~Report(c), ReportFits(c)
  PROVE  ReportFits(c)'
<1>0. now \in Nat /\ rates.lastRefreshed \in 0..now /\ pc \in [Caller -> Step]
      /\ info \in [Caller -> Info]
  BY DEF Typed, TypeOK
<1>1. CASE BeginQuote(c)
  BY <1>0, <1>1 DEF BeginQuote, GoesTo, NoInfo, ReportFits, Reporting, Zero
<1>2. CASE Quote(c) /\ ~BeginQuote(c)
  <2>1. /\ UNCHANGED <<info, rates, now>>
        /\ pc'[c] \notin Reporting
    BY <1>0, <1>2 DEF Quote, GetTerms, GetRates, Price, GoesTo, Reporting
  <2>2. QED
    BY <2>1 DEF ReportFits, Reporting
<1>3. CASE ~Quote(c)
  <2>1. /\ pc'[c] = pc[c] /\ info'[c] = info[c]
        /\ now' \in Nat /\ now' >= now
        /\ rates'.lastRefreshed \in Nat /\ rates'.lastRefreshed >= rates.lastRefreshed
    BY <1>3, OthersStep
  <2>2. info[c].loadedAt \in Nat /\ info[c].validUntil \in Nat
    BY <1>0 DEF Info
  <2>3. QED
    BY <1>0, <2>1, <2>2 DEF ReportFits
<1>4. QED
  BY <1>1, <1>2, <1>3

LEMMA ReportsFit == Spec => [](\A c \in Caller : ReportFits(c))
<1> DEFINE Inv == \A c \in Caller : ReportFits(c)
<1>1. Init => Inv
  <2> SUFFICES ASSUME Init, NEW c \in Caller PROVE ReportFits(c)
    OBVIOUS
  <2>1. NoInfo.ratesRefresh = 0 /\ NoInfo.untilExpiry = 0
    BY DEF NoInfo, Zero
  <2>2. pc[c] = "idle" /\ info[c] = NoInfo
    BY DEF Init
  <2>3. QED
    BY <2>1, <2>2 DEF ReportFits, Reporting, Zero
<1>2. Typed /\ Inv /\ [Next]_vars => Inv'
  BY ReportStepFits, OtherStepFits
<1>3. QED
  BY <1>1, <1>2, AlwaysTyped, PTL DEF Spec

(* The refresh time of a report is never that of an earlier load than its   *)
(* revision.                                                                *)
THEOREM RefreshTimeFits == Spec => []RefreshNotBeforeRevision
<1>1. (\A c \in Caller : ReportFits(c)) => RefreshNotBeforeRevision
  BY DEF ReportFits, RefreshNotBeforeRevision
<1>2. QED
  BY <1>1, ReportsFit, PTL

(* A report that has time left until the expiry says that it is valid.      *)
THEOREM TimeLeftFits == Spec => []TimeLeftMeansValid
<1>1. (\A c \in Caller : ReportFits(c)) => TimeLeftMeansValid
  BY DEF ReportFits, TimeLeftMeansValid
<1>2. QED
  BY <1>1, ReportsFit, PTL

-------------------------------------------------------------------------------
(***************************************************************************)
(* The promise of RateSheets.                                              *)
(***************************************************************************)

(* The cache implements RateSheets: a load puts a whole sheet in place, and *)
(* a caller looks at the sheet that is there or puts its copy away.         *)
THEOREM CacheKeepsRateSheets == Spec => KeepsRateSheets
<1>1. Init => Promise!Init
  BY DEF Init, Promise!Init
<1>2. Typed /\ [Next]_vars => [Promise!Next]_<<rates.sheet, seen>>
  <2> SUFFICES ASSUME Typed, [Next]_vars
               PROVE  Promise!Next \/ UNCHANGED <<rates.sheet, seen>>
    OBVIOUS
  <2>1. ASSUME NEW w \in Writer, DumpRates(w)
        PROVE  Promise!Load \/ UNCHANGED <<rates.sheet, seen>>
    <3>1. UNCHANGED seen /\ loading[w] \in Envelopes
      BY <2>1 DEF DumpRates, callerVars, Typed, TypeOK
    <3>2. CASE loading[w].kind = "ok"
      <4>1. rates'.sheet = SheetOf(loading[w])
        BY <2>1, <3>2 DEF DumpRates, Loaded, Stored
      <4>2. QED
        BY <3>1, <3>2, <4>1, SheetTypes DEF Promise!Load
    <3>3. CASE loading[w].kind # "ok"
      BY <2>1, <3>1, <3>3 DEF DumpRates, Loaded
    <3>4. QED
      BY <3>2, <3>3
  <2>2. ASSUME NEW c \in Caller, GetRates(c)
        PROVE  Promise!Look(c) \/ UNCHANGED <<rates.sheet, seen>>
    BY <2>2 DEF GetRates, Promise!Look
  <2>3. ASSUME NEW c \in Caller, Price(c)
        PROVE  Promise!PutAway(c)
    BY <2>3 DEF Price, Promise!PutAway
  <2>4. ASSUME NEW c \in Caller, Quote(c) \/ Report(c), ~GetRates(c), ~Price(c)
        PROVE  UNCHANGED <<rates.sheet, seen>>
    BY <2>4 DEF Quote, Report, BeginQuote, GetTerms, BeginReport, ReadMetadata, ReadRatesRefresh,
       ReadTermsRefresh, SetIsValid, SetTimeUntilExpiry
  <2>5. CASE (\E w \in Writer : GetEnvelope(w)) \/ DumpTerms \/ Tick \/ UNCHANGED vars
    BY <2>5 DEF GetEnvelope, DumpTerms, Tick, vars, callerVars
  <2>6. QED
    BY <2>1, <2>2, <2>3, <2>4, <2>5 DEF Next, Promise!Next
<1>3. QED
  BY <1>1, <1>2, AlwaysTyped, PTL DEF Spec, KeepsRateSheets, Promise!Spec

===============================================================================
