------------------------- MODULE DistributedDataProofs -------------------------
(***************************************************************************)
(* Proofs about DistributedData and DataHistory, for any pods, loops per   *)
(* pod, revisions and answers, however leadership periods overlap and      *)
(* however many SETs are left behind: the types, that what is announced    *)
(* and served has been stored, that writes are fresh, and that no data is  *)
(* lost.                                                                   *)
(***************************************************************************)
EXTENDS DataHistory, TLAPS

USE DataAssumption

(* The first element of a loop is its pod.                                  *)
LEMMA LoopPod == \A g \in Loop : g[1] \in Pod
  BY DEF Loop

(* The loop that a new leader starts is a loop of that pod.                 *)
LEMMA NewLoop ==
  ASSUME NEW p \in Pod, BecomeLeader(p)
  PROVE  \E s \in Slot : /\ pc[<<p, s>>] = "none"
                         /\ <<p, s>> \in Loop
                         /\ pc' = [pc EXCEPT ![<<p, s>>] = "start"]
<1> DEFINE free == CHOOSE s \in Slot : pc[<<p, s>>] = "none"
<1>1. free \in Slot /\ pc[<<p, free>>] = "none"
  BY DEF BecomeLeader
<1>2. pc' = [pc EXCEPT ![<<p, free>>] = "start"]
  BY DEF BecomeLeader
<1> HIDE DEF free
<1>3. <<p, free>> \in Loop
  BY <1>1 DEF Loop
<1>4. QED
  BY <1>1, <1>2, <1>3

(* The API answers with an envelope.                                        *)
LEMMA AnswerTypes ==
  ASSUME latest \in 1..MaxRev, NEW e \in Answers
  PROVE  /\ e \in Envelope
         /\ e.rev = latest \/ e.kind = "failed"
         /\ e.kind \in Kinds
<1>1. PICK r \in {0, latest}, k \in Kinds : e = [rev |-> r, kind |-> k]
  BY DEF Answers
<1>2. r \in 0..MaxRev /\ k \in Kind
  OBVIOUS
<1>3. e \in Envelope /\ e.rev = r /\ e.kind = k
  BY <1>1, <1>2 DEF Envelope
<1>4. r = 0 <=> k = "failed"
  BY <1>1, <1>3 DEF Answers
<1>5. QED
  BY <1>3, <1>4

-------------------------------------------------------------------------------
(***************************************************************************)
(* Types.                                                                  *)
(***************************************************************************)

(* A step of a loop keeps the types.                                        *)
LEMMA LoopTypes ==
  ASSUME TypeOK, NEW g \in Loop, LoopAction(g)
  PROVE  TypeOK'
<1> USE LoopPod
<1>0. NoRates \in Envelope \cup {NoRates} /\ NoRates.rev = 0 /\ NoTerms \in 0..MaxTerms
  BY DEF NoRates, NoTerms
<1>1. \A p \in Pod : AfterRates(p) \subseteq LoopStep /\ RefreshIfNeeded(p) \subseteq LoopStep
  BY DEF AfterRates, RefreshIfNeeded, LoopStep, Refreshing, Fetching
<1>2. CASE FetchRates(g)
  BY <1>2, AnswerTypes DEF FetchRates, GoesTo, TypeOK, LoopStep, Refreshing,
     podVars, syncVars, memVars, redisVars, apiVars
<1>3. CASE StoreRates(g)
  BY <1>3 DEF StoreRates, Backup, GoesTo, TypeOK, LoopStep, Refreshing,
     podVars, syncVars, memVars, apiVars
<1>4. CASE LoadFetchedRates(g)
  BY <1>4 DEF LoadFetchedRates, DumpRates, GoesTo, TypeOK, LoopStep, Refreshing,
     podVars, syncVars, redisVars, apiVars
<1>5. env[g].rev \in 0..MaxRev
  BY <1>0 DEF TypeOK, Envelope
<1>6. CASE SetVersion(g)
  BY <1>0, <1>1, <1>5, <1>6 DEF SetVersion, EndRates, VersionOf, GoesTo, TypeOK,
     podVars, syncVars, memVars, apiVars
<1>7. CASE RatesFail(g)
  BY <1>0, <1>1, <1>5, <1>7 DEF RatesFail, EndRates, VersionOf, GoesTo, TypeOK,
     podVars, syncVars, memVars, redisVars, apiVars
<1>8. CASE FetchTerms(g)
  BY <1>8 DEF FetchTerms, GoesTo, TypeOK, LoopStep, Refreshing,
     podVars, syncVars, memVars, redisVars, apiVars
<1>9. CASE StoreTerms(g)
  BY <1>9 DEF StoreTerms, GoesTo, TypeOK, LoopStep, Refreshing,
     podVars, syncVars, memVars, apiVars
<1>10. CASE LoadFetchedTerms(g)
  BY <1>0, <1>10 DEF LoadFetchedTerms, DumpTerms, GoesTo, TypeOK, LoopStep,
     podVars, syncVars, redisVars, apiVars
<1>11. CASE TermsFail(g)
  BY <1>0, <1>11 DEF TermsFail, GoesTo, TypeOK, LoopStep,
     podVars, syncVars, memVars, apiVars
<1>12. CASE BeginLoop(g)
  BY <1>1, <1>12 DEF BeginLoop, LeaderContext, Context, GoesTo, TypeOK,
     podVars, syncVars, memVars, redisVars, apiVars
<1>13. CASE LoopHead(g)
  BY <1>13 DEF LoopHead, Return, Context, GoesTo, TypeOK, LoopStep,
     podVars, syncVars, memVars, redisVars, apiVars
<1>14. CASE TimerFires(g)
  BY <1>1, <1>14 DEF TimerFires, Return, Context, GoesTo, TypeOK, LoopStep,
     podVars, syncVars, memVars, redisVars, apiVars
<1>15. CASE ContextDone(g)
  BY <1>15 DEF ContextDone, Return, Context, TypeOK, LoopStep,
     podVars, syncVars, memVars, redisVars, apiVars
<1>16. QED
  BY <1>2, <1>3, <1>4, <1>6, <1>7, <1>8, <1>9, <1>10, <1>11, <1>12, <1>13, <1>14, <1>15
     DEF LoopAction, RatesStep, TermsStep, LoopControl

(* A step of a main loop, and a crash, keep the types.                      *)
LEMMA PodTypes ==
  ASSUME TypeOK, NEW p \in Pod,
         Sync(p) \/ BecomeLeader(p) \/ LoseLeadership(p) \/ Crash(p)
  PROVE  TypeOK'
<1>0. NoRates \in Envelope \cup {NoRates} /\ NoTerms \in 0..MaxTerms
  BY DEF NoRates, NoTerms
<1>1. ASSUME NEW step \in MainStep, MainGoesTo(p, step)
      PROVE  main' \in [Pod -> MainStep]
  BY <1>1 DEF MainGoesTo, TypeOK
<1>2. CASE StartPod(p)
  BY <1>1, <1>2 DEF StartPod, MainStep, TypeOK, podVars, memVars, loopVars, redisVars, apiVars
<1>3. CASE SyncTick(p)
  BY <1>1, <1>3 DEF SyncTick, MainStep, TypeOK, podVars, memVars, loopVars, redisVars, apiVars
<1>4. CASE SyncVersion(p)
  BY <1>1, <1>4 DEF SyncVersion, MainStep, TypeOK, podVars, memVars, loopVars, redisVars, apiVars
<1>5. CASE SyncFails(p)
  BY <1>1, <1>5 DEF SyncFails, MainStep, TypeOK, podVars, memVars, loopVars, redisVars, apiVars
<1>6. CASE GetRates(p)
  BY <1>1, <1>6 DEF GetRates, MainStep, TypeOK, podVars, memVars, loopVars, redisVars, apiVars
<1>7. CASE LoadRates(p)
  BY <1>0, <1>1, <1>7 DEF LoadRates, DumpRates, MainStep, TypeOK,
     podVars, loopVars, redisVars, apiVars
<1>8. CASE GetTerms(p)
  BY <1>1, <1>8 DEF GetTerms, MainStep, TypeOK, podVars, memVars, loopVars, redisVars, apiVars
<1>9. CASE LoadTerms(p)
  BY <1>0, <1>1, <1>9 DEF LoadTerms, DumpTerms, MainStep, TypeOK,
     podVars, loopVars, redisVars, apiVars
<1>10. CancelContexts(p) \in [Loop -> Context]
  BY DEF CancelContexts, Context, TypeOK
<1>11. CASE BecomeLeader(p)
  <2>1. pc' \in [Loop -> LoopStep]
    BY <1>11, NewLoop DEF TypeOK, LoopStep
  <2>2. QED
    BY <1>10, <1>11, <2>1 DEF BecomeLeader, TypeOK, syncVars, memVars, redisVars, apiVars
<1>12. CASE LoseLeadership(p)
  BY <1>10, <1>12 DEF LoseLeadership, TypeOK, syncVars, memVars, redisVars, apiVars
<1>13. CASE Crash(p)
  <2>1. /\ pc' \in [Loop -> LoopStep] /\ ctx' \in [Loop -> Context]
        /\ env' \in [Loop -> Envelope \cup {NoRates}] /\ terms' \in [Loop -> 0..MaxTerms]
    BY <1>0, <1>13 DEF Crash, LoopStep, Context, TypeOK
  <2>2. QED
    BY <1>0, <1>1, <1>13, <2>1 DEF Crash, MainStep, TypeOK, redisVars, apiVars
<1>14. QED
  BY <1>2, <1>3, <1>4, <1>5, <1>6, <1>7, <1>8, <1>9, <1>11, <1>12, <1>13 DEF Sync

(* A SET that is left behind is a command for one of the three keys.        *)
LEMMA SentTypes ==
  ASSUME TypeOK, NEW g \in Loop, LeaveBehind(g)
  PROVE  late' \subseteq Command
<1>1. env[g] \in Envelope \cup {NoRates} /\ terms[g] \in 0..MaxTerms
  BY DEF TypeOK
<1>2. QED
  BY <1>1 DEF LeaveBehind, Sent, VersionOf, Command, TypeOK, Envelope, NoRates

(* What it sets the key to is of the type of the key.                       *)
LEMMA LateTypes ==
  ASSUME NEW c \in Command
  PROVE  /\ c.key = "rates" => c.env \in Envelope \cup {NoRates}
         /\ c.key = "version" => c.rev \in 0..MaxRev
         /\ c.key = "terms" => c.terms \in 0..MaxTerms
  BY DEF Command

(* Every variable has its type in every reachable state.                    *)
THEOREM DataTypeCorrect == Spec => []TypeOK
<1>1. Init => TypeOK
  BY DEF Init, TypeOK, MainStep, LoopStep, Context, NoTerms, NoVersion
<1>2. TypeOK /\ [Next]_vars => TypeOK'
  <2> SUFFICES ASSUME TypeOK, [Next]_vars PROVE TypeOK'
    OBVIOUS
  <2>1. CASE UNCHANGED vars
    BY <2>1 DEF TypeOK, vars, podVars, syncVars, memVars, loopVars, redisVars, apiVars
  <2>2. CASE PublishRates \/ PublishTerms \/ RatesAge
    BY <2>2 DEF PublishRates, PublishTerms, RatesAge, TypeOK,
       podVars, syncVars, memVars, loopVars, redisVars
  <2>3. CASE Evict
    BY <2>3 DEF Evict, TypeOK, NoTerms, podVars, syncVars, memVars, loopVars, apiVars
  <2>4. CASE \E g \in Loop : LeaveBehind(g)
    BY <2>4, SentTypes DEF LeaveBehind, TypeOK, podVars, syncVars, memVars, loopVars, apiVars
  <2>5. CASE LateSet
    BY <2>5, LateTypes DEF LateSet, TypeOK, podVars, syncVars, memVars, loopVars, apiVars
  <2>6. QED
    BY <2>1, <2>2, <2>3, <2>4, <2>5, LoopTypes, PodTypes DEF Next
<1>3. QED
  BY <1>1, <1>2, PTL DEF Spec

-------------------------------------------------------------------------------
(***************************************************************************)
(* What a step may do to the rates in Redis, in memory and on their way,   *)
(* whichever loops run and whichever SETs are left behind.                 *)
(***************************************************************************)

\* A loop holds an answer that has been stored.
Stored(g) == pc[g] \in {"dumpRates", "setVersion"}

\* Redis keeps the envelope, drops it, or takes that of a loop or a late SET.
BackupStep ==
  \/ ratesBackup' = ratesBackup
  \/ ratesBackup' = NoRates /\ "rates" \in Evictable
  \/ \E g \in Loop : pc[g] = "storeRates" /\ ratesBackup' = env[g]
  \/ \E c \in late : c.key = "rates" /\ ratesBackup' = c.env

VersionStep ==
  \/ version' \in {version, NoVersion}
  \/ \E g \in Loop : Stored(g) /\ version' = env[g].rev
  \/ \E c \in late : c.key = "version" /\ version' = c.rev

\* A pod reads what Redis has, and loads what it has read or its loop has stored.
PodRatesStep ==
  \A p \in Pod :
    /\ got'[p] \in {got[p], NoRates, ratesBackup}
    /\ \/ memRates'[p] \in {memRates[p], NoRates, got[p]}
       \/ \E g \in Loop : Stored(g) /\ memRates'[p] = env[g]

\* A loop has an answer to store that it has just got, and one to load or to
\* announce that it has just stored.
LoopRatesStep ==
  \A g \in Loop :
    /\ env'[g] \in {env[g], NoRates} \cup Answers
    /\ pc'[g] = "storeRates" =>
         \/ pc[g] = "storeRates" /\ env'[g] = env[g]
         \/ pc[g] = "fetchRates" /\ env'[g] \in Answers
    /\ Stored(g)' =>
         /\ env'[g] = env[g]
         /\ Stored(g) \/ (pc[g] = "storeRates" /\ ratesBackup' = env[g])

LateStep ==
  \A c \in late' :
    \/ c \in late
    \/ \E g \in Loop : pc[g] = "storeRates" /\ c.key = "rates" /\ c.env = env[g]
    \/ \E g \in Loop : Stored(g) /\ c.key = "version" /\ c.rev = env[g].rev
    \/ c.key = "terms"

StepEffect ==
  /\ latest' \in {latest, latest + 1}
  /\ BackupStep /\ VersionStep /\ PodRatesStep /\ LoopRatesStep /\ LateStep

(* A step of a loop that leaves the other loops alone has the effect if it  *)
(* has it on its own loop.                                                  *)
LEMMA LoopEffect ==
  ASSUME TypeOK, NEW g \in Loop, LoopAction(g)
  PROVE  StepEffect
<1> USE LoopPod
<1>0. /\ \A h \in Loop : h # g => pc'[h] = pc[h] /\ env'[h] = env[h]
      /\ UNCHANGED <<got, late, latest>>
  BY DEF LoopAction, RatesStep, TermsStep, LoopControl, GoesTo, Return, EndRates, FetchRates,
     StoreRates, LoadFetchedRates, SetVersion, RatesFail, FetchTerms, StoreTerms,
     LoadFetchedTerms, TermsFail, BeginLoop, LoopHead, TimerFires, ContextDone,
     syncVars, redisVars, apiVars, TypeOK
<1>1. LateStep /\ latest' \in {latest, latest + 1}
  BY <1>0 DEF LateStep
<1> DEFINE Own ==
      /\ env'[g] \in {env[g], NoRates} \cup Answers
      /\ pc'[g] = "storeRates" => pc[g] = "fetchRates" /\ env'[g] \in Answers
      /\ Stored(g)' =>
           /\ env'[g] = env[g]
           /\ Stored(g) \/ (pc[g] = "storeRates" /\ ratesBackup' = env[g])
<1>2. Own => LoopRatesStep
  BY <1>0 DEF LoopRatesStep, Stored
<1>3. CASE FetchRates(g)
  <2>1. Own /\ UNCHANGED <<ratesBackup, version, memRates>>
    BY <1>3 DEF FetchRates, GoesTo, Stored, redisVars, memVars, TypeOK
  <2>2. QED
    BY <1>0, <1>1, <1>2, <2>1 DEF StepEffect, BackupStep, VersionStep, PodRatesStep
<1>4. CASE StoreRates(g)
  <2>1. Own /\ pc[g] = "storeRates" /\ ratesBackup' = env[g] /\ UNCHANGED <<version, memRates>>
    BY <1>4 DEF StoreRates, Backup, GoesTo, Stored, memVars, TypeOK
  <2>2. QED
    BY <1>0, <1>1, <1>2, <2>1 DEF StepEffect, BackupStep, VersionStep, PodRatesStep
<1>5. CASE LoadFetchedRates(g)
  <2>1. Own /\ Stored(g) /\ UNCHANGED <<ratesBackup, version>>
    BY <1>5 DEF LoadFetchedRates, GoesTo, Stored, redisVars, TypeOK
  <2>2. \A p \in Pod : memRates'[p] \in {memRates[p], env[g]}
    BY <1>5 DEF LoadFetchedRates, DumpRates, TypeOK
  <2>3. QED
    BY <1>0, <1>1, <1>2, <2>1, <2>2 DEF StepEffect, BackupStep, VersionStep, PodRatesStep
<1>6. CASE SetVersion(g)
  <2>1. Own /\ Stored(g) /\ version' = env[g].rev /\ UNCHANGED <<ratesBackup, memRates>>
    BY <1>6 DEF SetVersion, EndRates, VersionOf, GoesTo, AfterRates, Stored, memVars, TypeOK
  <2>2. QED
    BY <1>0, <1>1, <1>2, <2>1 DEF StepEffect, BackupStep, VersionStep, PodRatesStep
<1>7. CASE RatesFail(g)
  <2>1. /\ Own /\ UNCHANGED memRates
        /\ ratesBackup' = ratesBackup \/ (pc[g] = "storeRates" /\ ratesBackup' = env[g])
        /\ version' = version \/ (Stored(g) /\ version' = env[g].rev)
    BY <1>7 DEF RatesFail, EndRates, VersionOf, GoesTo, AfterRates, Stored, memVars,
       redisVars, TypeOK
  <2>2. QED
    BY <1>0, <1>1, <1>2, <2>1 DEF StepEffect, BackupStep, VersionStep, PodRatesStep
<1>8. CASE TermsStep(g) \/ LoopControl(g)
  <2>1. Own /\ UNCHANGED <<ratesBackup, version, memRates>>
    BY <1>8 DEF TermsStep, LoopControl, FetchTerms, StoreTerms, LoadFetchedTerms, TermsFail,
       BeginLoop, LoopHead, TimerFires, ContextDone, Return, GoesTo, RefreshIfNeeded,
       AfterRates, DumpTerms, Stored, memVars, redisVars, TypeOK
  <2>2. QED
    BY <1>0, <1>1, <1>2, <2>1 DEF StepEffect, BackupStep, VersionStep, PodRatesStep
<1>9. QED
  BY <1>3, <1>4, <1>5, <1>6, <1>7, <1>8 DEF LoopAction, RatesStep

(* So has every step.                                                       *)
LEMMA Effect ==
  ASSUME TypeOK, [Next]_vars
  PROVE  StepEffect
<1> DEFINE SameLoops == \A g \in Loop : pc'[g] = pc[g] /\ env'[g] = env[g]
<1>0. SameLoops => LoopRatesStep
  BY DEF LoopRatesStep, Stored
<1>1. late' = late => LateStep
  BY DEF LateStep
<1>2. CASE \E p \in Pod : Sync(p)
  <2>1. PICK p \in Pod : Sync(p)
    BY <1>2
  <2>2. UNCHANGED <<pc, env, ratesBackup, version, late, latest>>
    BY <2>1 DEF Sync, StartPod, SyncTick, SyncVersion, SyncFails, GetRates, LoadRates,
       GetTerms, LoadTerms, loopVars, redisVars, apiVars
  <2>3. \A q \in Pod : /\ got'[q] \in {got[q], ratesBackup, NoRates}
                       /\ memRates'[q] \in {memRates[q], got[q]}
    BY <2>1 DEF Sync, StartPod, SyncTick, SyncVersion, SyncFails, GetRates, LoadRates, GetTerms,
       LoadTerms, DumpRates, memVars, TypeOK
  <2>4. QED
    BY <1>0, <1>1, <2>2, <2>3 DEF StepEffect, BackupStep, VersionStep, PodRatesStep
<1>3. CASE \E p \in Pod : BecomeLeader(p)
  <2>1. PICK p \in Pod, s \in Slot : pc' = [pc EXCEPT ![<<p, s>>] = "start"]
    BY <1>3, NewLoop
  <2>2. UNCHANGED <<env, ratesBackup, version, late, latest, memRates, got>>
    BY <1>3 DEF BecomeLeader, syncVars, memVars, redisVars, apiVars
  <2>3. \A g \in Loop : pc'[g] \in {pc[g], "start"}
    BY <2>1 DEF TypeOK
  <2>4. LoopRatesStep
    BY <2>2, <2>3 DEF LoopRatesStep, Stored
  <2>5. QED
    BY <1>1, <2>2, <2>4 DEF StepEffect, BackupStep, VersionStep, PodRatesStep
<1>4. CASE \E p \in Pod : Crash(p)
  <2>1. PICK p \in Pod : Crash(p)
    BY <1>4
  <2>2. /\ UNCHANGED <<ratesBackup, version, late, latest>>
        /\ \A q \in Pod : /\ got'[q] \in {got[q], NoRates}
                          /\ memRates'[q] \in {memRates[q], NoRates}
        /\ \A g \in Loop : \/ pc'[g] = pc[g] /\ env'[g] = env[g]
                           \/ pc'[g] = "none" /\ env'[g] = NoRates
    BY <2>1 DEF Crash, redisVars, apiVars, TypeOK
  <2>3. LoopRatesStep
    BY <2>2 DEF LoopRatesStep, Stored
  <2>4. QED
    BY <1>1, <2>2, <2>3 DEF StepEffect, BackupStep, VersionStep, PodRatesStep
<1>5. CASE \E g \in Loop : LeaveBehind(g)
  <2>1. PICK g \in Loop : LeaveBehind(g)
    BY <1>5
  <2>2. /\ UNCHANGED <<pc, env, ratesBackup, version, latest, memRates, got>>
        /\ late' = late \cup {Sent(g)}
        /\ pc[g] \in {"storeRates", "setVersion", "storeTerms"}
    BY <2>1 DEF LeaveBehind, loopVars, memVars, syncVars, apiVars
  <2>3. \/ pc[g] = "storeRates" /\ Sent(g) = [key |-> "rates", env |-> env[g]]
        \/ pc[g] = "setVersion" /\ Sent(g) = [key |-> "version", rev |-> env[g].rev]
        \/ Sent(g) = [key |-> "terms", terms |-> terms[g]]
    BY <2>2 DEF Sent, VersionOf
  <2>4. LateStep
    BY <2>2, <2>3 DEF LateStep, Stored
  <2>5. QED
    BY <1>0, <2>2, <2>4 DEF StepEffect, BackupStep, VersionStep, PodRatesStep
<1>6. CASE LateSet
  <2>1. PICK c \in late :
          /\ late' = late \ {c}
          /\ IF c.key = "rates" THEN ratesBackup' = c.env ELSE UNCHANGED ratesBackup
          /\ version' = IF c.key = "version" THEN c.rev ELSE version
          /\ UNCHANGED <<syncVars, memVars, loopVars, apiVars>>
    BY <1>6 DEF LateSet
  <2>2. UNCHANGED <<pc, env, latest, memRates, got>>
    BY <2>1 DEF loopVars, memVars, syncVars, apiVars
  <2>3. BackupStep /\ VersionStep /\ LateStep
    BY <2>1 DEF BackupStep, VersionStep, LateStep
  <2>4. QED
    BY <1>0, <2>2, <2>3 DEF StepEffect, PodRatesStep
<1>7. CASE PublishRates
  <2>1. latest' = latest + 1 /\ UNCHANGED <<pc, env, ratesBackup, version, late, memRates, got>>
    BY <1>7 DEF PublishRates, memVars, syncVars, loopVars, redisVars
  <2>2. QED
    BY <1>0, <1>1, <2>1 DEF StepEffect, BackupStep, VersionStep, PodRatesStep
<1>8. CASE Evict
  <2>1. /\ UNCHANGED <<pc, env, late, latest, memRates, got>>
        /\ version' \in {version, NoVersion}
        /\ ratesBackup' = ratesBackup \/ (ratesBackup' = NoRates /\ "rates" \in Evictable)
    BY <1>8 DEF Evict, memVars, syncVars, loopVars, apiVars
  <2>2. QED
    BY <1>0, <1>1, <2>1 DEF StepEffect, BackupStep, VersionStep, PodRatesStep
<1>9. CASE \/ \E p \in Pod : LoseLeadership(p)
           \/ PublishTerms \/ RatesAge \/ UNCHANGED vars
  <2>1. UNCHANGED <<pc, env, ratesBackup, version, late, latest, memRates, got>>
    BY <1>9 DEF LoseLeadership, PublishTerms, RatesAge, vars, memVars, syncVars,
       loopVars, redisVars, apiVars
  <2>2. QED
    BY <1>0, <1>1, <2>1 DEF StepEffect, BackupStep, VersionStep, PodRatesStep
<1>10. QED
  BY LoopEffect, <1>2, <1>3, <1>4, <1>5, <1>6, <1>7, <1>8, <1>9 DEF Next

-------------------------------------------------------------------------------
(***************************************************************************)
(* The past.  What is announced, served, or about to be, has been stored;  *)
(* what is about to be stored is no older than what had been stored when   *)
(* the API gave it.                                                        *)
(***************************************************************************)

(* The history adds nothing to what DistributedData does.                   *)
LEMMA HistoryTypes == HistorySpec => []TypeOK
<1>1. HistoryInit => Init
  BY DEF HistoryInit
<1>2. [Next /\ Remember]_historyVars => [Next]_vars
  BY DEF historyVars
<1>3. HistorySpec => Spec
  BY <1>1, <1>2, PTL DEF HistorySpec, Spec
<1>4. QED
  BY <1>3, DataTypeCorrect, PTL

\* Why nothing that was not stored gets announced or served.
StoredInvariant ==
  /\ stored \subseteq 0..latest /\ 0 \in stored
  /\ ratesBackup.rev \in stored
  /\ AnnouncedWasStored /\ ServedWasStored
  /\ \A p \in Pod : got[p].rev \in stored
  /\ \A g \in Loop : Stored(g) => env[g].rev \in stored
  /\ \A g \in Loop : pc[g] = "storeRates" => env[g].rev \in 0..latest
  /\ \A c \in late : /\ c.key = "rates" => c.env.rev \in 0..latest
                     /\ c.key = "version" => c.rev \in stored

LEMMA StoredKept ==
  ASSUME TypeOK, StoredInvariant, [Next /\ Remember]_historyVars
  PROVE  StoredInvariant'
<1>1. CASE UNCHANGED historyVars
  BY <1>1 DEF historyVars, vars, StoredInvariant, AnnouncedWasStored, ServedWasStored, Stored,
     podVars, syncVars, memVars, loopVars, redisVars, apiVars
<1>2. CASE Next /\ Remember
  <2>0. /\ stored' = stored \cup {ratesBackup'.rev}
        /\ NoRates.rev = 0 /\ latest \in Nat
    BY <1>2 DEF Remember, NoRates, TypeOK
  <2>1. BackupStep /\ VersionStep /\ PodRatesStep /\ LoopRatesStep /\ LateStep
        /\ latest' \in {latest, latest + 1}
    BY <1>2, Effect DEF StepEffect
  <2>2. ratesBackup'.rev \in 0..latest
    <3>1. ratesBackup.rev \in 0..latest
      BY DEF StoredInvariant
    <3>2. \A g \in Loop : pc[g] = "storeRates" => env[g].rev \in 0..latest
      BY DEF StoredInvariant
    <3>3. \A c \in late : c.key = "rates" => c.env.rev \in 0..latest
      BY DEF StoredInvariant
    <3>4. QED
      BY <2>0, <2>1, <3>1, <3>2, <3>3 DEF BackupStep
  <2>3. stored' \subseteq 0..latest' /\ 0 \in stored' /\ ratesBackup'.rev \in stored'
    <3>1. stored \subseteq 0..latest /\ 0 \in stored
      BY DEF StoredInvariant
    <3>2. 0..latest \subseteq 0..latest'
      BY <2>0, <2>1
    <3>3. QED
      BY <2>0, <2>2, <3>1, <3>2
  <2>4. AnnouncedWasStored'
    BY <2>0, <2>1 DEF VersionStep, StoredInvariant, AnnouncedWasStored
  <2>5. ServedWasStored' /\ \A p \in Pod : got'[p].rev \in stored'
    BY <2>0, <2>1 DEF PodRatesStep, StoredInvariant, ServedWasStored
  <2>6. \A g \in Loop : Stored(g)' => env'[g].rev \in stored'
    BY <2>0, <2>1 DEF LoopRatesStep, StoredInvariant
  <2>7. \A g \in Loop : pc'[g] = "storeRates" => env'[g].rev \in 0..latest'
    <3>1. \A e \in Answers : e.rev \in 0..latest
      BY <2>0 DEF Answers
    <3>2. QED
      BY <2>0, <2>1, <3>1 DEF LoopRatesStep, StoredInvariant
  <2>8. \A c \in late' : /\ c.key = "rates" => c.env.rev \in 0..latest'
                         /\ c.key = "version" => c.rev \in stored'
    BY <2>0, <2>1 DEF LateStep, StoredInvariant
  <2>9. QED
    BY <2>3, <2>4, <2>5, <2>6, <2>7, <2>8 DEF StoredInvariant
<1>3. QED
  BY <1>1, <1>2

LEMMA StoredAlways == HistorySpec => []StoredInvariant
<1>1. HistoryInit => StoredInvariant
  BY DEF HistoryInit, Init, StoredInvariant, AnnouncedWasStored, ServedWasStored, Stored,
     NoRates, NoVersion
<1>2. TypeOK /\ StoredInvariant /\ [Next /\ Remember]_historyVars => StoredInvariant'
  BY StoredKept
<1>3. QED
  BY <1>1, <1>2, HistoryTypes, PTL DEF HistorySpec

(* The version in Redis announces rates that have been in Redis.            *)
THEOREM NothingElseIsAnnounced == HistorySpec => []AnnouncedWasStored
<1>1. StoredInvariant => AnnouncedWasStored
  BY DEF StoredInvariant
<1>2. QED
  BY <1>1, StoredAlways, PTL

(* A pod serves rates that have been in Redis.                              *)
THEOREM NothingElseIsServed == HistorySpec => []ServedWasStored
<1>1. StoredInvariant => ServedWasStored
  BY DEF StoredInvariant
<1>2. QED
  BY <1>1, StoredAlways, PTL

(* What a refresh writes is no older than what Redis had held when the API  *)
(* gave it the answer.                                                      *)
THEOREM NoOldAnswerIsWritten == HistorySpec => []WritesAreFresh
<1>1. HistoryInit => WritesAreFresh
  BY DEF HistoryInit, Init, WritesAreFresh, Writing
<1>2. TypeOK /\ StoredInvariant /\ WritesAreFresh /\ [Next /\ Remember]_historyVars
        => WritesAreFresh'
  <2> SUFFICES ASSUME TypeOK, StoredInvariant, WritesAreFresh, Next, Remember
               PROVE  WritesAreFresh'
    BY DEF historyVars, vars, loopVars, WritesAreFresh
  <2> SUFFICES ASSUME NEW g \in Loop, pc'[g] \in Writing
               PROVE  \/ env'[g].kind = "failed"
                      \/ \A r \in asked'[g] : r <= env'[g].rev
    BY DEF WritesAreFresh, Writing
  <2>1. LoopRatesStep
    BY Effect DEF StepEffect
  <2>2. asked'[g] = IF pc[g] \in Writing THEN asked[g] ELSE stored
    BY DEF Remember
  <2>3. CASE pc[g] \in Writing /\ env'[g] = env[g]
    BY <2>2, <2>3 DEF WritesAreFresh
  <2>4. CASE pc[g] = "fetchRates" /\ env'[g] \in Answers
    <3>1. env'[g].kind = "failed" \/ env'[g].rev = latest
      BY <2>4, AnswerTypes DEF TypeOK
    <3>2. asked'[g] \subseteq 0..latest
      BY <2>2, <2>4 DEF Writing, StoredInvariant
    <3>3. QED
      BY <3>1, <3>2
  <2>5. QED
    BY <2>1, <2>3, <2>4 DEF LoopRatesStep, Writing, Stored
<1>3. QED
  BY <1>1, <1>2, StoredAlways, HistoryTypes, PTL DEF HistorySpec

-------------------------------------------------------------------------------
(***************************************************************************)
(* No data loss.  What the API answers and what Redis drops decide it, not *)
(* how the loops of several periods interleave, which calls fail, or which *)
(* SETs run late.                                                          *)
(***************************************************************************)
UsableAnswers == Kinds \subseteq {"ok"} /\ "rates" \notin Evictable

\* An envelope that can be loaded, or none.
Usable(e) == e = NoRates \/ e.kind = "ok"

(* Rates are in Redis before they are in the memory of a pod.               *)
StoredFirst ==
  /\ Usable(ratesBackup)
  /\ \A g \in Loop : Usable(env[g])
  /\ \A g \in Loop : pc[g] = "storeRates" => env[g] # NoRates
  /\ \A c \in late : c.key = "rates" => Usable(c.env) /\ c.env # NoRates
  /\ \/ ratesBackup # NoRates
     \/ /\ \A p \in Pod : memRates[p] = NoRates /\ got[p] = NoRates
        /\ \A g \in Loop : ~Stored(g)

LEMMA StoredFirstKept ==
  ASSUME UsableAnswers, TypeOK, StoredFirst, [Next]_vars
  PROVE  StoredFirst'
<1>1. BackupStep /\ PodRatesStep /\ LoopRatesStep /\ LateStep
  BY Effect DEF StepEffect
<1>2. \A e \in Answers : e.kind = "ok" /\ e # NoRates
  <2> SUFFICES ASSUME NEW e \in Answers PROVE e.kind = "ok" /\ e # NoRates
    OBVIOUS
  <2>1. e.kind = "ok"
    BY AnswerTypes DEF TypeOK, UsableAnswers
  <2>2. NoRates.kind = "none"
    BY DEF NoRates
  <2>3. QED
    BY <2>1, <2>2
<1>3. ratesBackup' = ratesBackup \/ ratesBackup' # NoRates
  BY <1>1 DEF BackupStep, StoredFirst, UsableAnswers
<1>4. Usable(ratesBackup)'
  BY <1>1 DEF BackupStep, StoredFirst, UsableAnswers, Usable
<1>5. \A g \in Loop : Usable(env[g])' /\ (pc'[g] = "storeRates" => env'[g] # NoRates)
  BY <1>1, <1>2 DEF LoopRatesStep, StoredFirst, Usable
<1>6. \A c \in late' : c.key = "rates" => Usable(c.env) /\ c.env # NoRates
  BY <1>1 DEF LateStep, StoredFirst
<1>7. ratesBackup' = NoRates =>
        /\ \A p \in Pod : memRates'[p] = NoRates /\ got'[p] = NoRates
        /\ \A g \in Loop : ~Stored(g)'
  <2> SUFFICES ASSUME ratesBackup' = NoRates
               PROVE  /\ \A p \in Pod : memRates'[p] = NoRates /\ got'[p] = NoRates
                      /\ \A g \in Loop : ~Stored(g)'
    OBVIOUS
  <2>1. /\ ratesBackup = NoRates
        /\ \A p \in Pod : memRates[p] = NoRates /\ got[p] = NoRates
        /\ \A g \in Loop : ~Stored(g)
    BY <1>3 DEF StoredFirst
  <2>2. \A g \in Loop : ~Stored(g)'
    BY <1>1, <2>1 DEF LoopRatesStep, StoredFirst
  <2>3. QED
    BY <1>1, <2>1, <2>2 DEF PodRatesStep
<1>8. QED
  BY <1>4, <1>5, <1>6, <1>7 DEF StoredFirst, Usable

(* "No data loss - all data in Redis" holds when every answer of the API    *)
(* can be loaded and Redis keeps the rates, even while loops of several     *)
(* leadership periods, and SETs that were left behind, write at the same    *)
(* time.                                                                    *)
THEOREM NothingIsLost ==
  ASSUME UsableAnswers
  PROVE  Spec => []NoDataLoss
<1>1. Init => StoredFirst
  BY DEF Init, StoredFirst, Usable, Stored, NoRates
<1>2. TypeOK /\ StoredFirst /\ [Next]_vars => StoredFirst'
  BY StoredFirstKept
<1>3. StoredFirst => NoDataLoss
  BY DEF StoredFirst, Usable, NoDataLoss, HasData, NoRates
<1>4. QED
  BY <1>1, <1>2, <1>3, DataTypeCorrect, PTL DEF Spec

===============================================================================
