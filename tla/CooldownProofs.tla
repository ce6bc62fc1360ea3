--------------------------- MODULE CooldownProofs ---------------------------
(***************************************************************************)
(* Type correctness of Cooldown, the agreement of its two tiers, and that  *)
(* it implements the durable board of BenchBoard, for every catalog, every *)
(* set of keys, every duration and every operator ceiling.                 *)
(***************************************************************************)
EXTENDS Cooldown, TLAPS, SequenceTheorems, FiniteSetTheorems

BenchOK(b) == \A r \in DOMAIN b : b[r].duration \in Nat \ {0} /\ b[r].source \in Sources

\* The inductive invariant: the tiers agree, and everything has its type.
Inv == TypeOK /\ MemoryShadowsDisk
StoreInv == StoreTypeOK /\ MemoryShadowsDisk

\* What a verdict may do to the store: every row it changes is a bench to come.
Benched ==
  /\ StoreInv'
  /\ \A q \in Routes : rows'[q] # rows[q] => rows'[q] # NoRow /\ rows'[q].expires > now

-----------------------------------------------------------------------------
(* The operators. *)

\* A windowed history is a history.
LEMMA RecentType ==
  ASSUME NEW times \in Seq(Nat), NEW window \in Nat, now \in Nat
  PROVE  Recent(times, window) \in Seq(Nat)
<1> DEFINE stale == {i \in DOMAIN times : times[i] + window <= now}
           n == Cardinality(stale)
<1>1. Len(times) \in Nat /\ DOMAIN times = 1..Len(times)
  BY LenProperties
<1>2. IsFiniteSet(1..Len(times)) /\ Cardinality(1..Len(times)) = Len(times)
  <2>1. 1 \in Int /\ Len(times) \in Int
    BY <1>1
  <2>2. /\ IsFiniteSet(1..Len(times))
        /\ Cardinality(1..Len(times)) = IF 1 > Len(times) THEN 0 ELSE Len(times) - 1 + 1
    BY <2>1, FS_Interval, Zenon
  <2> QED BY <1>1, <2>2
<1>3. stale \subseteq 1..Len(times)
  BY <1>1
<1>4. n \in Nat /\ n <= Len(times)
  BY <1>2, <1>3, FS_Subset, FS_CardinalityType
<1>5. n + 1 \in 1..(Len(times) + 1) /\ Len(times) \in ((n + 1) - 1)..Len(times)
  BY <1>1, <1>4
<1> HIDE DEF n, stale
<1>6. SubSeq(times, n + 1, Len(times)) \in Seq(Nat)
  BY <1>5, SubSeqProperties
<1> QED BY <1>6 DEF Recent, n, stale

\* Appending to a history gives a non-empty history.
LEMMA AppendNow ==
  ASSUME NEW times \in Seq(Nat), now \in Nat
  PROVE  /\ Append(times, now) \in Seq(Nat)
         /\ Len(Append(times, now)) \in Nat \ {0}
  BY AppendProperties, LenProperties

\* Benching a set of routes, and one assignment after another, are well formed.
LEMMA BenchType ==
  ASSUME NEW S, NEW d \in Nat \ {0}, NEW src \in Sources
  PROVE  BenchOK(Bench(S, d, src))
  BY DEF BenchOK, Bench

\* What a list of writes leaves in a tier is a table of times again.
LEMMA ThenType ==
  ASSUME NEW f, NEW g, BenchOK(f), BenchOK(g)
  PROVE  BenchOK(Then(f, g))
  BY DEF BenchOK, Then

\* The ladder step is a positive duration.
LEMMA LadderStepType ==
  ASSUME Inv, NEW r \in Routes
  PROVE  /\ LadderHits(r) \in Seq(Nat)
         /\ getNextCooldownDuration(r) \in Nat \ {0}
<1>1. cooldownHits[r] \in Seq(Nat) /\ now \in Nat /\ LADDER_WINDOW \in Nat
  BY DurationAssumption DEF Inv, TypeOK, BooksTypeOK
<1>2. LadderHits(r) \in Seq(Nat) /\ Len(LadderHits(r)) \in Nat \ {0}
  BY <1>1, RecentType, AppendNow DEF LadderHits
<1>3. Len(COOLDOWN_DURATIONS) \in Nat \ {0}
  BY DurationAssumption, EmptySeq, LenProperties
<1>4. SmallerOf(Len(LadderHits(r)), Len(COOLDOWN_DURATIONS)) \in 1..Len(COOLDOWN_DURATIONS)
  BY <1>2, <1>3 DEF SmallerOf
<1>5. COOLDOWN_DURATIONS[SmallerOf(Len(LadderHits(r)), Len(COOLDOWN_DURATIONS))] \in Nat \ {0}
  BY <1>4, ElementOfSeq, DurationAssumption
<1>6. Ceiling \in Nat \ {0}
  BY DurationAssumption
<1> QED BY <1>2, <1>5, <1>6 DEF getNextCooldownDuration, capCooldown, SmallerOf

\* Whatever the failure was, the decision is a positive duration with a source.
LEMMA LimitDecisionType ==
  ASSUME Inv, NEW r \in Routes, NEW ra \in Nat,
         NEW exhausted \in BOOLEAN, NEW quotaSignal \in BOOLEAN
  PROVE  BenchOK([q \in {r} |-> LimitDecision(r, exhausted, quotaSignal, ra)])
<1> DEFINE base == BaseDuration(r, exhausted, quotaSignal)
<1>1. base \in Nat \ {0}
  BY LadderStepType, DurationAssumption DEF BaseDuration, SmallerOf
<1>2. LOCAL_BENCH \in Nat \ {0} /\ DAY_BENCH \in Nat \ {0}
  BY DurationAssumption
<1> HIDE DEF base
<1>3. CASE r[2] \in LocalKeys
  BY <1>2, <1>3 DEF LimitDecision, BenchOK, Sources
<1>4. CASE r[2] \notin LocalKeys /\ ra > base
  BY <1>1, <1>2, <1>4 DEF LimitDecision, BenchOK, Sources, SmallerOf, base
<1>5. CASE r[2] \notin LocalKeys /\ ~(ra > base)
  BY <1>1, <1>2, <1>5 DEF LimitDecision, BenchOK, Sources, base
<1> QED BY <1>3, <1>4, <1>5

-----------------------------------------------------------------------------
(* The steps on the store. *)

\* Whatever a handler benches, both tiers learn it.
LEMMA SetCooldownsStep ==
  ASSUME Inv, NEW b, BenchOK(b), setCooldowns(b)
  PROVE  Benched
<1>1. now \in Nat /\ cooldowns \in [Routes -> Nat] /\ rows \in [Routes -> Row]
  BY DEF Inv, TypeOK, StoreTypeOK
<1>2. \A r \in DOMAIN b : /\ now + b[r].duration \in Nat \ {0}
                         /\ b[r].source \in Sources
  BY <1>1 DEF BenchOK
<1>3. rows' \in [Routes -> Row]
  BY <1>1, <1>2 DEF setCooldowns, RowsAfter, Row
<1>4. cooldowns' \in [Routes -> Nat]
  BY <1>1, <1>2 DEF setCooldowns
<1>5. MemoryShadowsDisk'
  <2> SUFFICES ASSUME NEW r \in Routes, cooldowns'[r] # 0
               PROVE  rows'[r] # NoRow /\ rows'[r].expires = cooldowns'[r]
    BY DEF MemoryShadowsDisk
  <2>1. CASE r \in DOMAIN b
    BY <2>1, <1>2 DEF setCooldowns, RowsAfter, NoRow
  <2>2. CASE r \notin DOMAIN b
    BY <2>2 DEF setCooldowns, RowsAfter, Inv, MemoryShadowsDisk
  <2> QED BY <2>1, <2>2
<1>6. \A q \in Routes : rows'[q] # rows[q] => rows'[q] # NoRow /\ rows'[q].expires > now
  BY <1>1, <1>2 DEF setCooldowns, RowsAfter, NoRow, BenchOK
<1> QED BY <1>3, <1>4, <1>5, <1>6 DEF Benched, StoreInv, StoreTypeOK

\* Forgetting routes drops them from both tiers alike.
LEMMA ForgetStep ==
  ASSUME Inv, NEW S, Forget(S)
  PROVE  StoreInv'
<1>1. NoRow \in Row
  BY DEF NoRow, Row, Sources
<1>2. StoreTypeOK'
  BY <1>1 DEF Inv, TypeOK, StoreTypeOK, Forget
<1>3. MemoryShadowsDisk'
  BY DEF Inv, MemoryShadowsDisk, Forget, TypeOK, StoreTypeOK
<1> QED BY <1>2, <1>3 DEF StoreInv

\* A pass about to ask may sweep a tier, never add to one.
LEMMA AskStep ==
  ASSUME Inv, NEW r \in Routes, AskCooldown(r)
  PROVE  StoreInv'
<1>1. CASE ~isOnCooldown(r)
  BY <1>1, ForgetStep DEF AskCooldown
<1>2. CASE isOnCooldown(r)
  <2>1. rows' = rows /\ rows \in [Routes -> Row] /\ cooldowns \in [Routes -> Nat]
    BY <1>2 DEF AskCooldown, Inv, TypeOK, StoreTypeOK
  <2>2. cooldowns' = [cooldowns EXCEPT ![r] = IF rows[r] # NoRow THEN rows[r].expires
                                                                 ELSE cooldowns[r]]
    BY <1>2 DEF AskCooldown
  <2>3. rows[r].expires \in Nat
    BY <2>1 DEF Row
  <2>4. StoreTypeOK'
    BY <2>1, <2>2, <2>3 DEF StoreTypeOK
  <2>5. MemoryShadowsDisk'
    BY <2>1, <2>2 DEF Inv, MemoryShadowsDisk
  <2> QED BY <2>4, <2>5 DEF StoreInv
<1> QED BY <1>1, <1>2

\* Counting a hit keeps the histories histories.
LEMMA CountHitsStep ==
  ASSUME Inv, NEW r \in Routes, NEW exhausted, NEW quotaSignal,
         CountHits(r, exhausted, quotaSignal)
  PROVE  /\ cooldownHits' \in [Routes -> Seq(Nat)]
         /\ nullLimitHits' \in [Routes -> Seq(Nat)]
<1>1. /\ now \in Nat /\ NULL_HIT_WINDOW \in Nat
      /\ cooldownHits \in [Routes -> Seq(Nat)] /\ nullLimitHits \in [Routes -> Seq(Nat)]
  BY DurationAssumption DEF Inv, TypeOK, BooksTypeOK
<1>2. NullHits(r, quotaSignal) \in Seq(Nat)
  BY <1>1, RecentType, AppendNow DEF NullHits
<1>3. LadderHits(r) \in Seq(Nat)
  BY LadderStepType
<1> QED BY <1>1, <1>2, <1>3 DEF CountHits

\* A failure's bookkeeping keeps the store and the model's history.
LEMMA PenaliseStep ==
  ASSUME Inv, NEW r \in Routes, NEW b, BenchOK(b), NEW momentary,
         NEW last, BenchOK(last), PenaliseThen(r, b, momentary, last)
  PROVE  Benched /\ modelFailures' \in [Models -> Seq(Nat)]
<1> DEFINE noted == ~(Attribution /\ momentary)
           m == r[1]
<1>1. MODEL_BENCH \in Nat \ {0} /\ TRANSIENT_BENCH \in Nat \ {0}
      /\ MODEL_FAILURE_WINDOW \in Nat
  BY DurationAssumption
<1>2. BenchOK(ModelBench(m, noted, b))
  BY <1>1, BenchType DEF ModelBench, NoBench, Sources
<1>3. BenchOK(Then(Then(b, ModelBench(m, noted, b)), last))
  BY <1>2, ThenType
<1>4. Benched
  BY <1>3, SetCooldownsStep DEF PenaliseThen
<1>5. m \in Models /\ modelFailures \in [Models -> Seq(Nat)] /\ now \in Nat
  BY DEF Routes, Inv, TypeOK, BooksTypeOK
<1>6. FailureTimes(m) \in Seq(Nat)
  BY <1>1, <1>5, RecentType, AppendNow DEF FailureTimes
<1>7. modelFailures' \in [Models -> Seq(Nat)]
  BY <1>5, <1>6, EmptySeq DEF PenaliseThen
<1> QED BY <1>4, <1>7

-----------------------------------------------------------------------------
(* Each action keeps the invariant. *)

AnswerInv == now' \in Nat /\ inflight' \in [Routes -> Nat] /\ ProbingTypeOK'

\* What an answer changes has its type.
LEMMA AnsweredStep ==
  ASSUME Inv, NEW r \in Routes, Answered(r)
  PROVE  AnswerInv
  BY DEF Inv, TypeOK, ProbingTypeOK, Answered, probing, AnswerInv

\* What a success resets is no bench.
LEMMA ResetStreaksStep ==
  ASSUME Inv, NEW r \in Routes, ResetStreaks(r)
  PROVE  truncations' \in [Routes -> Nat] /\ empties' \in [Routes -> Nat]
  BY DEF Inv, TypeOK, BooksTypeOK, ResetStreaks

\* Serving an attempt keeps the invariant.
LEMMA SucceedStep ==
  ASSUME Inv, NEW r \in Routes, Succeed(r)
  PROVE  Inv'
<1>1. AnswerInv
  BY AnsweredStep DEF Succeed
<1>2. r[1] \in Models
  BY DEF Routes
<1>3. BooksTypeOK'
  BY <1>2, EmptySeq DEF Inv, TypeOK, BooksTypeOK, Succeed
<1>4. StoreTypeOK' /\ MemoryShadowsDisk'
  BY DEF Inv, TypeOK, StoreTypeOK, MemoryShadowsDisk, Succeed, store
<1> QED BY <1>1, <1>3, <1>4 DEF Inv, TypeOK, AnswerInv

\* So does every way an attempt can fail.
LEMMA FailureStep ==
  ASSUME Inv, NEW r \in Routes, Failure(r)
  PROVE  Inv' /\ Benched
<1>1. BenchOK(NoBench) /\ \A d \in Nat \ {0} : /\ capCooldown(d) \in Nat \ {0}
                                               /\ BenchOK(Bench({r}, d, "heuristic"))
                                               /\ BenchOK(Bench({r}, d, "authoritative"))
  BY BenchType, DurationAssumption DEF NoBench, Sources, capCooldown, SmallerOf
<1>2. TRUNCATION_BENCH \in Nat \ {0} /\ AUTH_BENCH \in Nat \ {0} /\ DAY_BENCH \in Nat \ {0}
      /\ STREAK_LIMIT \in Nat
  BY DurationAssumption
<1>3. BooksTypeOK /\ StoreTypeOK
  BY DEF Inv, TypeOK
<1>4. SUFFICES ASSUME AnswerInv PROVE Benched /\ BooksTypeOK'
  <2>1. Answered(r)
    BY DEF Failure, FailLimited, FailTruncated, FailEmpty, FailInBandLate, FailDaily,
           FailCredit, FailTier, FailAuth, FailSpared
  <2>2. AnswerInv
    BY <2>1, AnsweredStep
  <2> QED BY <2>2 DEF Inv, TypeOK, AnswerInv, StoreInv, Benched
<1>5. ASSUME NEW exhausted \in BOOLEAN, NEW quotaSignal \in BOOLEAN,
             NEW momentary \in BOOLEAN, NEW ra \in StatedRetries \cup {0},
             FailLimited(r, exhausted, quotaSignal, momentary, ra)
      PROVE  Benched /\ BooksTypeOK'
  <2>1. ra \in Nat
    BY DurationAssumption
  <2>2. Benched /\ modelFailures' \in [Models -> Seq(Nat)]
    BY <1>1, <1>5, <2>1, LimitDecisionType, PenaliseStep DEF FailLimited, Penalise
  <2>3. cooldownHits' \in [Routes -> Seq(Nat)] /\ nullLimitHits' \in [Routes -> Seq(Nat)]
    BY <1>5, CountHitsStep DEF FailLimited
  <2> QED BY <1>5, <2>2, <2>3, ResetStreaksStep DEF BooksTypeOK, FailLimited
<1>6. ASSUME NEW exhausted \in BOOLEAN, FailTruncated(r, exhausted)
      PROVE  Benched /\ BooksTypeOK'
  <2> DEFINE third == truncations[r] + 1 >= STREAK_LIMIT
             b == IF third THEN Bench({r}, TRUNCATION_BENCH, "heuristic")
                  ELSE [q \in {r} |-> LimitDecision(r, exhausted, FALSE, 0)]
  <2>1. BenchOK(b)
    BY <1>1, <1>2, LimitDecisionType
  <2>2. PenaliseThen(r, b, TRUE, NoBench)
    BY <1>6 DEF FailTruncated, Penalise
  <2> HIDE DEF b
  <2>3. Benched /\ modelFailures' \in [Models -> Seq(Nat)]
    BY <1>1, <2>1, <2>2, PenaliseStep
  <2>4. cooldownHits' \in [Routes -> Seq(Nat)] /\ nullLimitHits' \in [Routes -> Seq(Nat)]
    BY <1>6, CountHitsStep DEF FailTruncated
  <2>5. truncations' \in [Routes -> Nat] /\ empties' \in [Routes -> Nat]
    BY <1>3, <1>6 DEF FailTruncated, BooksTypeOK
  <2> QED BY <2>3, <2>4, <2>5 DEF BooksTypeOK
<1>7. ASSUME NEW exhausted \in BOOLEAN, FailEmpty(r, exhausted)
      PROVE  Benched /\ BooksTypeOK'
  <2> DEFINE streak == SmallerOf(empties[r] + 1, STREAK_LIMIT)
  <2>1. empties' \in [Routes -> Nat]
    BY <1>2, <1>3, <1>7 DEF FailEmpty, BooksTypeOK, SmallerOf
  <2>2. CASE streak < STREAK_LIMIT
    BY <1>3, <1>7, <2>1, <2>2 DEF FailEmpty, store, Benched, StoreInv, Inv, StoreTypeOK,
       MemoryShadowsDisk, BooksTypeOK
  <2>3. CASE ~(streak < STREAK_LIMIT)
    <3>1. /\ CountHits(r, exhausted, FALSE)
          /\ PenaliseThen(r, [q \in {r} |-> LimitDecision(r, exhausted, FALSE, 0)],
                          FALSE, NoBench)
          /\ truncations' = [truncations EXCEPT ![r] = 0]
      BY <1>7, <2>3 DEF FailEmpty, Penalise
    <3>2. Benched /\ modelFailures' \in [Models -> Seq(Nat)]
      BY <1>1, <3>1, LimitDecisionType, PenaliseStep
    <3>3. cooldownHits' \in [Routes -> Seq(Nat)] /\ nullLimitHits' \in [Routes -> Seq(Nat)]
      BY <3>1, CountHitsStep
    <3> QED BY <1>3, <2>1, <3>1, <3>2, <3>3 DEF BooksTypeOK
  <2> QED BY <2>2, <2>3
<1>8. ASSUME NEW exhausted \in BOOLEAN, NEW quotaSignal \in BOOLEAN,
             FailInBandLate(r, exhausted, quotaSignal)
      PROVE  Benched /\ BooksTypeOK'
  <2>1. Benched /\ modelFailures' \in [Models -> Seq(Nat)]
    BY <1>1, <1>2, <1>8, LimitDecisionType, PenaliseStep DEF FailInBandLate
  <2>2. cooldownHits' \in [Routes -> Seq(Nat)] /\ nullLimitHits' \in [Routes -> Seq(Nat)]
    BY <1>8, CountHitsStep DEF FailInBandLate
  <2> QED BY <1>8, <2>1, <2>2, ResetStreaksStep DEF BooksTypeOK, FailInBandLate
<1>9. ASSUME NEW ra \in StatedRetries, FailDaily(r, ra)
      PROVE  Benched /\ BooksTypeOK'
  <2>1. ra \in Nat \ {0}
    BY DurationAssumption
  <2>2. Benched /\ modelFailures' \in [Models -> Seq(Nat)]
    BY <1>1, <1>9, <2>1, PenaliseStep DEF FailDaily, Penalise
  <2> QED BY <1>3, <1>9, <2>2, ResetStreaksStep DEF FailDaily, BooksTypeOK
<1>10. ASSUME FailCredit(r) PROVE Benched /\ BooksTypeOK'
  <2>1. BenchOK(Bench(Models \X {r[2]}, capCooldown(DAY_BENCH), "credit"))
    BY <1>1, <1>2, BenchType DEF Sources
  <2>2. Benched /\ modelFailures' \in [Models -> Seq(Nat)]
    BY <1>1, <1>10, <2>1, PenaliseStep DEF FailCredit, Penalise
  <2> QED BY <1>3, <1>10, <2>2, ResetStreaksStep DEF FailCredit, BooksTypeOK
<1>11. ASSUME FailTier(r) PROVE Benched /\ BooksTypeOK'
  <2>1. BenchOK(Bench({r}, capCooldown(DAY_BENCH), "tier"))
    BY <1>1, <1>2, BenchType DEF Sources
  <2>2. Benched /\ modelFailures' \in [Models -> Seq(Nat)]
    BY <1>1, <1>11, <2>1, PenaliseStep DEF FailTier, Penalise
  <2> QED BY <1>3, <1>11, <2>2, ResetStreaksStep DEF FailTier, BooksTypeOK
<1>12. ASSUME FailAuth(r) PROVE Benched /\ BooksTypeOK'
  <2>1. Benched
    BY <1>1, <1>2, <1>12, SetCooldownsStep DEF FailAuth
  <2> QED BY <1>3, <1>12, <2>1 DEF FailAuth, books, BooksTypeOK
<1>13. ASSUME FailSpared(r) PROVE Benched /\ BooksTypeOK'
  BY <1>3, <1>13 DEF FailSpared, books, store, BooksTypeOK, Benched, StoreInv, StoreTypeOK,
     Inv, MemoryShadowsDisk
<1> QED BY <1>5, <1>6, <1>7, <1>8, <1>9, <1>10, <1>11, <1>12, <1>13 DEF Failure

\* The router asking about a route, and dispatching on it.
LEMMA RoutingStep ==
  ASSUME Inv, NEW r \in Routes, Dispatch(r) \/ PassOver(r)
  PROVE  Inv'
<1>1. AskCooldown(r) /\ now' = now /\ UNCHANGED books /\ UNCHANGED probing
      /\ inflight' \in [Routes -> Nat]
  BY DEF Dispatch, PassOver, Inv, TypeOK
<1>2. StoreInv'
  BY <1>1, AskStep
<1> QED BY <1>1, <1>2 DEF Inv, TypeOK, BooksTypeOK, ProbingTypeOK, books, probing, StoreInv

\* The probe pass.
LEMMA ProbingStep ==
  ASSUME Inv, Probing
  PROVE  Inv'
<1>1. now \in Nat /\ ProbingTypeOK /\ RipeRoutes \subseteq Routes
  BY DEF Inv, TypeOK, RipeRoutes, Probeable
<1>2. KeysOf(RipeRoutes) \subseteq Keys /\ NoState \in [failures : Nat, nextProbeAt : Nat, sighted : BOOLEAN]
  BY <1>1 DEF KeysOf, Routes, NoState
<1>3. SUFFICES ASSUME UNCHANGED <<now, books, inflight>>
               PROVE  StoreInv' /\ ProbingTypeOK'
  BY DEF Probing, StartPass, ProbePassed, ProbeFailed, EndPass, SightKey, SkipKey, BeginProbe,
     Visiting, Inv, TypeOK, BooksTypeOK, books, StoreInv
<1>4. ASSUME UNCHANGED store PROVE StoreInv'
  BY <1>4 DEF store, StoreInv, Inv, TypeOK, StoreTypeOK, MemoryShadowsDisk
<1>5. CASE StartPass
  BY <1>1, <1>2, <1>4, <1>5 DEF StartPass, ProbingTypeOK, NoPass
<1>6. CASE ProbePassed
  BY <1>1, <1>2, <1>6, ForgetStep DEF ProbePassed, ProbingTypeOK
<1>7. CASE ProbeFailed
  <2> DEFINE backoff(n) == PROBE_BACKOFFS[SmallerOf(n, Len(PROBE_BACKOFFS))]
  <2>1. ASSUME NEW n \in Nat \ {0} PROVE backoff(n) \in Nat
    <3>1. Len(PROBE_BACKOFFS) \in Nat \ {0}
      BY DurationAssumption, EmptySeq, LenProperties
    <3>2. SmallerOf(n, Len(PROBE_BACKOFFS)) \in 1..Len(PROBE_BACKOFFS)
      BY <3>1 DEF SmallerOf
    <3>3. PROBE_BACKOFFS[SmallerOf(n, Len(PROBE_BACKOFFS))] \in Nat \ {0}
      BY <3>2, ElementOfSeq, DurationAssumption
    <3> QED BY <3>3
  <2>2. PICK k \in pass.waiting :
          keyState' = [keyState EXCEPT ![k] =
            [failures |-> keyState[k].failures + 1, sighted |-> TRUE,
             nextProbeAt |-> pass.at + backoff(keyState[k].failures + 1)]]
    BY <1>7 DEF ProbeFailed
  <2> DEFINE failed == keyState[k].failures + 1
  <2>3. k \in Keys /\ pass.at \in Nat /\ failed \in Nat \ {0}
    BY <1>1 DEF ProbingTypeOK
  <2>4. backoff(failed) \in Nat
    BY <2>1, <2>3
  <2>5. keyState' = [keyState EXCEPT ![k] = [failures |-> failed, sighted |-> TRUE,
                                            nextProbeAt |-> pass.at + backoff(failed)]]
    BY <2>2
  <2> HIDE DEF failed, backoff
  <2>6. pass.at + backoff(failed) \in Nat
    BY <2>3, <2>4
  <2>7. keyState' \in [Keys -> [failures : Nat, nextProbeAt : Nat, sighted : BOOLEAN]]
    BY <1>1, <2>3, <2>5, <2>6 DEF ProbingTypeOK
  <2> QED BY <1>1, <1>4, <1>7, <2>7 DEF ProbeFailed, ProbingTypeOK
<1>8. CASE EndPass
  BY <1>1, <1>4, <1>8 DEF EndPass, ProbingTypeOK, NoPass
<1>9. ASSUME NEW k \in Keys, SightKey(k) PROVE StoreInv' /\ ProbingTypeOK'
  <2>1. PICK jitter \in 0..STAGGER :
          keyState' = [keyState EXCEPT ![k] = [failures |-> 0, sighted |-> TRUE,
                                               nextProbeAt |-> pass.at + jitter]]
    BY <1>9 DEF SightKey
  <2>2. jitter \in Nat /\ pass.at \in Nat
    BY <1>1, DurationAssumption DEF ProbingTypeOK
  <2>3. pass.at + jitter \in Nat
    BY <2>2
  <2>4. keyState' \in [Keys -> [failures : Nat, nextProbeAt : Nat, sighted : BOOLEAN]]
    BY <1>1, <2>1, <2>3 DEF ProbingTypeOK
  <2> QED BY <1>1, <1>4, <1>9, <2>4 DEF SightKey, Visiting, Visited, ProbingTypeOK
<1>10. ASSUME NEW k \in Keys, SkipKey(k) PROVE StoreInv' /\ ProbingTypeOK'
  BY <1>1, <1>4, <1>10 DEF SkipKey, Visiting, Visited, ProbingTypeOK
<1>11. ASSUME NEW k \in Keys, BeginProbe(k) PROVE StoreInv' /\ ProbingTypeOK'
  <2>1. pass.probed + 1 \in Nat /\ {k} \subseteq Keys
    BY <1>1 DEF ProbingTypeOK
  <2> QED BY <1>1, <1>4, <1>11, <2>1 DEF BeginProbe, Visiting, ProbingTypeOK
<1> QED BY <1>5, <1>6, <1>7, <1>8, <1>9, <1>10, <1>11 DEF Probing

\* The operator, the clock, a restart.
LEMMA OperatorStep ==
  ASSUME Inv, ClearAll \/ Tick \/ Restart \/ \E k \in Keys : ClearKey(k)
  PROVE  Inv'
<1>1. NoRow \in Row /\ NoState \in [failures : Nat, nextProbeAt : Nat, sighted : BOOLEAN]
  BY DEF NoRow, Row, Sources, NoState
<1>2. CASE ClearAll
  <2>1. StoreInv'
    BY <1>2, ForgetStep DEF ClearAll
  <2> QED BY <1>2, <2>1, EmptySeq DEF ClearAll, Inv, TypeOK, BooksTypeOK, ProbingTypeOK,
          probing, StoreInv
<1>3. ASSUME NEW k \in Keys, ClearKey(k) PROVE Inv'
  <2>1. StoreInv'
    BY <1>3, ForgetStep DEF ClearKey
  <2> QED BY <1>3, <2>1, EmptySeq DEF ClearKey, Inv, TypeOK, BooksTypeOK, ProbingTypeOK,
          probing, StoreInv
<1>4. CASE Tick
  BY <1>4 DEF Tick, Inv, TypeOK, StoreTypeOK, BooksTypeOK, ProbingTypeOK, store, books,
     probing, MemoryShadowsDisk
<1>5. CASE Restart
  <2>1. StoreTypeOK' /\ MemoryShadowsDisk'
    BY <1>1, <1>5 DEF Restart, cleanupExpiredCooldowns, Inv, TypeOK, StoreTypeOK, MemoryShadowsDisk, Zeros
  <2>2. BooksTypeOK' /\ ProbingTypeOK'
    BY <1>1, <1>5, EmptySeq DEF Restart, BooksTypeOK, ProbingTypeOK, Zeros, NoHits, NoPass
  <2> QED BY <1>5, <2>1, <2>2 DEF Restart, Inv, TypeOK, Zeros
<1> QED BY <1>2, <1>3, <1>4, <1>5

-----------------------------------------------------------------------------
(* The theorems. *)

\* Nothing is benched when the process starts.
LEMMA Initially == Init => Inv
<1> SUFFICES ASSUME Init PROVE Inv
  OBVIOUS
<1>1. NoRow \in Row /\ NoState \in [failures : Nat, nextProbeAt : Nat, sighted : BOOLEAN]
  BY DEF NoRow, Row, Sources, NoState
<1>2. StoreTypeOK /\ MemoryShadowsDisk
  BY <1>1 DEF Init, StoreTypeOK, MemoryShadowsDisk, Zeros
<1>3. BooksTypeOK /\ ProbingTypeOK
  BY <1>1, EmptySeq DEF Init, BooksTypeOK, ProbingTypeOK, Zeros, NoHits, NoPass
<1> QED BY <1>2, <1>3 DEF Init, Inv, TypeOK, Zeros

\* Every step keeps types and keeps the memory below the table.
LEMMA Inductive == Inv /\ [Next]_vars => Inv'
<1> SUFFICES ASSUME Inv, [Next]_vars PROVE Inv'
  OBVIOUS
<1>1. CASE UNCHANGED vars
  BY <1>1 DEF vars, store, books, probing, Inv, TypeOK, StoreTypeOK, BooksTypeOK,
     ProbingTypeOK, MemoryShadowsDisk
<1>2. ASSUME NEW r \in Routes, Dispatch(r) \/ PassOver(r) \/ Succeed(r) \/ Failure(r)
      PROVE  Inv'
  BY <1>2, RoutingStep, SucceedStep, FailureStep
<1> QED BY <1>1, <1>2, ProbingStep, OperatorStep DEF Next

\* Every variable keeps its type through every interleaving of attempts, probe
\* passes, operator requests and restarts.
THEOREM TypeCorrect == Spec => []TypeOK
<1>1. Inv => TypeOK
  BY DEF Inv
<1> QED BY <1>1, Initially, Inductive, PTL DEF Spec

\* The memory map never holds a bench that the table does not hold until the
\* same moment: isOnCooldown gives one verdict before and after any restart.
THEOREM TiersAgree == Spec => []MemoryShadowsDisk
<1>1. Inv => MemoryShadowsDisk
  BY DEF Inv
<1> QED BY <1>1, Initially, Inductive, PTL DEF Spec

-----------------------------------------------------------------------------
(* Cooldown implements BenchBoard. *)

\* What the board shows of a row.
Shown(row, t) == IF row # NoRow /\ t <= row.expires THEN row.expires ELSE 0

\* With the memory below the table, a reader sees what the table says.
LEMMA BoardShowsRows ==
  ASSUME MemoryShadowsDisk
  PROVE  benchOnBoard = [r \in Routes |-> Shown(rows[r], now)]
  BY DEF MemoryShadowsDisk, benchOnBoard, isOnCooldown, Shown

\* The same in the next state.
LEMMA BoardShowsRowsNext ==
  ASSUME MemoryShadowsDisk'
  PROVE  benchOnBoard' = [r \in Routes |-> Shown(rows'[r], now')]
  BY DEF MemoryShadowsDisk, benchOnBoard, isOnCooldown, Shown

\* A row that was forgotten shows no bench.
LEMMA ForgottenShown ==
  ASSUME NEW t PROVE Shown(NoRow, t) = 0
  BY DEF Shown

\* Asking about a route changes nothing that the board shows.
LEMMA AskShowsNothing ==
  ASSUME Inv, Inv', NEW r \in Routes, AskCooldown(r), now' = now
  PROVE  benchOnBoard' = benchOnBoard
<1>1. benchOnBoard = [q \in Routes |-> Shown(rows[q], now)]
  BY BoardShowsRows DEF Inv
<1>2. benchOnBoard' = [q \in Routes |-> Shown(rows'[q], now)]
  BY BoardShowsRowsNext DEF Inv
<1>3. CASE isOnCooldown(r)
  BY <1>1, <1>2, <1>3 DEF AskCooldown
<1>4. CASE ~isOnCooldown(r)
  <2>1. rows' = [q \in Routes |-> IF q = r THEN NoRow ELSE rows[q]]
    BY <1>4 DEF AskCooldown, Forget
  <2>2. Shown(rows[r], now) = 0
    BY <1>4 DEF isOnCooldown, Shown
  <2> QED BY <1>1, <1>2, <2>1, <2>2, ForgottenShown
<1> QED BY <1>3, <1>4

\* Forgetting routes lifts them off the board.
LEMMA ForgetLifts ==
  ASSUME Inv, Inv', NEW S, Forget(S), now' = now, inflight' = inflight
  PROVE  Board!Lift
<1> DEFINE T == S \cap Routes
<1>1. rows' = [r \in Routes |-> IF r \in T THEN NoRow ELSE rows[r]]
  BY DEF Forget
<1>2. benchOnBoard = [r \in Routes |-> Shown(rows[r], now)]
  BY BoardShowsRows DEF Inv
<1>3. benchOnBoard' = [r \in Routes |-> Shown(rows'[r], now)]
  BY BoardShowsRowsNext DEF Inv
<1>4. benchOnBoard' = [r \in Routes |-> IF r \in T THEN 0 ELSE benchOnBoard[r]]
  BY <1>1, <1>2, <1>3, ForgottenShown
<1>5. T \in SUBSET Routes
  OBVIOUS
<1> QED BY <1>4, <1>5 DEF Board!Lift

\* The verdict on an attempt is the board's Answer.
LEMMA VerdictAnswers ==
  ASSUME Inv, Inv', NEW r \in Routes, Answered(r), Benched
  PROVE  Board!Answer(r)
<1>1. now \in Nat /\ now' = now /\ rows' \in [Routes -> Row]
  BY DEF Inv, TypeOK, StoreTypeOK, Answered
<1>2. benchOnBoard = [q \in Routes |-> Shown(rows[q], now)]
  BY BoardShowsRows DEF Inv
<1>3. benchOnBoard' = [q \in Routes |-> Shown(rows'[q], now)]
  BY <1>1, BoardShowsRowsNext DEF Inv
<1>4. \A q \in Routes : Shown(rows'[q], now) \in Nat
  BY <1>1 DEF Shown, Row
<1>5. ASSUME NEW q \in Routes, benchOnBoard'[q] # benchOnBoard[q]
      PROVE  benchOnBoard'[q] > now
  <2>1. rows'[q] # rows[q]
    BY <1>2, <1>3, <1>5
  <2>2. rows'[q] # NoRow /\ rows'[q].expires > now /\ rows'[q].expires \in Nat
    BY <1>1, <2>1 DEF Benched, Row
  <2> QED BY <1>1, <1>3, <2>2 DEF Shown
<1>6. benchOnBoard' \in [Routes -> Nat]
  BY <1>3, <1>4
<1> QED BY <1>1, <1>5, <1>6 DEF Board!Answer, Answered

\* The clock, and a restart.
LEMMA TickImplements ==
  ASSUME Inv, Inv', Tick
  PROVE  Board!Tick
<1>1. now \in Nat /\ now' = now + 1 /\ rows' = rows /\ rows \in [Routes -> Row]
  BY DEF Inv, TypeOK, StoreTypeOK, Tick, store
<1>2. benchOnBoard = [q \in Routes |-> Shown(rows[q], now)]
  BY BoardShowsRows DEF Inv
<1>3. benchOnBoard' = [q \in Routes |-> Shown(rows[q], now')]
  BY <1>1, BoardShowsRowsNext DEF Inv
<1>4. \A q \in Routes : Shown(rows[q], now') =
                         IF Shown(rows[q], now) < now' THEN 0 ELSE Shown(rows[q], now)
  BY <1>1 DEF Shown, Row
<1> QED BY <1>1, <1>2, <1>3, <1>4 DEF Board!Tick, Tick

\* A restart loses the memory and nothing of the board.
LEMMA RestartImplements ==
  ASSUME Inv, Inv', Restart
  PROVE  Board!Restart
<1>1. now \in Nat /\ now' = now /\ rows \in [Routes -> Row]
  BY DEF Inv, TypeOK, StoreTypeOK, Restart
<1>2. benchOnBoard = [q \in Routes |-> Shown(rows[q], now)]
  BY BoardShowsRows DEF Inv
<1>3. benchOnBoard' = [q \in Routes |-> Shown(rows'[q], now)]
  BY <1>1, BoardShowsRowsNext DEF Inv
<1>4. \A q \in Routes : Shown(rows'[q], now) =
                         IF Shown(rows[q], now) <= now THEN 0 ELSE Shown(rows[q], now)
  BY <1>1 DEF Restart, cleanupExpiredCooldowns, Shown, Row
<1> QED BY <1>1, <1>2, <1>3, <1>4 DEF Board!Restart, Restart, Zeros

\* Every step of the store is a step of the board or leaves it alone.
LEMMA StepImplements == Inv /\ Inv' /\ [Next]_vars => [Board!Next]_(Board!boardVars)
<1> SUFFICES ASSUME Inv, Inv', [Next]_vars PROVE [Board!Next]_(Board!boardVars)
  OBVIOUS
<1> USE DEF Board!boardVars
<1>1. ASSUME now' = now, inflight' = inflight, rows' = rows
      PROVE  UNCHANGED Board!boardVars
  <2>1. benchOnBoard' = benchOnBoard
    BY <1>1, BoardShowsRows, BoardShowsRowsNext DEF Inv
  <2> QED BY <1>1, <2>1
<1>2. CASE UNCHANGED vars
  BY <1>1, <1>2 DEF vars, store
<1>3. ASSUME NEW r \in Routes, Dispatch(r) PROVE Board!Start(r)
  <2>1. benchOnBoard' = benchOnBoard
    BY <1>3, AskShowsNothing DEF Dispatch
  <2>2. benchOnBoard[r] = 0
    BY <1>3 DEF Dispatch, benchOnBoard
  <2> QED BY <1>3, <2>1, <2>2 DEF Board!Start, Dispatch
<1>4. ASSUME NEW r \in Routes, PassOver(r) PROVE UNCHANGED Board!boardVars
  <2>1. benchOnBoard' = benchOnBoard
    BY <1>4, AskShowsNothing DEF PassOver
  <2> QED BY <1>4, <2>1 DEF PassOver
<1>5. ASSUME NEW r \in Routes, Succeed(r) PROVE Board!Answer(r)
  <2>1. Answered(r) /\ Benched
    BY <1>5 DEF Succeed, store, Benched, StoreInv, Inv, TypeOK
  <2> QED BY <2>1, VerdictAnswers
<1>6. ASSUME NEW r \in Routes, Failure(r) PROVE Board!Answer(r)
  <2>1. Answered(r)
    BY <1>6 DEF Failure, FailLimited, FailTruncated, FailEmpty, FailInBandLate, FailDaily,
           FailCredit, FailTier, FailAuth, FailSpared
  <2> QED BY <1>6, <2>1, FailureStep, VerdictAnswers
<1>7. ASSUME Probing PROVE UNCHANGED Board!boardVars \/ Board!Lift
  <2>1. CASE ProbePassed
    BY <2>1, ForgetLifts DEF ProbePassed
  <2>2. CASE ~ProbePassed
    BY <1>1, <1>7, <2>2 DEF Probing, StartPass, ProbeFailed, EndPass, SightKey, SkipKey,
       BeginProbe, Visiting, store
  <2> QED BY <2>1, <2>2
<1>8. ASSUME NEW k \in Keys, ClearKey(k) PROVE Board!Lift
  BY <1>8, ForgetLifts DEF ClearKey
<1>9. CASE ClearAll
  BY <1>9, ForgetLifts DEF ClearAll, Board!Next
<1>10. CASE Tick
  BY <1>10, TickImplements DEF Board!Next
<1>11. CASE Restart
  BY <1>11, RestartImplements DEF Board!Next
<1> QED BY <1>2, <1>3, <1>4, <1>5, <1>6, <1>7, <1>8, <1>9, <1>10, <1>11
        DEF Next, Board!Next

\* The two-tier store, with its probes, its operator and its restarts, is a
\* durable board: a route is attempted only while it is off it, and a bench
\* ends only by time, by a passed probe or by the operator.
THEOREM ImplementsBoard == Spec => BoardSpec
<1>1. Init => Board!Init
  <2> SUFFICES ASSUME Init PROVE Board!Init
    OBVIOUS
  <2>1. benchOnBoard = [r \in Routes |-> Shown(NoRow, 1)]
    BY Initially, BoardShowsRows DEF Init, Inv
  <2> QED BY <2>1, ForgottenShown DEF Init, Board!Init, Zeros
<1> QED BY <1>1, Initially, Inductive, StepImplements, PTL DEF Spec, BoardSpec, Board!Spec

-----------------------------------------------------------------------------
(* Guesses. *)

\* Benches whose guesses about models with unknown limits keep to the cap.
Capped(b) ==
  \A r \in DOMAIN b \cap Routes :
    Unknown(r) /\ b[r].source = "heuristic" => b[r].duration <= UNKNOWN_MAX

\* The short benches keep to the cap, whatever routes they are set on.
LEMMA ShortBenchesCapped ==
  ASSUME NEW S, NEW d \in {LOCAL_BENCH, TRANSIENT_BENCH, AUTH_BENCH, TRUNCATION_BENCH,
                           MODEL_BENCH}
  PROVE  Capped(Bench(S, d, "heuristic"))
  BY ShortBenchAssumption DEF Capped, Bench

\* So does a bench that states where its duration comes from.
LEMMA FactsCapped ==
  ASSUME NEW S, NEW d, NEW src \in {"authoritative", "credit", "tier"}
  PROVE  Capped(Bench(S, d, src))
  BY DEF Capped, Bench

\* What two writers of one handler leave keeps to the cap if each does.
LEMMA ThenCapped ==
  ASSUME NEW f, NEW g, Capped(f), Capped(g)
  PROVE  Capped(Then(f, g))
  BY DEF Capped, Then

\* A daily counter says nothing of a model without limits, so whatever the
\* decision guesses is cut at the cap.
LEMMA DecisionCapped ==
  ASSUME Inv, NEW r \in Routes, NEW ra \in Nat,
         NEW exhausted \in BOOLEAN, NEW quotaSignal \in BOOLEAN,
         exhausted => r[1] \in DailyLimited
  PROVE  Capped([q \in {r} |-> LimitDecision(r, exhausted, quotaSignal, ra)])
<1> SUFFICES ASSUME Unknown(r), LimitDecision(r, exhausted, quotaSignal, ra).source = "heuristic"
             PROVE  LimitDecision(r, exhausted, quotaSignal, ra).duration <= UNKNOWN_MAX
  BY DEF Capped
<1> DEFINE base == BaseDuration(r, exhausted, quotaSignal)
<1>1. ~exhausted
  BY LimitAssumption DEF Unknown
<1>2. UNKNOWN_MAX \in Nat /\ getNextCooldownDuration(r) \in Nat
  BY DurationAssumption, LadderStepType
<1>3. base <= UNKNOWN_MAX
  BY <1>1, <1>2, ShortBenchAssumption DEF BaseDuration, SmallerOf
<1> HIDE DEF base
<1> QED BY <1>3, ShortBenchAssumption DEF LimitDecision, base

\* Benches that keep to the cap keep the table within it.
LEMMA SetCapped ==
  ASSUME Inv, GuessCapped, NEW b, BenchOK(b), Capped(b), setCooldowns(b)
  PROVE  GuessCapped'
<1>1. now \in Nat /\ rows' = RowsAfter(b)
  BY DEF Inv, TypeOK, setCooldowns
<1> SUFFICES ASSUME NEW r \in Routes, Unknown(r), rows'[r].source = "heuristic"
             PROVE  rows'[r].expires - rows'[r].setAt <= UNKNOWN_MAX
  BY DEF GuessCapped, Unknown
<1>2. CASE r \in DOMAIN b
  <2>1. rows'[r] = [expires |-> now + b[r].duration, source |-> b[r].source, setAt |-> now]
    BY <1>1, <1>2 DEF RowsAfter
  <2>2. b[r].duration \in Nat /\ b[r].duration <= UNKNOWN_MAX
    BY <1>2, <2>1 DEF BenchOK, Capped
  <2>3. rows'[r].expires = now + b[r].duration /\ rows'[r].setAt = now
    BY <2>1
  <2> QED BY <1>1, <2>2, <2>3
<1>3. CASE r \notin DOMAIN b
  BY <1>1, <1>3 DEF RowsAfter, GuessCapped
<1> QED BY <1>2, <1>3

\* The books of a failure keep to the cap if its own bench does.
LEMMA PenaliseCapped ==
  ASSUME Inv, GuessCapped, NEW r \in Routes, NEW b, BenchOK(b), Capped(b), NEW momentary,
         NEW last, BenchOK(last), Capped(last), PenaliseThen(r, b, momentary, last)
  PROVE  GuessCapped'
<1> DEFINE noted == ~(Attribution /\ momentary)
           m == r[1]
<1>1. BenchOK(ModelBench(m, noted, b)) /\ Capped(ModelBench(m, noted, b))
  BY BenchType, ShortBenchesCapped, DurationAssumption DEF ModelBench, NoBench, Sources
<1>2. BenchOK(Then(Then(b, ModelBench(m, noted, b)), last))
  BY <1>1, ThenType
<1>3. Capped(Then(Then(b, ModelBench(m, noted, b)), last))
  BY <1>1, ThenCapped
<1> QED BY <1>2, <1>3, SetCapped DEF PenaliseThen

\* A row that is gone is within the cap.
LEMMA RowsGone ==
  ASSUME GuessCapped, \A r \in Routes : rows'[r] \in {rows[r], NoRow}
  PROVE  GuessCapped'
<1>1. NoRow.expires - NoRow.setAt <= UNKNOWN_MAX
  BY DurationAssumption DEF NoRow
<1> QED BY <1>1 DEF GuessCapped, Unknown

\* No failure guesses beyond the cap.
LEMMA FailureCapped ==
  ASSUME Inv, GuessCapped, NEW r \in Routes, Failure(r)
  PROVE  GuessCapped'
<1>1. /\ BenchOK(NoBench) /\ Capped(NoBench)
      /\ \A d \in {TRANSIENT_BENCH, AUTH_BENCH, TRUNCATION_BENCH} :
           BenchOK(Bench({r}, d, "heuristic")) /\ Capped(Bench({r}, d, "heuristic"))
  BY BenchType, ShortBenchesCapped, DurationAssumption DEF NoBench, Sources
<1>2. ASSUME NEW ra \in Nat, NEW exhausted \in BOOLEAN, NEW quotaSignal \in BOOLEAN,
             exhausted => r[1] \in DailyLimited
      PROVE  /\ BenchOK([q \in {r} |-> LimitDecision(r, exhausted, quotaSignal, ra)])
             /\ Capped([q \in {r} |-> LimitDecision(r, exhausted, quotaSignal, ra)])
  BY <1>2, LimitDecisionType, DecisionCapped
<1>3. ASSUME NEW exhausted \in BOOLEAN, NEW quotaSignal \in BOOLEAN,
             NEW momentary \in BOOLEAN, NEW ra \in StatedRetries \cup {0},
             FailLimited(r, exhausted, quotaSignal, momentary, ra)
      PROVE  GuessCapped'
  <2>1. ra \in Nat
    BY DurationAssumption
  <2> QED BY <1>1, <1>2, <1>3, <2>1, PenaliseCapped DEF FailLimited, Penalise
<1>4. ASSUME NEW exhausted \in BOOLEAN, FailTruncated(r, exhausted)
      PROVE  GuessCapped'
  <2> DEFINE b == IF truncations[r] + 1 >= STREAK_LIMIT
                  THEN Bench({r}, TRUNCATION_BENCH, "heuristic")
                  ELSE [q \in {r} |-> LimitDecision(r, exhausted, FALSE, 0)]
  <2>1. exhausted => r[1] \in DailyLimited
    BY <1>4 DEF FailTruncated
  <2>2. BenchOK(b) /\ Capped(b)
    BY <1>1, <1>2, <2>1
  <2>3. PenaliseThen(r, b, TRUE, NoBench)
    BY <1>4 DEF FailTruncated, Penalise
  <2> HIDE DEF b
  <2> QED BY <1>1, <2>2, <2>3, PenaliseCapped
<1>5. ASSUME NEW exhausted \in BOOLEAN, FailEmpty(r, exhausted)
      PROVE  GuessCapped'
  <2>1. \/ UNCHANGED store
        \/ /\ exhausted => r[1] \in DailyLimited
           /\ PenaliseThen(r, [q \in {r} |-> LimitDecision(r, exhausted, FALSE, 0)],
                           FALSE, NoBench)
    BY <1>5 DEF FailEmpty, Penalise, store
  <2> QED BY <1>1, <1>2, <2>1, PenaliseCapped, RowsGone DEF store
<1>6. ASSUME NEW exhausted \in BOOLEAN, NEW quotaSignal \in BOOLEAN,
             FailInBandLate(r, exhausted, quotaSignal)
      PROVE  GuessCapped'
  BY <1>1, <1>2, <1>6, PenaliseCapped DEF FailInBandLate
<1>7. ASSUME NEW ra \in StatedRetries, FailDaily(r, ra)
      PROVE  GuessCapped'
  <2>1. BenchOK(Bench({r}, ra, "authoritative")) /\ Capped(Bench({r}, ra, "authoritative"))
    BY BenchType, FactsCapped, DurationAssumption DEF Sources
  <2> QED BY <1>1, <1>7, <2>1, PenaliseCapped DEF FailDaily, Penalise
<1>8. CASE FailCredit(r) \/ FailTier(r)
  <2>1. capCooldown(DAY_BENCH) \in Nat \ {0}
    BY DurationAssumption DEF capCooldown, SmallerOf
  <2>2. \A S : /\ BenchOK(Bench(S, capCooldown(DAY_BENCH), "credit"))
               /\ Capped(Bench(S, capCooldown(DAY_BENCH), "credit"))
               /\ BenchOK(Bench(S, capCooldown(DAY_BENCH), "tier"))
               /\ Capped(Bench(S, capCooldown(DAY_BENCH), "tier"))
    BY <2>1, BenchType, FactsCapped DEF Sources
  <2> QED BY <1>1, <1>8, <2>2, PenaliseCapped DEF FailCredit, FailTier, Penalise
<1>9. CASE FailAuth(r)
  BY <1>1, <1>9, SetCapped DEF FailAuth
<1>10. CASE FailSpared(r)
  BY <1>10, RowsGone DEF FailSpared, store
<1> QED BY <1>3, <1>4, <1>5, <1>6, <1>7, <1>8, <1>9, <1>10 DEF Failure

\* No step guesses beyond the cap.
LEMMA StepCapped ==
  ASSUME Inv, GuessCapped, [Next]_vars
  PROVE  GuessCapped'
<1>1. ASSUME NEW r \in Routes, Dispatch(r) \/ PassOver(r) \/ Succeed(r)
      PROVE  GuessCapped'
  <2>1. \A q \in Routes : rows'[q] \in {rows[q], NoRow}
    BY <1>1 DEF Dispatch, PassOver, Succeed, AskCooldown, Forget, store
  <2> QED BY <2>1, RowsGone
<1>2. CASE Probing \/ ClearAll \/ Tick \/ Restart \/ UNCHANGED vars \/ \E k \in Keys : ClearKey(k)
  <2>1. \A q \in Routes : rows'[q] \in {rows[q], NoRow}
    BY <1>2 DEF Probing, StartPass, ProbePassed, ProbeFailed, EndPass, SightKey, SkipKey,
       BeginProbe, Visiting, Forget, ClearAll, ClearKey, Tick, Restart,
       cleanupExpiredCooldowns, vars, store
  <2> QED BY <2>1, RowsGone
<1> QED BY <1>1, <1>2, FailureCapped DEF Next

\* On a model without published daily limits no sequence of failures, probes
\* and restarts benches a route on a guess for longer than the cap.
THEOREM GuessesAreCapped == Spec => []GuessCapped
<1>1. Init => GuessCapped
  BY DurationAssumption DEF Init, GuessCapped, NoRow
<1>2. Inv /\ GuessCapped /\ [Next]_vars => GuessCapped'
  BY StepCapped
<1> QED BY <1>1, <1>2, Initially, Inductive, PTL DEF Spec

-----------------------------------------------------------------------------
(* The bench of a model. *)

OnKey(b, k) == \A x \in DOMAIN b : x[2] = k

\* What a failure leaves in the table when the late second bench is none: the
\* model's bench where it was set, the handler's own elsewhere.
LEMMA PenalisedRows ==
  ASSUME NEW r \in Routes, NEW b, NEW momentary, PenaliseThen(r, b, momentary, NoBench),
         NEW q \in Routes
  PROVE  LET own == ModelBench(r[1], ~(Attribution /\ momentary), b) IN
         rows'[q] = IF q \in DOMAIN own
                    THEN [expires |-> now + own[q].duration, source |-> own[q].source,
                          setAt |-> now]
                    ELSE RowsAfter(b)[q]
<1> DEFINE own == ModelBench(r[1], ~(Attribution /\ momentary), b)
<1> HIDE DEF own
<1>1. rows' = RowsAfter(Then(Then(b, own), NoBench))
  BY DEF PenaliseThen, setCooldowns, own
<1>2. DOMAIN NoBench = {}
  BY DEF NoBench, Bench
<1> QED BY <1>1, <1>2 DEF RowsAfter, Then, own

\* With or without it, a failure changes another key's row of the model only
\* through the model's bench.
LEMMA OtherKeyRows ==
  ASSUME NEW r \in Routes, NEW b, OnKey(b, r[2]), NEW momentary, NEW last,
         OnKey(last, r[2]), PenaliseThen(r, b, momentary, last),
         NEW q \in Routes, q[2] # r[2]
  PROVE  LET own == ModelBench(r[1], ~(Attribution /\ momentary), b) IN
         rows'[q] = IF q \in DOMAIN own
                    THEN [expires |-> now + own[q].duration, source |-> own[q].source,
                          setAt |-> now]
                    ELSE rows[q]
<1> DEFINE own == ModelBench(r[1], ~(Attribution /\ momentary), b)
<1> HIDE DEF own
<1>1. rows' = RowsAfter(Then(Then(b, own), last))
  BY DEF PenaliseThen, setCooldowns, own
<1>2. q \notin DOMAIN b /\ q \notin DOMAIN last
  BY DEF OnKey
<1> QED BY <1>1, <1>2 DEF RowsAfter, Then, own

\* The bench a failure sets on another key only ever lengthens one, and one
\* that ends before the model's own would.
LEMMA LengthensOnly ==
  ASSUME Inv, NEW r \in Routes, NEW b, OnKey(b, r[2]), NEW momentary, NEW last,
         OnKey(last, r[2]), PenaliseThen(r, b, momentary, last),
         NEW q \in Routes, q[2] # r[2], rows[q].expires > now, rows'[q] # rows[q]
  PROVE  /\ rows[q].expires < now + MODEL_BENCH
         /\ rows'[q].expires > rows[q].expires
<1> DEFINE noted == ~(Attribution /\ momentary)
           own == ModelBench(r[1], noted, b)
<1>0. rows'[q] = IF q \in DOMAIN own
                 THEN [expires |-> now + own[q].duration, source |-> own[q].source,
                       setAt |-> now]
                 ELSE rows[q]
  BY OtherKeyRows
<1> HIDE DEF own
<1>1. q \in DOMAIN own
  BY <1>0
<1>2. rows'[q].expires = now + own[q].duration
  BY <1>0, <1>1
<1>3. RowsAfter(b)[q] = rows[q]
  BY DEF RowsAfter, OnKey
<1>4. Trips(r[1], noted)
  BY <1>1 DEF own, ModelBench, NoBench, Bench
<1>5. ~Outlasts(rows[q]) /\ own[q].duration = MODEL_BENCH
  BY <1>1, <1>3, <1>4 DEF own, ModelBench, Bench
<1>6. now \in Nat /\ MODEL_BENCH \in Nat /\ rows[q].expires \in Nat
  BY DurationAssumption DEF Inv, TypeOK, StoreTypeOK, Row
<1> QED BY <1>2, <1>5, <1>6 DEF Outlasts

\* The ways to fail that bench at all, as the writer they share.
LEMMA FailureWrites ==
  ASSUME NEW r \in Routes, Failure(r)
  PROVE  \/ UNCHANGED rows
         \/ FailAuth(r)
         \/ \E exhausted, quotaSignal \in BOOLEAN : FailInBandLate(r, exhausted, quotaSignal)
         \/ \E momentary \in BOOLEAN : \E b :
              OnKey(b, r[2]) /\ PenaliseThen(r, b, momentary, NoBench)
<1> DEFINE Decided(exhausted, quotaSignal, ra) ==
             [q \in {r} |-> LimitDecision(r, exhausted, quotaSignal, ra)]
<1>1. /\ \A exhausted, quotaSignal, ra : OnKey(Decided(exhausted, quotaSignal, ra), r[2])
      /\ \A d, src : OnKey(Bench({r}, d, src), r[2])
      /\ \A d, src : OnKey(Bench(Models \X {r[2]}, d, src), r[2])
  BY DEF OnKey, Bench
<1>2. ASSUME NEW exhausted \in BOOLEAN, NEW quotaSignal \in BOOLEAN, NEW momentary \in BOOLEAN,
             NEW ra \in StatedRetries \cup {0},
             FailLimited(r, exhausted, quotaSignal, momentary, ra)
      PROVE  \E b : OnKey(b, r[2]) /\ PenaliseThen(r, b, momentary, NoBench)
  BY <1>1, <1>2 DEF FailLimited, Penalise
<1>3. ASSUME NEW exhausted \in BOOLEAN, FailTruncated(r, exhausted)
      PROVE  \E b : OnKey(b, r[2]) /\ PenaliseThen(r, b, TRUE, NoBench)
  BY <1>1, <1>3 DEF FailTruncated, Penalise
<1>4. ASSUME NEW exhausted \in BOOLEAN, FailEmpty(r, exhausted)
      PROVE  UNCHANGED rows \/ \E b : OnKey(b, r[2]) /\ PenaliseThen(r, b, FALSE, NoBench)
  <2>1. UNCHANGED store \/ PenaliseThen(r, Decided(exhausted, FALSE, 0), FALSE, NoBench)
    BY <1>4 DEF FailEmpty, Penalise
  <2>2. OnKey(Decided(exhausted, FALSE, 0), r[2])
    BY <1>1
  <2> HIDE DEF Decided
  <2> QED BY <2>1, <2>2 DEF store
<1>5. ASSUME NEW ra \in StatedRetries, FailDaily(r, ra)
      PROVE  \E b : OnKey(b, r[2]) /\ PenaliseThen(r, b, TRUE, NoBench)
  BY <1>1, <1>5 DEF FailDaily, Penalise
<1>6. ASSUME FailCredit(r) \/ FailTier(r)
      PROVE  \E b : OnKey(b, r[2]) /\ PenaliseThen(r, b, FALSE, NoBench)
  BY <1>1, <1>6 DEF FailCredit, FailTier, Penalise
<1>7. FailSpared(r) => UNCHANGED rows
  BY DEF FailSpared, store
<1> QED BY <1>2, <1>3, <1>4, <1>5, <1>6, <1>7 DEF Failure

\* A failure on one key never shortens the bench another key serves.
LEMMA KeepsLonger ==
  ASSUME Inv, NEW r \in Routes, Failure(r), NEW k \in Keys \ {r[2]},
         rows[<<r[1], k>>].expires > now, rows'[<<r[1], k>>] # rows[<<r[1], k>>]
  PROVE  /\ rows[<<r[1], k>>].expires < now + MODEL_BENCH
         /\ rows'[<<r[1], k>>].expires > rows[<<r[1], k>>].expires
<1> DEFINE q == <<r[1], k>>
           lengthened == /\ rows[q].expires < now + MODEL_BENCH
                         /\ rows'[q].expires > rows[q].expires
<1>1. q \in Routes /\ q[2] # r[2] /\ r[1] \in Models
  BY DEF Routes
<1> HIDE DEF q
<1>2. ASSUME NEW momentary, NEW b, NEW last, OnKey(b, r[2]), OnKey(last, r[2]),
             PenaliseThen(r, b, momentary, last)
      PROVE  lengthened
  BY <1>1, <1>2, LengthensOnly DEF q
<1>3. OnKey(NoBench, r[2])
  BY DEF OnKey, NoBench, Bench
<1>4. CASE FailAuth(r)
  <2>1. rows' = RowsAfter(Bench({r}, AUTH_BENCH, "heuristic"))
    BY <1>4 DEF FailAuth, setCooldowns
  <2>2. rows'[q] = rows[q]
    BY <1>1, <2>1 DEF RowsAfter, Bench
  <2> QED BY <2>2 DEF q
<1>5. ASSUME NEW exhausted, NEW quotaSignal, FailInBandLate(r, exhausted, quotaSignal)
      PROVE  lengthened
  <2>1. /\ OnKey([x \in {r} |-> LimitDecision(r, exhausted, quotaSignal, 0)], r[2])
        /\ OnKey(Bench({r}, TRUNCATION_BENCH, "heuristic"), r[2])
    BY DEF OnKey, Bench
  <2> QED BY <1>2, <1>5, <2>1 DEF FailInBandLate
<1>6. lengthened
  BY <1>2, <1>3, <1>4, <1>5, FailureWrites DEF q
<1> QED BY <1>6 DEF q

\* Without a late second bench, the failure that completes the streak of a
\* model leaves every key benched for the whole bench.
LEMMA SpansKeys ==
  ASSUME Inv, ~LateInBand, NEW r \in Routes, Failure(r), rows' # rows,
         modelFailures[r[1]] # << >>, modelFailures'[r[1]] = << >>, NEW k \in Keys
  PROVE  rows'[<<r[1], k>>].expires >= now + MODEL_BENCH
<1> DEFINE q == <<r[1], k>>
<1>1. q \in {r[1]} \X Keys /\ q \in Routes /\ r[1] \in Models
  BY DEF Routes
<1> HIDE DEF q
<1>2. ~FailAuth(r) /\ \A exhausted, quotaSignal : ~FailInBandLate(r, exhausted, quotaSignal)
  BY DEF FailAuth, books, FailInBandLate
<1>3. PICK momentary \in BOOLEAN :
        \E b : OnKey(b, r[2]) /\ PenaliseThen(r, b, momentary, NoBench)
  BY <1>2, FailureWrites
<1>4. PICK b : OnKey(b, r[2]) /\ PenaliseThen(r, b, momentary, NoBench)
  BY <1>3
<1> DEFINE noted == ~(Attribution /\ momentary)
           own == ModelBench(r[1], noted, b)
<1>5. Trips(r[1], noted)
  <2>1. FailureTimes(r[1]) # << >>
    <3>1. modelFailures[r[1]] \in Seq(Nat) /\ now \in Nat /\ MODEL_FAILURE_WINDOW \in Nat
      BY <1>1, DurationAssumption DEF Inv, TypeOK, BooksTypeOK
    <3>2. Len(FailureTimes(r[1])) # 0
      BY <3>1, RecentType, AppendNow DEF FailureTimes
    <3> QED BY <3>2, EmptySeq
  <2>2. modelFailures'[r[1]] = IF ~noted THEN modelFailures[r[1]]
                               ELSE IF Trips(r[1], noted) THEN << >> ELSE FailureTimes(r[1])
    BY <1>1, <1>4 DEF PenaliseThen, Inv, TypeOK, BooksTypeOK
  <2> QED BY <2>1, <2>2
<1>6. now \in Nat /\ MODEL_BENCH \in Nat
  BY DurationAssumption DEF Inv, TypeOK
<1>7. rows'[q] = IF q \in DOMAIN own
                 THEN [expires |-> now + own[q].duration, source |-> own[q].source,
                       setAt |-> now]
                 ELSE RowsAfter(b)[q]
  BY <1>1, <1>4, PenalisedRows
<1>8. CASE q \in DOMAIN own
  <2>1. own[q].duration = MODEL_BENCH
    BY <1>5, <1>8 DEF ModelBench, Bench
  <2>2. rows'[q].expires = now + MODEL_BENCH
    BY <1>7, <1>8, <2>1
  <2> QED BY <1>6, <2>2 DEF q
<1>9. CASE q \notin DOMAIN own
  <2>1. Outlasts(RowsAfter(b)[q])
    BY <1>1, <1>5, <1>9 DEF ModelBench, Bench
  <2> QED BY <1>7, <1>9, <2>1 DEF Outlasts, q
<1> QED BY <1>8, <1>9

\* Whatever a failure does to the benches of its model's other keys, it never
\* shortens one, and leaves one that lasts as long as the model's own as it is
\* (fallback-loop.ts:108).
THEOREM LongerBenchesStand == Spec => ModelBenchKeepsLonger
<1>1. Inv /\ [Next]_vars => [\A r \in Routes : Failure(r) =>
        \A k \in Keys \ {r[2]} :
          LET q == <<r[1], k>> IN
          rows[q].expires > now /\ rows'[q] # rows[q]
            => /\ rows[q].expires < now + MODEL_BENCH
               /\ rows'[q].expires > rows[q].expires]_vars
  BY KeepsLonger
<1> QED BY <1>1, Initially, Inductive, PTL DEF Spec, ModelBenchKeepsLonger

\* A model that fails often enough is benched on every key for the whole bench,
\* as long as no error arrives late inside a stream.
THEOREM ModelsSinkEverywhere == ASSUME ~LateInBand PROVE Spec => ModelBenchSpansKeys
<1>1. Inv /\ [Next]_vars => [\A r \in Routes :
        Failure(r) /\ rows' # rows /\ modelFailures[r[1]] # << >>
          /\ modelFailures'[r[1]] = << >>
        => \A k \in Keys : rows'[<<r[1], k>>].expires >= now + MODEL_BENCH]_vars
  BY SpansKeys
<1> QED BY <1>1, Initially, Inductive, PTL DEF Spec, ModelBenchSpansKeys
=============================================================================
