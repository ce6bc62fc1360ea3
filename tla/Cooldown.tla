------------------------------ MODULE Cooldown ------------------------------
(***************************************************************************)
(* The benches of one provider platform: services/ratelimit.ts (cooldown   *)
(* store, escalation ladder, null-limit heuristic), the writers of         *)
(* lib/fallback-loop.ts that put a route on the bench after a failed       *)
(* attempt, and services/cooldown-probe.ts that takes it off early.        *)
(*                                                                         *)
(* The server is one Node event loop: every handler below runs without     *)
(* interruption between two awaits, and is one action.  What interleaves   *)
(* is what awaits: attempts under way (several on one route), the probe    *)
(* pass waiting for a provider, the operator's requests, a restart.        *)
(* SQLite calls are taken to succeed.  Times are in abstract units.        *)
(***************************************************************************)
EXTENDS Naturals, Sequences, FiniteSets

CONSTANTS
  Models, Keys,      \* the platform's enabled models and the keys routable to them
  UnknownLimits,     \* models with neither an RPD nor a TPD limit (both NULL)
  DailyLimited,      \* models whose daily counters may be found at their limit
  LocalKeys,         \* keys of a loopback or private endpoint (isLocalEndpointKey)
  LateInBand,        \* whether errors inside a stream may come late
  Attribution,       \* isProviderMomentAttributionEnabled()
  Ceiling,           \* routing_cooldown_ceiling_ms; DAY_BENCH when it is unset
  LOCAL_BENCH, TRANSIENT_BENCH, AUTH_BENCH, TRUNCATION_BENCH, MODEL_BENCH,
  UNKNOWN_MAX, DAY_BENCH,
  COOLDOWN_DURATIONS,            \* the ladder, a sequence of durations
  PROBE_BACKOFFS,                \* base, doubled, up to the maximum: 2, 4, 8, 15 min
  LADDER_WINDOW, NULL_HIT_WINDOW, MODEL_FAILURE_WINDOW,
  NULL_HIT_THRESHOLD, MODEL_FAILURE_THRESHOLD, STREAK_LIMIT,
  MIN_REMAINING, STAGGER, MAX_PROBES,
  StatedRetries,     \* the Retry-After values a provider may state
  MaxTime, MaxInflight, MaxHits  \* bounds of the checked instance

Routes == Models \X Keys

ASSUME DurationAssumption ==
  /\ {LOCAL_BENCH, TRANSIENT_BENCH, AUTH_BENCH, TRUNCATION_BENCH, MODEL_BENCH,
      UNKNOWN_MAX, DAY_BENCH, Ceiling} \subseteq Nat \ {0}
  /\ COOLDOWN_DURATIONS \in Seq(Nat \ {0}) /\ COOLDOWN_DURATIONS # << >>
  /\ PROBE_BACKOFFS \in Seq(Nat \ {0}) /\ PROBE_BACKOFFS # << >>
  /\ STAGGER \in Nat
  /\ {LADDER_WINDOW, NULL_HIT_WINDOW, MODEL_FAILURE_WINDOW, STREAK_LIMIT} \subseteq Nat
  /\ StatedRetries \subseteq Nat \ {0}

ASSUME LimitAssumption == UnknownLimits \cap DailyLimited = {}

ASSUME ShortBenchAssumption ==
  \A d \in {LOCAL_BENCH, TRANSIENT_BENCH, AUTH_BENCH, TRUNCATION_BENCH, MODEL_BENCH} :
    d <= UNKNOWN_MAX

ASSUME BoundAssumption == {MaxTime, MaxInflight, MaxHits} \subseteq Nat

Sources == {"heuristic", "authoritative", "credit", "tier"}
NoRow == [expires |-> 0, source |-> "heuristic", setAt |-> 0]
Row == [expires : Nat, source : Sources, setAt : Nat]
NoState == [failures |-> 0, nextProbeAt |-> 0, sighted |-> FALSE]

VARIABLES
  now,
  cooldowns,         \* memory: [Routes -> expiry], 0 when absent
  rows,              \* table rate_limit_cooldowns, NoRow when absent
  cooldownHits,      \* [Routes -> sequence of times of ladder steps]
  nullLimitHits,     \* [Routes -> sequence of times of 429s, limits unknown]
  modelFailures,     \* [Models -> sequence of failure times]
  truncations, empties,          \* [Routes -> length of the current streak]
  inflight,          \* [Routes -> attempts dispatched and unanswered]
  keyState,          \* the prober's pacing, per key
  pass               \* the probe pass under way

store == <<cooldowns, rows>>
books == <<cooldownHits, nullLimitHits, modelFailures, truncations, empties>>
probing == <<keyState, pass>>
vars == <<now, store, books, inflight, probing>>

\* The probe pass runs between its awaits without letting anything else run.
Yielded == pass.active => pass.waiting # {}

\* The times of a history, oldest first, that are still inside its window.
Recent(times, window) ==
  LET stale == {i \in DOMAIN times : times[i] + window <= now}
  IN  SubSeq(times, Cardinality(stale) + 1, Len(times))
SmallerOf(a, b) == IF a < b THEN a ELSE b
capCooldown(d) == SmallerOf(d, Ceiling)

\* The later of two assignments made by one handler wins.
Then(f, g) == [x \in DOMAIN f \cup DOMAIN g |-> IF x \in DOMAIN g THEN g[x] ELSE f[x]]
Bench(S, d, src) == [r \in S |-> [duration |-> d, source |-> src]]

\* The rows after the benches b (a function on some routes) were set: each call
\* of setCooldown overwrites whatever bench the route had.
RowsAfter(b) ==
  [r \in Routes |-> IF r \in DOMAIN b
     THEN [expires |-> now + b[r].duration, source |-> b[r].source, setAt |-> now]
     ELSE rows[r]]

setCooldowns(b) ==
  /\ rows' = RowsAfter(b)
  /\ cooldowns' = [r \in Routes |-> IF r \in DOMAIN b THEN now + b[r].duration
                                                     ELSE cooldowns[r]]

\* Mutant of Forget: the memory entry outlives its row.
ForgetRow(S) ==
  /\ rows' = [r \in Routes |-> IF r \in S THEN NoRow ELSE rows[r]]
  /\ UNCHANGED cooldowns

Forget(S) ==
  /\ rows' = [r \in Routes |-> IF r \in S THEN NoRow ELSE rows[r]]
  /\ cooldowns' = [r \in Routes |-> IF r \in S THEN 0 ELSE cooldowns[r]]

(* The verdict of isOnCooldown: the row decides when there is one. *)
isOnCooldown(r) ==
  IF rows[r] # NoRow THEN now <= rows[r].expires
                     ELSE cooldowns[r] # 0 /\ now <= cooldowns[r]

\* Its side effects: an expired entry goes, a live row is copied to memory.
AskCooldown(r) ==
  IF ~isOnCooldown(r) THEN Forget({r})
  ELSE /\ cooldowns' = [cooldowns EXCEPT
                          ![r] = IF rows[r] # NoRow THEN rows[r].expires ELSE @]
       /\ UNCHANGED rows

-----------------------------------------------------------------------------
(* Dispatching and serving. *)

Dispatch(r) ==
  /\ Yielded
  /\ inflight[r] < MaxInflight
  /\ ~isOnCooldown(r)
  /\ AskCooldown(r)
  /\ inflight' = [inflight EXCEPT ![r] = @ + 1]
  /\ UNCHANGED <<now, books, probing>>

PassOver(r) ==
  /\ Yielded
  /\ isOnCooldown(r)
  /\ AskCooldown(r)
  /\ UNCHANGED <<now, books, inflight, probing>>

\* Mutant of Answered: an attempt may be answered twice.
AnsweredAgain(r) ==
  /\ Yielded
  /\ inflight' = [inflight EXCEPT ![r] = @ - 1]
  /\ UNCHANGED <<now, probing>>

Answered(r) ==
  /\ Yielded
  /\ inflight[r] > 0
  /\ inflight' = [inflight EXCEPT ![r] = @ - 1]
  /\ UNCHANGED <<now, probing>>

\* recordUpstreamSuccess, as far as benches go: the evidence against the route
\* and its model is dropped, a bench set meanwhile by another attempt stays.
Succeed(r) ==
  /\ Answered(r)
  /\ cooldownHits' = [cooldownHits EXCEPT ![r] = << >>]
  /\ nullLimitHits' = [nullLimitHits EXCEPT ![r] = << >>]
  /\ modelFailures' = [modelFailures EXCEPT ![r[1]] = << >>]
  /\ truncations' = [truncations EXCEPT ![r] = 0]
  /\ empties' = [empties EXCEPT ![r] = 0]
  /\ UNCHANGED store

-----------------------------------------------------------------------------
(* The bench a failed attempt earns its route. *)

Unknown(r) == r[1] \in UnknownLimits
NullHits(r, quotaSignal) ==
  IF Unknown(r) /\ quotaSignal
  THEN Append(Recent(nullLimitHits[r], NULL_HIT_WINDOW), now)
  ELSE nullLimitHits[r]
Guessed(r, quotaSignal) ==
  Unknown(r) /\ quotaSignal /\ Len(NullHits(r, quotaSignal)) >= NULL_HIT_THRESHOLD
LadderHits(r) == Append(Recent(cooldownHits[r], LADDER_WINDOW), now)
getNextCooldownDuration(r) ==
  capCooldown(COOLDOWN_DURATIONS[SmallerOf(Len(LadderHits(r)),
                                            Len(COOLDOWN_DURATIONS))])

\* Mutant of BaseDuration: a guess climbs the ladder like a known exhaustion.
UncappedGuess(r, exhausted, quotaSignal) ==
  IF exhausted \/ Guessed(r, quotaSignal) THEN getNextCooldownDuration(r)
                                          ELSE TRANSIENT_BENCH

BaseDuration(r, exhausted, quotaSignal) ==
  IF exhausted THEN getNextCooldownDuration(r)
  ELSE IF Guessed(r, quotaSignal)
       THEN SmallerOf(getNextCooldownDuration(r), UNKNOWN_MAX)
  ELSE TRANSIENT_BENCH

\* getCooldownDecisionForLimit.  exhausted: a daily counter has reached its
\* limit; retryAfter: the provider's stated delay, 0 when it stated none.
LimitDecision(r, exhausted, quotaSignal, retryAfter) ==
  IF r[2] \in LocalKeys THEN [duration |-> LOCAL_BENCH, source |-> "heuristic"]
  ELSE LET base == BaseDuration(r, exhausted, quotaSignal)
       IN  IF retryAfter > base
           THEN [duration |-> SmallerOf(retryAfter, DAY_BENCH),
                 source |-> "authoritative"]
           ELSE [duration |-> base, source |-> "heuristic"]

CountHits(r, exhausted, quotaSignal) ==
  IF r[2] \in LocalKeys THEN UNCHANGED <<nullLimitHits, cooldownHits>>
  ELSE /\ Len(NullHits(r, quotaSignal)) <= MaxHits
       /\ Len(LadderHits(r)) <= MaxHits
       /\ nullLimitHits' = [nullLimitHits EXCEPT ![r] = NullHits(r, quotaSignal)]
       /\ cooldownHits' = IF exhausted \/ Guessed(r, quotaSignal)
                          THEN [cooldownHits EXCEPT ![r] = LadderHits(r)]
                          ELSE cooldownHits

NoBench == Bench({}, TRANSIENT_BENCH, "heuristic")

(* noteModelFailure: enough failures of one model within the window bench it *)
(* on every routable key, except a key whose bench already lasts longer.     *)
FailureTimes(m) == Append(Recent(modelFailures[m], MODEL_FAILURE_WINDOW), now)
Trips(m, noted) == noted /\ Len(FailureTimes(m)) >= MODEL_FAILURE_THRESHOLD
\* Mutants: the guard is dropped; a key already benched is left out.
OutlastsNever(row) == FALSE
Outlasts(row) == row.expires > now /\ row.expires >= now + MODEL_BENCH
ModelBenchOnFreeKeys(m, noted, b) ==
  IF Trips(m, noted)
  THEN Bench({q \in {m} \X Keys : RowsAfter(b)[q].expires <= now}, MODEL_BENCH, "heuristic")
  ELSE NoBench
ModelBench(m, noted, b) ==
  IF Trips(m, noted)
  THEN Bench({q \in {m} \X Keys : ~Outlasts(RowsAfter(b)[q])},
             MODEL_BENCH, "heuristic")
  ELSE NoBench

\* The part recordRetryableFailure does whatever the error was: bench as
\* decided (b), and note the failure against the model unless attribution
\* books it on the provider's bad minute.
PenaliseThen(r, b, momentary, last) ==
  LET noted == ~(Attribution /\ momentary)
      m == r[1]
  IN  /\ setCooldowns(Then(Then(b, ModelBench(m, noted, b)), last))
      /\ modelFailures' =
           [modelFailures EXCEPT ![m] = IF ~noted THEN @
                                        ELSE IF Trips(m, noted) THEN << >>
                                        ELSE FailureTimes(m)]

Penalise(r, b, momentary) == PenaliseThen(r, b, momentary, NoBench)

ResetStreaks(r) ==
  /\ truncations' = [truncations EXCEPT ![r] = 0]
  /\ empties' = [empties EXCEPT ![r] = 0]

-----------------------------------------------------------------------------
(* The failures, by what the error is classified as. *)

\* A 429 (quotaSignal), a 5xx or timeout (momentary only), or another
\* retryable error such as a 400 (neither).
FailLimited(r, exhausted, quotaSignal, momentary, retryAfter) ==
  /\ Answered(r)
  /\ exhausted => r[1] \in DailyLimited
  /\ quotaSignal => momentary
  /\ CountHits(r, exhausted, quotaSignal)
  /\ Penalise(r, [q \in {r} |-> LimitDecision(r, exhausted, quotaSignal, retryAfter)],
              momentary)
  /\ ResetStreaks(r)

\* A stream cut off before its end: the third in a row re-benches the route.
FailTruncated(r, exhausted) ==
  LET streak == truncations[r] + 1
      third == streak >= STREAK_LIMIT
      decided == [q \in {r} |-> LimitDecision(r, exhausted, FALSE, 0)]
  IN  /\ Answered(r)
      /\ exhausted => r[1] \in DailyLimited
      /\ CountHits(r, exhausted, FALSE)
      /\ Penalise(r, IF third THEN Bench({r}, TRUNCATION_BENCH, "heuristic")
                              ELSE decided, TRUE)
      /\ truncations' = [truncations EXCEPT ![r] = IF third THEN 0 ELSE streak]
      /\ empties' = [empties EXCEPT ![r] = 0]

\* An empty completion: exempt until the third in a row.
FailEmpty(r, exhausted) ==
  LET streak == SmallerOf(empties[r] + 1, STREAK_LIMIT)
  IN  /\ Answered(r)
      /\ exhausted => r[1] \in DailyLimited
      /\ empties' = [empties EXCEPT ![r] = streak]
      /\ IF streak < STREAK_LIMIT
         THEN UNCHANGED <<store, cooldownHits, nullLimitHits, modelFailures, truncations>>
         ELSE /\ CountHits(r, exhausted, FALSE)
              /\ Penalise(r, [q \in {r} |-> LimitDecision(r, exhausted, FALSE, 0)], FALSE)
              /\ truncations' = [truncations EXCEPT ![r] = 0]

\* An error reported inside the stream after the attempt was silent for most of
\* the request's time budget: runFallbackLoopAttempts benches the route once more.
FailInBandLate(r, exhausted, quotaSignal) ==
  /\ LateInBand
  /\ Answered(r)
  /\ exhausted => r[1] \in DailyLimited
  /\ CountHits(r, exhausted, quotaSignal)
  /\ PenaliseThen(r, [q \in {r} |-> LimitDecision(r, exhausted, quotaSignal, 0)],
                  quotaSignal, Bench({r}, TRUNCATION_BENCH, "heuristic"))
  /\ ResetStreaks(r)

\* A daily quota the provider says is spent, until a moment it states.
FailDaily(r, retryAfter) ==
  /\ Answered(r)
  /\ Penalise(r, Bench({r}, retryAfter, "authoritative"), TRUE)
  /\ ResetStreaks(r)
  /\ UNCHANGED <<cooldownHits, nullLimitHits>>

\* 402 or a suspended account: the key is benched on the platform's catalog.
FailCredit(r) ==
  /\ Answered(r)
  /\ Penalise(r, Bench(Models \X {r[2]}, capCooldown(DAY_BENCH), "credit"), FALSE)
  /\ ResetStreaks(r)
  /\ UNCHANGED <<cooldownHits, nullLimitHits>>

\* 403: the key's tier does not reach the model.
FailTier(r) ==
  /\ Answered(r)
  /\ Penalise(r, Bench({r}, capCooldown(DAY_BENCH), "tier"), FALSE)
  /\ ResetStreaks(r)
  /\ UNCHANGED <<cooldownHits, nullLimitHits>>

\* 401: recordAuthFailure benches the route and leaves every book alone.
FailAuth(r) ==
  /\ Answered(r)
  /\ setCooldowns(Bench({r}, AUTH_BENCH, "heuristic"))
  /\ UNCHANGED books

\* A request too large for the model, an output cap, a client gone: no bench.
FailSpared(r) == Answered(r) /\ UNCHANGED <<store, books>>

-----------------------------------------------------------------------------
(* The probe pass.  It reads the table once, keeps what it read across the   *)
(* awaits of its probes, and paces itself by the time it started at.         *)

Probeable == {r \in Routes : rows[r].source = "heuristic" /\ rows[r].expires > now}
isRipe(row) ==
  /\ row.expires >= now + MIN_REMAINING
  /\ 2 * (now - row.setAt) >= row.expires - row.setAt
RipeRoutes == {r \in Probeable : isRipe(rows[r])}
NoPass == [active |-> FALSE, at |-> 0, ripe |-> {}, todo |-> {}, probed |-> 0,
           waiting |-> {}]
KeysOf(S) == {r[2] : r \in S}

StartPass ==
  /\ ~pass.active
  /\ pass' = [NoPass EXCEPT !.active = TRUE, !.at = now,
                            !.ripe = RipeRoutes, !.todo = KeysOf(RipeRoutes)]
  /\ keyState' = [k \in Keys |-> IF k \in KeysOf(Probeable) THEN keyState[k] ELSE NoState]
  /\ UNCHANGED <<now, store, books, inflight>>

Visiting(k) ==
  /\ pass.active /\ pass.waiting = {}
  /\ k \in pass.todo /\ pass.probed < MAX_PROBES
  /\ UNCHANGED <<now, store, books, inflight>>
Visited(k) == [pass EXCEPT !.todo = @ \ {k}]

\* First sighting: only scheduled, at a jittered moment.
SightKey(k) ==
  /\ Visiting(k) /\ ~keyState[k].sighted
  /\ \E jitter \in 0..STAGGER :
       keyState' = [keyState EXCEPT ![k] = [failures |-> 0, sighted |-> TRUE,
                                            nextProbeAt |-> pass.at + jitter]]
  /\ pass' = Visited(k)

SkipKey(k) ==
  /\ Visiting(k) /\ keyState[k].sighted /\ pass.at < keyState[k].nextProbeAt
  /\ pass' = Visited(k)
  /\ UNCHANGED keyState

BeginProbe(k) ==
  /\ Visiting(k) /\ keyState[k].sighted /\ pass.at >= keyState[k].nextProbeAt
  /\ pass' = [active |-> TRUE, at |-> pass.at, ripe |-> pass.ripe,
              todo |-> pass.todo \ {k}, probed |-> pass.probed + 1, waiting |-> {k}]
  /\ UNCHANGED keyState

\* The routes the pass read as ripe, whatever became of their benches since.
ProbedRoutes == {r \in pass.ripe : r[2] \in pass.waiting}

ProbePassed ==
  /\ pass.waiting # {}
  /\ Forget(ProbedRoutes)
  /\ keyState' = [k \in Keys |-> IF k \in pass.waiting THEN NoState ELSE keyState[k]]
  /\ pass' = [pass EXCEPT !.waiting = {}]
  /\ UNCHANGED <<now, books, inflight>>

ProbeFailed ==
  /\ pass.waiting # {}
  /\ \E k \in pass.waiting :
       LET failed == keyState[k].failures + 1
           backoff == PROBE_BACKOFFS[SmallerOf(failed, Len(PROBE_BACKOFFS))]
       IN  keyState' = [keyState EXCEPT ![k] = [failures |-> failed, sighted |-> TRUE,
                                                nextProbeAt |-> pass.at + backoff]]
  /\ pass' = [pass EXCEPT !.waiting = {}]
  /\ UNCHANGED <<now, store, books, inflight>>

EndPass ==
  /\ pass.active /\ pass.waiting = {}
  /\ pass.todo = {} \/ pass.probed >= MAX_PROBES
  /\ pass' = NoPass
  /\ UNCHANGED <<now, store, books, inflight, keyState>>

-----------------------------------------------------------------------------
(* The operator, the clock and the process. *)

\* clearCooldownsForKey: ladder history goes only where memory had an entry.
ClearKey(k) ==
  /\ Yielded
  /\ Forget(Models \X {k})
  /\ cooldownHits' = [r \in Routes |-> IF r[2] = k /\ cooldowns[r] # 0
                                       THEN << >> ELSE cooldownHits[r]]
  /\ UNCHANGED <<now, nullLimitHits, modelFailures, truncations, empties,
                 inflight, probing>>

\* "Clear all" of the penalty inspector.
ClearAll ==
  /\ Yielded
  /\ Forget(Routes)
  /\ cooldownHits' = [r \in Routes |-> << >>]
  /\ nullLimitHits' = [r \in Routes |-> << >>]
  /\ modelFailures' = [m \in Models |-> << >>]
  /\ UNCHANGED <<now, truncations, empties, inflight, probing>>

Tick ==
  /\ Yielded
  /\ now < MaxTime
  /\ now' = now + 1
  /\ UNCHANGED <<store, books, inflight, probing>>

Zeros == [r \in Routes |-> 0]
NoHits == [r \in Routes |-> << >>]

\* Mutant: the sweep compares the column of the wrong time.
cleanupStartedCooldowns ==
  [r \in Routes |-> IF rows[r].setAt <= now THEN NoRow ELSE rows[r]]
cleanupExpiredCooldowns ==
  [r \in Routes |-> IF rows[r].expires <= now THEN NoRow ELSE rows[r]]

\* What the process keeps in memory is gone, the table survives; the boot sweeps
\* its expired rows.
Restart ==
  /\ Yielded
  /\ rows' = cleanupExpiredCooldowns
  /\ UNCHANGED now
  /\ cooldowns' = Zeros
  /\ cooldownHits' = NoHits
  /\ nullLimitHits' = NoHits
  /\ modelFailures' = [m \in Models |-> << >>]
  /\ truncations' = Zeros
  /\ empties' = Zeros
  /\ inflight' = Zeros
  /\ keyState' = [k \in Keys |-> NoState]
  /\ pass' = NoPass

Init ==
  /\ now = 1
  /\ rows = [r \in Routes |-> NoRow]
  /\ cooldowns = Zeros
  /\ cooldownHits = NoHits
  /\ nullLimitHits = NoHits
  /\ modelFailures = [m \in Models |-> << >>]
  /\ truncations = Zeros
  /\ empties = Zeros
  /\ inflight = Zeros
  /\ keyState = [k \in Keys |-> NoState]
  /\ pass = NoPass

Failure(r) ==
  \/ \E exhausted, quotaSignal, momentary \in BOOLEAN, ra \in StatedRetries \cup {0} :
       FailLimited(r, exhausted, quotaSignal, momentary, ra)
  \/ \E exhausted \in BOOLEAN : FailTruncated(r, exhausted)
  \/ \E exhausted \in BOOLEAN : FailEmpty(r, exhausted)
  \/ \E exhausted, quotaSignal \in BOOLEAN : FailInBandLate(r, exhausted, quotaSignal)
  \/ \E ra \in StatedRetries : FailDaily(r, ra)
  \/ FailCredit(r)
  \/ FailTier(r)
  \/ FailAuth(r)
  \/ FailSpared(r)

Probing ==
  \/ StartPass \/ ProbePassed \/ ProbeFailed \/ EndPass
  \/ \E k \in Keys : SightKey(k) \/ SkipKey(k) \/ BeginProbe(k)

Next ==
  \/ \E r \in Routes : Dispatch(r) \/ PassOver(r) \/ Succeed(r) \/ Failure(r)
  \/ Probing
  \/ \E k \in Keys : ClearKey(k)
  \/ ClearAll
  \/ Tick
  \/ Restart

Spec == Init /\ [][Next]_vars

-----------------------------------------------------------------------------
(* Properties. *)

StoreTypeOK == cooldowns \in [Routes -> Nat] /\ rows \in [Routes -> Row]
BooksTypeOK ==
  /\ cooldownHits \in [Routes -> Seq(Nat)]
  /\ nullLimitHits \in [Routes -> Seq(Nat)]
  /\ modelFailures \in [Models -> Seq(Nat)]
  /\ truncations \in [Routes -> Nat]
  /\ empties \in [Routes -> Nat]
ProbingTypeOK ==
  /\ keyState \in [Keys -> [failures : Nat, nextProbeAt : Nat, sighted : BOOLEAN]]
  /\ pass \in [active : BOOLEAN, at : Nat, ripe : SUBSET Routes, todo : SUBSET Keys,
               probed : Nat, waiting : SUBSET Keys]
\* The type invariant of the module.
TypeOK ==
  /\ now \in Nat
  /\ inflight \in [Routes -> Nat]
  /\ StoreTypeOK /\ BooksTypeOK /\ ProbingTypeOK

\* The memory map never knows a bench the table does not hold with the same
\* expiry, so no restart and no order of lookups can change a verdict.
MemoryShadowsDisk ==
  \A r \in Routes : cooldowns[r] # 0 => rows[r] # NoRow /\ rows[r].expires = cooldowns[r]

\* On a model without published daily limits exhaustion is only a guess, and no
\* sequence of failures benches it on a guess for longer than the cap.
GuessCapped ==
  \A r \in Routes :
    Unknown(r) /\ rows[r].source = "heuristic"
      => rows[r].expires - rows[r].setAt <= UNKNOWN_MAX

\* The two tiers together are one durable board (module BenchBoard).
benchOnBoard ==
  [r \in Routes |-> IF ~isOnCooldown(r) THEN 0
                    ELSE IF rows[r] # NoRow THEN rows[r].expires ELSE cooldowns[r]]
Board == INSTANCE BenchBoard WITH bench <- benchOnBoard
BoardSpec == Board!Spec

\* A failure on one key never shortens the bench another key serves for the
\* same model, and touches none that lasts as long as the model's own: what a
\* provider stated keeps its expiry and its source.  A bench about to end may
\* be lengthened, and then is the guess noteModelFailure makes it
\* (fallback-loop.ts:108).
ModelBenchKeepsLonger ==
  [][\A r \in Routes : Failure(r) =>
       \A k \in Keys \ {r[2]} :
         LET q == <<r[1], k>> IN
         rows[q].expires > now /\ rows'[q] # rows[q]
           => /\ rows[q].expires < now + MODEL_BENCH
              /\ rows'[q].expires > rows[q].expires]_vars

\* The failure that completes a model's streak leaves it benched on every key
\* for the whole model bench (noteModelFailure: "on EVERY key that can route
\* to it so the model sinks out of routing").
ModelBenchSpansKeys ==
  [][\A r \in Routes :
       Failure(r) /\ rows' # rows /\ modelFailures[r[1]] # << >> /\ modelFailures'[r[1]] = << >>
       => \A k \in Keys : rows'[<<r[1], k>>].expires >= now + MODEL_BENCH]_vars

\* A probe that passed lifts no bench backed by what a provider stated, nor a
\* credit or tier bench (cooldown-probe.ts: "What it will never do").
ProbeSparesFacts ==
  [][ProbePassed => \A r \in ProbedRoutes :
       rows[r].expires > now => rows[r].source = "heuristic"]_vars
=============================================================================
