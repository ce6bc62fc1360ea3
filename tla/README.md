# FreeLLMAPI in TLA+

FreeLLMAPI puts one OpenAI-compatible endpoint in front of the free tiers of
many providers. A router picks a model and a key for every request, and when
the provider refuses, a loop fails over to the next candidate. These modules
describe the part of the server where that is decided: which routes are
benched and for how long, how the quota of a key is kept while many requests
are in the air, how one request walks its candidates until it has an answer,
what the server believes of its keys, who writes its table of models, and how a
finished answer is used again. TLC checks them on small instances; TLAPS proves
every property of the passing runs but the liveness for every value of the
constants.

A *route* is a model on a key of its platform. To *bench* a route is to put it
on cooldown. Source paths below are relative to `src/server/src/`.

    tlasany Cooldown.tla                                    parse
    tlc -workers 2 -config CooldownKeys.cfg CooldownMC      model-check
    tlapm CooldownProofs.tla                                prove

## 1. Inventory

The server is one Node process: one event loop, SQLite called synchronously.
A handler runs alone between two `await`s, so what interleaves is awaits:
attempts in flight, probes, health checks, client hang-ups, timers. What is in
memory dies with the process, what is in SQLite survives.

| part | state | operations | what makes it hard, what makes it right |
|---|---|---|---|
| cooldown store (`services/ratelimit.ts`) | memory map of expiries, table `rate_limit_cooldowns`, ladder and null-limit histories | `setCooldown`, `isOnCooldown`, the escalation ladder, clears, the boot sweep | two tiers that must stay one board; a guess about a quota must not climb like a fact |
| failure verdicts (`lib/fallback-loop.ts`) | failure window per model, streaks per route | `recordRetryableFailure`, `recordAuthFailure`, `noteModelFailure`, `benchKeyAcrossPlatform`, `recordUpstreamSuccess` | several writers bench one route in one handler: the last one wins |
| cooldown probe (`services/cooldown-probe.ts`) | pacing per key, one pass at a time | a pass lists ripe guesses, awaits one probe per key, clears on success | the list is read before the await and used after it |
| quota ledger (`services/ratelimit.ts`, `services/key-budget.ts`) | in-flight leases, table `rate_limit_usage`, monthly counters and reservations | the gates of `services/router.ts`, `recordUsage`, settle, release, sweep | usage is written after the answer, gates are read before: leases must close the gap |
| fallback loop and streaming dispatch (`lib/fallback-loop.ts`, `routes/proxy.ts`) | per request: skip sets, attempts, hedge controller, client flag, what is on the wire | route, check the budget, dispatch, classify, fail over or render | hang-up, hedge timer and provider race at every await; one answer, no leaked lease, no blame for the innocent |
| router (`services/router.ts`, `services/scoring.ts`) | weights, bandit statistics, degraded mode | `routeRequest` | ordering by floats and random draws; any choice among usable routes in the models |
| key health (`services/health.ts`) | status and `enabled` of a key, failure and transport counters | periodic pass, manual check, revalidation after a 401 | verdicts that outlive the secret they were about, counters shared by overlapping checks |
| degraded mode (`services/degradation.ts`) | mode, times it would enter or leave | evaluation after a pass | hysteresis is judged only when evaluated |
| key management (`routes/keys.ts`) | table `api_keys` | add, edit, toggle, delete | an edit meets checks and requests in flight |
| retirement, tool capability (`services/model-retirement.ts`, `lib/tool-capability.ts`) | evidence per model, tombstones | observe, confirm, retire, reinstate | evidence must come from distinct requests; a retirement must outlive a restart |
| idempotency (`services/idempotency.ts`) | claims by key hash | lookup before, store after the answer, sweep | overlapping requests with one key; a retry must not be paid twice |
| response cache (`services/cache.ts`) | two memory stores, table, queue of writes, hits to write | lookup, store, evict, flush, switch, load on boot | one cap for two stores; the table lags behind memory |
| catalog sync (`services/catalog-sync.ts`) | applied version, cached document, model tables | download, verify, apply, reapply on boot | overlapping syncs; the tables are one transaction, the settings are not in it |
| model discovery (`services/builtin-model-discovery.ts`) | rows of unmanaged platforms | list the provider's models, add them | whether the platform is open is asked before and after the await |
| budget alerts (`services/budget-alerts.ts`) | thresholds fired per key and month | evaluate | fires once per threshold |

The rest (dialects, adapters, media, dashboard, gateway authentication,
migrations, backups, updater, desktop shell, command line, web client) is listed
with its reason in `PROJECT.json`, "components".

How the parts meet in one request:

    routes/proxy.ts -> runFallbackLoop -> routeRequest      reads benches and gates,
                                                            takes lease and reservation
                        dispatch (awaits the provider)      hang-up, hedge, probe, other
                                                            requests interleave here
                        recordUpstreamSuccess               usage, month, streaks, cache
                     or recordRetryableFailure              benches, windows, skip sets
                        finally                             lease and reservation released

The hazards (what a unit test hardly reaches, each at its line, with the
properties that cover it) are in `PROJECT.json`, "hazards".

## 2. Modules

| module | models | proved in |
|---|---|---|
| `BenchBoard` | abstract: one durable board of benches, what the store promises the router | |
| `Cooldown` | the two-tier store, every writer of benches, the probe pass, clears, restart | `CooldownProofs` |
| `RateLedger` | leases, usage table, all gates, monthly budget of one key | `RateLedgerProofs` |
| `Exhaustion` | the two ladders that choose the terminal status | |
| `FallbackLoop` | the loop and the streaming dispatch | `FallbackLoopProofs` |
| `DegradedMode` | the hysteresis of the degraded mode | with `KeyHealth` |
| `KeyHealth` | keys, their checks, passes and edits; extends `DegradedMode` | `KeyHealthProofs` |
| `ResponseReuse` | the response cache and the claims of idempotency keys, as one request meets both | `ResponseReuseProofs` |
| `ModelCatalog` | the models of one platform: syncs, discovery, retirements, operator, boot | `ModelCatalogProofs` |
| `FoldLemmas` | nothing of the code: facts about sums over finite sets, for the two proof modules that cite them | itself |
| `*MC` | definitions for the instances of TLC | |

They share state in the code and are checked apart: `FallbackLoop` keeps the
bench table as a set of routes that other requests may shrink, `Cooldown` has
its durations; `RateLedger` has the gates, `FallbackLoop` the leases. A route
that fails in `FallbackLoop` is a `Failure` of `Cooldown` and a `Fail` of
`RateLedger`; with a 401 it is a `Reject` of `KeyHealth`, with a model that is
gone it may be a `retireCatalogModelUpstream` of `ModelCatalog`, and when it
answers it is a `Serve` of `KeyHealth` and an `Answer` of `ResponseReuse`.

### Cooldown

State to code: `cooldowns` is the memory map and `rows` the table;
`cooldownHits`, `nullLimitHits`, `modelFailures`, `truncations`, `empties` are
the histories of the same names; `inflight` counts attempts; `keyState` and
`pass` are the prober's. One action per verdict: `FailLimited` (429, 5xx,
timeouts, 400), `FailTruncated`, `FailEmpty`, `FailInBandLate`, `FailDaily`,
`FailCredit`, `FailTier`, `FailAuth`, `FailSpared`, `Succeed`. Each is the whole
handler, the model-wide bench and the late second bench included, and
`setCooldowns` takes the benches of a handler in the order it sets them.
The probe pass is cut at its awaits only (`Yielded`).

Abstracted: times are units that keep the order of the source's durations;
SQLite succeeds; the daily counters are a choice of the environment
(`DailyLimited`). Left out: the account-wide bench of Cloudflare and benches set
by media, search, decisions and fusion, which use the same `setCooldown`.

### RateLedger

`attempts` are the leases and reservations of one key, `usage` the table,
`monthly` its latest month row; `answered` and `sent` are history the properties
judge by. `Dispatch` is the router's walk with every gate, then the lease: the
code runs it in one piece. `Serve` records usage (with the throttled sweep) and
settles the month before `Release`, so for a while an attempt counts twice, as
in the code. A lease stops counting after `LEASE_MAX_AGE` although its attempt
may go on; a reservation does not.

The limits are judged by when requests were *sent*, as a provider judges them,
and count what was answered or is in flight; failed attempts are not recorded by
the code and not judged. The clock does not go backwards, attempts in flight at
a restart are forgotten, multipliers are integers. Cloudflare's neuron cap and
the headroom snapshot are left out.

### FallbackLoop and Exhaustion

`running` is the request whose code is on the stack; `pc` goes from `idle` over
`top` (loop top) and `chosen` (routed and leased, budget not yet checked) to
`waiting` (dispatch awaited) and back or to `over`. `signal` is the reason the
composed abort signal carries, `reply` an error status whose body is still being
read, `wire` what of the response has left. How an attempt ends is
`Complete`, `TurnFails`, `ErrorReply`/`ErrorBodyRead`, `ClientAbort`,
`PumpBreaks` (the pump leaves its loop before the abort reaches it),
`HedgeAbort`; `FailOver` is the loop's catch with `BookFailure` (benches,
streaks, output caps) and `RulesOut` (skip sets). `Exhaustion` has
`exhaustedRetryError` and `routingExhaustionBody`.

Abstracted: benches have no durations, the router is any choice, the window of
model failures fills when it likes (`Cooldown` has it exactly), a late second
bench adds nothing. Left out: custom relays' exemption from the not-found
platform limit, Cloudflare's account bench, tool capability, retirement signals,
penalties, sticky sessions, the pinned-tool retry inside an attempt and the
non-streaming dispatch. The instances have one request; others appear only as
benches that end.

### KeyHealth and DegradedMode

`status`, `enabled` and `checkedAge` are columns of `api_keys`; the counters and
the two marks (`rateLimitedFor`, `revalidatedFor`) are in memory and go with a
`Restart`. A check is cut at its await: `BeginCheck` reads, `EndCheck` writes one
of four verdicts on the row as it is by then. Checks are begun by a person
(`CheckOne`), by a 401 (`Reject`) and by the workers of the pass (`PassChecks`);
`Due` is the filter of the pass with its two overrides. `EndPass` evaluates the
degraded mode on the providers it finds. Ages and counters stop at the threshold
they are compared with, so the state space is finite without a bound on time.

Abstracted: a provider's policy (polled, not to be polled, not to be probed) is
chosen once; at most one check of a key by the pass and one by others is in
flight; a check whose credential cannot be decrypted is `Unreachable`. Left out:
what else runs after the host slept (`WakePass` is its forced pass).

### ResponseReuse

`store` and `streamStore` are the two maps in order of use, `rows` the table,
`pending` the queue written on the next turn of the event loop, `dirtyHits` what
the timer of hits will write. A request that arrives is `CacheHit`,
`ReplayOrConflict` or `GoUpstream`, with the drop of an expired entry (`Miss`)
part of the latter two; a request at a provider ends as `Answer` (claim, then
cache, evictions included) or `EndWithout`. `Restart` loads the table.

Abstracted: the cache key and the fingerprint are the content itself (no
collisions); times are ages in ticks, and a tick is long against the queue and
the timer, so both are empty when it comes; SQLite succeeds. `loaded` marks
entries brought back by a restart, `answeredFor`, `flushed` and `undisturbed` are
history the properties judge by. A stream too large to keep ends as
`EndWithout`. Left out: which requests are cacheable at all (temperature, tools),
and what the counters of hits add up to.

### ModelCatalog

`row`, `chain` and `tombstone` are the tables of one built-in platform,
`version` and `json` the settings that remember the catalog. A sync is cut at its
awaits: begun (`Poll`, `ForcedSync`) with the version it read, `Answered` with
the document, then `Apply`. `CrashInApply` is a crash between the transaction and
the last of its settings; `reapplyCachedCatalog` is the boot. What catalogs say
(`content`) is chosen at the start, so every sequence of catalogs is tried.

Abstracted: a model is a row with its source and switch; tiers, prices,
capabilities and the other platforms are left out; signatures are right; a
retirement is confirmed when it likes (how many signals confirm one is left out).

## 3. Runs

| run | shows | bounds, and why they are enough |
|---|---|---|
| `cooldown_keys` | types; memory never knows a bench the table lacks (`MemoryShadowsDisk`); the store implements `BenchBoard`; a model-wide bench reaches every key (`ModelBenchSpansKeys`), never shortens another key's bench, and leaves one that lasts as long as it is (`ModelBenchKeepsLonger`) | one model, two keys, one attempt per route, three instants, thresholds of two: the second key is what a model-wide bench can hurt, and a stated retry of 4 outlasts a model bench of 3 while fresh and may be lengthened when about to end; no bench gets ripe here, so that the board is checked without probes; `ImplementsBoard` proves it with them |
| `cooldown_ladder` | a guess never benches past `UNKNOWN_MAX` (`GuessCapped`) | one route without published limits, three overlapping attempts, a ladder of three steps of which the upper two exceed the cap, probes on |
| `ledger_months` | `MinuteKept`, `MonthRequestsKept`, `MonthTokensKept` for attempts of any length | four dispatches on two models, caps of 1 to 4, time passes a lease's age and the end of a month; answers overrun their estimate by one |
| `ledger_days` | `DayKept`, `ConcurrencyKept`, `TokensKept`, `PoolKept` for attempts within the age of their lease | five dispatches, one midnight, sweeps, one model under request and the other under token limits |
| `loop_failover` | one answer (`OneAnswer`), leases match attempts (`LeasesMatchAttempts`), first hop always allowed (`OneHopIsAlwaysAllowed`), the hedge cuts silence only (`CommittedIsNotCut`), nobody retries for a client that left (`NoRetryForNobody`), a hang-up blames nobody (`HangupBlamesNobody`), silence ends (`StallEnds`) | three routes on three platforms, one slower than the base budget; a provider that limits, times out, garbles a turn or fails for good; hang-up, hedge and expiring benches at any await; times up to the largest budget |
| `loop_grid` | no route is tried again as it failed (`NoBlindRetry`), every request ends (`EveryRequestEnds`) | two models, two keys, one platform, so that ruling out a route, a model, a key and the platform all differ; seven failures, two output ceilings, budget off, breaker at three |
| `key_health` | a healthy key carries no strike (`HealthyHasNoStrikes`); only a rejection calls a key invalid, only a successful check or the operator takes that back (`InvalidStands`); what switches a key off by itself is a rejection in that step, one too many (`OutageDisablesNothing`); the mode does not flap (`NoFlapping`); a key whose provider says yes comes back by itself (`SelfHeals`); the mode lifts (`ModeLifts`) | one key of every policy beside a provider that always serves, two strikes and two outages, one tick for every pace: two checks of the key overlap with a request, an edit and a restart |
| `response_reuse` | one cap over both maps (`CombinedCap`), evictions by last use (`ColdestGoesFirst`), a flush nothing undoes (`FlushHolds`), a table that mirrors memory once the queue is drained (`TableMirrorsMemory`), retries that never reach a provider again (`RetryIsFree`) | two contents, JSON and streams, room for two entries, one idempotency key, two requests in flight, two queued writes: two entries in one map and one in the other overflow the cap |
| `model_catalog` | what the operator deleted stays deleted (`DeletedStaysDeleted`), a restart lifts no retirement (`RetirementOutlivesRestart`), the tables end up with the newest catalog (`Converges`) | one model, three catalogs of every content, the first too old for the binary, the timer's sync and an overlapping forced one |

Every property has a mutant in `PROJECT.json`: a plausible bug in one mapped
definition that breaks the property under the configuration of its run.

Deadlock is checked for all but the loop runs, which end when the request is
over; elsewhere the process can always restart.

### Disagreements

Three runs expect a violation; each contradicts a sentence of the repository.

- `cooldown_probe_facts`: a probe started for a guess frees the route even if,
  while it was awaited, the bench was replaced by a stated retry time or an
  empty balance (`services/cooldown-probe.ts:162` against `:12`).
- `loop_shared_hedge`: the one abort controller of a request stays aborted when
  the loop survives its firing, and cancels the next endpoint although that has
  budget of its own left (`routes/proxy.ts:2506` against
  `lib/fallback-loop.ts:1459`).
- `loop_cut_turn`: a pump that leaves its loop for a hang-up after some text
  books, and caches, the half turn as a success (`routes/proxy.ts:2703` against
  `:3020`).

Met while modelling, and kept out of the properties rather than covered by a run:

- In-flight tokens are billed at the rate of the model being considered, so with
  mixed multipliers parallel requests drain more than the account pool
  (`services/ratelimit.ts:793` against `:152`); `PoolKept` runs with equal ones.
- A lease ages out after two minutes while its attempt may run on, so the
  concurrency of a key can be exceeded (`services/ratelimit.ts:81`);
  `ConcurrencyKept` and `DayKept` are stated for attempts that end in time.
- rpd and tpd are counted over a rolling day, where
  `docs/en/architecture/02-quota-and-cooldown-engine.md:24` says they reset at
  the UTC day; `DayKept` states what the code does.
- Under an operator's ceiling, `benchKeyAcrossPlatform` replaces a longer bench
  a provider stated for another model of the key (`lib/fallback-loop.ts:153`).
- The bench for an error that comes late in a stream is set last and may shorten
  the model-wide bench set just before (`lib/fallback-loop.ts:1622`);
  `ModelBenchSpansKeys` runs with `LateInBand` off for that reason.
- A model-wide bench replaces a shorter one another key serves, whatever set it:
  a stated retry, a credit or a tier bench about to end becomes a longer guess,
  and a probe may then free the route before the moment the provider stated
  (`lib/fallback-loop.ts:112` against `services/cooldown-probe.ts:12`);
  `ModelBenchKeepsLonger` allows the lengthening.
- Half a held-back turn (an inline tool call, a JSON answer, one word that reads
  like the verdict of a relay's filter) is judged after a hang-up and benches its
  route (`routes/proxy.ts:2922`); `HangupBlamesNobody` names the exception
  `HeldBack`.
- Three answers of the terminal ladders say more than is known: 404 "gone
  everywhere" although a candidate was only cancelled by the hedge
  (`lib/fallback-loop.ts:1587`), 429 "all rate-limited" with candidates untried
  (`:1082`), and an unconfigured key among the diagnostics turning a cooldown
  into a 503 (`:1160`).
- A check that was asked about an old credential writes its verdict on the key
  the operator has edited meanwhile (`services/health.ts:312` against `:453`);
  the edit also leaves the rejection and transport counters and the mark of a 429
  as they were (`routes/keys.ts:1921`), so that a single rejection may switch the
  new credential off. While the key stays on, the next check repairs it: `SelfHeals`.
- A key of a provider that must not be probed, put to `error` because its
  credential could not be read once, is never checked again and stays out of
  rotation until the operator acts; `SelfHeals` is stated for polled keys.
- An answer from the cache is served before the claim is looked up, so an
  Idempotency-Key used again with other content gets 200 where
  `services/idempotency.ts:9` says 409 (`routes/proxy.ts:2281` before `:2317`).
  Overlapping requests with one key and different contents replace each other's
  claim, and the retry of the first is then refused.
- After a restart the cache is loaded in order of creation, not of use
  (`services/cache.ts:590` against `:319`); `ColdestGoesFirst` exempts entries no
  request has used since. A crash before the queue is drained brings an evicted
  answer back, and evictions while the switch is off leave their rows;
  `TableMirrorsMemory` is stated between such events.
- The reinstatement of a retired model switches its chain entry on although the
  operator had switched it off (`services/model-state.ts:248` against
  `services/catalog-sync.ts:419`). A model a catalog has switched off is not
  switched on again by a later one (`:670`).
- After a crash between the settings of an apply, the boot replays the older
  document as news, and no poll, not even a forced one, applies the newer until
  another version is published (`services/catalog-sync.ts:1111`); the properties
  of `ModelCatalog` name that state (`torn`).
- `services/catalog-sync.ts:1223` says migrations re-assert the bundled baseline
  on every boot; `db/migrate/runner.ts:160` runs pending ones only.

## 4. Fairness

`Cooldown`, `RateLedger` and `ResponseReuse` have safety properties only. `FallbackLoop` assumes
weak fairness of what the process does by itself: code on the stack runs on
(`Step`), an aborted fetch rejects and a body read ends (`Settle`), a timer that
is due fires (`HedgeFires`), time passes (`Tick`). Nothing is asked of clients or
providers: `StallEnds` holds although the provider never says a word.
`EveryRequestEnds` needs the adapters' own deadlines too (`TimedSpec`), because
with the budget off nothing else ends a silent attempt.

`KeyHealth` assumes that the scheduler arms the next pass when one has ended, that
its workers take every key, that a check is answered or cut by its deadline, and
that time passes; nothing of requests or the operator. `SelfHeals` and `ModeLifts`
carry their own premises: the provider says yes from some moment on, enough
providers serve from some moment on.

`ModelCatalog` assumes that a stopped process is started again and that a sync
under way ends (weak), and that crashes and the service do not for ever keep the
timer's sync from beginning, being answered and being applied (strong, because a
crash or a forced sync disables each of these steps in between).

## 5. Proofs

All theorems hold for every value of the constants allowed by the named
assumptions of the module. Where a theorem needs more, its statement says so:

| assumed by | condition | why |
|---|---|---|
| `DailyLimits`, `ConcurrencyLimit`, `TokenLimits`, `PoolLimit` | `~LongAttempts` | a lease ages out after two minutes, and an attempt that runs on is seen by no gate (section 3). The minute limits and the caps of the month need it not: a lease is older than a minute before it stops to count, and a reservation never stops. |
| `PoolLimit` | `OneRate` | tokens in flight are billed at the rate of the model under consideration, so mixed rates do break the pool (section 3). Every platform but one bills all its models at a rate of one. |
| `ModelsSinkEverywhere` | `~LateInBand` | the bench for a late error may shorten the model-wide one (section 3) |

- `CooldownProofs`. `TypeOK /\ MemoryShadowsDisk` is inductive: every writer goes
  through `setCooldowns` or `Forget`, which change both tiers, and the lemmas
  `SetCooldownsStep`, `ForgetStep` and `AskStep` say so once. From it follow
  `TypeCorrect`, `TiersAgree` and `ImplementsBoard`: given that the memory never
  knows more than the table, the board a reader sees is a function of the table,
  and each step is a step of `BenchBoard` or leaves it alone. `GuessesAreCapped`
  adds that every writer keeps its guesses to the cap (`Capped`) if the short
  benches do (`ShortBenchAssumption`) and no daily counter speaks for a model
  without limits. `LongerBenchesStand` holds because another key's row is written by
  the model-wide bench only (`OtherKeyRows`), which passes over the keys benched as
  long already (`Outlasts`); `ModelsSinkEverywhere` needs that no
  late second bench follows (`~LateInBand`).
- `RateLedgerProofs`. The limits are not inductive alone: `Books` adds that
  everything counted is finite, that nothing is recorded before it was sent or
  later than now (`Timely`), that the sweep keeps every row a window of a day
  still asks for (`Remembered`), and that attempts are no older than a lease
  where they must not be (`Short`). `SentSeen` then says that whatever was sent
  in a window is seen by its gate, as a lease or as a row, and `LimitStep`
  carries a limit over a step. `MinuteLimits` and `MonthLimit` hold for attempts
  of any length, `DailyLimits` and `ConcurrencyLimit` for attempts that end
  within the age of their lease.

  Token limits hold up to what answers overran their estimates, and that is not
  inductive even so: the allowance counts open attempts, whose overrun is still to
  come, so a state at the edge of the bound goes past it when one of them is
  answered. Inductive is the bound on what was *promised* (`Committed`): an open
  attempt counts its estimate, an answered one its tokens less `Overrun`. Its
  weights are a parameter, so one lemma serves the minute, the day and the pool,
  with tokens or bills for weights: a step raises it by what a dispatch promises
  and by nothing else (`CommittedGrows`), and a gate sees all of it
  (`CommittedSeen`).
  `MinutePromises`, `DayPromises` and `PoolPromises` are the invariants, and
  `MinuteTokenLimit` is the half of `TokenLimits` that holds for attempts of any
  length. The month counts per calendar month and its reservations for ever, so
  `MonthPromises` bounds the reserved tokens by the cap on their own: that is
  what is left when a month ends.
- `FoldLemmas`. No induction theorem of the library can be instantiated (their
  parameter is an operator), so a sum is shown to count units: an element of
  weight *n* has *n* of them (`SumIsCount`, by a smallest counterexample among
  the finite subsets, for which well-foundedness is a first-order fact). That sums
  add over a union, grow with their summands and scale are then facts about
  cardinalities.
- `FallbackLoopProofs`. Requests meet only in the lease table and in the learned
  output ceilings, so the invariant is one formula per request (`RequestInv`,
  nine named parts) plus `LeasesMatchAttempts`: `Focus` reduces a step to the
  request that takes it, `Frame` carries the others over, because ceilings only
  fall. `NoBlindRetry` rests on `Ruled` (what failed is ruled out, or its model
  has a lower ceiling since) and `Fresh` (the candidate is not ruled out);
  `CommittedIsNotCut` on `Timer` (an armed hedge means silence);
  `OneHopIsAlwaysAllowed` on the hedge being armed only after two failures.
  `OwnStep` and `OwnPlace` say who moves a request, which gives the action
  properties `NoRetryForNobody` and `HangupBlamesNobody`. The theorems hold for
  any number of concurrent requests, where the runs have one. That a ladder of
  `Exhaustion` yields one of its rungs (`FirstRungType`) is proved by the
  well-founded order of `Nat`.

- `KeyHealthProofs`. `TypeOK`, `HealthyHasNoStrikes` and `StreaksDispute` are
  inductive: the streak that may change the mode is never older than the time
  since an evaluation last agreed with the mode, because both age together and an
  agreement resets both. `NoFlapping` follows; `InvalidStands` and
  `OutageDisablesNothing` follow action by action from the types, a verdict's own
  share being `VerdictIsLocal`.
- `ResponseReuseProofs`. `RetryIsFree` rests on `ClaimCovers`: the claim of a key
  is never older than any answer given under it that the window still covers, for
  an answer of any content resets it and both age together; so a sweep cannot take
  it and a lookup cannot miss it. `FlushHolds` needs that no hit waits for the timer
  either (`NothingLeft`), and that a load of an empty table loads nothing.

  `CombinedCap` is inductive with the types, which include that no map holds a
  content twice (`Distinct`): an insert replaces or adds one entry
  (`StoredSound`), so the maps are over the cap by one at most, and the eviction
  takes the head of one map (`EnforceKeeps`). `ColdestGoesFirst` needs the maps to
  be in order of use, as far as entries were used in this process (`InOrder`),
  through hits, ticks and loads: then the head of a map is the entry of that map
  used least recently, and comparing the two heads compares all (`EvictedColdest`).

  `TableMirrorsMemory` speaks of a drained queue only. What every step keeps is
  `Mirrored`: *were the queue drained now*, the table would mirror memory. The
  drain is a fold over the queue, so `DrainIsDue` first gives it a closed form:
  what becomes of a content is decided by the last write that concerns it
  (`LastApplied`) and by the hits after that. An eviction is queued before the
  insert that caused it; the two commute (`WritesCommute`), because what makes room
  is never the answer just stored (`SparesTheNew`). From it follow that a write queued
  last is applied last (`DrainLonger`), that the sweep may come before the drain
  (`SweptDrain`), and that finitely many contents have a row at any time
  (`FinitelyLive`), which a load needs to put them in order.
- `ModelCatalogProofs`. `DeletedStaysDeleted` is inductive with the types and with
  `OwnRowsUnmarked` (a row of the operator has no tombstone); `ApplyOne` says what an
  apply makes of one model, `OneModel` carries a change of one model to the table.
  For `RetirementOutlivesRestart` the tables and the settings must know of each
  other: unless a crash tore them, the version is the document's, and a retired
  model without a row is one the document does not list (`SettingsAgree`), so the
  replay is no news and cannot bring it back.

Model-checked only: the five liveness properties, `StallEnds`,
`EveryRequestEnds`, `SelfHeals`, `ModeLifts` and `Converges`. They rest on
fairness, whose meaning is ENABLED, and no installed prover reasons about it.
Every other property of a passing run is stated by a theorem.

## 6. Not modelled, and plan

Left out for good: float scoring and random draws (any choice in the models),
wire formats, provider adapters and HTTP transport (outcomes chosen by the
environment), migrations, files, child processes, and the user interfaces.
`PROJECT.json`, "components", gives the reason part by part.

What remains, in this order:

1. Evidence for retirement and for tool capability (`services/model-retirement.ts`,
   `lib/tool-capability.ts`): distinct requests, decay, what a restart forgets;
   today a choice of `ModelCatalog`.
2. The other walks over candidates (`services/media.ts`, embeddings, rerank,
   decisions): each is a loop over routes that takes no hedge and renders once, and
   is to implement an abstract walk that `FallbackLoop` implements too.
3. Fusion: a panel of completions under one deadline.
4. Budget alerts (a cap raised in mid-month fires no threshold again,
   `services/budget-alerts.ts:105`).
5. Theorems: that the pool holds for mixed rates up to the difference between the
   rates; that each sync and each boot of `ModelCatalog` implements an abstract
   registry of what the service and the operator last said.
