----------------------------- MODULE RateLedger -----------------------------
(***************************************************************************)
(* The quota ledger of one key: services/ratelimit.ts (in-flight leases,   *)
(* the usage table, the gates over both), services/key-budget.ts (monthly  *)
(* caps and reservations) and the walk of services/router.ts that reads    *)
(* the gates and takes the lease.                                          *)
(*                                                                         *)
(* Usage is written only once an attempt has been answered; until then the *)
(* lease stands for it.  Gates and lease run in one piece, so a Dispatch   *)
(* is one action; what interleaves is attempts, some of them outliving     *)
(* their lease, and the clock crossing a minute, a day, a month.           *)
(* Rate-limit times (MINUTE, DAY, MONTH) are in abstract units.            *)
(***************************************************************************)
EXTENDS Integers, FiniteSets, Functions

CONSTANTS
  Models,            \* the models of the key's platform
  NoLimit,           \* null (or 0, where the code says 0 is unlimited)
  rpm, rpd, tpm, tpd,            \* published limits, per model
  MinuteCap, DailyCap, TokenCap, \* caps of the whole provider account
  multiplier,        \* what the account is billed per token, per model
  Concurrency,       \* MAX_CONCURRENT_REQUESTS_PER_KEY
  MonthRequestCap, MonthTokenCap,
  MINUTE, DAY, MONTH, LEASE_MAX_AGE,
  Estimates,         \* token estimates of requests
  Overrun,           \* how far usage may exceed the estimate
  LongAttempts,      \* whether an attempt may outlive its lease
  MaxTime, MaxAttempts  \* bounds of the checked instance

Limits == Nat \cup {NoLimit}

ASSUME LimitAssumption ==
  /\ NoLimit \notin Nat
  /\ {rpm, rpd, tpm, tpd} \subseteq [Models -> Limits]
  /\ {MinuteCap, DailyCap, TokenCap, Concurrency, MonthRequestCap, MonthTokenCap}
       \subseteq Limits
  /\ multiplier \in [Models -> Nat \ {0}]

\* "Comfortably longer": two minutes.
ASSUME WindowAssumption ==
  /\ {MINUTE, DAY, MONTH} \subseteq Nat \ {0}
  /\ LEASE_MAX_AGE \in Nat /\ MINUTE <= LEASE_MAX_AGE /\ MINUTE <= DAY

ASSUME RequestAssumption ==
  /\ Estimates \subseteq Nat /\ Overrun \in Nat /\ LongAttempts \in BOOLEAN
  /\ MaxTime \in Nat /\ MaxAttempts \in Nat

VARIABLES
  now,
  issued,            \* nextLeaseId; as history it is not reset by a restart
  attempts,          \* dispatched and not released
  usage,             \* table rate_limit_usage; `sent` is history, not a column
  answered,          \* history: every row ever written
  lastPrune,         \* lastUsagePruneMs
  monthly            \* the key's latest row of table key_monthly_usage

vars == <<now, issued, attempts, usage, answered, lastPrune, monthly>>

Attempt ==
  [id : Nat, model : Models, tokens : Nat, at : Nat, served : BOOLEAN]
UsageRow == [id : Nat, model : Models, tokens : Nat, at : Nat, sent : Nat]

Tokens(S) == SumFunction([r \in S |-> r.tokens])
Midnight == now - (now % DAY)
Month == now \div MONTH

\* Every reader prunes first: a lease past its age does not count, although
\* its attempt may still be running.
Leases(M) == {a \in attempts : a.model \in M /\ now <= a.at + LEASE_MAX_AGE}
\* The rows counted by a query that starts at `start` (created_at_ms > start).
Since(M, start) == {u \in usage : u.model \in M /\ start < u.at}
Today(M) == Since(M, Midnight)
LastMinute(M) == Since(M, now - MINUTE)
LastDay(M) == Since(M, now - DAY)

Below(cap, used) == cap # NoLimit => used < cap
Fits(cap, used) == cap # NoLimit => used <= cap

-----------------------------------------------------------------------------
(* The gates, in the order the router asks them. *)

canUseProvider ==
  Below(DailyCap, Cardinality(Today(Models)) + Cardinality(Leases(Models)))

\* Mutant: the requests in flight are forgotten.
MinuteRowsOnly == Below(MinuteCap, Cardinality(LastMinute(Models)))
canUseProviderMinute ==
  Below(MinuteCap, Cardinality(LastMinute(Models)) + Cardinality(Leases(Models)))

\* Mutant: one too many.
ConcurrencyReached == Fits(Concurrency, Cardinality(Leases(Models)))
canUseKeyConcurrency == Below(Concurrency, Cardinality(Leases(Models)))

canMakeRequest(m) ==
  LET inFlight == Cardinality(Leases({m})) IN
  /\ Below(rpm[m], Cardinality(LastMinute({m})) + inFlight)
  /\ Below(rpd[m], Cardinality(LastDay({m})) + inFlight)

\* Mutant: the estimate of the request itself is left out.
TokensWithoutEstimate(m, estimate) ==
  LET inFlight == Tokens(Leases({m})) IN
  /\ Fits(tpm[m], Tokens(LastMinute({m})) + inFlight)
  /\ Fits(tpd[m], Tokens(LastDay({m})) + inFlight)
canUseTokens(m, estimate) ==
  LET promised == Tokens(Leases({m})) + estimate IN
  /\ Fits(tpm[m], Tokens(LastMinute({m})) + promised)
  /\ Fits(tpd[m], Tokens(LastDay({m})) + promised)

\* What the account is billed for the tokens of S, each at its model's rate.
Billed(S) == SumFunction([r \in S |-> r.tokens * multiplier[r.model]])

\* Mutant: in-flight tokens are not billed at all.
UnbilledFlight(m, estimate) == Fits(TokenCap, Billed(Today(Models)) + multiplier[m] * estimate)
\* The tokens in flight are billed at the candidate's rate, whatever their model.
canUseProviderTokens(m, estimate) ==
  Fits(TokenCap,
       Billed(Today(Models)) + multiplier[m] * (Tokens(Leases(Models)) + estimate))

NoMonth == [month |-> 0, requests |-> 0, tokens |-> 0]
getMonthlyUsage ==
  IF monthly.month = Month THEN monthly
  ELSE [month |-> Month, requests |-> 0, tokens |-> 0]

\* Mutant: only what has been settled counts, nothing is reserved.
SettledOnly(estimate) ==
  /\ Below(MonthRequestCap, getMonthlyUsage.requests)
  /\ Below(MonthTokenCap, getMonthlyUsage.tokens)
  /\ Fits(MonthTokenCap, getMonthlyUsage.tokens + estimate)
\* Reservations have no age limit: every unreleased attempt counts.
checkMonthlyBudget(estimate) ==
  LET requests == getMonthlyUsage.requests + Cardinality(attempts)
      tokens   == getMonthlyUsage.tokens + Tokens(attempts)
  IN  /\ Below(MonthRequestCap, requests)
      /\ Below(MonthTokenCap, tokens)
      /\ Fits(MonthTokenCap, tokens + estimate)

-----------------------------------------------------------------------------
(* Actions. *)

\* The router hands the key out: every gate passed, budget reserved, lease taken.
Dispatch(m, estimate) ==
  /\ issued <= MaxAttempts
  /\ canUseProvider
  /\ canUseProviderMinute
  /\ canUseKeyConcurrency
  /\ canMakeRequest(m)
  /\ canUseTokens(m, estimate)
  /\ canUseProviderTokens(m, estimate)
  /\ checkMonthlyBudget(estimate)
  /\ issued' = issued + 1
  /\ attempts' = attempts \cup
       {[id |-> issued, model |-> m, tokens |-> estimate, at |-> now, served |-> FALSE]}
  /\ UNCHANGED <<now, usage, answered, lastPrune, monthly>>

RowFor(a, actual) ==
  [id |-> a.id, model |-> a.model, tokens |-> actual, at |-> now, sent |-> a.at]

\* Mutant: rows are swept as soon as the shortest window has passed them.
SweepByMinute(rows) == {u \in rows : now - MINUTE < u.at}
\* The sweep of recordUsage, throttled to one a minute.
Sweep(rows) == {u \in rows : now - DAY < u.at}
Pruned(rows) == IF now >= lastPrune + MINUTE THEN Sweep(rows) ELSE rows

\* Mutant: the estimate is taken back from a ledger it was never added to.
SettleAgainstEstimate(a, actual) ==
  /\ a \in attempts /\ ~a.served
  /\ usage' = Pruned(usage \cup {RowFor(a, actual)})
  /\ answered' = answered \cup {RowFor(a, actual)}
  /\ lastPrune' = IF now >= lastPrune + MINUTE THEN now ELSE lastPrune
  /\ monthly' = [month    |-> Month,
                 requests |-> getMonthlyUsage.requests + 1,
                 tokens   |-> getMonthlyUsage.tokens + actual - a.tokens]
  /\ attempts' = (attempts \ {a}) \cup
       {[id |-> a.id, model |-> a.model, tokens |-> a.tokens, at |-> a.at, served |-> TRUE]}
  /\ UNCHANGED <<now, issued>>
\* The answer is complete: usage is recorded and the month settled before the
\* lease goes, so for a while the attempt counts twice.
Serve(a, actual) ==
  /\ a \in attempts /\ ~a.served
  /\ usage' = Pruned(usage \cup {RowFor(a, actual)})
  /\ answered' = answered \cup {RowFor(a, actual)}
  /\ lastPrune' = IF now >= lastPrune + MINUTE THEN now ELSE lastPrune
  /\ monthly' = [month    |-> Month,
                 requests |-> getMonthlyUsage.requests + 1,
                 tokens   |-> getMonthlyUsage.tokens + actual]
  /\ attempts' = (attempts \ {a}) \cup
       {[id |-> a.id, model |-> a.model, tokens |-> a.tokens, at |-> a.at, served |-> TRUE]}
  /\ UNCHANGED <<now, issued>>

\* The finally of the loop: lease and reservation go.
Release(a) ==
  /\ a \in attempts /\ a.served
  /\ attempts' = attempts \ {a}
  /\ UNCHANGED <<now, issued, usage, answered, lastPrune, monthly>>

\* The attempt failed or its client left: nothing is recorded.
Fail(a) ==
  /\ a \in attempts /\ ~a.served
  /\ attempts' = attempts \ {a}
  /\ UNCHANGED <<now, issued, usage, answered, lastPrune, monthly>>

Tick ==
  /\ now < MaxTime
  /\ LongAttempts \/ \A a \in attempts : now < a.at + LEASE_MAX_AGE
  /\ now' = now + 1
  /\ UNCHANGED <<issued, attempts, usage, answered, lastPrune, monthly>>

\* Leases, reservations and the sweep's clock die with the process.
Restart ==
  /\ attempts' = {}
  /\ lastPrune' = 0
  /\ UNCHANGED <<now, issued, usage, answered, monthly>>

Init ==
  /\ now = 1
  /\ issued = 1
  /\ attempts = {}
  /\ usage = {}
  /\ answered = {}
  /\ lastPrune = 0
  /\ monthly = NoMonth

Next ==
  \/ \E m \in Models, e \in Estimates : Dispatch(m, e)
  \/ \E a \in attempts : \/ \E actual \in 0 .. a.tokens + Overrun : Serve(a, actual)
                         \/ Release(a)
                         \/ Fail(a)
  \/ Tick
  \/ Restart

Spec == Init /\ [][Next]_vars

-----------------------------------------------------------------------------
(* Properties.  A limit is judged by when requests were SENT, as a provider  *)
(* does, not by when the ledger learnt of them.                              *)

\* The type invariant.
TypeOK ==
  /\ now \in Nat /\ issued \in Nat /\ lastPrune \in Nat
  /\ attempts \subseteq Attempt
  /\ usage \subseteq answered /\ answered \subseteq UsageRow
  /\ monthly \in [month : Nat, requests : Nat, tokens : Nat]

Open == {a \in attempts : ~a.served}
RowsSent(M, start) == {u \in answered : u.model \in M /\ start < u.sent}
OpenSent(M, start) == {a \in Open : a.model \in M /\ start < a.at}
Sent(M, start) == Cardinality(RowsSent(M, start)) + Cardinality(OpenSent(M, start))

\* Whatever is in flight and for however long, no window of a minute holds more
\* requests than the model's rpm, nor than the account's minute cap.
MinuteKept ==
  /\ \A m \in Models : Fits(rpm[m], Sent({m}, now - MINUTE))
  /\ Fits(MinuteCap, Sent(Models, now - MINUTE))

\* As long as attempts end within the age of their lease, no window of a day
\* holds more requests than the model's rpd, nor a UTC day (its first instant
\* aside, which the code's strict comparison leaves out) than the account's cap.
DayKept ==
  /\ \A m \in Models : Fits(rpd[m], Sent({m}, now - DAY))
  /\ Fits(DailyCap, Sent(Models, Midnight))

\* The requests in the air never exceed the configured concurrency of the key
\* (canUseKeyConcurrency: "False when this key already has its allowed number of
\* requests in the air").
ConcurrencyKept == Fits(Concurrency, Cardinality(Open))

\* Tokens sent in a minute or a day exceed a model's limit at most by what the
\* answers overran their estimates, however attempts interleave.
TokensKept ==
  \A m \in Models :
    LET used(start) == Tokens(RowsSent({m}, start)) + Tokens(OpenSent({m}, start))
        slack(start) == Overrun * Sent({m}, start)
    IN  /\ tpm[m] # NoLimit => used(now - MINUTE) <= tpm[m] + slack(now - MINUTE)
        /\ tpd[m] # NoLimit => used(now - DAY) <= tpd[m] + slack(now - DAY)

\* The account's token pool: what is billed for today's requests, in flight or
\* answered, exceeds the cap at most by what the answers overran their estimates.
PoolKept ==
  LET today == RowsSent(Models, Midnight) \cup OpenSent(Models, Midnight)
      slack == Overrun * SumFunction([r \in today |-> multiplier[r.model]])
  IN  TokenCap # NoLimit => Billed(today) <= TokenCap + slack

\* Settled requests and open reservations never exceed the month's cap, even for
\* attempts that outlive their lease or cross into the next month.
MonthRequestsKept ==
  Fits(MonthRequestCap, getMonthlyUsage.requests + Cardinality(Open))

\* The same for tokens, up to what the answers overran their estimates.
MonthTokensKept ==
  MonthTokenCap # NoLimit =>
    getMonthlyUsage.tokens + Tokens(Open)
      <= MonthTokenCap + Overrun * (getMonthlyUsage.requests + Cardinality(Open))
=============================================================================
