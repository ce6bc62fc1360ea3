---------------------------- MODULE FallbackLoop ----------------------------
(***************************************************************************)
(* lib/fallback-loop.ts with the streaming dispatch of routes/proxy.ts:    *)
(* one request walks the candidates until one serves it.                   *)
(*                                                                         *)
(* The process is one event loop.  Between two awaits a request runs alone *)
(* (`running`); while its attempt is in flight the other requests, the     *)
(* client's hang-up, the hedge timer and the provider interleave with it.  *)
(* Benches are the shared cooldown table without durations (Cooldown), the *)
(* router is any choice among the usable routes, times are abstract.       *)
(***************************************************************************)
EXTENDS Exhaustion, FiniteSets

CONSTANTS
  Requests, None,
  Routes, ModelOf, KeyOf, PlatformOf,  \* a route is a model with a key
  Barrier,             \* why routing can never use a route, or "none"
  UpstreamFailures,    \* the kinds of failure the providers may answer with
  MaxRetries,          \* FALLBACK_MAX_RETRIES
  BaseBudget, EndpointBudget,  \* retry time budget: base, and per platform
  BreakerLimit,        \* max_consecutive_upstream_fails, 0 = off
  EmptyStreakLimit,    \* EMPTY_COMPLETION_STREAK_LIMIT
  NotFoundLimit,       \* MODEL_NOT_FOUND_PLATFORM_LIMIT
  Caps, NoCap,         \* output ceilings a provider may name; none learned
  LastArrival, MaxTime \* bounds of the checked instance

ASSUME RouteAssumption ==
  /\ None \notin Requests \cup Routes
  /\ ModelOf \in [Routes -> Nat] /\ KeyOf \in [Routes -> Nat]
  /\ PlatformOf \in [Routes -> DOMAIN EndpointBudget]
  /\ Barrier \in [Routes -> {"none"} \cup RoutingReasons]
  /\ UpstreamFailures \subseteq Failures

\* getEndpointTimeBudgetMs widens the base, and leaves a disabled one alone.
ASSUME BudgetAssumption ==
  /\ BaseBudget \in Nat
  /\ \A p \in DOMAIN EndpointBudget :
       /\ EndpointBudget[p] \in Nat
       /\ IF BaseBudget = 0 THEN EndpointBudget[p] = 0
          ELSE EndpointBudget[p] \in BaseBudget..(3 * BaseBudget)

ASSUME LimitAssumption ==
  /\ {MaxRetries, EmptyStreakLimit, NotFoundLimit} \subseteq Nat \ {0}
  /\ {BreakerLimit, LastArrival, MaxTime} \subseteq Nat
  /\ Caps \subseteq Nat /\ NoCap \in Nat /\ \A c \in Caps : c < NoCap

VARIABLES
  now,
  running,     \* the request whose code is on the stack, or None
  pc,          \* where each request is in its loop
  began,       \* startedAt
  route,       \* the candidate taken
  sent,        \* its attempt: attemptStartedAt, output ceiling applied
  trail,       \* attempts: what failed so far
  ruledOut,    \* skipKeys, skipModels and skipPlatforms, as routes
  gone,        \* clientGone
  hedgeAborted,\* the request's one hedge controller was aborted
  armed,       \* hedgeTimer
  signal,      \* reason of the composed signal of the attempt in flight
  reply,       \* error status received, its body not yet read
  wire,        \* what of the response has left: headers only, or content
  answers,     \* history: what was rendered to the client
  leases,      \* in-flight leases of the key ledger
  benched,     \* routes on cooldown
  streak,      \* emptyCompletionStreaks
  outputCap,   \* learned output ceilings, per model
  booked       \* history: what recordUpstreamSuccess and the cache were given

loopVars   == <<running, pc, began, route, sent, leases>>
stateVars  == <<trail, ruledOut>>
socketVars == <<gone, hedgeAborted, armed, signal, reply>>
replyVars  == <<wire, answers, booked>>
bookVars   == <<benched, streak, outputCap>>
vars == <<now, loopVars, stateVars, socketVars, replyVars, bookVars>>

Models == {ModelOf[r] : r \in Routes}
OfModel(r) == {x \in Routes : ModelOf[x] = ModelOf[r]}
OfPlatform(r) == {x \in Routes : PlatformOf[x] = PlatformOf[r]}
OfKey(r) == {x \in OfPlatform(r) : KeyOf[x] = KeyOf[r]}

Entry == [route : Routes, failure : Failures, exempt : BOOLEAN, cap : Nat]
FailureAt(t) == [i \in DOMAIN t |-> t[i].failure]
Elapsed(q) == now - began[q]

\* The budget is the base for the first attempt and the first retry, then it
\* is taken anew for the endpoint at hand.
Budget(q) == IF Len(trail[q]) > 1 THEN EndpointBudget[PlatformOf[route[q]]]
             ELSE BaseBudget
\* Mutant: the first retry is subject to the budget too.
BudgetIsSpentEarly(q) == Len(trail[q]) > 0 /\ Budget(q) > 0 /\ Elapsed(q) >= Budget(q)
BudgetIsSpent(q) == Len(trail[q]) > 1 /\ Budget(q) > 0 /\ Elapsed(q) >= Budget(q)

Candidates(q) == {r \in Routes : Barrier[r] = "none" /\ r \notin benched \cup ruledOut[q]}

\* The router's disposition, one line per model.
RoutingLines ==
  {{IF Barrier[x] = "none" THEN "cooldown" ELSE Barrier[x] : x \in OfModel(r)} : r \in Routes}
-----------------------------------------------------------------------------
Init ==
  /\ now = 0 /\ running = None
  /\ pc = [q \in Requests |-> "idle"]
  /\ began = [q \in Requests |-> 0]
  /\ route = [q \in Requests |-> None]
  /\ sent = [q \in Requests |-> [at |-> 0, cap |-> NoCap]]
  /\ trail = [q \in Requests |-> <<>>]
  /\ ruledOut = [q \in Requests |-> {}]
  /\ gone = [q \in Requests |-> FALSE]
  /\ hedgeAborted = [q \in Requests |-> FALSE]
  /\ armed = [q \in Requests |-> FALSE]
  /\ signal = [q \in Requests |-> "none"]
  /\ reply = [q \in Requests |-> "none"]
  /\ wire = [q \in Requests |-> "nothing"]
  /\ answers = [q \in Requests |-> <<>>]
  /\ leases = {} /\ benched = {}
  /\ streak = [r \in Routes |-> 0]
  /\ outputCap = [m \in Models |-> NoCap]
  /\ booked = [q \in Requests |-> "nothing"]

\* The finally of an attempt: no hedge timer and no lease outlives it.
LeaveAttempt(q) ==
  /\ route' = [route EXCEPT ![q] = None]
  /\ leases' = {l \in leases : l[1] # q}
  /\ armed' = [armed EXCEPT ![q] = FALSE]
  /\ signal' = [signal EXCEPT ![q] = "none"]
  /\ reply' = [reply EXCEPT ![q] = "none"]
  /\ UNCHANGED <<began, sent, gone, hedgeAborted>>

Return(q) ==
  /\ pc' = [pc EXCEPT ![q] = "over"] /\ running' = None
  /\ LeaveAttempt(q)

Render(q, body, timedOut) ==
  answers' = [answers EXCEPT ![q] = Append(@,
    [status |-> body.status, code |-> body.code,
     retryAt |-> body.retryAt, timedOut |-> timedOut])]

Plain(status, code) == [status |-> status, code |-> code, retryAt |-> FALSE]

OnExhausted(q, t, breakerTripped, timedOut, cooling) ==
  Render(q, ExhaustedRetryError(FailureAt(t), breakerTripped, cooling), timedOut)
-----------------------------------------------------------------------------
(* The loop, from its top to the await of dispatch.                        *)

AtTop(q) == running = q /\ pc[q] = "top"
IsRetry(q) == trail[q] # <<>>
\* Mutant: the loop top does not ask whether anybody still listens.
MayTryUnheard(q) == Len(trail[q]) < MaxRetries
MayTry(q) == Len(trail[q]) < MaxRetries /\ ~(IsRetry(q) /\ gone[q])

Arrive(q) ==
  /\ running = None /\ pc[q] = "idle" /\ now <= LastArrival
  /\ running' = q
  /\ pc' = [pc EXCEPT ![q] = "top"]
  /\ began' = [began EXCEPT ![q] = now]
  /\ UNCHANGED <<now, route, sent, leases, stateVars, socketVars, replyVars, bookVars>>

StopUnheard(q) ==
  /\ AtTop(q) /\ Len(trail[q]) < MaxRetries /\ IsRetry(q) /\ gone[q]
  /\ Return(q)
  /\ UNCHANGED <<now, stateVars, replyVars, bookVars>>

TakeRoute(q, r) ==
  /\ AtTop(q) /\ MayTry(q) /\ r \in Candidates(q)
  /\ pc' = [pc EXCEPT ![q] = "chosen"]
  /\ route' = [route EXCEPT ![q] = r]
  /\ leases' = leases \cup {<<q, r>>}
  /\ UNCHANGED <<now, running, began, sent, stateVars, socketVars, replyVars, bookVars>>

RoutingGivesUp(q) ==
  /\ AtTop(q) /\ MayTry(q) /\ Candidates(q) = {}
  /\ LET spent == Len(trail[q]) > 1 /\ BaseBudget > 0 /\ Elapsed(q) >= BaseBudget
     IN IF IsRetry(q)
        THEN OnExhausted(q, trail[q], FALSE, spent, benched # {})
        ELSE Render(q, RoutingExhaustionBody(RoutingLines, benched # {}), FALSE)
  /\ Return(q)
  /\ UNCHANGED <<now, stateVars, wire, booked, bookVars>>

RetriesSpent(q) ==
  /\ AtTop(q) /\ Len(trail[q]) >= MaxRetries
  /\ OnExhausted(q, trail[q], FALSE, FALSE, benched # {})
  /\ Return(q)
  /\ UNCHANGED <<now, stateVars, wire, booked, bookVars>>

\* Mutant: the budget is checked before the attempt's try, so nothing releases.
BudgetSpentOutsideTry(q) ==
  /\ running = q /\ pc[q] = "chosen" /\ BudgetIsSpent(q)
  /\ OnExhausted(q, trail[q], FALSE, TRUE, benched # {})
  /\ pc' = [pc EXCEPT ![q] = "over"] /\ running' = None
  /\ UNCHANGED <<now, began, route, sent, leases, stateVars, socketVars, wire,
                 booked, bookVars>>

BudgetSpent(q) ==
  /\ running = q /\ pc[q] = "chosen" /\ BudgetIsSpent(q)
  /\ OnExhausted(q, trail[q], FALSE, TRUE, benched # {})
  /\ Return(q)
  /\ UNCHANGED <<now, stateVars, wire, booked, bookVars>>

\* AbortSignal.any takes the reason of whichever signal is already aborted.
ComposedSignal(q) ==
  IF gone[q] THEN "client" ELSE IF hedgeAborted[q] THEN "hedge" ELSE "none"

Send(q, timer) ==
  /\ running = q /\ pc[q] = "chosen" /\ ~BudgetIsSpent(q)
  /\ pc' = [pc EXCEPT ![q] = "waiting"]
  /\ running' = None
  /\ sent' = [sent EXCEPT ![q] = [at |-> now, cap |-> outputCap[ModelOf[route[q]]]]]
  /\ armed' = [armed EXCEPT ![q] = timer]
  /\ signal' = [signal EXCEPT ![q] = ComposedSignal(q)]
  /\ UNCHANGED <<now, began, route, leases, gone, hedgeAborted, reply,
                 stateVars, replyVars, bookVars>>

\* Mutant: the timer is armed only while time of the base budget is left.
DispatchOnBaseBudget(q) ==
  Send(q, Len(trail[q]) > 1 /\ Budget(q) > 0 /\ Elapsed(q) < BaseBudget)
Dispatch(q) == Send(q, Len(trail[q]) > 1 /\ Budget(q) > 0)
-----------------------------------------------------------------------------
(* recordRetryableFailure and recordAuthFailure.                           *)

ModelWide    == {"model_not_found", "forbidden", "suspended", "context_too_large",
                 "format_ignored"}
KeyWide      == {"out_of_credits", "suspended"}
PlatformWide == {"upstream_error", "degraded", "timeout", "suspended"}
\* Facts about the request, not about the route's health.
NeverBenched == {"context_too_large", "over_output_cap"}

\* consumeSkipBenchExemption
Exempt(r, f) ==
  \/ f = "format_ignored"
  \/ f = "empty_at_length" /\ streak[r] + 1 < EmptyStreakLimit

\* Mutant: the ceiling it was already sent with counts as learned.
LearnsCapAgain(r, f, c) == f = "over_output_cap" /\ c <= outputCap[ModelOf[r]]
\* A ceiling learned just now makes the route usable again at once.
LearnsCap(r, f, c) == f = "over_output_cap" /\ c < outputCap[ModelOf[r]]

StaleCatalog(q, r) ==
  LET missing == {e \in {trail[q][i] : i \in DOMAIN trail[q]} :
                    e.failure = "model_not_found" /\ e.route \in OfPlatform(r)}
  IN Cardinality({ModelOf[r]} \cup {ModelOf[e.route] : e \in missing}) >= NotFoundLimit

\* Mutant: the platform's id, where its routes are to be skipped.
RulesOutPlatformId(q, r, f, c) == IF f \in PlatformWide THEN {PlatformOf[r]} ELSE {r}
RulesOut(q, r, f, c) ==
  UNION {IF LearnsCap(r, f, c) THEN {} ELSE {r},
         IF \/ f \in ModelWide
            \/ f = "over_output_cap" /\ ~LearnsCap(r, f, c) THEN OfModel(r) ELSE {},
         IF f \in KeyWide THEN OfKey(r) ELSE {},
         IF \/ f \in PlatformWide
            \/ f = "model_not_found" /\ StaleCatalog(q, r) THEN OfPlatform(r) ELSE {}}

\* A full failure window of the model (noteModelFailure) benches its other
\* keys too; the window itself is the Cooldown module's.
BookFailure(r, f, c) ==
  /\ \E window \in IF f = "auth" THEN {{}} ELSE {{}, OfModel(r)} :
       benched' = IF f \in NeverBenched \/ Exempt(r, f) THEN benched
                  ELSE benched \cup {r} \cup window \cup (IF f \in KeyWide THEN OfKey(r) ELSE {})
  /\ streak' = [streak EXCEPT ![r] =
       IF f \in NeverBenched \cup {"auth", "format_ignored"} THEN @
       ELSE IF f # "empty_at_length" THEN 0
       ELSE IF @ < EmptyStreakLimit THEN @ + 1 ELSE @]
  /\ outputCap' = [outputCap EXCEPT ![ModelOf[r]] =
       IF LearnsCap(r, f, c) THEN c ELSE @]

\* recordBreakerFailure; an exempt failure does not count.
BreakerTrips(t) ==
  /\ BreakerLimit > 0 /\ ~t[Len(t)].exempt
  /\ Cardinality({i \in DOMAIN t : ~t[i].exempt}) >= BreakerLimit

FailOver(q, f, c) ==
  LET r == route[q]
      t == Append(trail[q], [route |-> r, failure |-> f,
                             exempt |-> Exempt(r, f), cap |-> sent[q].cap])
  IN /\ trail' = [trail EXCEPT ![q] = t]
     /\ ruledOut' = [ruledOut EXCEPT ![q] = @ \cup RulesOut(q, r, f, c)]
     /\ BookFailure(r, f, c)
     /\ \/ /\ ~BreakerTrips(t)
           /\ pc' = [pc EXCEPT ![q] = "top"] /\ running' = q
           /\ LeaveAttempt(q)
           /\ UNCHANGED answers
        \/ /\ BreakerTrips(t)
           /\ Return(q)
           /\ IF gone[q] THEN UNCHANGED answers
              ELSE OnExhausted(q, t, TRUE, FALSE, benched' # {})
     /\ UNCHANGED <<now, wire, booked>>
-----------------------------------------------------------------------------
(* How an attempt in flight ends.                                          *)

InFlight(q) == running = None /\ pc[q] = "waiting"
Alive(q) == InFlight(q) /\ signal[q] = "none" /\ reply[q] = "none"

\* Bytes of this response already left: end it with an error frame.
EndInterrupted(q) ==
  /\ Render(q, Plain(200, "stream_error"), FALSE)
  /\ Return(q)
  /\ UNCHANGED <<now, stateVars, wire, booked, bookVars>>

OnFatal(q) ==
  /\ Render(q, Plain(502, "provider_error"), FALSE)
  /\ Return(q)
  /\ UNCHANGED <<now, stateVars, wire, booked, bookVars>>

\* Mutant: only content counts as sent, not the headers of an early ping.
CatchByContent(q, f) ==
  \/ wire[q] = "content" /\ EndInterrupted(q)
  \/ wire[q] # "content" /\ f = "fatal" /\ OnFatal(q)
  \/ wire[q] # "content" /\ f # "fatal" /\ FailOver(q, f, NoCap)

Catch(q, f) ==
  \/ wire[q] # "nothing" /\ EndInterrupted(q)
  \/ wire[q] = "nothing" /\ f = "fatal" /\ OnFatal(q)
  \/ /\ wire[q] = "nothing" /\ f # "fatal"
     /\ \E c \in IF f = "over_output_cap" THEN Caps ELSE {NoCap} : FailOver(q, f, c)

\* The end of the turn is sent, then recordUpstreamSuccess and the cache.
FinishTurn(q, what) ==
  /\ Render(q, Plain(200, "ok"), FALSE)
  /\ wire' = [wire EXCEPT ![q] = "content"]
  /\ booked' = [booked EXCEPT ![q] = what]
  /\ streak' = [streak EXCEPT ![route[q]] = 0]
  /\ Return(q)
  /\ UNCHANGED <<now, stateVars, benched, outputCap>>

\* Failures that surface with no further await: a timeout, a dead stream, a
\* turn the dispatch itself rejects once the stream has ended.
TurnFailures == {"timeout", "upstream_error", "empty_completion", "empty_at_length",
                 "relay_verdict", "garbled_turn", "format_ignored"}

TurnFails(q, f) == Alive(q) /\ f \in UpstreamFailures \cap TurnFailures /\ Catch(q, f)

\* An error status: the adapter still awaits its body, and a rejected read
\* (`res.json().catch`) leaves the failure what it was.  The body of a 400 may
\* hold the tool call it refused: rescueFailedGeneration serves that.
ErrorReply(q, f) ==
  /\ Alive(q) /\ wire[q] # "content"
  /\ f \in UpstreamFailures \ (TurnFailures \ {"upstream_error"})
  /\ reply' = [reply EXCEPT ![q] = f]
  /\ UNCHANGED <<now, loopVars, stateVars, gone, hedgeAborted, armed, signal,
                 replyVars, bookVars>>

\* Mutant: a body read cut short by an abort is never settled.
ErrorBodyReadWhole(q) ==
  InFlight(q) /\ signal[q] = "none" /\ reply[q] # "none" /\ Catch(q, reply[q])
ErrorBodyRead(q) ==
  /\ InFlight(q) /\ reply[q] # "none"
  /\ \/ Catch(q, reply[q])
     \/ reply[q] = "provider_bad_request" /\ signal[q] = "none" /\ FinishTurn(q, "whole")

\* flushHeaders and the keep-alive ping: the attempt can no longer fail over,
\* and the budget must not cancel it.
\* Mutant: only the first content stops the hedge, not a ping.
CommitKeepsHedge(q, w) ==
  /\ InFlight(q) /\ signal[q] = "none" /\ wire[q] # "content"
  /\ wire' = [wire EXCEPT ![q] = w]
  /\ armed' = [armed EXCEPT ![q] = @ /\ w = "headers"]
  /\ UNCHANGED <<now, loopVars, stateVars, gone, hedgeAborted, signal, reply,
                 answers, booked, bookVars>>

Commit(q, w) ==
  /\ InFlight(q) /\ signal[q] = "none" /\ wire[q] # "content"
  /\ \/ w = "headers" /\ wire[q] = "nothing"
     \/ w = "content" /\ reply[q] = "none"
  /\ wire' = [wire EXCEPT ![q] = w]
  /\ armed' = [armed EXCEPT ![q] = FALSE]
  /\ UNCHANGED <<now, loopVars, stateVars, gone, hedgeAborted, signal, reply,
                 answers, booked, bookVars>>

Complete(q) == Alive(q) /\ FinishTurn(q, "whole")

CutShort(q) == InFlight(q) /\ signal[q] = "client" /\ reply[q] = "none"

\* newClientAbortError came out of the fetch: not the provider's doing.
ClientAbort(q) ==
  /\ CutShort(q)
  /\ Return(q)
  /\ UNCHANGED <<now, stateVars, replyVars, bookVars>>

\* Mutant: a pump that was stopped before any text has seen an empty turn.
PumpBreaksEmpty(q) ==
  CutShort(q) /\ (FinishTurn(q, "cut") \/ Catch(q, "empty_completion"))

\* What the dispatch holds back until the turn is whole, and then judges: the
\* bare "safe" of a relay's filter, an inline tool call, a JSON answer.
HeldBack == {"relay_verdict", "garbled_turn", "format_ignored"}

\* The pump left its loop before the signal got to it.  Nothing held back:
\* 'committed', without an answer.  Else the turn is judged and finished as it
\* is: half of an inline tool call or of a JSON answer fails that judgement,
\* and a relay's one word passes for its verdict.
PumpBreaks(q) ==
  /\ CutShort(q)
  /\ \/ /\ Return(q)
        /\ UNCHANGED <<now, stateVars, replyVars, bookVars>>
     \/ FinishTurn(q, "cut")
     \/ \E f \in UpstreamFailures \cap HeldBack : Catch(q, f)

\* HEDGE_BENCH_MIN_SILENT_FRACTION of the budget was this attempt's own.
OwnedWholeBudget(q) == Budget(q) > 0 /\ 4 * (now - sent[q].at) >= 3 * Budget(q)

\* Books like a timeout: no class of its own, no entry in the trail (what it
\* rules out for the request no longer matters).
HedgeAbort(q) ==
  /\ InFlight(q) /\ signal[q] = "hedge" /\ reply[q] = "none"
  /\ IF wire[q] # "nothing" THEN EndInterrupted(q)
     ELSE /\ IF OwnedWholeBudget(q)
             THEN BookFailure(route[q], "timeout", NoCap)
             ELSE UNCHANGED bookVars
          /\ OnExhausted(q, trail[q], FALSE, TRUE, benched' # {})
          /\ Return(q)
          /\ UNCHANGED <<now, stateVars, wire, booked>>
-----------------------------------------------------------------------------
(* The client, the timer, the clock.                                       *)

Hangup(q) ==
  /\ running = None /\ pc[q] \in {"idle", "waiting"} /\ ~gone[q]
  /\ gone' = [gone EXCEPT ![q] = TRUE]
  /\ signal' = [signal EXCEPT ![q] =
       IF pc[q] = "waiting" /\ @ = "none" THEN "client" ELSE @]
  /\ UNCHANGED <<now, loopVars, stateVars, hedgeAborted, armed, reply, replyVars, bookVars>>

\* abortInFlight; a timer may fire late, never early.
HedgeFires(q) ==
  /\ InFlight(q) /\ armed[q] /\ Elapsed(q) >= Budget(q)
  /\ armed' = [armed EXCEPT ![q] = FALSE]
  /\ hedgeAborted' = [hedgeAborted EXCEPT ![q] = TRUE]
  /\ signal' = [signal EXCEPT ![q] = IF @ = "none" THEN "hedge" ELSE @]
  /\ UNCHANGED <<now, loopVars, stateVars, gone, reply, replyVars, bookVars>>

Tick ==
  /\ running = None /\ now < MaxTime
  /\ now' = now + 1
  /\ UNCHANGED <<loopVars, stateVars, socketVars, replyVars, bookVars>>

\* Some bench of the shared table ends.
CooldownEnds(r) ==
  /\ running = None /\ r \in benched
  /\ benched' = benched \ {r}
  /\ UNCHANGED <<now, loopVars, stateVars, socketVars, replyVars, streak, outputCap>>

\* What runs to the next await once it is on the stack.
Step(q) ==
  \/ StopUnheard(q) \/ RoutingGivesUp(q) \/ RetriesSpent(q) \/ BudgetSpent(q)
  \/ Dispatch(q)
  \/ \E r \in Routes : TakeRoute(q, r)

\* An aborted fetch rejects, an error body ends.
Settle(q) == ClientAbort(q) \/ PumpBreaks(q) \/ HedgeAbort(q) \/ ErrorBodyRead(q)

\* What only the provider decides.
Upstream(q) ==
  \/ Complete(q)
  \/ \E f \in UpstreamFailures : TurnFails(q, f) \/ ErrorReply(q, f)
  \/ \E w \in {"headers", "content"} : Commit(q, w)

Next ==
  \/ \E q \in Requests :
       Arrive(q) \/ Step(q) \/ Settle(q) \/ Upstream(q) \/ Hangup(q) \/ HedgeFires(q)
  \/ Tick
  \/ \E r \in Routes : CooldownEnds(r)

\* The process runs what is runnable, its timers fire, an aborted fetch
\* rejects.  Nothing is asked of the client or of the providers.
Fairness ==
  /\ WF_vars(Tick)
  /\ \A q \in Requests :
       WF_vars(Step(q)) /\ WF_vars(Settle(q)) /\ WF_vars(HedgeFires(q))

Spec == Init /\ [][Next]_vars /\ Fairness

\* The adapters' own deadlines (first byte, stall, request) end every attempt.
AttemptDeadline(q) == TurnFails(q, "timeout")
TimedSpec == Spec /\ \A q \in Requests : WF_vars(AttemptDeadline(q))
-----------------------------------------------------------------------------
(* Properties.                                                             *)

Codes == {"ok", "stream_error", "provider_error"} \cup ExhaustionCodes
Answer == [status : Nat, code : Codes, retryAt : BOOLEAN, timedOut : BOOLEAN]

TypeOK ==
  /\ now \in Nat /\ running \in Requests \cup {None}
  /\ pc \in [Requests -> {"idle", "top", "chosen", "waiting", "over"}]
  /\ began \in [Requests -> Nat]
  /\ route \in [Requests -> Routes \cup {None}]
  /\ sent \in [Requests -> [at : Nat, cap : Nat]]
  /\ trail \in [Requests -> Seq(Entry)]
  /\ ruledOut \in [Requests -> SUBSET Routes]
  /\ {gone, hedgeAborted, armed} \subseteq [Requests -> BOOLEAN]
  /\ signal \in [Requests -> {"none", "client", "hedge"}]
  /\ reply \in [Requests -> Failures \cup {"none"}]
  /\ wire \in [Requests -> {"nothing", "headers", "content"}]
  /\ answers \in [Requests -> Seq(Answer)]
  /\ leases \subseteq Requests \X Routes /\ benched \subseteq Routes
  /\ streak \in [Routes -> 0..EmptyStreakLimit]
  /\ outputCap \in [Models -> Nat]
  /\ booked \in [Requests -> {"nothing", "whole", "cut"}]

\* A request gets one answer, at its end: never two, and none only if the
\* client hung up.  Once bytes left, that answer is the stream's own, never an
\* error status rendered over it (the catch of every streaming dispatch).
OneAnswer ==
  \A q \in Requests :
    /\ Len(answers[q]) <= IF pc[q] = "over" THEN 1 ELSE 0
    /\ pc[q] = "over" /\ answers[q] = <<>> => gone[q]
    /\ wire[q] # "nothing" /\ answers[q] # <<>> => answers[q][1].status = 200

\* "No path can leak a lease": exactly the candidates being tried hold one,
\* also the one routed and then refused for the budget.
LeasesMatchAttempts ==
  leases = {<<q, route[q]>> : q \in {x \in Requests : pc[x] \in {"chosen", "waiting"}}}

\* Once its client is gone a request starts no further attempt.
NoRetryForNobody ==
  [][\A q \in Requests :
       pc[q] # "waiting" /\ pc'[q] = "waiting" /\ gone[q] => trail[q] = <<>>]_vars

\* A hang-up that ends an attempt says nothing about the provider: no bench,
\* no streak, no entry in the trail, also when the pump saw an empty turn
\* (fallback-loop.ts:1538, proxy.ts:2894).  Only the half of a turn held back
\* for judgement is judged, and benches, all the same (proxy.ts:2922).
HangupBlamesNobody ==
  [][\A q \in Requests :
       signal[q] = "client" /\ reply[q] = "none" /\ pc[q] = "waiting" /\ pc'[q] # "waiting" =>
         \/ benched' = benched /\ trail' = trail
            /\ \A r \in Routes : streak'[r] <= streak[r]
         \/ Len(trail'[q]) > Len(trail[q])
            /\ trail'[q][Len(trail'[q])].failure \in HeldBack]_vars

\* The budget never refuses the first failover hop: a request it stopped has
\* seen two attempts fail before.
OneHopIsAlwaysAllowed ==
  \A q \in Requests : \A i \in DOMAIN answers[q] :
    answers[q][i].timedOut => Len(trail[q]) >= 2

\* The hedge cancels silence only: no attempt whose bytes are on the wire.
CommittedIsNotCut ==
  \A q \in Requests : wire[q] # "nothing" => signal[q] # "hedge"

\* A route that failed is tried again only under a lower output ceiling.
NoBlindRetry ==
  \A q \in Requests : \A i \in DOMAIN trail[q] :
    /\ \A j \in (i + 1)..Len(trail[q]) :
         trail[q][j].route = trail[q][i].route => trail[q][j].cap < trail[q][i].cap
    /\ pc[q] = "waiting" /\ route[q] = trail[q][i].route => sent[q].cap < trail[q][i].cap

\* From the second retry on, an attempt that stays silent ends, although the
\* provider never says a word: the hedge sees to it.
StallEnds ==
  \A q \in Requests :
    pc[q] = "waiting" /\ Len(trail[q]) > 1 /\ BaseBudget > 0 /\ wire[q] = "nothing"
      ~> pc[q] # "waiting" \/ wire[q] # "nothing"

\* Every request ends once its attempts do.
EveryRequestEnds == \A q \in Requests : pc[q] # "idle" ~> pc[q] = "over"

\* lib/fallback-loop.ts:1459: each endpoint is judged by its own budget.
OwnBudget ==
  [][\A q \in Requests :
       pc[q] = "waiting" /\ answers'[q] # answers[q] /\ answers'[q][1].timedOut =>
         Elapsed(q) >= Budget(q)]_vars

\* routes/proxy.ts:3020: what was aborted mid-flight is never booked, and so
\* never cached.
OnlyWholeTurnsAreBooked == \A q \in Requests : booked[q] # "cut"
=============================================================================
