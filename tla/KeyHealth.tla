------------------------------ MODULE KeyHealth ------------------------------
(***************************************************************************)
(* services/health.ts: what the gateway believes of each provider key, and *)
(* the checks that make it believe it.  A check reads the key, asks the    *)
(* provider, and writes its verdict on the row it finds when the answer    *)
(* comes.  Checks come from the health pass, from the dashboard and from   *)
(* requests a provider answered with 401; meanwhile requests are served,   *)
(* the operator edits and switches the key, and the process may restart.   *)
(*                                                                         *)
(* Times are ages in ticks.  A counter stops at the threshold it is        *)
(* compared with.                                                          *)
(***************************************************************************)
EXTENDS DegradedMode

CONSTANTS
  Keys,
  PlatformOf,        \* [Keys -> the provider a key belongs to]
  Others,            \* further providers, which always have a usable key
  PARK_AFTER,        \* HEALTH_TRANSPORT_PARK_AFTER, 0 when parking is off
  DISABLE_AFTER,     \* CONSECUTIVE_FAILURES_TO_DISABLE
  RECENT_CHECK_SKIP, \* ages, in ticks
  RATE_LIMIT_SKIP,
  NO_POLL_REPROBE,
  REVALIDATION_DEDUPE

ASSUME HealthAssumption ==
  /\ PARK_AFTER \in Nat
  /\ {DISABLE_AFTER, RECENT_CHECK_SKIP, RATE_LIMIT_SKIP, NO_POLL_REPROBE,
      REVALIDATION_DEDUPE} \subseteq Nat \ {0}

VARIABLES
  status,       \* api_keys.status
  enabled,      \* api_keys.enabled
  checkedAge,   \* age of api_keys.last_checked_at, or None
  failureCount, \* rejections in a row, in memory
  transportFailures,       \* unreachable checks in a row, in memory
  rateLimitedFor, \* ticks a 429 to a check still counts, in memory
  revalidatedFor, \* ticks a revalidation still counts, in memory
  checks,       \* checks waiting for the provider
  pass,         \* the health pass in flight
  requests,     \* keys with a request in flight
  policy        \* what a key's provider allows: checks, polling, or neither

memory == <<failureCount, transportFailures, rateLimitedFor,
            revalidatedFor>>
row == <<status, enabled, checkedAge>>
vars == <<status, enabled, checkedAge, failureCount, transportFailures,
          rateLimitedFor, revalidatedFor, checks, pass, requests,
          policy, modeVars>>

Statuses == {"unknown", "healthy", "invalid", "error"}
Usable == {"healthy", "unknown"}
CheckAge == IF RECENT_CHECK_SKIP > NO_POLL_REPROBE
            THEN RECENT_CHECK_SKIP ELSE NO_POLL_REPROBE

Policies == {"polled", "unpolled", "unprobed"}

(* byPass: the pass asked, not the dashboard or a 401.  At most one check  *)
(* of a key of each sort is in flight (the bound of the model).            *)
Check == [key : Keys, byPass : BOOLEAN]
NoPass == [running |-> FALSE, queue |-> {}]

(***************************************************************************)
(* Helpers                                                                 *)
(***************************************************************************)
OneMore(n, top) == IF n < top THEN n + 1 ELSE n
OneLess(n) == IF n > 0 THEN n - 1 ELSE 0
With(f, k, v) == [f EXCEPT ![k] = v]
CanAsk(k, byPass) == \A c \in checks : c.key = k => c.byPass # byPass
InRotation(k) == enabled[k] /\ status[k] \in Usable

(* The providers computeHealthSnapshot finds, and those with a usable key. *)
Present == {PlatformOf[k] : k \in {j \in Keys : enabled[j]}} \cup Others
Serving == {PlatformOf[k] : k \in {j \in Keys : InRotation(j)}} \cup Others

EnoughServe ==
  100 * Cardinality(Serving) >= DEGRADED_HEALTHY_PERCENT * Cardinality(Present)

(* Mutant: only keys in rotation are worth a check. *)
DueInRotation(k, force, manual) == InRotation(k)

(* Keys the pass leaves alone: force skips the pacing, and only a person   *)
(* overrides the rule of providers that must not be polled.                *)
Due(k, force, manual) ==
  IF policy[k] = "unpolled" /\ ~manual
  THEN \/ checkedAge[k] = None
       \/ status[k] = "error" /\ checkedAge[k] >= NO_POLL_REPROBE
  ELSE \/ force
       \/ /\ rateLimitedFor[k] = 0
          /\ \/ status[k] = "error"
             \/ checkedAge[k] \notin 0..(RECENT_CHECK_SKIP - 1)

(***************************************************************************)
(* Checks                                                                  *)
(***************************************************************************)

(* checkKeyHealth, up to its await.  A provider that forbids checks is not *)
(* asked, and the status stays.                                            *)
BeginCheck(k, byPass) ==
  IF policy[k] = "unprobed"
  THEN UNCHANGED checks
  ELSE /\ CanAsk(k, byPass)
       /\ checks' = checks \cup {[key |-> k, byPass |-> byPass]}

(* The provider accepts the credential it was shown. *)
AnswerValid(c) ==
  /\ status' = With(status, c.key, "healthy")
  /\ checkedAge' = With(checkedAge, c.key, 0)
  /\ failureCount' = With(failureCount, c.key, 0)
  /\ transportFailures' = With(transportFailures, c.key, 0)
  /\ rateLimitedFor' = With(rateLimitedFor, c.key, 0)
  /\ UNCHANGED enabled

(* Mutant: the count runs on past the threshold. *)
InvalidCountsOn(c) ==
  /\ status' = With(status, c.key, "invalid")
  /\ checkedAge' = With(checkedAge, c.key, 0)
  /\ failureCount' = With(failureCount, c.key, failureCount[c.key] + 1)
  /\ UNCHANGED <<enabled, transportFailures, rateLimitedFor>>

(* The provider rejects it; recordInvalidFailure may switch the key off. *)
AnswerInvalid(c) ==
  LET count == OneMore(failureCount[c.key], DISABLE_AFTER) IN
  /\ status' = With(status, c.key, "invalid")
  /\ checkedAge' = With(checkedAge, c.key, 0)
  /\ failureCount' = With(failureCount, c.key, count)
  /\ enabled' = IF count >= DISABLE_AFTER THEN With(enabled, c.key, FALSE) ELSE enabled
  /\ UNCHANGED <<transportFailures, rateLimitedFor>>

(* The provider answers 429: it is reachable, and wants to be left alone. *)
AnswerRateLimited(c) ==
  /\ checkedAge' = With(checkedAge, c.key, 0)
  /\ rateLimitedFor' = With(rateLimitedFor, c.key, RATE_LIMIT_SKIP)
  /\ transportFailures' = With(transportFailures, c.key, 0)
  /\ UNCHANGED <<status, enabled, failureCount>>

(* Mutant: an outage counts as a rejection. *)
OutageRejects(c) ==
  LET count == OneMore(failureCount[c.key], DISABLE_AFTER) IN
  /\ checkedAge' = With(checkedAge, c.key, 0)
  /\ failureCount' = With(failureCount, c.key, count)
  /\ enabled' = IF count >= DISABLE_AFTER THEN With(enabled, c.key, FALSE) ELSE enabled
  /\ UNCHANGED <<status, transportFailures, rateLimitedFor>>

(* Mutant: an outage parks whatever is switched on, a rejected key too.    *)
OutageParksAll(c) ==
  LET count == OneMore(transportFailures[c.key], PARK_AFTER) IN
  /\ checkedAge' = With(checkedAge, c.key, 0)
  /\ transportFailures' = With(transportFailures, c.key, count)
  /\ status' = IF PARK_AFTER > 0 /\ count >= PARK_AFTER /\ enabled[c.key]
               THEN With(status, c.key, "error") ELSE status
  /\ UNCHANGED <<enabled, failureCount, rateLimitedFor>>

(* The provider cannot be reached, or the credential cannot be decrypted:  *)
(* recordTransportFailure parks the key once the streak is long enough.    *)
Unreachable(c) ==
  LET count == OneMore(transportFailures[c.key], PARK_AFTER) IN
  /\ checkedAge' = With(checkedAge, c.key, 0)
  /\ transportFailures' = With(transportFailures, c.key, count)
  /\ status' = IF PARK_AFTER > 0 /\ count >= PARK_AFTER /\ InRotation(c.key)
               THEN With(status, c.key, "error") ELSE status
  /\ UNCHANGED <<enabled, failureCount, rateLimitedFor>>

EndCheck(c) ==
  /\ c \in checks
  /\ checks' = checks \ {c}
  /\ AnswerValid(c) \/ AnswerInvalid(c) \/ AnswerRateLimited(c) \/ Unreachable(c)
  /\ UNCHANGED <<revalidatedFor, pass, requests, policy, modeVars>>

(* POST /api/health/check/:keyId: someone asks about one key.              *)
CheckOne(k) ==
  /\ policy[k] # "unprobed"
  /\ BeginCheck(k, FALSE)
  /\ UNCHANGED <<row, memory, pass, requests, policy, modeVars>>

(***************************************************************************)
(* The pass                                                                *)
(***************************************************************************)

(* checkAllKeys: a caller that finds a pass in flight joins it.            *)
StartPass(force, manual) ==
  /\ ~pass.running
  /\ pass' = [running |-> TRUE,
              queue |-> {k \in Keys : enabled[k] /\ Due(k, force, manual)}]
  /\ UNCHANGED <<row, memory, checks, requests, policy, modeVars>>

ScheduledPass == StartPass(FALSE, FALSE)
WakePass == StartPass(TRUE, FALSE)
CheckAll == StartPass(TRUE, TRUE)

(* A worker takes a key from the queue, on or off by now.                  *)
PassChecks(k) ==
  /\ k \in pass.queue
  /\ pass' = [running |-> TRUE, queue |-> pass.queue \ {k}]
  /\ BeginCheck(k, TRUE)
  /\ UNCHANGED <<row, memory, requests, policy, modeVars>>

(* All workers are done; the mode is evaluated on what the pass left.      *)
EndPass ==
  /\ pass.running /\ pass.queue = {}
  /\ \A c \in checks : ~c.byPass
  /\ pass' = NoPass
  /\ updateDegradationState(Present, Serving)
  /\ UNCHANGED <<row, memory, checks, requests, policy>>

(***************************************************************************)
(* Requests                                                                *)
(***************************************************************************)

(* The router hands the key to a request.                                  *)
Dispatch(k) ==
  /\ InRotation(k) /\ k \notin requests
  /\ requests' = requests \cup {k}
  /\ UNCHANGED <<row, memory, checks, pass, policy, modeVars>>

(* The router cannot decrypt the key it wanted to hand out.                *)
DecryptError(k) ==
  /\ InRotation(k)
  /\ status' = With(status, k, "error")
  /\ checkedAge' = With(checkedAge, k, 0)
  /\ UNCHANGED <<enabled, memory, checks, pass, requests, policy, modeVars>>

(* Mutant: strikes survive a served request.                               *)
ServedKeepsStrikes(k) ==
  /\ status' = IF status[k] \in {"error", "unknown"}
               THEN With(status, k, "healthy") ELSE status
  /\ transportFailures' = With(transportFailures, k, 0)
  /\ UNCHANGED <<enabled, checkedAge, failureCount, rateLimitedFor, revalidatedFor>>

(* markKeyHealthyFromRequest: the key has just served a request.           *)
markKeyHealthyFromRequest(k) ==
  /\ status' = IF status[k] \in {"error", "unknown"}
               THEN With(status, k, "healthy") ELSE status
  /\ failureCount' = With(failureCount, k, 0)
  /\ transportFailures' = With(transportFailures, k, 0)
  /\ UNCHANGED <<enabled, checkedAge, rateLimitedFor, revalidatedFor>>

Serve(k) ==
  /\ k \in requests
  /\ requests' = requests \ {k}
  /\ markKeyHealthyFromRequest(k)
  /\ UNCHANGED <<checks, pass, policy, modeVars>>

(* The request failed in a way that says nothing of the key.               *)
FailRequest(k) ==
  /\ k \in requests
  /\ requests' = requests \ {k}
  /\ UNCHANGED <<row, memory, checks, pass, policy, modeVars>>

(* triggerKeyRevalidation: the provider answered 401 to a request.         *)
Reject(k) ==
  /\ k \in requests
  /\ requests' = requests \ {k}
  /\ IF revalidatedFor[k] > 0
     THEN UNCHANGED <<checks, revalidatedFor>>
     ELSE /\ BeginCheck(k, FALSE)
          /\ revalidatedFor' = With(revalidatedFor, k, REVALIDATION_DEDUPE)
  /\ UNCHANGED <<row, failureCount, transportFailures, rateLimitedFor,
                 pass, policy, modeVars>>

(***************************************************************************)
(* The operator                                                            *)
(***************************************************************************)

(* PATCH /api/keys/:id with another credential: the row is as new, and on  *)
(* unless the call says otherwise.  What memory knows of the key stays,    *)
(* and a check in flight will bring its verdict on the old credential.     *)
EditKey(k, on) ==
  /\ status' = With(status, k, "unknown")
  /\ enabled' = With(enabled, k, on)
  /\ checkedAge' = With(checkedAge, k, None)
  /\ UNCHANGED <<memory, checks, pass, requests, policy, modeVars>>

(* PATCH /api/keys/:id or /api/keys/platform/:platform with a switch.      *)
SwitchKey(k) ==
  /\ enabled' = With(enabled, k, ~enabled[k])
  /\ UNCHANGED <<status, checkedAge, memory, checks, pass, requests, policy, modeVars>>

(* POST /api/keys for an anonymous provider that has its row already.      *)
EnableAgain(k) ==
  /\ enabled' = With(enabled, k, TRUE)
  /\ status' = With(status, k, "unknown")
  /\ UNCHANGED <<checkedAge, memory, checks, pass, requests, policy, modeVars>>

(***************************************************************************)
(* The rest of the world                                                   *)
(***************************************************************************)

Tick ==
  /\ checkedAge' = [k \in Keys |-> Older(checkedAge[k], CheckAge)]
  /\ rateLimitedFor' = [k \in Keys |-> OneLess(rateLimitedFor[k])]
  /\ revalidatedFor' = [k \in Keys |-> OneLess(revalidatedFor[k])]
  /\ ModeAges
  /\ UNCHANGED <<status, enabled, failureCount, transportFailures, checks, pass,
                 requests, policy>>

Forget ==
  /\ failureCount' = [k \in Keys |-> 0]
  /\ transportFailures' = [k \in Keys |-> 0]
  /\ rateLimitedFor' = [k \in Keys |-> 0]
  /\ revalidatedFor' = [k \in Keys |-> 0]

(* The process restarts: the rows stay, everything in memory goes.         *)
Restart ==
  /\ Forget /\ ModeReset
  /\ checks' = {} /\ pass' = NoPass /\ requests' = {}
  /\ UNCHANGED <<row, policy>>

Init ==
  /\ status = [k \in Keys |-> "unknown"]
  /\ enabled = [k \in Keys |-> TRUE]
  /\ checkedAge = [k \in Keys |-> None]
  /\ failureCount = [k \in Keys |-> 0]
  /\ transportFailures = [k \in Keys |-> 0]
  /\ rateLimitedFor = [k \in Keys |-> 0]
  /\ revalidatedFor = [k \in Keys |-> 0]
  /\ checks = {} /\ pass = NoPass /\ requests = {}
  /\ policy \in [Keys -> Policies]
  /\ ModeInit

Next ==
  \/ \E c \in checks : EndCheck(c)
  \/ \E k \in Keys : CheckOne(k)
  \/ ScheduledPass \/ WakePass \/ CheckAll
  \/ \E k \in Keys : PassChecks(k)
  \/ EndPass
  \/ \E k \in Keys : Dispatch(k)
  \/ \E k \in Keys : DecryptError(k)
  \/ \E k \in Keys : Serve(k)
  \/ \E k \in Keys : FailRequest(k)
  \/ \E k \in Keys : Reject(k)
  \/ \E k \in Keys, on \in BOOLEAN : EditKey(k, on)
  \/ \E k \in Keys : SwitchKey(k)
  \/ \E k \in Keys : EnableAgain(k)
  \/ Tick
  \/ Restart

(* The scheduler arms the next pass when one has ended, its workers take   *)
(* every key queued, a check is answered or cut by its deadline, and time  *)
(* passes.  Nothing else is promised: not requests, not the operator.      *)
Fairness ==
  /\ WF_vars(ScheduledPass) /\ WF_vars(EndPass) /\ WF_vars(Tick)
  /\ \A k \in Keys : WF_vars(PassChecks(k))
  /\ \A k \in Keys, byPass \in BOOLEAN :
       WF_vars(\E c \in checks : c.key = k /\ c.byPass = byPass /\ EndCheck(c))

Spec == Init /\ [][Next]_vars /\ Fairness

(***************************************************************************)
(* Properties                                                              *)
(***************************************************************************)

TypeOK ==
  /\ status \in [Keys -> Statuses]
  /\ enabled \in [Keys -> BOOLEAN]
  /\ checkedAge \in [Keys -> Age(CheckAge)]
  /\ failureCount \in [Keys -> 0..DISABLE_AFTER]
  /\ transportFailures \in [Keys -> 0..PARK_AFTER]
  /\ rateLimitedFor \in [Keys -> 0..RATE_LIMIT_SKIP]
  /\ revalidatedFor \in [Keys -> 0..REVALIDATION_DEDUPE]
  /\ checks \subseteq Check
  /\ pass \in [running : BOOLEAN, queue : SUBSET Keys]
  /\ requests \subseteq Keys
  /\ policy \in [Keys -> Policies]
  /\ ModeTypeOK

(* A key believed healthy carries no strike: whatever overlapped on the    *)
(* way, the rejections counted towards switching a key off are gone when   *)
(* something proved that it works (health.ts:329, :474).                   *)
HealthyHasNoStrikes ==
  \A k \in Keys : status[k] = "healthy" => failureCount[k] = 0

(* Only a rejection calls a key invalid, and only a check that succeeded   *)
(* or an operator who replaced or re-added the key takes that back: not a  *)
(* served request, not an outage however long it lasts, not a 429, not a   *)
(* failed decryption (health.ts:132, :453).                                *)
InvalidStands ==
  [][\A k \in Keys :
       /\ status[k] # "invalid" /\ status'[k] = "invalid" =>
            \E c \in checks : c.key = k /\ EndCheck(c) /\ AnswerInvalid(c)
       /\ status[k] = "invalid" /\ status'[k] # "invalid" =>
            \/ \E c \in checks : c.key = k /\ EndCheck(c) /\ AnswerValid(c)
            \/ EnableAgain(k) \/ \E on \in BOOLEAN : EditKey(k, on)]_vars

(* Health never switches a key off for being unreachable: a key that goes  *)
(* off without the operator is rejected in that very step, and was         *)
(* rejected as often as it takes before (health.ts:368).                   *)
OutageDisablesNothing ==
  [][\A k \in Keys :
       enabled[k] /\ ~enabled'[k] =>
         \/ /\ failureCount[k] >= DISABLE_AFTER - 1
            /\ \E c \in checks : c.key = k /\ EndCheck(c) /\ AnswerInvalid(c)
         \/ SwitchKey(k) \/ EditKey(k, FALSE)]_vars

(* Degraded mode does not flap: it is entered only when no evaluation of   *)
(* the last ENTRY_GRACE ticks found enough providers, and left only when   *)
(* none of the last EXIT_GRACE ticks found too few, unless the process     *)
(* restarts or too few providers remain to judge (degradation.ts:13).      *)
NoFlapping ==
  [][/\ mode = "normal" /\ mode' = "degraded" => disputedFor >= DEGRADED_ENTRY_GRACE
     /\ mode = "degraded" /\ mode' = "normal" =>
          \/ disputedFor >= DEGRADED_EXIT_GRACE
          \/ Restart
          \/ Cardinality(Present) < DEGRADED_MIN_PROVIDERS]_vars

(* What can keep a key that works out of use: an answer that is not a      *)
(* clean yes, a credential that cannot be read, the operator, a restart.   *)
Trouble(k) ==
  \/ DecryptError(k) \/ SwitchKey(k) \/ Restart
  \/ \E c \in checks : c.key = k /\ EndCheck(c) /\ ~AnswerValid(c)

(* A key heals by itself: once its provider answers every check and says   *)
(* yes, a key that is switched on ends up in rotation for good, whatever   *)
(* late verdicts, 429 pacing or parking left behind (health.ts:99, :639).  *)
SelfHeals ==
  \A k \in Keys :
    <>[][~Trouble(k)]_vars /\ <>[](enabled[k] /\ policy[k] = "polled")
      => <>[]InRotation(k)

(* Degraded mode lifts: when enough providers have a usable key and keep   *)
(* it, the mode is left for good, although nothing but a pass evaluates it *)
(* (degradation.ts:105, health.ts:565).                                    *)
ModeLifts ==
  <>[][EnoughServe]_vars => <>[](mode = "normal")
=============================================================================
