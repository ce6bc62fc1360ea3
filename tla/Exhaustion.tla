----------------------------- MODULE Exhaustion -----------------------------
(***************************************************************************)
(* What a client is told when no candidate served its request: the status  *)
(* ladders of lib/fallback-loop.ts.  Pure operators; messages, the trail's *)
(* wording and the redaction of provider text are left out.                *)
(***************************************************************************)
EXTENDS Naturals, Sequences

\* A provider's failure, by what the loop does about it.  The classes of the
\* attempt trail are these, but for five kinds told apart only by their effects.
Failures ==
  {"auth", "out_of_credits", "suspended", "forbidden", "rate_limited",
   "daily_quota_exhausted", "model_not_found", "context_too_large",
   "provider_bad_request", "over_output_cap", "upstream_error", "degraded",
   "timeout", "empty_completion", "empty_at_length", "relay_verdict", "garbled_turn",
   "format_ignored", "fatal"}

\* An account suspension is a 403, a rejected max_tokens a 400, the bare verdict
\* of a relay's filter an empty completion.
ErrorClass(f) ==
  CASE f = "degraded"        -> "upstream_error"
    [] f = "suspended"       -> "forbidden"
    [] f = "over_output_cap" -> "provider_bad_request"
    [] f \in {"empty_at_length", "relay_verdict"} -> "empty_completion"
    [] OTHER                 -> f

UNAVAILABLE_UNTIL_KNOWN_TIME ==
  {"rate_limited", "daily_quota_exhausted", "out_of_credits", "forbidden"}

Rung(holds, status, code) == [holds |-> holds, status |-> status, code |-> code]
FirstRung(ladder) ==
  ladder[CHOOSE i \in DOMAIN ladder :
           ladder[i].holds /\ \A j \in 1..(i - 1) : ~ladder[j].holds]

\* `failures` is the trail, oldest first; `cooling` says whether any bench is
\* left to take a retry time from.
ExhaustedRetryError(failures, breakerTripped, cooling) ==
  LET every(C) == failures # <<>> /\ \A i \in DOMAIN failures : ErrorClass(failures[i]) \in C
      last == IF failures = <<>> THEN "none" ELSE failures[Len(failures)]
      rung == FirstRung(<<
        Rung(every({"auth"}), 502, "provider_authentication_failed"),
        Rung(every({"context_too_large"}), 413, "context_length_exceeded"),
        Rung(every({"model_not_found"}), 404, "model_not_found"),
        Rung(last = "degraded", 503, "provider_degraded"),
        Rung(every({"provider_bad_request"}), 400, "provider_rejected_request"),
        Rung(breakerTripped, 503, "upstream_unhealthy"),
        Rung(failures = <<>> \/ every(UNAVAILABLE_UNTIL_KNOWN_TIME),
             429, "rate_limit_exceeded"),
        Rung(TRUE, 502, "upstream_failed")>>)
  IN [status |-> rung.status, code |-> rung.code,
      retryAt |-> rung.code = "rate_limit_exceeded" /\ cooling]

ExhaustionCodes ==
  {"provider_authentication_failed", "context_length_exceeded", "model_not_found",
   "provider_degraded", "provider_rejected_request", "upstream_unhealthy",
   "rate_limit_exceeded", "upstream_failed", "no_providers_configured",
   "quota_exceeded", "routing_exhausted"}

-----------------------------------------------------------------------------
\* Why routing passed over a key, and so the words of its model's line.
ConfigReasons == {"no_key", "decrypt_error", "key_mismatch"}
RoutingReasons == ConfigReasons \cup {"too_large", "cooldown", "monthly_budget", "other"}

\* One diagnostic line stands for all keys of a model, read by its words.
ClassifyRoutingDiagLine(reasons) ==
  CASE "too_large" \in reasons         -> "too_large"
    [] reasons = {"monthly_budget"}    -> "monthly_budget"
    [] /\ "too_large" \notin reasons
       /\ reasons \cap ConfigReasons # {} -> "config"
    [] /\ reasons \cap (ConfigReasons \cup {"too_large"}) = {}
       /\ reasons \cap {"cooldown", "monthly_budget"} # {} -> "time_bound"
    [] OTHER                           -> "other"

\* `lines` is the set of lines, one per model of the chain.
RoutingExhaustionBody(lines, cooling) ==
  LET classes == {ClassifyRoutingDiagLine(l) : l \in lines}
      rung == FirstRung(<<
        Rung(classes \subseteq {"config"}, 503, "no_providers_configured"),
        Rung(classes \subseteq {"too_large", "config"}, 413, "context_length_exceeded"),
        Rung(/\ "monthly_budget" \in classes
             /\ classes \subseteq {"monthly_budget", "config", "too_large"},
             429, "quota_exceeded"),
        Rung("time_bound" \in classes /\ "other" \notin classes,
             429, "rate_limit_exceeded"),
        Rung(TRUE, 429, "routing_exhausted")>>)
  IN [status |-> rung.status, code |-> rung.code,
      retryAt |-> \/ rung.code = "quota_exceeded"
                  \/ rung.code = "rate_limit_exceeded" /\ cooling]
=============================================================================
