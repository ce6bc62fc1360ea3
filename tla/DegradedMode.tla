---------------------------- MODULE DegradedMode ----------------------------
(***************************************************************************)
(* services/degradation.ts: the gateway's degraded mode.  When a large     *)
(* share of the providers has no usable key for a while, the router stops  *)
(* exploring until the share has been back for a while.  The two streaks   *)
(* are kept as ages (the source keeps the instants they began), which stop *)
(* counting at the grace they are compared with.                           *)
(***************************************************************************)
EXTENDS Naturals, FiniteSets

CONSTANTS
  None,                     \* no streak is running
  DEGRADED_HEALTHY_PERCENT, \* the share of providers that must stay usable
  DEGRADED_MIN_PROVIDERS,   \* below this many providers nothing is judged
  DEGRADED_ENTRY_GRACE,     \* ticks the share must be too low to enter
  DEGRADED_EXIT_GRACE       \* ticks it must be high enough to leave

ASSUME GraceAssumption ==
  /\ DEGRADED_HEALTHY_PERCENT \in 0..100
  /\ {DEGRADED_MIN_PROVIDERS, DEGRADED_ENTRY_GRACE, DEGRADED_EXIT_GRACE} \subseteq Nat
  /\ None \notin Nat

VARIABLES
  mode,          \* "normal" or "degraded"
  belowFor,      \* age of the streak of low shares, or None
  recoveredFor,  \* age of the streak of sufficient shares, or None
  disputedFor    \* history: ticks since an evaluation last agreed with mode

modeVars == <<mode, belowFor, recoveredFor, disputedFor>>

LongestGrace == IF DEGRADED_ENTRY_GRACE > DEGRADED_EXIT_GRACE
                THEN DEGRADED_ENTRY_GRACE ELSE DEGRADED_EXIT_GRACE

Age(grace) == {None} \cup 0..grace
Older(age, grace) == IF age \in 0..(grace - 1) THEN age + 1 ELSE age
Running(age) == IF age = None THEN 0 ELSE age

ModeTypeOK ==
  /\ mode \in {"normal", "degraded"}
  /\ belowFor \in Age(DEGRADED_ENTRY_GRACE)
  /\ recoveredFor \in Age(DEGRADED_EXIT_GRACE)
  /\ disputedFor \in 0..LongestGrace

(* A process starts in normal mode with no streak, and falls back to it    *)
(* when there are too few providers to judge.                              *)
ModeReset ==
  /\ mode' = "normal"
  /\ belowFor' = None
  /\ recoveredFor' = None
  /\ disputedFor' = 0

ModeInit ==
  /\ mode = "normal"
  /\ belowFor = None /\ recoveredFor = None
  /\ disputedFor = 0

TooLow(present, usable) ==
  100 * Cardinality(usable) < DEGRADED_HEALTHY_PERCENT * Cardinality(present)

EvaluateLow ==
  LET streak == Running(belowFor) IN
  /\ recoveredFor' = None
  /\ belowFor' = IF mode = "normal" THEN streak ELSE belowFor
  /\ mode' = IF streak >= DEGRADED_ENTRY_GRACE THEN "degraded" ELSE mode
  /\ disputedFor' = IF mode' = "degraded" THEN 0 ELSE disputedFor

(* Mutants of the evaluation: a streak that is not reset, one that starts  *)
(* anew at every evaluation.                                               *)
EnoughKeepsStreak ==
  LET streak == Running(recoveredFor) IN
  /\ recoveredFor' = IF mode = "degraded" THEN streak ELSE None
  /\ mode' = IF streak >= DEGRADED_EXIT_GRACE THEN "normal" ELSE mode
  /\ disputedFor' = IF mode' = "normal" THEN 0 ELSE disputedFor
  /\ UNCHANGED belowFor

EnoughStartsAnew ==
  /\ belowFor' = None
  /\ recoveredFor' = IF mode = "degraded" THEN 0 ELSE None
  /\ disputedFor' = IF mode = "normal" THEN 0 ELSE disputedFor
  /\ UNCHANGED mode

EvaluateEnough ==
  LET streak == Running(recoveredFor) IN
  /\ belowFor' = None
  /\ recoveredFor' = IF mode = "degraded" THEN streak ELSE None
  /\ mode' = IF streak >= DEGRADED_EXIT_GRACE THEN "normal" ELSE mode
  /\ disputedFor' = IF mode' = "normal" THEN 0 ELSE disputedFor

(* updateDegradationState: the providers that have an enabled key, and     *)
(* those of them that have a usable one.                                   *)
updateDegradationState(present, usable) ==
  \/ /\ Cardinality(present) < DEGRADED_MIN_PROVIDERS
     /\ ModeReset
  \/ /\ Cardinality(present) >= DEGRADED_MIN_PROVIDERS
     /\ IF TooLow(present, usable) THEN EvaluateLow ELSE EvaluateEnough

(* Time passes for every streak. *)
ModeAges ==
  /\ belowFor' = Older(belowFor, DEGRADED_ENTRY_GRACE)
  /\ recoveredFor' = Older(recoveredFor, DEGRADED_EXIT_GRACE)
  /\ disputedFor' = Older(disputedFor, LongestGrace)
  /\ UNCHANGED mode
=============================================================================
