--------------------------- MODULE KeyHealthProofs ---------------------------
(***************************************************************************)
(* KeyHealth and the degraded mode its passes drive, for any set of keys,  *)
(* providers, thresholds and graces.  Three facts are inductive:           *)
(*   TypeOK, HealthyHasNoStrikes, and                                      *)
(*   StreaksDispute: the streak that can change the mode is never older    *)
(*   than the time since an evaluation last agreed with the mode.          *)
(* The action properties follow from them, one action at a time.  A        *)
(* verdict is written by EXCEPT at the key of a check, so each action is   *)
(* first shown to keep the types; the rest uses what the types say.        *)
(***************************************************************************)
EXTENDS KeyHealth, TLAPS

Step == [Next]_vars

(* The streaks of DegradedMode against disputedFor. *)
StreaksDispute ==
  /\ mode = "normal" => belowFor = None \/ belowFor <= disputedFor
  /\ mode = "degraded" => recoveredFor = None \/ recoveredFor <= disputedFor

(***************************************************************************)
(* The mode                                                                *)
(***************************************************************************)

(* An evaluation keeps the types of the mode and its streaks, whatever     *)
(* providers it finds.                                                     *)
LEMMA EvaluationType ==
  ASSUME ModeTypeOK, NEW present, NEW usable,
         updateDegradationState(present, usable)
  PROVE  ModeTypeOK'
  BY GraceAssumption
     DEF updateDegradationState, ModeReset, EvaluateLow, EvaluateEnough, ModeTypeOK,
         Age, Running, LongestGrace

(* Time keeps the types of the streaks. *)
LEMMA AgingType ==
  ASSUME ModeTypeOK, ModeAges
  PROVE  ModeTypeOK'
  BY GraceAssumption DEF ModeAges, ModeTypeOK, Age, Older, LongestGrace

(* An evaluation keeps the streak that matters within the dispute. *)
LEMMA EvaluationDispute ==
  ASSUME ModeTypeOK, StreaksDispute, NEW present, NEW usable,
         updateDegradationState(present, usable)
  PROVE  StreaksDispute'
  BY GraceAssumption
     DEF updateDegradationState, ModeReset, EvaluateLow, EvaluateEnough, ModeTypeOK,
         StreaksDispute, Age, Running, LongestGrace

(* Time passes for the streaks and the dispute alike; the dispute stops    *)
(* counting no earlier than either streak.                                 *)
LEMMA AgingDispute ==
  ASSUME ModeTypeOK, StreaksDispute, ModeAges
  PROVE  StreaksDispute'
  BY GraceAssumption DEF ModeAges, ModeTypeOK, StreaksDispute, Age, Older, LongestGrace

(***************************************************************************)
(* Types                                                                   *)
(***************************************************************************)

(* The verdict of a check is of the right types. *)
LEMMA VerdictType ==
  ASSUME TypeOK, NEW c \in checks, EndCheck(c)
  PROVE  TypeOK'
<1>1. c \in Check /\ c.key \in Keys
  BY DEF TypeOK, Check
<1>2. checks' \subseteq Check
  BY DEF TypeOK, EndCheck
<1>3. ModeTypeOK'
  BY DEF TypeOK, EndCheck, modeVars, ModeTypeOK
<1>4. UNCHANGED <<revalidatedFor, pass, requests, policy>>
  BY DEF EndCheck
<1>5. checkedAge' = [checkedAge EXCEPT ![c.key] = 0]
  BY DEF EndCheck, AnswerValid, AnswerInvalid, AnswerRateLimited, Unreachable, With
<1>6. checkedAge' \in [Keys -> Age(CheckAge)]
  BY <1>1, <1>5, HealthAssumption DEF TypeOK, Age, CheckAge
<1> DEFINE struck == OneMore(failureCount[c.key], DISABLE_AFTER)
           unreached == OneMore(transportFailures[c.key], PARK_AFTER)
<1>a. struck \in 0..DISABLE_AFTER
  BY <1>1, HealthAssumption DEF TypeOK, OneMore
<1>b. unreached \in 0..PARK_AFTER
  BY <1>1, HealthAssumption DEF TypeOK, OneMore
<1>7. CASE AnswerValid(c)
  BY <1>1, <1>2, <1>3, <1>4, <1>6, <1>7, HealthAssumption
     DEF TypeOK, AnswerValid, With, Statuses
<1>8. CASE AnswerInvalid(c)
  <2>1. /\ failureCount' = [failureCount EXCEPT ![c.key] = struck]
        /\ status' = [status EXCEPT ![c.key] = "invalid"]
        /\ enabled' \in {enabled, [enabled EXCEPT ![c.key] = FALSE]}
        /\ UNCHANGED <<transportFailures, rateLimitedFor>>
    BY <1>8 DEF AnswerInvalid, With
  <2> HIDE DEF struck
  <2> QED
    BY <1>1, <1>2, <1>3, <1>4, <1>6, <1>a, <2>1 DEF TypeOK, Statuses
<1>9. CASE AnswerRateLimited(c)
  BY <1>1, <1>2, <1>3, <1>4, <1>6, <1>9, HealthAssumption
     DEF TypeOK, AnswerRateLimited, With
<1>10. CASE Unreachable(c)
  <2>1. /\ transportFailures' = [transportFailures EXCEPT ![c.key] = unreached]
        /\ status' \in {status, [status EXCEPT ![c.key] = "error"]}
        /\ UNCHANGED <<enabled, failureCount, rateLimitedFor>>
    BY <1>10 DEF Unreachable, With
  <2> HIDE DEF unreached
  <2> QED
    BY <1>1, <1>2, <1>3, <1>4, <1>6, <1>b, <2>1 DEF TypeOK, Statuses
<1> QED
  BY <1>7, <1>8, <1>9, <1>10 DEF EndCheck

(* A check that is started is a check of that key. *)
LEMMA AskedType ==
  ASSUME TypeOK, NEW k \in Keys, NEW byPass \in BOOLEAN, BeginCheck(k, byPass)
  PROVE  checks' \subseteq Check
<1>1. checks' = checks \/ checks' = checks \cup {[key |-> k, byPass |-> byPass]}
  BY DEF BeginCheck
<1> QED
  BY <1>1 DEF TypeOK, Check

(* A pass that is started queues some of the keys. *)
LEMMA StartType ==
  ASSUME TypeOK, NEW force \in BOOLEAN, NEW manual \in BOOLEAN, StartPass(force, manual)
  PROVE  TypeOK'
<1> DEFINE queued == {k \in Keys : enabled[k] /\ Due(k, force, manual)}
<1>1. queued \in SUBSET Keys
  OBVIOUS
<1>2. pass' = [running |-> TRUE, queue |-> queued]
  BY DEF StartPass
<1>3. UNCHANGED <<row, memory, checks, requests, policy, modeVars>>
  BY DEF StartPass
<1> HIDE DEF queued
<1>4. pass' \in [running : BOOLEAN, queue : SUBSET Keys]
  BY <1>1, <1>2
<1> QED
  BY <1>3, <1>4 DEF TypeOK, row, memory, modeVars, ModeTypeOK

(* What a worker or a pass under way does. *)
LEMMA AskingType ==
  ASSUME TypeOK,
         \/ \E k \in Keys : CheckOne(k) \/ PassChecks(k)
         \/ ScheduledPass \/ WakePass \/ CheckAll
         \/ EndPass
  PROVE  TypeOK'
<1>1. CASE \E k \in Keys : CheckOne(k) \/ PassChecks(k)
  <2>1. PICK k \in Keys : CheckOne(k) \/ PassChecks(k)
    BY <1>1
  <2>3. checks' \subseteq Check
    BY <2>1, AskedType DEF CheckOne, PassChecks
  <2>2. pass' = pass \/ pass' = [running |-> TRUE, queue |-> pass.queue \ {k}]
    BY <2>1 DEF CheckOne, PassChecks
  <2>4. pass' \in [running : BOOLEAN, queue : SUBSET Keys]
    <3> DEFINE rest == pass.queue \ {k}
    <3>1. rest \in SUBSET Keys
      BY DEF TypeOK
    <3>2. pass' = pass \/ pass' = [running |-> TRUE, queue |-> rest]
      BY <2>2
    <3>3. pass \in [running : BOOLEAN, queue : SUBSET Keys]
      BY DEF TypeOK
    <3> HIDE DEF rest
    <3>4. [running |-> TRUE, queue |-> rest] \in [running : BOOLEAN, queue : SUBSET Keys]
      BY <3>1
    <3> QED
      BY <3>2, <3>3, <3>4
  <2>5. UNCHANGED <<row, memory, requests, policy, modeVars>>
    BY <2>1 DEF CheckOne, PassChecks
  <2> QED
    BY <2>3, <2>4, <2>5 DEF TypeOK, row, memory, modeVars, ModeTypeOK
<1>2. CASE ScheduledPass \/ WakePass \/ CheckAll
  BY <1>2, StartType DEF ScheduledPass, WakePass, CheckAll
<1>3. CASE EndPass
  <2>1. ModeTypeOK'
    BY <1>3, EvaluationType DEF TypeOK, EndPass
  <2> QED
    BY <1>3, <2>1 DEF TypeOK, EndPass, NoPass, row, memory
<1> QED
  BY <1>1, <1>2, <1>3

(* What requests and the operator do to a key. *)
LEMMA RequestType ==
  ASSUME TypeOK, NEW k \in Keys,
         Dispatch(k) \/ DecryptError(k) \/ Serve(k) \/ FailRequest(k) \/ Reject(k)
  PROVE  TypeOK'
<1>1. 0 \in Age(CheckAge) /\ {"error", "healthy"} \subseteq Statuses
  BY HealthAssumption DEF Age, CheckAge, Statuses
<1>2. CASE Dispatch(k) \/ FailRequest(k)
  BY <1>2 DEF TypeOK, Dispatch, FailRequest, row, memory, modeVars, ModeTypeOK
<1>3. CASE DecryptError(k)
  BY <1>1, <1>3 DEF TypeOK, DecryptError, With, memory, modeVars, ModeTypeOK
<1>4. CASE Serve(k)
  BY <1>1, <1>4, HealthAssumption
     DEF TypeOK, Serve, markKeyHealthyFromRequest, With, modeVars, ModeTypeOK
<1>5. CASE Reject(k)
  <2>1. checks' \subseteq Check
    BY <1>5, AskedType DEF TypeOK, Reject
  <2>2. revalidatedFor' \in [Keys -> 0..REVALIDATION_DEDUPE]
    <3>1. REVALIDATION_DEDUPE \in 0..REVALIDATION_DEDUPE
      BY HealthAssumption
    <3>2. revalidatedFor' \in {revalidatedFor, [revalidatedFor EXCEPT ![k] = REVALIDATION_DEDUPE]}
      BY <1>5 DEF Reject, With
    <3> QED
      BY <3>1, <3>2 DEF TypeOK
  <2>3. requests' \subseteq Keys
    BY <1>5 DEF TypeOK, Reject
  <2>4. UNCHANGED <<row, failureCount, transportFailures, rateLimitedFor, pass, policy,
                    modeVars>>
    BY <1>5 DEF Reject
  <2> QED
    BY <2>1, <2>2, <2>3, <2>4 DEF TypeOK, row, modeVars, ModeTypeOK
<1> QED
  BY <1>2, <1>3, <1>4, <1>5

LEMMA OperatorType ==
  ASSUME TypeOK, NEW k \in Keys,
         (\E on \in BOOLEAN : EditKey(k, on)) \/ SwitchKey(k) \/ EnableAgain(k)
  PROVE  TypeOK'
  BY DEF TypeOK, EditKey, SwitchKey, EnableAgain, With, Age, Statuses, memory, modeVars,
         ModeTypeOK

(* Time and a restart. *)
LEMMA WorldType ==
  ASSUME TypeOK, Tick \/ Restart
  PROVE  TypeOK'
<1>1. CASE Tick
  <2>1. ModeTypeOK'
    BY <1>1, AgingType DEF TypeOK, Tick
  <2>2. checkedAge' \in [Keys -> Age(CheckAge)]
    BY <1>1, HealthAssumption DEF TypeOK, Tick, Older, Age, CheckAge
  <2> QED
    BY <1>1, <2>1, <2>2, HealthAssumption DEF TypeOK, Tick, OneLess
<1>2. CASE Restart
  BY <1>2, HealthAssumption, GraceAssumption
     DEF TypeOK, Restart, Forget, ModeReset, NoPass, row, ModeTypeOK, Age, LongestGrace
<1> QED
  BY <1>1, <1>2

LEMMA TypeStep ==
  ASSUME TypeOK, Step
  PROVE  TypeOK'
<1>1. CASE UNCHANGED vars
  BY <1>1 DEF vars, modeVars, TypeOK, ModeTypeOK
<1> QED
  BY <1>1, VerdictType, AskingType, RequestType, OperatorType, WorldType DEF Step, Next

(***************************************************************************)
(* What a healthy key carries                                              *)
(***************************************************************************)

(* Each action keeps HealthyHasNoStrikes: the ones that make a key healthy *)
(* clear its strikes, the one that adds a strike calls it invalid.         *)
LEMMA StrikesStep ==
  ASSUME TypeOK, HealthyHasNoStrikes, Step
  PROVE  HealthyHasNoStrikes'
<1>1. ASSUME NEW c \in checks, EndCheck(c)
      PROVE  HealthyHasNoStrikes'
  <2>1. c.key \in Keys
    BY DEF TypeOK, Check
  <2> QED
    BY <1>1, <2>1
       DEF TypeOK, HealthyHasNoStrikes, EndCheck, AnswerValid, AnswerInvalid,
           AnswerRateLimited, Unreachable, With
<1>2. ASSUME NEW k \in Keys, DecryptError(k) \/ Serve(k) \/ EnableAgain(k)
      PROVE  HealthyHasNoStrikes'
  BY <1>2
     DEF TypeOK, HealthyHasNoStrikes, DecryptError, Serve, markKeyHealthyFromRequest,
         EnableAgain, With, memory
<1>3. ASSUME NEW k \in Keys, NEW on \in BOOLEAN, EditKey(k, on)
      PROVE  HealthyHasNoStrikes'
  BY <1>3 DEF TypeOK, HealthyHasNoStrikes, EditKey, With, memory
<1>4. ASSUME Restart
      PROVE  HealthyHasNoStrikes'
  BY <1>4 DEF HealthyHasNoStrikes, Restart, Forget
<1>5. ASSUME UNCHANGED <<status, failureCount>>
      PROVE  HealthyHasNoStrikes'
  BY <1>5 DEF HealthyHasNoStrikes
<1>6. ASSUME \/ \E k \in Keys : \/ CheckOne(k) \/ PassChecks(k) \/ Dispatch(k)
                               \/ FailRequest(k) \/ Reject(k) \/ SwitchKey(k)
             \/ ScheduledPass \/ WakePass \/ CheckAll \/ EndPass \/ Tick
             \/ UNCHANGED vars
      PROVE  UNCHANGED <<status, failureCount>>
  BY <1>6
     DEF CheckOne, PassChecks, Dispatch, FailRequest, Reject, SwitchKey, ScheduledPass,
         WakePass, CheckAll, StartPass, EndPass, Tick, vars, row, memory
<1> QED
  BY <1>1, <1>2, <1>3, <1>4, <1>5, <1>6 DEF Step, Next

(***************************************************************************)
(* Who calls a key invalid, and who switches it off                        *)
(***************************************************************************)

(* A verdict changes the status and the switch of the key of its check     *)
(* only.  Only a rejection gives 'invalid', only a success takes it, and   *)
(* the key goes off only on a rejection that is one too many.              *)
LEMMA VerdictIsLocal ==
  ASSUME TypeOK, NEW c \in checks, EndCheck(c)
  PROVE  /\ c \in checks \ checks'
         /\ \A k \in Keys : k # c.key => status'[k] = status[k] /\ enabled'[k] = enabled[k]
         /\ status[c.key] # "invalid" /\ status'[c.key] = "invalid" => AnswerInvalid(c)
         /\ status[c.key] = "invalid" /\ status'[c.key] # "invalid" => AnswerValid(c)
         /\ enabled[c.key] /\ ~enabled'[c.key] =>
              AnswerInvalid(c) /\ failureCount[c.key] >= DISABLE_AFTER - 1
<1>1. c.key \in Keys
  BY DEF TypeOK, Check
<1>2. c \in checks \ checks'
  BY DEF EndCheck
<1>3. \A k \in Keys : k # c.key => status'[k] = status[k] /\ enabled'[k] = enabled[k]
  BY <1>1
     DEF TypeOK, EndCheck, AnswerValid, AnswerInvalid, AnswerRateLimited, Unreachable, With
<1>4. CASE AnswerInvalid(c)
  <2>1. failureCount[c.key] \in 0..DISABLE_AFTER /\ DISABLE_AFTER \in Nat \ {0}
    BY <1>1, HealthAssumption DEF TypeOK
  <2>2. status'[c.key] = "invalid"
    BY <1>1, <1>4 DEF TypeOK, AnswerInvalid, With
  <2>3. ASSUME enabled[c.key], ~enabled'[c.key]
        PROVE  OneMore(failureCount[c.key], DISABLE_AFTER) >= DISABLE_AFTER
    BY <1>4, <2>3 DEF AnswerInvalid
  <2>4. ASSUME OneMore(failureCount[c.key], DISABLE_AFTER) >= DISABLE_AFTER
        PROVE  failureCount[c.key] >= DISABLE_AFTER - 1
    BY <2>1, <2>4 DEF OneMore
  <2> QED
    BY <1>2, <1>3, <1>4, <2>2, <2>3, <2>4
<1>5. CASE ~AnswerInvalid(c)
  <2>1. enabled' = enabled
    BY <1>5 DEF EndCheck, AnswerValid, AnswerRateLimited, Unreachable
  <2>2. CASE AnswerValid(c)
    <3>1. status'[c.key] # "invalid"
      BY <1>1, <2>2 DEF TypeOK, AnswerValid, With
    <3> QED
      BY <1>2, <1>3, <2>1, <2>2, <3>1
  <2>3. CASE AnswerRateLimited(c) \/ Unreachable(c)
    <3>1. (status'[c.key] = "invalid") <=> (status[c.key] = "invalid")
      BY <1>1, <2>3 DEF TypeOK, AnswerRateLimited, Unreachable, With, InRotation, Usable
    <3> QED
      BY <1>2, <1>3, <2>1, <3>1
  <2> QED
    BY <1>5, <2>2, <2>3 DEF EndCheck
<1> QED
  BY <1>4, <1>5

(* What the rest does to the status and the switch of a key.               *)
LEMMA QuietSteps ==
  ASSUME \/ \E k \in Keys : CheckOne(k) \/ PassChecks(k) \/ Dispatch(k) \/ FailRequest(k)
         \/ \E k \in Keys : Reject(k)
         \/ ScheduledPass \/ WakePass \/ CheckAll \/ EndPass \/ Tick \/ Restart
         \/ UNCHANGED vars
  PROVE  UNCHANGED <<status, enabled>>
  BY DEF CheckOne, PassChecks, Dispatch, FailRequest, Reject, ScheduledPass, WakePass,
         CheckAll, StartPass, EndPass, Tick, Restart, vars, row, memory

(* In every step 'invalid' is a rejection's to give, and a success's or    *)
(* the operator's to take back.                                            *)
LEMMA InvalidStep ==
  ASSUME TypeOK, Step, NEW k \in Keys
  PROVE  /\ status[k] # "invalid" /\ status'[k] = "invalid" =>
              \E c \in checks : c.key = k /\ EndCheck(c) /\ AnswerInvalid(c)
         /\ status[k] = "invalid" /\ status'[k] # "invalid" =>
              \/ \E c \in checks : c.key = k /\ EndCheck(c) /\ AnswerValid(c)
              \/ EnableAgain(k) \/ \E on \in BOOLEAN : EditKey(k, on)
<1> SUFFICES ASSUME (status[k] = "invalid") # (status'[k] = "invalid")
             PROVE  \/ /\ status'[k] = "invalid"
                       /\ \E c \in checks : c.key = k /\ EndCheck(c) /\ AnswerInvalid(c)
                    \/ /\ status'[k] # "invalid"
                       /\ \/ \E c \in checks : c.key = k /\ EndCheck(c) /\ AnswerValid(c)
                          \/ EnableAgain(k) \/ \E on \in BOOLEAN : EditKey(k, on)
  OBVIOUS
<1>1. CASE \E c \in checks : EndCheck(c)
  BY <1>1, VerdictIsLocal
<1>2. ASSUME NEW j \in Keys, DecryptError(j)
      PROVE  FALSE
  BY <1>2 DEF TypeOK, DecryptError, InRotation, Usable, With
<1>3. ASSUME NEW j \in Keys, Serve(j)
      PROVE  FALSE
  BY <1>3 DEF TypeOK, Serve, markKeyHealthyFromRequest, With
<1>4. ASSUME NEW j \in Keys, SwitchKey(j)
      PROVE  FALSE
  BY <1>4 DEF SwitchKey
<1>5. ASSUME NEW j \in Keys, EnableAgain(j)
      PROVE  j = k /\ status'[k] # "invalid"
  BY <1>5 DEF TypeOK, EnableAgain, With
<1>6. ASSUME NEW j \in Keys, NEW on \in BOOLEAN, EditKey(j, on)
      PROVE  j = k /\ status'[k] # "invalid"
  BY <1>6 DEF TypeOK, EditKey, With
<1> QED
  BY <1>1, <1>2, <1>3, <1>4, <1>5, <1>6, QuietSteps DEF Step, Next

(* Every step that switches a key off is the operator's, or a rejection    *)
(* that is one too many.                                                   *)
LEMMA OutageStep ==
  ASSUME TypeOK, Step, NEW k \in Keys, enabled[k], ~enabled'[k]
  PROVE  \/ /\ failureCount[k] >= DISABLE_AFTER - 1
            /\ \E c \in checks : c.key = k /\ EndCheck(c) /\ AnswerInvalid(c)
         \/ SwitchKey(k) \/ EditKey(k, FALSE)
<1>1. CASE \E c \in checks : EndCheck(c)
  BY <1>1, VerdictIsLocal
<1>2. ASSUME NEW j \in Keys, DecryptError(j) \/ Serve(j)
      PROVE  FALSE
  BY <1>2 DEF DecryptError, Serve, markKeyHealthyFromRequest
<1>3. ASSUME NEW j \in Keys, SwitchKey(j)
      PROVE  j = k
  BY <1>3 DEF TypeOK, SwitchKey, With
<1>4. ASSUME NEW j \in Keys, EnableAgain(j)
      PROVE  FALSE
  BY <1>4 DEF TypeOK, EnableAgain, With
<1>5. ASSUME NEW j \in Keys, NEW on \in BOOLEAN, EditKey(j, on)
      PROVE  j = k /\ on = FALSE
  BY <1>5 DEF TypeOK, EditKey, With
<1> QED
  BY <1>1, <1>2, <1>3, <1>4, <1>5, QuietSteps DEF Step, Next

(***************************************************************************)
(* The mode does not flap                                                  *)
(***************************************************************************)

(* The mode and its streaks move by evaluation, time and restarts only.    *)
LEMMA ModeSteps ==
  ASSUME Step
  PROVE  \/ EndPass \/ Tick \/ Restart
         \/ UNCHANGED modeVars
  BY DEF Step, Next, EndCheck, CheckOne, ScheduledPass, WakePass, CheckAll, StartPass,
         PassChecks, Dispatch, DecryptError, Serve, FailRequest, Reject, EditKey,
         SwitchKey, EnableAgain, vars

LEMMA DisputeStep ==
  ASSUME ModeTypeOK, StreaksDispute, Step
  PROVE  StreaksDispute'
<1>1. CASE EndPass
  BY <1>1, EvaluationDispute DEF EndPass
<1>2. CASE Tick
  BY <1>2, AgingDispute DEF Tick
<1>3. CASE Restart
  BY <1>3 DEF Restart, ModeReset, StreaksDispute
<1>4. CASE UNCHANGED modeVars
  BY <1>4 DEF modeVars, StreaksDispute
<1> QED
  BY <1>1, <1>2, <1>3, <1>4, ModeSteps

(* An evaluation that changes the mode finds the dispute as long as the    *)
(* grace it has to wait for.                                               *)
LEMMA FlapStep ==
  ASSUME ModeTypeOK, StreaksDispute, Step
  PROVE  /\ mode = "normal" /\ mode' = "degraded" => disputedFor >= DEGRADED_ENTRY_GRACE
         /\ mode = "degraded" /\ mode' = "normal" =>
              \/ disputedFor >= DEGRADED_EXIT_GRACE
              \/ Restart
              \/ Cardinality(Present) < DEGRADED_MIN_PROVIDERS
<1>1. CASE EndPass
  <2>1. CASE Cardinality(Present) < DEGRADED_MIN_PROVIDERS /\ ModeReset
    BY <2>1 DEF ModeReset
  <2>2. CASE EvaluateLow
    BY <2>2, GraceAssumption
       DEF EvaluateLow, Running, ModeTypeOK, StreaksDispute, Age, LongestGrace
  <2>3. CASE EvaluateEnough
    BY <2>3, GraceAssumption
       DEF EvaluateEnough, Running, ModeTypeOK, StreaksDispute, Age, LongestGrace
  <2> QED
    BY <1>1, <2>1, <2>2, <2>3 DEF EndPass, updateDegradationState
<1>2. CASE Tick
  BY <1>2 DEF Tick, ModeAges
<1>3. CASE Restart
  BY <1>3 DEF Restart, ModeReset
<1>4. CASE UNCHANGED modeVars
  BY <1>4 DEF modeVars
<1> QED
  BY <1>1, <1>2, <1>3, <1>4, ModeSteps

(***************************************************************************)
(* Theorems                                                                *)
(***************************************************************************)
IInv == TypeOK /\ HealthyHasNoStrikes /\ StreaksDispute

(* The three inductive facts hold at the start and in every step.          *)
LEMMA InvHolds == Spec => []IInv
<1>1. Init => IInv
  <2> SUFFICES ASSUME Init PROVE IInv
    OBVIOUS
  <2>1. ModeTypeOK /\ StreaksDispute
    BY GraceAssumption DEF Init, ModeInit, ModeTypeOK, StreaksDispute, Age, LongestGrace
  <2> QED
    BY <2>1, HealthAssumption
       DEF Init, IInv, TypeOK, HealthyHasNoStrikes, Statuses, Age, CheckAge, NoPass
<1>2. IInv /\ [Next]_vars => IInv'
  BY TypeStep, StrikesStep, DisputeStep DEF IInv, Step, TypeOK
<1> QED
  BY <1>1, <1>2, PTL DEF Spec

(* Every variable keeps its type, for every set of keys and thresholds:    *)
(* the counters stop at their thresholds, and nobody but a check of a      *)
(* known key is ever waited for.                                           *)
THEOREM TypeCorrect == Spec => []TypeOK
<1>1. IInv => TypeOK
  BY DEF IInv
<1> QED
  BY <1>1, InvHolds, PTL

(* A key believed healthy carries no strike (health.ts:329, :474).         *)
THEOREM HealthyIsClean == Spec => []HealthyHasNoStrikes
<1>1. IInv => HealthyHasNoStrikes
  BY DEF IInv
<1> QED
  BY <1>1, InvHolds, PTL

(* Only a rejection calls a key invalid, only a successful check or the    *)
(* operator takes that back (health.ts:132, :453).                         *)
THEOREM RejectionStands == Spec => InvalidStands
<1>1. IInv /\ [Next]_vars =>
        [\A k \in Keys :
           /\ status[k] # "invalid" /\ status'[k] = "invalid" =>
                \E c \in checks : c.key = k /\ EndCheck(c) /\ AnswerInvalid(c)
           /\ status[k] = "invalid" /\ status'[k] # "invalid" =>
                \/ \E c \in checks : c.key = k /\ EndCheck(c) /\ AnswerValid(c)
                \/ EnableAgain(k) \/ \E on \in BOOLEAN : EditKey(k, on)]_vars
  BY InvalidStep DEF IInv, Step
<1> QED
  BY <1>1, InvHolds, PTL DEF Spec, InvalidStands

(* Nothing but the operator and repeated rejections switches a key off     *)
(* (health.ts:368).                                                        *)
THEOREM OutagesAreForgiven == Spec => OutageDisablesNothing
<1>1. IInv /\ [Next]_vars =>
        [\A k \in Keys :
           enabled[k] /\ ~enabled'[k] =>
             \/ /\ failureCount[k] >= DISABLE_AFTER - 1
                /\ \E c \in checks : c.key = k /\ EndCheck(c) /\ AnswerInvalid(c)
             \/ SwitchKey(k) \/ EditKey(k, FALSE)]_vars
  BY OutageStep DEF IInv, Step
<1> QED
  BY <1>1, InvHolds, PTL DEF Spec, OutageDisablesNothing

(* The mode changes only after its grace (degradation.ts:13).              *)
THEOREM ModeIsSteady == Spec => NoFlapping
<1>1. IInv /\ [Next]_vars =>
        [/\ mode = "normal" /\ mode' = "degraded" => disputedFor >= DEGRADED_ENTRY_GRACE
         /\ mode = "degraded" /\ mode' = "normal" =>
              \/ disputedFor >= DEGRADED_EXIT_GRACE
              \/ Restart
              \/ Cardinality(Present) < DEGRADED_MIN_PROVIDERS]_vars
  BY FlapStep DEF IInv, Step, TypeOK
<1> QED
  BY <1>1, InvHolds, PTL DEF Spec, NoFlapping
=============================================================================
