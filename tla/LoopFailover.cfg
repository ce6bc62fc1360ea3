SPECIFICATION Spec
CONSTANTS
  q1 = q1
  q2 = q2
  r1 = r1
  r2 = r2
  r3 = r3
  r4 = r4
  Requests = {q1}
  None = None
  Routes = {r1, r2, r3}
  ModelOf <- ApartModel
  KeyOf <- ApartModel
  PlatformOf <- ApartModel
  Barrier <- NoBarrier
  UpstreamFailures = {"rate_limited", "timeout", "garbled_turn", "fatal"}
  MaxRetries = 3
  BaseBudget = 2
  EndpointBudget <- SlowThird
  BreakerLimit = 0
  EmptyStreakLimit = 2
  NotFoundLimit = 2
  Caps = {}
  NoCap = 3
  MaxTime = 4
  LastArrival = 0
INVARIANT TypeOK
INVARIANT OneAnswer
INVARIANT LeasesMatchAttempts
INVARIANT OneHopIsAlwaysAllowed
INVARIANT CommittedIsNotCut
PROPERTY NoRetryForNobody
PROPERTY HangupBlamesNobody
PROPERTY StallEnds
CHECK_DEADLOCK FALSE
