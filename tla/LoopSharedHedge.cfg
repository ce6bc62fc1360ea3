SPECIFICATION Spec
CONSTANTS
  q1 = q1
  q2 = q2
  r1 = r1
  r2 = r2
  r3 = r3
  r4 = r4
  Requests = {q1}
  None = None
  Routes = {r1, r2, r3, r4}
  ModelOf <- FourModel
  KeyOf <- FourModel
  PlatformOf <- FourModel
  Barrier <- NoBarrier
  UpstreamFailures = {"rate_limited"}
  MaxRetries = 4
  BaseBudget = 2
  EndpointBudget <- SlowFourth
  BreakerLimit = 0
  EmptyStreakLimit = 2
  NotFoundLimit = 2
  Caps = {}
  NoCap = 3
  MaxTime = 5
  LastArrival = 0
PROPERTY OwnBudget
CHECK_DEADLOCK FALSE
