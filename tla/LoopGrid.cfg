SPECIFICATION TimedSpec
CONSTANTS
  q1 = q1
  q2 = q2
  r1 = r1
  r2 = r2
  r3 = r3
  r4 = r4
  Requests = {q1}
  None = None
  Routes = {r1, r2, r3}
  ModelOf <- GridModel
  KeyOf <- GridKey
  PlatformOf <- OnePlatform
  Barrier <- NoBarrier
  UpstreamFailures = {"over_output_cap", "model_not_found", "out_of_credits", "empty_at_length", "provider_bad_request", "format_ignored", "timeout"}
  MaxRetries = 3
  BaseBudget = 0
  EndpointBudget <- NoBudget
  BreakerLimit = 3
  EmptyStreakLimit = 2
  NotFoundLimit = 2
  Caps = {1, 2}
  NoCap = 3
  MaxTime = 0
  LastArrival = 0
INVARIANT NoBlindRetry
PROPERTY EveryRequestEnds
CHECK_DEADLOCK FALSE
