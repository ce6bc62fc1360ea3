\* Attempts of any length: minute limits, and monthly caps across the month's end.
SPECIFICATION Spec
CONSTANTS
  m1 = m1
  m2 = m2
  Models = {m1, m2}
  NoLimit = NoLimit
  rpm <- One
  rpd <- Free
  tpm <- Free
  tpd <- Free
  MinuteCap = 2
  DailyCap = NoLimit
  TokenCap = NoLimit
  multiplier <- FlatRate
  Concurrency = NoLimit
  MonthRequestCap = 3
  MonthTokenCap = 4
  MINUTE = 1
  DAY = 3
  MONTH = 3
  LEASE_MAX_AGE = 2
  Estimates = {2}
  Overrun = 1
  LongAttempts = TRUE
  MaxTime = 4
  MaxAttempts = 4
INVARIANTS TypeOK MinuteKept MonthRequestsKept MonthTokensKept
