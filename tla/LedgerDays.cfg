\* Attempts that end within the age of their lease: daily limits across midnight.
SPECIFICATION Spec
CONSTANTS
  m1 = m1
  m2 = m2
  Models = {m1, m2}
  NoLimit = NoLimit
  rpm <- Free
  rpd <- One
  tpm <- SecondTwo
  tpd <- SecondThree
  MinuteCap = NoLimit
  DailyCap = 4
  TokenCap = 6
  multiplier <- FlatRate
  Concurrency = 2
  MonthRequestCap = NoLimit
  MonthTokenCap = NoLimit
  MINUTE = 1
  DAY = 3
  MONTH = 8
  LEASE_MAX_AGE = 2
  Estimates = {1}
  Overrun = 0
  LongAttempts = FALSE
  MaxTime = 3
  MaxAttempts = 5
INVARIANTS DayKept ConcurrencyKept TokensKept PoolKept
