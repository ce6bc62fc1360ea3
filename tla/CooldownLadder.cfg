\* One route without published limits: how far guesses may climb while probes lift benches.
SPECIFICATION Spec
CONSTANTS
  Models = {m1}
  Keys = {k1}
  UnknownLimits = {m1}
  DailyLimited = {}
  LocalKeys = {}
  LateInBand = TRUE
  Attribution = FALSE
  Ceiling = 5
  LOCAL_BENCH = 1
  TRANSIENT_BENCH = 1
  AUTH_BENCH = 2
  TRUNCATION_BENCH = 2
  MODEL_BENCH = 3
  UNKNOWN_MAX = 3
  DAY_BENCH = 5
  COOLDOWN_DURATIONS <- Ladder
  LADDER_WINDOW = 6
  NULL_HIT_WINDOW = 4
  MODEL_FAILURE_WINDOW = 0
  NULL_HIT_THRESHOLD = 2
  MODEL_FAILURE_THRESHOLD = 2
  STREAK_LIMIT = 1
  MIN_REMAINING = 1
  PROBE_BACKOFFS <- Backoffs
  STAGGER = 1
  MAX_PROBES = 1
  StatedRetries = {4}
  MaxTime = 4
  MaxInflight = 3
  MaxHits = 4
INVARIANT GuessCapped
