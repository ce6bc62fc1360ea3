\* One route whose bench is replaced while a probe of its key is awaited.
SPECIFICATION Spec
CONSTANTS
  Models = {m1}
  Keys = {k1}
  UnknownLimits = {}
  DailyLimited = {}
  LocalKeys = {}
  LateInBand = FALSE
  Attribution = FALSE
  Ceiling = 5
  LOCAL_BENCH = 1
  TRANSIENT_BENCH = 1
  AUTH_BENCH = 2
  TRUNCATION_BENCH = 2
  MODEL_BENCH = 3
  UNKNOWN_MAX = 3
  DAY_BENCH = 5
  COOLDOWN_DURATIONS <- Ladder
  LADDER_WINDOW = 5
  NULL_HIT_WINDOW = 3
  MODEL_FAILURE_WINDOW = 0
  NULL_HIT_THRESHOLD = 2
  MODEL_FAILURE_THRESHOLD = 2
  STREAK_LIMIT = 1
  MIN_REMAINING = 1
  PROBE_BACKOFFS <- Backoffs
  STAGGER = 0
  MAX_PROBES = 1
  StatedRetries = {4}
  MaxTime = 3
  MaxInflight = 2
  MaxHits = 4
PROPERTY ProbeSparesFacts
