SPECIFICATION Spec
CONSTANTS
  None = None
  Keys = {k1}
  PlatformOf <- OwnPlatform
  Others = {p2}
  PARK_AFTER = 2
  DISABLE_AFTER = 2
  RECENT_CHECK_SKIP = 1
  RATE_LIMIT_SKIP = 1
  NO_POLL_REPROBE = 1
  REVALIDATION_DEDUPE = 1
  DEGRADED_HEALTHY_PERCENT = 60
  DEGRADED_MIN_PROVIDERS = 2
  DEGRADED_ENTRY_GRACE = 1
  DEGRADED_EXIT_GRACE = 1
INVARIANTS TypeOK HealthyHasNoStrikes
PROPERTIES InvalidStands OutageDisablesNothing NoFlapping SelfHeals ModeLifts
