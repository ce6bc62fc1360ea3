\* One model, three catalogs of every content, the first too old for this binary, two syncs.
SPECIFICATION Spec
CONSTANTS
  None = None
  Models = {m1}
  Versions = {1, 2, 3}
  MIN_CATALOG_VERSION = 2
  Syncs = {poll, asked}
  Scheduled = poll
INVARIANT DeletedStaysDeleted
PROPERTIES RetirementOutlivesRestart Converges
