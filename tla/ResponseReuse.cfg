SPECIFICATION Spec
CONSTANTS
  None = None
  Contents = {c1, c2}
  IdemKeys = {k1}
  Slots = {r1, r2}
  MaxEntries = 2
  TTL = 1
  IDEM_TTL = 2
  Headers <- Mixed
  MaxPending = 2
SYMMETRY Sym
INVARIANTS TypeOK CombinedCap FlushHolds TableMirrorsMemory RetryIsFree
PROPERTIES ColdestGoesFirst
