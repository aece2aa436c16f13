SPECIFICATION Spec
SYMMETRY Symmetric
INVARIANTS CachedAreWhole
CONSTANTS
  r1 = r1
  r2 = r2
  Requests = {r1, r2}
  Keys = {k1}
  Nobody = Nobody
  None = None
  Failed = Failed
  Methods = {"GET", "HEAD"}
  Purges = {}
  Ttl = 1
  L1Ttl = 1
  Window = 1
  Small = {0}
  Forgets = FALSE
  Faults = {}
  Leaves = FALSE
  MaxVersion = 0
  MaxTime = 1
CHECK_DEADLOCK FALSE
