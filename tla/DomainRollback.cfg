\* Requests that all hold the lock of their host.
CONSTANTS
  r1 = r1
  r2 = r2
  r3 = r3
  h1 = h1
  Hosts = {h1, h2}
  Requests = {r1, r2}
  Nobody = Nobody
  None = None
  Kinds <- LockedOnly
SPECIFICATION Spec
INVARIANT RowsAsDecided
CHECK_DEADLOCK FALSE
