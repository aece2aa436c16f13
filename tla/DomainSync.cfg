CONSTANTS
  Hosts = {h1}
  Requests = {r1, r2}
  Nobody = Nobody
  None = None
  Monitor = Monitor
  MaxRestarts = 1
  Kinds <- MCKinds
SYMMETRY Symmetric
VIEW Relevant
SPECIFICATION SyncSpec
INVARIANTS Converged Resolvable
CHECK_DEADLOCK FALSE
