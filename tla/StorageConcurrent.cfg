\* CacheLayer called by two concurrent callers, with crashes, dropped calls and
\* failing writes: what the accounting guarantees to any caller.
CONSTANTS
  k1 = k1
  k2 = k2
  Keys <- MCKeys
  DomainOf <- MCDomainOf
  MaxSize = 3
  Sizes = {2, 4}
  Ttls = {1}
  HardPct = 60
  TargetPct = 50
  Clients = {p, q}
  Admins = {}
  Evictor = evictor
  MaxTime = 2
  MaxPuts = 2
  Crashes = TRUE
  CancelAt = {"put_evict", "put_unlink", "open", "open_br", "register", "rollback", "unlink", "read", "read_br", "heal"}
  DiskFaults = TRUE
SPECIFICATION Spec
CONSTRAINT FirstPut
PROPERTIES ImplementsBoundedStore
