\* As deployed: the proxy's storage client is one mutex-guarded handle, purges
\* come from admin-server as well, and the eviction loop runs beside both.
\* A client that goes away drops a get while it reads; puts run in tasks of their own.
\* Two bodies fill the cache; at the deployed ratios one pass evicts the older one.
CONSTANTS
  k1 = k1
  k2 = k2
  Keys <- MCKeys
  DomainOf <- MCDomainOf
  MaxSize = 4
  Sizes = {2, 3}
  Ttls = {1}
  HardPct = 90
  TargetPct = 75
  Clients = {proxy}
  Admins = {admin}
  Evictor = evictor
  MaxTime = 2
  MaxPuts = 3
  Crashes = FALSE
  CancelAt = {"read", "read_br", "heal"}
  DiskFaults = FALSE
SPECIFICATION FairSpec
CONSTRAINT FirstPut
  
PROPERTIES HealsOnlyGhosts EvictionRelieves
