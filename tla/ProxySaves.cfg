\* A purge, hang-ups, failing calls, eviction in both tiers and the ends of both lifetimes, around
\* the background saves of one key; the later version is too large for L1.
CONSTANTS
  r1 = r1
  r2 = r2
  Requests = {r1, r2}
  Keys = {k1}
  Nobody = Nobody
  None = None
  Failed = Failed
  Methods = {"GET"}
  Purges <- ByProxy
  Ttl = 1
  L1Ttl = 1
  Window = 1
  Small = {0}
  Forgets = TRUE
  Faults = {"get", "origin", "purge"}
  Leaves = TRUE
  MaxVersion = 1
  MaxTime = 2
SPECIFICATION FairSpec
INVARIANTS SavesTracked TiersAgree AgeBounded 
PROPERTIES RequestsAnswered SavesFinish
CONSTRAINT Bounded
CHECK_DEADLOCK FALSE
