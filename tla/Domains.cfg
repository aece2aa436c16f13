\* A kind that holds the lock of its host without a transaction, one with, and one without a lock.
CONSTANTS
  r1 = r1
  r2 = r2
  r3 = r3
  h1 = h1
  Hosts = {h1, h2}
  Requests = {r1, r2, r3}
  Nobody = Nobody
  None = None
  Kinds <- ToggleDeleteSync
SPECIFICATION FairSpec
INVARIANTS FirstComeFirstServed RowsAsDecidedAlone
PROPERTY RequestsAnswered
CONSTRAINT InOrder
CHECK_DEADLOCK FALSE
