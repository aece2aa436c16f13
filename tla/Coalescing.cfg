\* Three requests on two keys: a leader, a subscriber, and a stranger or a
\* successor of the leader, with a capacity of zero among those asked for.
CONSTANTS
  Requests = {r1, r2, r3}
  Keys = {a, b}
  Values = {v, w}
  Capacities = {0, 2}
  Nobody = Nobody
  None = None
  Failed = Failed
SPECIFICATION FairSpec
PROPERTIES ImplementsSharedFetch WaitersAnswered
