\* Three fetches, two permits; bodies below, at and above the limits.
CONSTANTS
  Fetches = {f1, f2, f3}
  Permits = 2
  Limit = 3
  Estimate = 2
  Threshold = 4
  Bodies = {0, 1, 4, 5}
  Unknown = Unknown
  Lengths = {0, 1, 2, 4, 5, Unknown}
SYMMETRY Symmetric
SPECIFICATION Spec
INVARIANTS BytesExact PermitsExact DeclaredWithinLimit
