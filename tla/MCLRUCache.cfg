SPECIFICATION HSpec
CONSTANTS
  Key = {k1, k2, k3}
  Value = {v1, v2}
  Capacity = 2
  TTL = 1
  MaxTime = 3
INVARIANTS
  CacheIntact
  ExactlyMostRecent
PROPERTIES
  Refinement
