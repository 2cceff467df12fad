SPECIFICATION USpec
CONSTANTS
  Key = {}
  Value = {}
  Capacity = 1
  TTL = 0
  MaxTime = 0
  Caller = {c1, c2}
  Rollout = 30
  Idle = 6
  Hour = 360
  Epoch = 1000000
  Files <- MCFilesPolled
  Polled <- MCPolled
  Watched <- MCWatchedStatic
  Instants <- MCInstants
SYMMETRY MCSymmetry
VIEW MCView
CHECK_DEADLOCK FALSE
INVARIANT
  NodeIPIsOfTheNode
