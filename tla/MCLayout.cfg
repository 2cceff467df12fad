SPECIFICATION FairSpec
CONSTANTS
  Profiles = {p1, p2}
  Jobs = {j1, j2}
  None = None
  MaxActs = 4
  MaxChanges = 1
INVARIANT PauseIsForThisJob
PROPERTIES
  SwitchLandsOnListedJob
  SwitchEnds
CHECK_DEADLOCK FALSE
