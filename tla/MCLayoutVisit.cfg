SPECIFICATION Spec
CONSTANTS
  Profiles = {p1, p2}
  Jobs = {j1, j2}
  None = None
  MaxActs = 2
  MaxChanges = 0
PROPERTY VisitStartsRunning
CHECK_DEADLOCK FALSE
