SPECIFICATION Spec
CONSTANTS
  j1 = j1
  j2 = j2
  Jobs = {j1, j2}
  Shapes <- MCShapes
  Unknown = Unknown
  Nothing = Nothing
  Broken = Broken
  MaxTime = 3
  MaxChanges = 2
  MaxFailures = 1
PROPERTIES
  QuietAnswerIsCurrent
  RolloutClockSteady
CHECK_DEADLOCK FALSE
