SPECIFICATION FairQuerySpec
CONSTANTS
  k1 = k1
  k2 = k2
  other = other
  Keys <- MCKeys
  Profile <- MCProfile
  Nothing = Nothing
  MaxChanges = 1
  MaxFailures = 2
INVARIANTS
  PauseHolds
  NoIdleWait
  NeverAnothers
PROPERTIES
  NoFlicker
  EventuallyCurrent
