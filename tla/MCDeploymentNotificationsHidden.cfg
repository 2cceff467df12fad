SPECIFICATION FairDeploymentSpec
CONSTANTS
  k1 = k1
  k2 = k2
  Selections <- OneKey
  Statuses = {"deploying", "deployed"}
  Nothing = Nothing
  MaxChanges = 1
  MaxFailures = 0
PROPERTY NoticesInAnyTab
