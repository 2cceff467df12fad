SPECIFICATION DeploymentSpec
CONSTANTS
  k1 = k1
  k2 = k2
  Selections <- OneKey
  Statuses = {"", "deploying", "deployed"}
  Nothing = Nothing
  MaxChanges = 2
  MaxFailures = 1
INVARIANT ToldOfEveryChange
PROPERTY NoticesMoveForward
