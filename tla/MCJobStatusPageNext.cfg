SPECIFICATION Spec
CONSTANTS
  Nothing = Nothing
  AnyValue = AnyValue
  Nil = Nil
  ClientStatuses = {"running"}
  DefaultPageSize = 50
  MaxPageSize = 500
  MaxSeconds = 1000
  Lists <- MCLists
  Searches <- MCSearches
  Texts <- MCTexts
  Headers = {"lastModified", "node"}
  PageSizes = {1, 2}
  DefaultSize = 1
  VersionPageSizes = {1, 2}
  DefaultVersionSize = 1
  Bookmarks <- PageTwo
  KnownTimes <- MCTimes
  NodeIP <- MCNodeIP
  Now = 5
  MaxFailures = 0
  MaxActs = 2
  MaxChanges = 0
PROPERTY PagesStepByStep
CHECK_DEADLOCK FALSE
