SPECIFICATION Spec
CONSTANTS
  Nothing = Nothing
  AnyValue = AnyValue
  Nil = Nil
  ClientStatuses = {"running"}
  DefaultPageSize = 50
  MaxPageSize = 500
  MaxSeconds = 1000
  Lists <- MCLists
  Searches <- OneSearch
  Texts <- MCTexts
  Headers = {"lastModified", "node"}
  PageSizes = {1, 2}
  DefaultSize = 1
  VersionPageSizes = {1, 2}
  DefaultVersionSize = 1
  Bookmarks <- MCBookmarks
  KnownTimes <- MCTimes
  NodeIP <- MCNodeIP
  Now = 5
  MaxFailures = 0
  MaxActs = 2
  MaxChanges = 1
INVARIANT NothingHidden
PROPERTY HandlersKeepUrl
CHECK_DEADLOCK FALSE
