SPECIFICATION Spec
CONSTANTS
  JobLists <- MCJobLists
  Searches <- MCSearches
  AnyJob = AnyJob
  PageSizes = {1, 2}
  DefaultSize = 1
  Bookmarks <- MCBookmarks
  MaxActs = 4
INVARIANT UrlRestoresView
CHECK_DEADLOCK FALSE
