SPECIFICATION JSpec
CONSTANTS
  AnyValue = AnyValue
  Nil = Nil
  ClientStatuses <- MCClientStatuses
  DefaultPageSize = 2
  MaxPageSize = 3
  MaxSeconds = 1000
  Queries <- MCQueries
  FetchConcurrency = 2
  MaxChanges = 2
INVARIANTS
  LastModifiedIsSinceSubmit
CHECK_DEADLOCK FALSE
