SPECIFICATION JSpec
CONSTANTS
  AnyValue = AnyValue
  Nil = Nil
  ClientStatuses <- MCClientStatuses
  DefaultPageSize = 2
  MaxPageSize = 3
  MaxSeconds = 1000
  Queries <- MCQueries
  FetchConcurrency = 2
  MaxChanges = 3
INVARIANTS
  CompleteRows
  NotFoundMeansGone
  QuietAnswerIsCurrent
  RowsAgreeWithGroups
  NeverStuck
CHECK_DEADLOCK FALSE
