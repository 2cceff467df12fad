SPECIFICATION TSpec
CONSTANTS
  AnyValue = AnyValue
  Nil = Nil
  ClientStatuses <- MCClientStatuses
  DefaultPageSize = 2
  MaxPageSize = 3
  MaxSeconds = 1000
  StubLists <- MCStubLists
  VersionLists <- MCVersionLists
  Addresses <- MCAddresses
  Now = 10
  Requests <- MCRequests
INVARIANTS
  PagesPartition
  SortIsStable
  LastModifiedAsShown
  CountsMatchFilter
