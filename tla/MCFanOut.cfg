SPECIFICATION FairSpec
CONSTANTS
  N = 5
  MaxConcurrent = 2
INVARIANTS
  ConcurrencyBound
  NoSendOnClosed
  NothingOutlivesWait
  ErrorsExactlyOnce
  IInv
PROPERTIES
  Termination
  Refinement
CHECK_DEADLOCK FALSE
