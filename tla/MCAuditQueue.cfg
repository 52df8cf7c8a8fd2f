CONSTANTS
  Logs = {l1, l2, l3, l4}
  QueueSize = 1
  BatchSize = 2
  MaxRetry = 3
SPECIFICATION FairSpec
INVARIANTS
  TypeOK
  InOnePlace
  PendingBounded
  GivenUpAfterAttempts
PROPERTIES
  QueuedIsSettled
  CloseReturns
CHECK_DEADLOCK FALSE
