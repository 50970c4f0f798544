\* Violation: Close waits for itself when there is a batch to flush.
SPECIFICATION FairSpec
CONSTANTS
  s1 = s1
  s2 = s2
  Sources <- MCOneSource
  BatchSize = 2
  MaxRetries = 1
  WriteRetries = 1
  FailureThreshold = 2
  SuccessThreshold = 2
  MaxList = 1
  MaxRecords = 3
PROPERTIES
  CloseReturns
CHECK_DEADLOCK FALSE
