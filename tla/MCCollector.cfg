\* Two sources, batches of two, one retry each; main closes at any time.
SPECIFICATION FairSpec
CONSTANTS
  s1 = s1
  s2 = s2
  Sources <- MCSources
  BatchSize = 2
  MaxRetries = 1
  WriteRetries = 1
  FailureThreshold = 2
  SuccessThreshold = 2
  MaxList = 2
  MaxRecords = 4
INVARIANTS
  TypeOK
  Accounted
  BatchBounded
PROPERTIES
  DroppedWhileOpen
  LoopEnds
CHECK_DEADLOCK FALSE
