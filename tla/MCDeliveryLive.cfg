\* One consumer of two partitions: every message reaches the database or is known to be lost.
SPECIFICATION FairSpec
CONSTANTS
  c1 = c1
  c2 = c2
  Consumers <- MCOneConsumer
  Partitions <- MCTwoPartitions
  Shares <- MCAllShares
  FetchMax = 2
  MaxMessages = 3
  MaxLog = 3
  MaxFaults = 1
  MaxCrashes = 1
  MaxRestarts = 0
INVARIANTS
  ReplayAtMostOne
PROPERTIES
  EveryMessageSettles
CHECK_DEADLOCK FALSE
