\* Every consumer gets partitions in the end.
SPECIFICATION FairSpec
CONSTANTS
  b1 = b1
  b2 = b2
  Brokers <- MCBrokers
  Members <- MCMembers
  NumPartitions = 2
  MaxGeneration = 1
  MaxFaults = 1
  MaxExpiries = 0
  MayLeave = TRUE
PROPERTIES
  UnassignedGetsPartitions
CHECK_DEADLOCK FALSE
