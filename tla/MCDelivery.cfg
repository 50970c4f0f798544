\* Two consumers share a partition: one failed call, one crash, one broker restart.
SPECIFICATION Spec
CONSTANTS
  c1 = c1
  c2 = c2
  Consumers <- MCConsumers
  Partitions <- MCOnePartition
  Shares <- MCShares
  FetchMax = 2
  MaxMessages = 3
  MaxLog = 4
  MaxFaults = 1
  MaxCrashes = 1
  MaxRestarts = 1
SYMMETRY MCSymmetry
INVARIANTS
  TypeOK
  NothingSkipped
CHECK_DEADLOCK FALSE
