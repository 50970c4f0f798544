\* Two brokers under either coordinator, three goroutines at a storage, three
\* assignments in a row, two records sent and a consumer that polls, and an
\* administrator who looks at two partitions.
SPECIFICATION Spec
CONSTANTS
  e1 = e1
  e2 = e2
  c1 = c1
  c2 = c2
  w1 = w1
  w2 = w2
  w3 = w3
  s1 = s1
  s2 = s2
  Brokers <- MCBrokers
  NoBroker = NoBroker
  ISRs <- MCISRs
  ChannelSize = 1
  Elections <- MCElections
  Replicas <- MCReplicas
  MaxStarts = 2
  MaxCalls = 2
  MaxFaults = 1
  MaxPartitions = 1
  Factors <- MCFactors
  Consumers <- MCConsumers
  Offsets <- MCOffsets
  MaxWatchers = 1
  MaxMembers = 2
  ReplicaLists <- MCReplicaLists
  SyncOffsets <- MCSyncOffsets
  ReplicationTime = 100
  MinISR = 1
  Workers <- MCWorkers
  SegmentSize = 2
  MaxLogs = 2
  MaxWrites = 3
  GroupMembers <- MCGroupMembers
  PartitionCounts <- MCCounts
  MaxAssigns = 3
  Senders <- MCSenders
  Waiting <- MCWaiting
  LibBatchSize = 2
  MaxSends = 2
  MaxLost = 1
  TopicPartitions <- MCTopicParts
  MaxPollRecords = 2
  MaxFetches = 2
  AutoCommit = FALSE
  SeekOffsets <- MCSeekOffsets
  MaxStored = 2
  MaxErrors = 1
  AdminPartitions = 2
  Retained = 2
  LagPage = 2
  MaxEnd = 3
INVARIANTS
  PackagesTypeOK
  ReportSound
  SendsSound
PROPERTIES
  CoordinatorsSound
  ReplicasSound
  StorageSound
  StrategiesSound
  ReadsSound
CHECK_DEADLOCK FALSE
