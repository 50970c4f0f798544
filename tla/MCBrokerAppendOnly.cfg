\* Violation: rollback and synchronisation restart the log a client names.
SPECIFICATION Spec
CONSTANTS
  b1 = b1
  b2 = b2
  t1 = t1
  h1 = h1
  h2 = h2
  h3 = h3
  None = None
  Topics <- MCTopics
  Threads <- MCThreads
  Brokers <- MCOneBroker
  Sizes <- MCOneSize
  FetchFrom <- MCFetchFrom
  MaxMessages = 2
  FetchMax = 2
  MaxEpochs = 3
  MaxSent = 2
  MaxCrashes = 0
PROPERTIES
  PartitionsAppendOnly
CHECK_DEADLOCK FALSE
