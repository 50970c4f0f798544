\* One broker, deeper logs.
SPECIFICATION Spec
CONSTANTS
  b1 = b1
  b2 = b2
  t1 = t1
  h1 = h1
  h2 = h2
  h3 = h3
  None = None
  Topics <- MCTopics
  Threads <- MCThreads
  Brokers <- MCOneBroker
  Sizes <- MCOneSize
  FetchFrom <- MCFetchFrom
  MaxMessages = 2
  FetchMax = 2
  MaxEpochs = 3
  MaxSent = 3
  MaxCrashes = 1
INVARIANTS
  LogContiguous
  AckedReadable
  AckedOnce
  FetchSound
PROPERTIES
  ObjectsAreLogs
