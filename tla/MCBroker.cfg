\* Two brokers, one topic, racing creations of different sizes, lost replies, one crash.
SPECIFICATION Spec
CONSTANTS
  b1 = b1
  b2 = b2
  t1 = t1
  h1 = h1
  h2 = h2
  h3 = h3
  None = None
  Topics <- MCTopics
  Threads <- MCThreads3
  Brokers <- MCBrokers
  Sizes <- MCSizes
  FetchFrom <- MCNoFetch
  MaxMessages = 1
  FetchMax = 2
  MaxEpochs = 3
  MaxSent = 0
  MaxCrashes = 1
INVARIANTS
  TypeOK
  TopicsAgree
PROPERTIES
  RollbacksRemoveOwn
