\* The streamer with three records in batches of two, one retry and two faults;
\* three callers race through a breaker; two of some records become points; a client
\* lists the GPU and reads up to six rows by pages; a main serves two calls, gets two
\* signals and tries three times for its topic; up to two settings have a value;
\* batches of up to four messages go to up to four partitions.
SPECIFICATION FairSpec
CONSTANTS
  BatchSize = 2
  MaxRetries = 1
  MaxRecords = 3
  MaxFaults = 2
  ChannelLimit = 1
  Files <- MCFiles
  k1 = k1
  k2 = k2
  k3 = k3
  Callers <- MCCallers
  FailureThreshold = 2
  SuccessThreshold = 2
  MaxFailures = 5
  Devices <- MCDevices
  Measured <- MCMeasured
  Kilo = 10
  Base = 1
  MaxInt32 = 127
  MaxInt64 = 9222
  MaxClock = 1
  MaxPoints = 2
  DefaultLimit = 1
  MaxLimit = 2
  Limits <- MCLimits
  Dates <- MCDates
  s1 = s1
  s2 = s2
  Series <- MCSeries
  MaxTime = 3
  call1 = call1
  call2 = call2
  Calls <- MCCalls
  MaxSignals = 2
  MaxAttempts = 3
  Numbers <- MCNumbers
  Millisecond = 9
  Affordable = 100
  MaxCapacity = 2000
  PartitionNumbers <- MCPartitionNumbers
  BatchLimit = 4
INVARIANTS
  ServicesTypeOK
  Accounted
  FlushedIsSettled
  CleanRunInOrder
  StreamDelivers
  PointsSound
  PagesSound
  ProgramsSound
PROPERTIES
  BreakerSound
  ServicesProgress
CHECK_DEADLOCK FALSE
