\* Violation: a broker does not see the joins at another one.
SPECIFICATION Spec
CONSTANTS
  b1 = b1
  b2 = b2
  Brokers <- MCBrokers
  Members <- MCMembers
  NumPartitions = 2
  MaxGeneration = 3
  MaxFaults = 0
  MaxExpiries = 0
  MayLeave = FALSE
INVARIANTS
  AllBrokersAgree
CHECK_DEADLOCK FALSE
