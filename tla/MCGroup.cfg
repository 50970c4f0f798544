\* Two brokers, two consumers that leave and crash, one fault, one expired lease.
SPECIFICATION Spec
CONSTANTS
  b1 = b1
  b2 = b2
  Brokers <- MCBrokers
  Members <- MCMembers
  NumPartitions = 2
  MaxGeneration = 3
  MaxFaults = 1
  MaxExpiries = 1
  MayLeave = TRUE
SYMMETRY MCSymmetry
INVARIANTS
  TypeOK
  AssignmentsDisjoint
  GenerationNamesAssignments
  QuietGroupsWhole
CHECK_DEADLOCK FALSE
