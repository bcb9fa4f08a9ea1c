SPECIFICATION FairSpec
CONSTANTS
  a = a
  b = b
  Events <- MCEvents
  BatchSize = 2
  MaxAttempts = 2
  MaxFaults = 2
INVARIANTS
  TypeOK
  MarkedIsDelivered
  GivenUpAfterAllAttempts
PROPERTY EveryRowSettles
CHECK_DEADLOCK FALSE
