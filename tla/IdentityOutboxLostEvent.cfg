SPECIFICATION FairSpec
CONSTANTS
  a = a
  b = b
  Events <- MCOneEvent
  BatchSize = 1
  MaxAttempts = 5
  MaxFaults = 1
PROPERTY EveryMutationEnqueued
CHECK_DEADLOCK FALSE
