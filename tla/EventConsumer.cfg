SPECIFICATION FairSpec
CONSTANTS
  w1 = w1
  w2 = w2
  w3 = w3
  p1 = p1
  p2 = p2
  a = a
  b = b
  None = None
  Workers = {w1, w2}
  Partitions = {p1}
  Events = {a, b}
  Log <- MCDuplicateLog
  HandlerMayFail = TRUE
  MaxFaults = 3
PROPERTIES EveryEventHandled ShutdownCompletes ProcessedIsFinal ImplementsDelivery
INVARIANTS TypeOK CommittedIsHandled CleanExitLeavesNothingOpen ExclusiveWithinLease
CHECK_DEADLOCK FALSE
