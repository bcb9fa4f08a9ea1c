SPECIFICATION FairSpec
CONSTANTS
  w1 = w1
  w2 = w2
  w3 = w3
  p1 = p1
  p2 = p2
  a = a
  b = b
  None = None
  Workers = {w1}
  Partitions = {p1, p2}
  Events = {a, b}
  Log <- MCIdentityLog
  HandlerMayFail = FALSE
  MaxFaults = 0
PROPERTY EveryEventHandled
CHECK_DEADLOCK FALSE
