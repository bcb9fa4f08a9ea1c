SPECIFICATION Spec
CONSTANTS
  w1 = w1
  w2 = w2
  w3 = w3
  p1 = p1
  p2 = p2
  a = a
  b = b
  None = None
  Workers = {w1, w2, w3}
  Partitions = {p1}
  Events = {a}
  Log <- MCOneMessage
  HandlerMayFail = TRUE
  MaxFaults = 3
INVARIANT ActiveClaimIsExclusive
CHECK_DEADLOCK FALSE
