SPECIFICATION FairSpec
CONSTANTS
  None = None
  Songs = {s, t}
  Requests = 3
  MaxFaults = 1
  MaxStart = 1
INVARIANT TypeOK
PROPERTIES
  OrderIsStable
  EveryRequestAnswered
CHECK_DEADLOCK FALSE
