SPECIFICATION FairSpec
CONSTANTS
  a = a
  b = b
  bad = bad
  big = big
  r1 = r1
  r2 = r2
  r3 = r3
  Events = {a, b, bad, big}
  Requests = {r1, r2, r3}
  Body <- MixedBody
  Malformed = {bad}
  Overgrown = {big}
  BatchSize = 1
  MaxAttempts = 2
  MaxFaults = 2
INVARIANTS
  TypeOK
  AnsweredIsStored
  AcceptedOnce
  RejectedStoresNothing
  AttemptsBounded
PROPERTIES
  ImplementsDelivery
  EveryRowSettles
CHECK_DEADLOCK FALSE
