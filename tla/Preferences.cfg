SPECIFICATION FairSpec
CONSTANTS
  None = None
  x = x
  y = y
  Items <- MCItems
  Lists <- MCLists
  Requests = {r1, r2, r3}
  Faulty = {r3}
INVARIANTS
  TypeOK
  LikedIsListed
  DeadlockNeedsOnboarding
PROPERTIES
  OnboardedOnce
  EveryRequestAnswered
CHECK_DEADLOCK FALSE
