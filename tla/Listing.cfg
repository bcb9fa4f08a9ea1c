SPECIFICATION Spec
CONSTANTS
  None = None
  Ids = {1, 2, 3}
  MaxClock = 5
  MaxAsked = 3
  DefaultLimit = 1
  MaxLimit = 2
  Low = 1
  Width = 5
INVARIANTS
  TypeOK
  ListedOnceInOrder
  FlagsAreRelative
  SummaryCoversPage
CHECK_DEADLOCK FALSE
