SPECIFICATION Spec
CONSTANTS
  None = None
  x = x
  y = y
  Items <- MCOneItem
  Lists <- MCOneList
  Requests = {r1, r2}
  Faulty = {}
INVARIANT StoresInSync
CHECK_DEADLOCK FALSE
