SPECIFICATION Spec
CONSTANTS
  None = None
  Users = {u, v}
  Tokens = {t1, t2, t3}
  Requests = {r1, r2, r3}
  MaxFaults = 2
SYMMETRY SessionSymmetry
INVARIANTS
  TypeOK
  OneLiveTokenPerSession
  LogoutRevokesBoth
PROPERTIES
  IssuedTierIsCurrent
CHECK_DEADLOCK FALSE
