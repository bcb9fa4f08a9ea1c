SPECIFICATION Spec
CONSTANTS
  None = None
  Emails = {a, b}
  Subjects = {g, h}
  States = {s, t}
  Requests = 3
  MaxFaults = 1
SYMMETRY AccountsSymmetry
INVARIANTS
  TypeOK
  IssuedToOwner
  RegistrationHolds
  StateUsedOnce
  RefusedOnlyWhenTaken
CHECK_DEADLOCK FALSE
