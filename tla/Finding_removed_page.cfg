CONSTANTS
  Refs = {r1, r2, r3, r4}
  PageSize = 2
  MaxItems = 5
  MaxChanges = 1
CHECK_DEADLOCK FALSE
SPECIFICATION Spec
INVARIANTS
  CompleteIsAuthoritative
