SPECIFICATION Spec
CONSTANTS
  Requests = {r1}
  MaxHead = 2
  MaxOther = 2
CHECK_DEADLOCK FALSE
INVARIANTS
  VerdictIsOfItsHead
