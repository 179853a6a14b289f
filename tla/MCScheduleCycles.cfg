SPECIFICATION Spec
CONSTANTS
  Items = 3
CHECK_DEADLOCK FALSE
INVARIANTS
  CyclesAreExplicit
