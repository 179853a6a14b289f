SPECIFICATION MCSpec
CONSTANTS
  original = original
  correction = correction
  other = other
  Snapshots = {original, correction, other}
  Prior <- Corrections
  NoSnapshot = NoSnapshot
  Processes = {p1, p2, p3}
  MaxSnapshots = 2
  Composers = {u1, u2}
  MaxVersion = 2
  MaxAttempts = 3
  Cards = {c1, c2}
  MaxEdits = 1
  Nodes = {n1, n2}
  Abroad = {n2}
  MaxClock = 2
  Limit = 1
  Window = 2
  TTL = 1
  Items = 3
SYMMETRY Interchangeable
CHECK_DEADLOCK FALSE
INVARIANTS
  PriorIsReadable
  ListIsComplete
  IndexIsWhole
  ScheduleIsOneInstant
  AnswersAreOneGeneration
  WindowHolds
  CyclesAreReal
PROPERTIES
  WholeStaysWhole
  OtherLaneKept
