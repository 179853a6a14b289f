SPECIFICATION Spec
CONSTANTS
  s1 = s1
  s2 = s2
  Subs = {s1, s2}
  NoRow = NoRow
  Keys = {k1, k2}
  NoKey = NoKey
  DraftKey <- DraftKeyEach
  Workers = {w1, w2}
  MAX_ATTEMPTS = 2
  LIMIT = 1
  CLAIM = 1
  BACKOFF = 1
  SECOND = 1
  Schedules = {0}
  Expiries = {2}
  MaxTime = 2
  MaxDenied = 1
  MaxFailures = 1
SYMMETRY Interchangeable
INVARIANTS IInv AcceptedAtMostOnce
PROPERTIES ImplementsContract
