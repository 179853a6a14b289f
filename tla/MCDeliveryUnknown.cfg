SPECIFICATION Spec
CONSTANTS
  s1 = s1
  s2 = s2
  Subs = {s1}
  NoRow = NoRow
  Keys = {k1}
  NoKey = NoKey
  DraftKey <- DraftKeyEach
  Workers = {w1, w2}
  MAX_ATTEMPTS = 3
  LIMIT = 2
  CLAIM = 1
  BACKOFF = 1
  SECOND = 1
  Schedules = {0}
  Expiries = {2, 4}
  MaxTime = 4
  MaxDenied = 0
  MaxFailures = 1
SYMMETRY Interchangeable
PROPERTIES UnknownIsNeverResent
