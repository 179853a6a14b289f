SPECIFICATION Spec
CONSTANTS
  s1 = s1
  s2 = s2
  Subs = {s1}
  NoRow = NoRow
  Keys = {k1}
  NoKey = NoKey
  DraftKey <- DraftKeyEach
  Workers = {w1}
  MAX_ATTEMPTS = 3
  LIMIT = 2
  CLAIM = 1
  BACKOFF = 1
  SECOND = 2
  Schedules = {1, 3}
  Expiries = {2, 4}
  MaxTime = 4
  MaxDenied = 0
  MaxFailures = 1
PROPERTIES NotBeforeSchedule
