SPECIFICATION MCSpec
CONSTANTS
  Calls = {c1, c2, c3}
  MaxConcurrency = 1
  MaxQueue = 1
  Retries = 1
  Reads = {q1, q2}
  Workers = 1
  Estates <- EstatesTried
  Overviews = {o1, o2}
  Findings = {f1, f2}
  Cooldown = 3
  MaxLost = 1
  MaxTokens = 6
  MaxFaults = 3
  Logs = {l1, l2}
  MaxClock = 2
  MaxAppends = 1
  MaxMissed = 1
CHECK_DEADLOCK FALSE
INVARIANTS
  SlotsAccounted
  EstateSafe
PROPERTIES
  TimeoutIsFinal
  AdmittedIsAnswered
  ReleasedUnderAuthority
  RequestThreadsReturn
  OverviewsAnswered
  AlertsAreOwed
  StandingDriftIsTold
  BearerComesBack
  LaterSecondIsTold
