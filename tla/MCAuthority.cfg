SPECIFICATION MCSpec
CONSTANTS
  Requests = {r1, r2}
  Subjects = {s1, s2}
  ProofIds = {i1}
  MaxProofs = 1
  Acts = {a1}
  MaxHead = 2
  MaxOther = 2
  Authorizations = {q1, q2, q3}
  Credentials = {c1}
  Lifetime = 2
  MaxClock = 4
  LockWait = 2
  Logins = {l1, l2, l3}
  Sources = {x, y}
  Callbacks = {b1, b2}
  MAX_LOGIN_GLOBAL = 2
  MAX_LOGIN_SOURCE = 1
  LOGIN_TTL = 1
SYMMETRY Interchangeable
CHECK_DEADLOCK FALSE
INVARIANTS
  OwnerDataIsAuthorized
  SessionsKeepTheirProof
  ActsAreAnswerable
  QuietVerdictIsExact
  ReservedOnceInDate
  SignInsAccounted
