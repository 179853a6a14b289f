SPECIFICATION Spec
CONSTANTS
  Handles = {h1}
  Requests = {r1, r2}
  NoHandle = NoHandle
  ACCESS_TTL = 2
  MARGIN = 1
  REFRESH_RESERVATION_TTL = 1
  SESSION_TTL = 3
  MAX_OPERATOR_PROOFS = 1
  MaxTime = 3
  MaxSeals = 5
SYMMETRY InterchangeableRequests
INVARIANTS
  RefreshTokenUsedOnce
