SPECIFICATION MCSpec
CONSTANTS
  Handles = {h1}
  Requests = {r1, r2}
  NoHandle = NoHandle
  ACCESS_TTL = 2
  MARGIN = 1
  REFRESH_RESERVATION_TTL = 1
  SESSION_TTL = 3
  MAX_OPERATOR_PROOFS = 1
  MaxTime = 3
  MaxSeals = 5
  PublicLane = public
  Lanes = {public, tenant}
  OneClient = {c0}
  TwoClients = {c1, c2}
  Legacies = {l1}
  board = board
  reports = reports
SYMMETRY Interchangeable
INVARIANTS
  TypesOK
  OnlyFaultsDesynchronise
  LogoutRevokes
  SubscribersAreTold
PROPERTIES
  TokenNeverRegresses
  AuthenticatedMeansPresent
  NoFrameWithoutAuthority
