SPECIFICATION Spec
CONSTANTS
  PublicLane = public
  Lanes = {public, tenant}
  Clients = {c1}
  Legacies = {}
  Topics = {board}
  Filters = {{}}
  SSE_BOUND = 2
  MaxEvents = 5
  MaxRestarts = 0
SYMMETRY Interchangeable
INVARIANTS
  NothingMissed
