SPECIFICATION Spec
CONSTANTS
  Clients = {c1, c2}
  Limit = 2
  Window = 4
  Second = 2
  MaxCount = 3
  MaxRestarts = 1
  None = None
SYMMETRY Symmetry
INVARIANTS TypeOK BurstBound RetryAfterHonoured
PROPERTIES RefusedOnlyAfterLimit
