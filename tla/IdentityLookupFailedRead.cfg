CONSTANTS
  Lookups = {l1, l2, l3}
  ClientIDs = {k1, k2}
  None = None
  MinInterval = 2
  MayFail = TRUE
  MaxTime = 5
  MaxRequests = 4
  MaxRestarts = 0
SPECIFICATION Spec
INVARIANTS SharedReadHappened

SYMMETRY LookupSymmetry
CHECK_DEADLOCK FALSE
