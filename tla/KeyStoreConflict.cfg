CONSTANTS
  w1 = w1
  w2 = w2
  u1 = u1
  u2 = u2
  a1 = a1
  a2 = a2
  b1 = b1
  Workers = {w1, w2}
  Users = {u1}
  ClientIDs = {a1, a2}
  OwnerOf <- MCOwnerOf
  MaxRetries = 3
  Retention = 1
  ConflictText = {"the object has been modified"}
  MayFail = FALSE
  MaxCalls = 3
  MaxTime = 1
  MaxRelabels = 1
  MaxDeletes = 0
SYMMETRY WorkerSymmetry
SPECIFICATION Spec
INVARIANTS ConflictIsRetried
CHECK_DEADLOCK FALSE
