CONSTANTS
  w1 = w1
  w2 = w2
  u1 = u1
  u2 = u2
  a1 = a1
  a2 = a2
  b1 = b1
  Workers = {w1, w2}
  Users = {u1}
  ClientIDs = {a1, a2}
  OwnerOf <- MCOwnerOf
  MaxRetries = 2
  Retention = 1
  ConflictText = {"conflict"}
  MayFail = TRUE
  MaxCalls = 4
  MaxTime = 3
  MaxRelabels = 1
  MaxDeletes = 1
CONSTRAINTS OperatorMeetsTwo LastCallAlone
SYMMETRY WorkerSymmetry
SPECIFICATION Spec
CHECK_DEADLOCK FALSE
INVARIANTS GrantedKeyIntact GrantAttributable
PROPERTIES NoReissue ImplementsRegistry
