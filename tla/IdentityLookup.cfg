CONSTANTS
  Lookups = {l1, l2}
  ClientIDs = {k1, k2}
  None = None
  MinInterval = 2
  MayFail = TRUE
  MaxTime = 5
  MaxRequests = 3
  MaxRestarts = 1
SPECIFICATION FairSpec
CHECK_DEADLOCK FALSE
INVARIANTS UnknownIsTruthful
PROPERTIES ReadsSpaced EveryLookupAnswered
