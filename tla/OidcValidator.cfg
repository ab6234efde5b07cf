CONSTANTS
  Requests = {r1}
  Kids = {k1, k2}
  FirstKid = k1
  NoKid = NoKid
  Cooldown = 2
  FetchTimeout = 1
  MaxAttempts = 2
  MaxTime = 3
  MayStop = TRUE
SPECIFICATION FairSpec
INVARIANTS RotationDelayBounded ReadyHasKeys
PROPERTIES FetchesBounded KeysConverge CallsReturn
