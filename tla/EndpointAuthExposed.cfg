CONSTANTS
  a = a
  b = b
  p = p
  ka = ka
  kp = kp
  LLMModels = {}
  PassthroughModels = {p}
  KeysOf <- MCKeysOf
  CRDsFirst = FALSE
  MaxLives = 1
  MaxEdits = 0
  MaxFailures = 0
SPECIFICATION Spec
INVARIANTS UpstreamNeverExposed
CHECK_DEADLOCK FALSE
