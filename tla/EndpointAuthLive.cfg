CONSTANTS
  a = a
  b = b
  p = p
  ka = ka
  kp = kp
  LLMModels = {a,b}
  PassthroughModels = {p}
  KeysOf <- MCKeysOf
  CRDsFirst = FALSE
  MaxLives = 2
  MaxEdits = 2
  MaxFailures = 1
CONSTRAINT OneKindAtATime
CHECK_DEADLOCK FALSE
SPECIFICATION FairSpec
PROPERTIES DisabledEndpointGoes PoliciesConverge RemovalKeepsAuth
