CONSTANTS
  a = a
  b = b
  p = p
  ka = ka
  kp = kp
  LLMModels = {b}
  PassthroughModels = {p}
  KeysOf <- MCKeysOf
  CRDsFirst = TRUE
  MaxLives = 1
  MaxEdits = 0
  MaxFailures = 1
CHECK_DEADLOCK FALSE
SPECIFICATION Spec
INVARIANTS KeyScoped LLMRouteGuarded
