CONSTANTS
  External = External
  Internal = Internal
  g = g
  GatewayOf <- MCGatewayOf
  Foreign = {f}
  Others = {1, 2}
  Settings = {s1, s2}
  Configs <- MCConfigs
  MaxEvents = 3
  MaxPasses = 2
SPECIFICATION FairSpec
CONSTRAINT FewerIfUnmanaged
CHECK_DEADLOCK FALSE
INVARIANTS TypeOK ForeignListenersKept HeadersSettled
PROPERTIES GrantedWhenWritten GatewayConverges
