--------------------------- MODULE MCEndpointAuth ---------------------------
(* Instances of EndpointAuth for TLC. *)
EXTENDS EndpointAuth, TLC

CONSTANTS a, b, p, ka, kp

\* Nobody mints a key for b.
MCKeysOf == [m \in Models |-> IF m = a THEN {ka} ELSE IF m = p THEN {kp} ELSE {}]

\* Bound: either the LLM models live, once each, those without keys first and for
\* good, and nothing is edited or fails; or the passthrough model lives alone.
OneKindAtATime ==
  \/ /\ \A m \in PassthroughModels : uid[m] = 0
     /\ \A m \in LLMModels : uid[m] <= 1
     /\ \A m, n \in LLMModels : (uid[n] = 1 /\ KeysOf[m] = {}) => object[m] = "live"
     /\ edits = 0 /\ failures = 0
  \/ \A m \in LLMModels : uid[m] = 0
=============================================================================
