-------------------------- MODULE MCSharedGateway ---------------------------
(* Instances of SharedGateway for TLC. *)
EXTENDS SharedGateway

CONSTANT g

\* Both listeners on one Gateway.
MCGatewayOf == [l \in Listeners |-> g]

\* Every setting with each of its values.
MCConfigs == {[byo |-> FALSE, metering |-> TRUE,  manage |-> TRUE],
              [byo |-> TRUE,  metering |-> FALSE, manage |-> TRUE],
              [byo |-> TRUE,  metering |-> TRUE,  manage |-> FALSE]}

\* Bound: where the operator leaves the listeners alone, one event fewer.
FewerIfUnmanaged == ~config.manage => events < MaxEvents
=============================================================================
