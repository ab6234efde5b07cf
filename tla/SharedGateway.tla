--------------------------- MODULE SharedGateway ----------------------------
(***************************************************************************)
(* The listeners all models share                                          *)
(* (operator/internal/controller/clustertls_singleton.go,                  *)
(* listener_headers.go): their TLS source, the ReferenceGrant for it, the  *)
(* ClientTrafficPolicy that strips caller-sent identity headers from each, *)
(* and the listeners themselves in Gateways other controllers write too.   *)
(*                                                                         *)
(* Two goroutines do it, under one mutex: the resync loop, which makes a   *)
(* full pass, and the watch on ClientTrafficPolicies, which makes the part *)
(* about headers.  Envoy Gateway applies one such policy per listener, so  *)
(* the operator's starts from a copy of the Gateway-wide policy that would *)
(* apply, and gives way to a policy of somebody else for the listener.     *)
(*                                                                         *)
(* A step is one call to the API server, or a Get and the write after it   *)
(* where only the operator writes the object; all objects are read past    *)
(* the cache.  Both Gateways are in one namespace, not the operator's, and *)
(* the base domain and the ClientTrafficPolicy CRD are there.              *)
(***************************************************************************)
EXTENDS Naturals, FiniteSetsExt

CONSTANTS
  External, Internal,   \* the shared listeners
  GatewayOf,            \* the Gateway of each
  Foreign,              \* listeners of others on these Gateways
  Others,               \* policies of others, as places in the order of their names
  Settings,             \* what such a policy may say
  Configs,              \* the configurations the operator may be started with
  MaxEvents,            \* bound: changes by others, failed calls and restarts
  MaxPasses             \* bound: passes of the resync loop

Listeners == {External, Internal}
Gateways  == {GatewayOf[l] : l \in Listeners}

\* What is not there, or not said.
None == "none"

ASSUME SharedGatewayAssumptions ==
  /\ External # Internal
  /\ DOMAIN GatewayOf = Listeners
  /\ Gateways \cap Listeners = {} /\ None \notin Gateways \cup Listeners
  /\ None \notin Settings
  \* TLSSecretName set, UsageMeteringEnabled, ManageSharedListeners
  /\ Configs \subseteq [byo : BOOLEAN, metering : BOOLEAN, manage : BOOLEAN]
  /\ Others \in SUBSET Nat /\ IsFiniteSet(Others)
  /\ MaxEvents \in Nat /\ MaxPasses \in Nat \ {0}

VARIABLES
  config,     \* OperatorConfig
  \* the cluster
  cert,       \* whether the managed Certificate exists
  grant,      \* the Secret the ReferenceGrant permits
  gateway,    \* the Gateways
  own,        \* the operator's policy for each listener
  others,     \* the policies of others
  \* the operator
  holder,     \* who holds the mutex
  pending,    \* whether the watch has an event queued
  pc, at,     \* where the holder is, and for which listener
  plan,       \* what it has decided for that listener's policy
  snap,       \* the Gateway as it was read
  \* history and bounds
  theirs,     \* the listeners of others that should be on each Gateway
  look,       \* the last look at the header policies: none, under way, complete
  events, passes

clusterVars == <<cert, grant, gateway, own, others>>
localVars   == <<pc, at, plan, snap>>
bounds      == <<events, passes>>
vars == <<config, clusterVars, holder, pending, localVars, theirs, look, bounds>>

Secrets == {None, "managed", "provided"}

GatewayType == [rv : Nat, exists : BOOLEAN, shared : [Listeners -> Secrets],
                foreign : SUBSET Foreign]
NoGateway == [rv |-> 0, exists |-> FALSE, shared |-> [l \in Listeners |-> None], foreign |-> {}]

OwnPolicies == [exists : BOOLEAN, inherits : Settings \cup {None}]
NoPolicy    == [exists |-> FALSE, inherits |-> None]
PolicyWith(setting) == [exists |-> TRUE, inherits |-> setting]

\* A policy of somebody else targets a whole Gateway (by name or label) or one
\* listener.
OtherPolicies == [target : Gateways \cup Listeners \cup {None},
                  setting : Settings \cup {None}, born : Nat]
NoOther == [target |-> None, setting |-> None, born |-> 0]

\* sharedSecretName.
Source == IF config.byo THEN "provided" ELSE "managed"

TypeOK ==
  /\ config \in Configs
  /\ cert \in BOOLEAN
  /\ grant \in Secrets
  /\ gateway \in [Gateways -> GatewayType]
  /\ own \in [Listeners -> OwnPolicies]
  /\ others \in [Others -> OtherPolicies]
  /\ holder \in {"nobody", "resync", "watch"}
  /\ pending \in BOOLEAN
  /\ pc \in {"rest", "source", "grant", "list", "apply", "get", "update"}
  /\ at \in Listeners
  /\ plan \in OwnPolicies
  /\ snap \in GatewayType
  /\ theirs \in [Gateways -> SUBSET Foreign]
  /\ look \in {"none", "under way", "complete"}
  /\ events \in 0..MaxEvents /\ passes \in 0..MaxPasses

Init ==
  /\ config \in Configs
  /\ cert = FALSE
  /\ grant = None
  /\ \E there \in BOOLEAN :
       gateway = [g \in Gateways |-> [NoGateway EXCEPT !.exists = there]]
  /\ own = [l \in Listeners |-> NoPolicy]
  /\ others = [p \in Others |-> NoOther]
  /\ holder = "nobody" /\ pending = FALSE
  /\ pc = "rest" /\ at = External /\ plan = NoPolicy /\ snap = NoGateway
  /\ theirs = [g \in Gateways |-> {}]
  /\ look = "none"
  /\ events = 0 /\ passes = 0

Event == events < MaxEvents /\ events' = events + 1

(***************************************************************************)
(* The mutex.                                                              *)
(***************************************************************************)
\* The pass is over: return and unlock.
Done ==
  /\ holder' = "nobody"
  /\ pc' = "rest" /\ at' = External /\ plan' = NoPolicy /\ snap' = NoGateway

Step(where, l) ==
  /\ pc' = where /\ at' = l /\ plan' = NoPolicy /\ snap' = NoGateway
  /\ UNCHANGED holder

\* Reconcile, at once after the start and then on every tick.
startPass ==
  /\ holder = "nobody" /\ passes < MaxPasses
  /\ passes' = passes + 1
  /\ holder' = "resync" /\ pc' = "source"
  /\ UNCHANGED <<config, clusterVars, pending, at, plan, snap, theirs, look,
                 events>>

\* The watch, which is registered with metering on, takes its event.
startWatch ==
  /\ holder = "nobody" /\ pending /\ config.metering
  /\ pending' = FALSE
  /\ holder' = "watch" /\ pc' = "list" /\ look' = "under way"
  /\ UNCHANGED <<config, clusterVars, at, plan, snap, theirs, bounds>>

(***************************************************************************)
(* The TLS source and the grant.                                           *)
(***************************************************************************)
\* deleteManagedCertificate or ensureCertificate.
ensureSource ==
  /\ pc = "source"
  /\ cert' = ~config.byo
  /\ Step("grant", External)
  /\ UNCHANGED <<config, grant, gateway, own, others, pending, theirs, look, bounds>>

\* What comes after the grant: the header policies, the listeners, or nothing.
AfterGrant ==
  IF config.metering THEN Step("list", External)
  ELSE IF config.manage THEN Step("get", External)
  ELSE Done

\* Mutants: a grant that exists is left as it is; the configured name is taken
\* although it is empty for a managed Certificate.
ensureReferenceGrantOnce ==
  /\ pc = "grant"
  /\ grant' = IF grant = None THEN Source ELSE grant
  /\ AfterGrant
  /\ look' = "under way"
  /\ UNCHANGED <<config, cert, gateway, own, others, pending, theirs, bounds>>
ensureReferenceGrantByConfig ==
  /\ pc = "grant"
  /\ grant' = IF config.byo THEN "provided" ELSE ""
  /\ AfterGrant
  /\ look' = "under way"
  /\ UNCHANGED <<config, cert, gateway, own, others, pending, theirs, bounds>>

ensureReferenceGrant ==
  /\ pc = "grant"
  /\ grant' = Source
  /\ AfterGrant
  /\ look' = "under way"
  /\ UNCHANGED <<config, cert, gateway, own, others, pending, theirs, bounds>>

(***************************************************************************)
(* ensureListenerHeaderPolicy.                                             *)
(***************************************************************************)
ForListener(l) == {p \in Others : others[p].target = l}
GatewayWide(l) == {p \in Others : others[p].target = GatewayOf[l]}

\* Mutant: the first by name, whatever their age.
appliedByName(ps) == CHOOSE p \in ps : \A q \in ps : p <= q

\* The oldest, then the first by name.
appliedGatewayWidePolicy(ps) ==
  CHOOSE p \in ps : \A q \in ps :
    others[p].born < others[q].born \/ (others[p].born = others[q].born /\ p <= q)

\* After the policy of listener at: the other listener's, and then, in a full
\* pass, the listeners.
NextPolicy ==
  IF at = External THEN Step("list", Internal) /\ UNCHANGED look
  ELSE /\ look' = IF look = "under way" THEN "complete" ELSE look
       /\ IF holder = "resync" /\ config.manage THEN Step("get", External) ELSE Done

\* A Gateway that is missing is passed over.
skipPolicy ==
  /\ pc = "list" /\ ~gateway[GatewayOf[at]].exists
  /\ NextPolicy
  /\ UNCHANGED <<config, clusterVars, pending, theirs, bounds>>

listPolicies ==
  /\ pc = "list" /\ gateway[GatewayOf[at]].exists
  /\ plan' = IF ForListener(at) # {} THEN NoPolicy
             ELSE IF GatewayWide(at) = {} THEN PolicyWith(None)
             ELSE PolicyWith(others[appliedGatewayWidePolicy(GatewayWide(at))].setting)
  /\ pc' = "apply"
  /\ UNCHANGED <<config, clusterVars, holder, pending, at, snap, theirs, look, bounds>>

\* Create, update or delete; a change is an event for the watch.
applyPolicy ==
  /\ pc = "apply"
  /\ own' = [own EXCEPT ![at] = plan]
  /\ pending' = (pending \/ own[at] # plan)
  /\ NextPolicy
  /\ UNCHANGED <<config, cert, grant, gateway, others, theirs, bounds>>

(***************************************************************************)
(* patchGatewayListener.                                                   *)
(***************************************************************************)
NextListener ==
  IF at = External THEN Step("get", Internal) ELSE Done

\* A Gateway that is missing, or has the listener as desired.
InPlace(gw) == ~gw.exists \/ gw.shared[at] = Source

getGateway ==
  /\ pc = "get"
  /\ LET gw == gateway[GatewayOf[at]] IN
       IF InPlace(gw) THEN NextListener
       ELSE /\ snap' = gw
            /\ pc' = "update"
            /\ UNCHANGED <<holder, at, plan>>
  /\ UNCHANGED <<config, clusterVars, pending, theirs, look, bounds>>

\* MergeHTTPSListener: replace the listener of that name or append it.
Merged(gw) == [gw EXCEPT !.shared[at] = Source]

\* Mutant: the Gateway is applied without its resourceVersion.
updateGatewayBlind ==
  /\ pc = "update"
  /\ gateway' = [gateway EXCEPT ![GatewayOf[at]] = [Merged(snap) EXCEPT !.rv = @ + 1]]
  /\ NextListener
  /\ UNCHANGED <<config, cert, grant, own, others, pending, theirs, look, bounds>>

updateGateway ==
  /\ pc = "update"
  /\ gateway[GatewayOf[at]].rv = snap.rv
  /\ gateway' = [gateway EXCEPT ![GatewayOf[at]] = [Merged(snap) EXCEPT !.rv = @ + 1]]
  /\ NextListener
  /\ UNCHANGED <<config, cert, grant, own, others, pending, theirs, look, bounds>>

\* A conflict ends the pass; the next tick tries again.
updateConflicts ==
  /\ pc = "update"
  /\ gateway[GatewayOf[at]].rv # snap.rv
  /\ Done
  /\ UNCHANGED <<config, clusterVars, pending, theirs, look, bounds>>

(***************************************************************************)
(* Failures.                                                               *)
(***************************************************************************)
\* A call about TLS or listeners fails and ends the pass.
passFails ==
  /\ pc \in {"source", "grant", "get", "update"}
  /\ passes < MaxPasses
  /\ Event
  /\ Done
  /\ UNCHANGED <<config, clusterVars, pending, theirs, look, passes>>

\* The pass goes on to the listeners.
AfterPolicyError == IF config.manage THEN Step("get", External) ELSE Done

\* Mutant: the watch drops the event.
policyFailsDropped ==
  /\ pc \in {"list", "apply"}
  /\ Event
  /\ IF holder = "watch" THEN Done ELSE passes < MaxPasses /\ AfterPolicyError
  /\ UNCHANGED <<config, clusterVars, pending, theirs, look, passes>>

\* A call about header policies fails.  A full pass goes on to the listeners
\* all the same; the watch queues its event again.
policyFails ==
  /\ pc \in {"list", "apply"}
  /\ Event
  /\ IF holder = "watch"
     THEN Done /\ pending' = TRUE
     ELSE passes < MaxPasses /\ AfterPolicyError /\ UNCHANGED pending
  /\ UNCHANGED <<config, clusterVars, theirs, look, passes>>

AnyPolicy == (\E l \in Listeners : own[l].exists) \/ (\E p \in Others : others[p] # NoOther)

\* The operator dies, whatever it is doing, and starts with any configuration.
\* The watch then sees the policies that exist.
Restart ==
  /\ passes < MaxPasses
  /\ Event
  /\ config' \in Configs
  /\ Done
  /\ pending' = (config'.metering /\ AnyPolicy)
  /\ look' = "none"
  /\ UNCHANGED <<clusterVars, theirs, passes>>

(***************************************************************************)
(* The administrator and the other controllers.                            *)
(***************************************************************************)
\* Policies in the namespace change; the watch has an event.
ChangePolicies ==
  /\ Event
  /\ pending' = config.metering
  /\ UNCHANGED <<config, cert, grant, gateway, holder, localVars, theirs, look, passes>>

\* In the second the youngest was created in, or later; only the order counts.
Births ==
  LET there == {others[p].born : p \in {q \in Others : others[q] # NoOther}}
  IN  IF there = {} THEN {0} ELSE {Max(there), Max(there) + 1}

CreateOther(p) ==
  /\ others[p] = NoOther
  /\ \E t \in Gateways \cup Listeners, s \in Settings, born \in Births :
       others' = [others EXCEPT ![p] = [target |-> t, setting |-> s, born |-> born]]
  /\ UNCHANGED own
  /\ ChangePolicies

EditOther(p) ==
  /\ others[p] # NoOther
  /\ \/ \E t \in Gateways \cup Listeners : others' = [others EXCEPT ![p].target = t]
     \/ \E s \in Settings : others' = [others EXCEPT ![p].setting = s]
  /\ others' # others
  /\ UNCHANGED own
  /\ ChangePolicies

DeleteOther(p) ==
  /\ others[p] # NoOther
  /\ others' = [others EXCEPT ![p] = NoOther]
  /\ UNCHANGED own
  /\ ChangePolicies

\* Somebody deletes the operator's policy.
DeleteOwn(l) ==
  /\ own[l].exists
  /\ own' = [own EXCEPT ![l] = NoPolicy]
  /\ UNCHANGED others
  /\ ChangePolicies

\* The Gateway's own controller creates it, or sets the listeners of others
\* and keeps or drops the shared ones.
WriteGateway(g) ==
  /\ passes < MaxPasses
  /\ Event
  /\ \E ls \in SUBSET Foreign, kept \in {{}, Listeners} :
       /\ theirs' = [theirs EXCEPT ![g] = ls]
       /\ gateway' = [gateway EXCEPT ![g] =
            [rv |-> @.rv + 1, exists |-> TRUE, foreign |-> ls,
             shared |-> [l \in Listeners |-> IF l \in kept THEN @.shared[l] ELSE None]]]
  /\ [gateway'[g] EXCEPT !.rv = 0] # [gateway[g] EXCEPT !.rv = 0]
  /\ look' = IF gateway[g].exists THEN look ELSE "none"
  /\ UNCHANGED <<config, cert, grant, own, others, holder, pending, localVars,
                 passes>>

(***************************************************************************)
(* The specification.                                                      *)
(***************************************************************************)
Work ==
  \/ ensureSource \/ ensureReferenceGrant
  \/ skipPolicy \/ listPolicies \/ applyPolicy
  \/ getGateway \/ updateGateway \/ updateConflicts

Environment ==
  \/ \E p \in Others : CreateOther(p) \/ EditOther(p) \/ DeleteOther(p)
  \/ \E l \in Listeners : DeleteOwn(l)
  \/ \E g \in Gateways : WriteGateway(g)

Next ==
  \/ startPass \/ startWatch \/ Work
  \/ passFails \/ policyFails \/ Restart
  \/ Environment

Spec == Init /\ [][Next]_vars

\* A goroutine that holds the mutex goes on, and Go's Mutex does not starve the
\* one that waits for it.  The ticker fires for as long as MaxPasses lets it;
\* what only the resync would see does not change after the last tick.
Fairness == WF_vars(Work) /\ SF_vars(startPass) /\ SF_vars(startWatch)

FairSpec == Spec /\ Fairness

(***************************************************************************)
(* Properties.                                                             *)
(***************************************************************************)
\* The Gateways carry listeners of others "that the operator must not clobber":
\* a pass that writes a copy it has read never undoes what they wrote since.
ForeignListenersKept == \A g \in Gateways : gateway[g].foreign = theirs[g]

\* The policy of somebody else that Envoy Gateway applies to all of l's Gateway:
\* no other is older, or as old with an earlier name.
Applies(p, l) ==
  /\ p \in GatewayWide(l)
  /\ ~\E q \in GatewayWide(l) :
       \/ others[q].born < others[p].born
       \/ others[q].born = others[p].born /\ q < p

\* Caller-sent identity headers are removed on l, without taking away what the
\* administrator has set; or the administrator's policy for l stands alone.
HeadersRight(l) ==
  IF ForListener(l) # {} THEN ~own[l].exists
  ELSE /\ own[l].exists
       /\ \/ GatewayWide(l) = {} /\ own[l].inherits = None
          \/ \E p \in GatewayWide(l) : Applies(p, l) /\ own[l].inherits = others[p].setting

\* When the operator has nothing left to do about headers, they are right, in
\* whatever order policies changed while the two goroutines were at work.
HeadersSettled ==
  config.metering /\ look = "complete" /\ ~pending /\ holder = "nobody"
    => \A l \in Listeners : gateway[GatewayOf[l]].exists => HeadersRight(l)

\* "A change to a Gateway-wide policy reaches the listener's copy of it": also
\* one after the last resync, and after calls that failed.
HeadersFollow ==
  \A l \in Listeners :
    <>[](config.metering /\ gateway[GatewayOf[l]].exists => HeadersRight(l))

\* A listener is only ever pointed at the Secret that Gateways are permitted to
\* use at that moment, across a switch of the TLS source and restarts in it.
GrantedWhenWritten ==
  [][\A l \in Listeners :
       LET ref == gateway'[GatewayOf[l]].shared[l] IN
       ref # gateway[GatewayOf[l]].shared[l] /\ ref # None => grant = ref]_vars

\* Conflicts and failures delay the listeners and no more: in the end they and
\* the grant use the configured Secret, and no Certificate is left behind.
ListenersConverge ==
  <>[](/\ grant = Source
       /\ cert <=> ~config.byo
       /\ \A l \in Listeners :
            config.manage /\ gateway[GatewayOf[l]].exists
              => gateway[GatewayOf[l]].shared[l] = Source)

\* Whatever others do to the Gateways and the policies, and whichever calls fail,
\* both parts of the resync pass reach what the configuration asks for.
GatewayConverges == HeadersFollow /\ ListenersConverge

(***************************************************************************)
(* The inductive invariant behind ForeignListenersKept, GrantedWhenWritten *)
(* and HeadersSettled.                                                     *)
(***************************************************************************)
\* The Gateway that is about to be written is the copy that was read, if it has
\* the copy's resourceVersion; and it was there.
SnapIsCopy ==
  pc = "update" =>
    LET gw == gateway[GatewayOf[at]] IN
    /\ snap.rv <= gw.rv
    /\ snap.rv = gw.rv => snap = gw

\* The watch is about headers only, whoever holds the mutex is somewhere, and the
\* external listener is first.
Roles ==
  /\ holder = "nobody" <=> pc = "rest"
  /\ pc \in {"rest", "source", "grant"} => at = External
  /\ holder = "watch" => pc \in {"list", "apply"}

\* A full pass that has seen to the grant has left it as configured, and no
\* other configuration comes before the pass has ended.
GrantFirst == holder = "resync" /\ pc \notin {"source", "grant"} => grant = Source

\* A listener whose Gateway is missing has no policy to be right.
Settled(l) == gateway[GatewayOf[l]].exists => HeadersRight(l)

\* What is about to be applied for l is what is right for it.
PlanRight(l) ==
  IF ForListener(l) # {} THEN ~plan.exists
  ELSE /\ plan.exists
       /\ \/ GatewayWide(l) = {} /\ plan.inherits = None
          \/ \E p \in GatewayWide(l) : Applies(p, l) /\ plan.inherits = others[p].setting

\* A look at the policies of others still holds of all listeners it has been at,
\* unless the watch has an event: for whatever changes them is one.
LookHolds ==
  config.metering /\ ~pending =>
    /\ look = "complete" => pc \notin {"list", "apply"} /\ \A l \in Listeners : Settled(l)
    /\ look = "under way" /\ pc \in {"list", "apply"} /\ at = Internal => Settled(External)
    /\ look = "under way" /\ pc = "apply" => PlanRight(at)

ListenerInv == ForeignListenersKept /\ SnapIsCopy /\ Roles /\ GrantFirst

GatewayInv == TypeOK /\ ListenerInv /\ LookHolds
=============================================================================
