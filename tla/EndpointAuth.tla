---------------------------- MODULE EndpointAuth ----------------------------
(***************************************************************************)
(* How the operator guards the models' external endpoints                  *)
(* (operator/internal/controller): the LLMModel and the PassthroughModel   *)
(* reconcilers, the API key Secrets they render policies from, and the     *)
(* gateway objects they write.                                             *)
(*                                                                         *)
(* All models share one listener.  A model's SecurityPolicy authenticates  *)
(* the keys of every model (the pool of Secrets) and allows the client IDs *)
(* of its own; so a change of any Secret re-renders every model.  Client   *)
(* IDs are read from the informer cache, which lags the API server; the    *)
(* gateway objects are unstructured and read past the cache.               *)
(*                                                                         *)
(* A step is one call to the API server with the computation before it.    *)
(* Each controller reconciles one model at a time.  Module KeyStore has    *)
(* the detail of the Secret and of the metadata ConfigMap beside it.  The  *)
(* AI Gateway, which turns an AIGatewayRoute into the HTTPRoute that is    *)
(* served, and Kubernetes' garbage collector are external.  The internal   *)
(* endpoint goes through the same steps with a policy of its own.          *)
(***************************************************************************)
EXTENDS Naturals, FiniteSets

CONSTANTS
  LLMModels, PassthroughModels,   \* names of models of the two kinds
  KeysOf,        \* the client IDs that can be minted for each model
  CRDsFirst,     \* whether the gateway's CRDs are there before the operator starts
  MaxLives,      \* bound: times a model is created
  MaxEdits,      \* bound: changes of spec.endpoints.external.enabled
  MaxFailures    \* bound: failed calls to the API server

Models == LLMModels \cup PassthroughModels
Keys   == UNION {KeysOf[m] : m \in Models}

ASSUME EndpointAssumptions ==
  /\ LLMModels \cap PassthroughModels = {}
  /\ DOMAIN KeysOf = Models
  /\ \A m, n \in Models : m # n => KeysOf[m] \cap KeysOf[n] = {}
  /\ CRDsFirst \in BOOLEAN
  /\ MaxLives \in Nat /\ MaxEdits \in Nat /\ MaxFailures \in Nat

VARIABLES
  \* the custom resources
  object,      \* "none", "live" or "deleting"
  finalized,   \* whether it carries the finalizer
  uid,         \* which life of the name this is
  external,    \* spec.endpoints.external.enabled
  \* the API key Secrets: in the API server, and in the operator's cache
  secret, cache,
  used,        \* client IDs minted so far
  \* the gateway objects
  policy,      \* SecurityPolicy
  route,       \* AIGatewayRoute
  httpRoute,   \* the HTTPRoute generated from it
  crds,        \* whether the gateway's CRDs are installed
  \* the controllers
  queue, pc,
  want,        \* the spec the reconcile under way has read
  ids, pool,   \* and the client IDs and the Secrets
  failed,      \* some apply of this reconcile failed
  edits, failures

crVars    == <<object, finalized, uid, external>>
keyVars   == <<secret, used>>
gwVars    == <<policy, route, httpRoute>>
localVars == <<want, ids, pool, failed>>
vars == <<crVars, keyVars, cache, gwVars, crds, queue, pc, localVars, edits, failures>>

Secrets  == [exists : BOOLEAN, ids : SUBSET Keys]
Policies == [exists : BOOLEAN, owner : Nat, allow : SUBSET Keys, pool : SUBSET Models]
Routes   == [exists : BOOLEAN, owner : Nat, deleting : BOOLEAN]

NoSecret == [exists |-> FALSE, ids |-> {}]
NoPolicy == [exists |-> FALSE, owner |-> 0, allow |-> {}, pool |-> {}]
NoRoute  == [exists |-> FALSE, owner |-> 0, deleting |-> FALSE]

\* A route as it is after it was applied, and after it was deleted: the AI
\* Gateway's finalizer keeps it until that has cleaned up, and an update
\* neither removes that nor undoes the deletion.
Applied(old, owner) == [exists |-> TRUE, owner |-> owner, deleting |-> old.deleting]
Deleted(old)        == [old EXCEPT !.deleting = old.exists]

TypeOK ==
  /\ object \in [Models -> {"none", "live", "deleting"}]
  /\ finalized \in [Models -> BOOLEAN]
  /\ uid \in [Models -> 0 .. MaxLives]
  /\ external \in [Models -> BOOLEAN]
  /\ secret \in [Models -> Secrets] /\ cache \in [Models -> Secrets]
  /\ used \in SUBSET Keys
  /\ policy \in [Models -> Policies]
  /\ route \in [Models -> Routes]
  /\ httpRoute \in [Models -> BOOLEAN]
  /\ crds \in BOOLEAN
  /\ queue \in SUBSET Models
  /\ pc \in [Models -> {"idle", "ids", "names", "secret", "policy", "route",
                        "getRoute", "dropRoute", "httpRoute", "getPolicy", "dropPolicy",
                        "delete", "finalizer"}]
  /\ want \in [Models -> BOOLEAN]
  /\ ids \in [Models -> SUBSET Keys]
  /\ pool \in [Models -> SUBSET Models]
  /\ failed \in [Models -> BOOLEAN]
  /\ edits \in 0 .. MaxEdits /\ failures \in 0 .. MaxFailures

Init ==
  /\ object = [m \in Models |-> "none"]
  /\ finalized = [m \in Models |-> FALSE]
  /\ uid = [m \in Models |-> 0]
  /\ external = [m \in Models |-> TRUE]
  /\ secret = [m \in Models |-> NoSecret] /\ cache = [m \in Models |-> NoSecret]
  /\ used = {}
  /\ policy = [m \in Models |-> NoPolicy]
  /\ route = [m \in Models |-> NoRoute]
  /\ httpRoute = [m \in Models |-> FALSE]
  /\ crds = CRDsFirst
  /\ queue = {}
  /\ pc = [m \in Models |-> "idle"]
  /\ want = [m \in Models |-> FALSE]
  /\ ids = [m \in Models |-> {}]
  /\ pool = [m \in Models |-> {}]
  /\ failed = [m \in Models |-> FALSE]
  /\ edits = 0 /\ failures = 0

(***************************************************************************)
(* Users, the key manager, the cluster.                                    *)
(***************************************************************************)
CreateModel(m) ==
  /\ object[m] = "none" /\ uid[m] < MaxLives
  /\ object' = [object EXCEPT ![m] = "live"]
  /\ uid' = [uid EXCEPT ![m] = @ + 1]
  /\ external' = [external EXCEPT ![m] = TRUE]
  /\ queue' = queue \cup {m}
  /\ UNCHANGED <<finalized, keyVars, cache, gwVars, crds, pc, localVars, edits, failures>>

\* A model without a finalizer goes at once.
DeleteModel(m) ==
  /\ object[m] = "live"
  /\ object' = [object EXCEPT ![m] = IF finalized[m] THEN "deleting" ELSE "none"]
  /\ queue' = queue \cup {m}
  /\ UNCHANGED <<finalized, uid, external, keyVars, cache, gwVars, crds, pc, localVars,
                 edits, failures>>

EditEndpoint(m) ==
  /\ object[m] = "live" /\ edits < MaxEdits
  /\ edits' = edits + 1
  /\ external' = [external EXCEPT ![m] = ~@]
  /\ queue' = queue \cup {m}
  /\ UNCHANGED <<object, finalized, uid, keyVars, cache, gwVars, crds, pc, localVars, failures>>

MintKey(m, k) ==
  /\ secret[m].exists /\ k \in KeysOf[m] \ used
  /\ used' = used \cup {k}
  /\ secret' = [secret EXCEPT ![m] = [exists |-> TRUE, ids |-> @.ids \cup {k}]]
  /\ UNCHANGED <<crVars, cache, gwVars, crds, queue, pc, localVars, edits, failures>>

RevokeKey(m, k) ==
  /\ k \in secret[m].ids
  /\ secret' = [secret EXCEPT ![m] = [exists |-> TRUE, ids |-> @.ids \ {k}]]
  /\ UNCHANGED <<crVars, used, cache, gwVars, crds, queue, pc, localVars, edits, failures>>

InstallCRDs ==
  /\ ~crds
  /\ crds' = TRUE
  /\ UNCHANGED <<crVars, keyVars, cache, gwVars, queue, pc, localVars, edits, failures>>

\* The Deployment's status changes, which the LLMModel controller watches.
DeploymentChanges(m) ==
  /\ m \in LLMModels /\ object[m] = "live"
  /\ queue' = queue \cup {m}
  /\ UNCHANGED <<crVars, keyVars, cache, gwVars, crds, pc, localVars, edits, failures>>

\* Mutant: only the model whose Secret it is.
enqueueOwnModel(m) == {m} \cap {n \in Models : object[n] # "none"}

\* enqueueAllModelsForAPIKeySecret, of both controllers.
enqueueAllModels(m) == {n \in Models : object[n] # "none"}

\* The informer sees the Secret, and the watch enqueues.
SyncCache(m) ==
  /\ cache[m] # secret[m]
  /\ cache' = [cache EXCEPT ![m] = secret[m]]
  /\ queue' = queue \cup enqueueAllModels(m)
  /\ UNCHANGED <<crVars, keyVars, gwVars, crds, pc, localVars, edits, failures>>

\* External: the AI Gateway follows the AIGatewayRoute.
GenerateHTTPRoute(m) ==
  /\ httpRoute[m] # route[m].exists
  /\ httpRoute' = [httpRoute EXCEPT ![m] = route[m].exists]
  /\ UNCHANGED <<crVars, keyVars, cache, policy, route, crds, queue, pc, localVars, edits, failures>>

\* External: the AI Gateway lets a deleted AIGatewayRoute go.
RouteTerminates(m) ==
  /\ route[m].deleting
  /\ route' = [route EXCEPT ![m] = NoRoute]
  /\ UNCHANGED <<crVars, keyVars, cache, policy, httpRoute, crds, queue, pc, localVars, edits, failures>>

\* External: what a PassthroughModel that is gone controlled is collected, in
\* any order.
Collectable(m, owner) == owner # 0 /\ (object[m] = "none" \/ owner # uid[m])

CollectRoute(m) ==
  /\ route[m].exists /\ ~route[m].deleting /\ Collectable(m, route[m].owner)
  /\ route' = [route EXCEPT ![m] = Deleted(@)]
  /\ UNCHANGED <<crVars, keyVars, cache, policy, httpRoute, crds, queue, pc, localVars, edits, failures>>

CollectPolicy(m) ==
  /\ policy[m].exists /\ Collectable(m, policy[m].owner)
  /\ policy' = [policy EXCEPT ![m] = NoPolicy]
  /\ UNCHANGED <<crVars, keyVars, cache, route, httpRoute, crds, queue, pc, localVars, edits, failures>>

(***************************************************************************)
(* Reconcile, of either kind.                                              *)
(***************************************************************************)
Kind(m) == IF m \in LLMModels THEN LLMModels ELSE PassthroughModels
Free(m) == \A n \in Kind(m) : pc[n] = "idle"

\* The reconcile of m ends; it is queued again if it returned an error or
\* asked for that.
Finish(m, again) ==
  /\ pc' = [pc EXCEPT ![m] = "idle"]
  /\ queue' = IF again THEN queue \cup {m} ELSE queue
  /\ want' = [want EXCEPT ![m] = FALSE]
  /\ ids' = [ids EXCEPT ![m] = {}]
  /\ pool' = [pool EXCEPT ![m] = {}]
  /\ failed' = [failed EXCEPT ![m] = FALSE]

Goto(m, step) == pc' = [pc EXCEPT ![m] = step]

\* Fetch the object.  A missing finalizer is added; the LLMModel reconciler
\* then starts over, the PassthroughModel one goes on.
Reconcile(m) ==
  /\ m \in queue /\ Free(m)
  /\ \/ /\ object[m] = "none"
        /\ queue' = queue \ {m}
        /\ UNCHANGED <<finalized, pc, want>>
     \/ /\ object[m] = "deleting"
        /\ queue' = queue \ {m}
        /\ Goto(m, "delete")
        /\ UNCHANGED <<finalized, want>>
     \/ /\ object[m] = "live" /\ ~finalized[m] /\ m \in LLMModels
        /\ finalized' = [finalized EXCEPT ![m] = TRUE]
        /\ UNCHANGED <<queue, pc, want>>
     \/ /\ object[m] = "live" /\ (finalized[m] \/ m \in PassthroughModels)
        /\ finalized' = [finalized EXCEPT ![m] = TRUE]
        /\ queue' = queue \ {m}
        /\ want' = [want EXCEPT ![m] = external[m]]
        /\ Goto(m, "ids")
  /\ UNCHANGED <<object, uid, external, keyVars, cache, gwVars, crds, ids, pool, failed,
                 edits, failures>>

\* Mutant: the client IDs of every Secret in the pool are allowed.
pooledClientIDs(m) ==
  /\ pc[m] = "ids"
  /\ ids' = [ids EXCEPT ![m] = UNION {cache[n].ids : n \in Models}]
  /\ Goto(m, "names")
  /\ UNCHANGED <<crVars, keyVars, cache, gwVars, crds, queue, want, pool, failed, edits, failures>>

apiKeyClientIDs(m) ==
  /\ pc[m] = "ids"
  /\ ids' = [ids EXCEPT ![m] = cache[m].ids]
  /\ Goto(m, "names")
  /\ UNCHANGED <<crVars, keyVars, cache, gwVars, crds, queue, want, pool, failed, edits, failures>>

apiKeySecretNamesWith(m) ==
  /\ pc[m] = "names"
  /\ pool' = [pool EXCEPT ![m] = {m} \cup {n \in Models : cache[n].exists}]
  /\ Goto(m, "secret")
  /\ UNCHANGED <<crVars, keyVars, cache, gwVars, crds, queue, want, ids, failed, edits, failures>>

\* Create the Secret, or write it back with its labels.  A cache that lags
\* makes that fail: AlreadyExists, a conflict, NotFound.
createOrUpdateSecret(m) ==
  /\ pc[m] = "secret"
  /\ \/ /\ cache[m].exists = secret[m].exists
        /\ cache[m].exists => cache[m] = secret[m]
        /\ secret' = [secret EXCEPT ![m] = [exists |-> TRUE, ids |-> @.ids]]
        /\ Goto(m, IF m \in LLMModels THEN "policy" ELSE IF want[m] THEN "route" ELSE "getRoute")
        /\ UNCHANGED <<queue, localVars>>
     \/ /\ cache[m] # secret[m]
        /\ Finish(m, TRUE)
        /\ UNCHANGED secret
  /\ UNCHANGED <<crVars, used, cache, gwVars, crds, edits, failures>>

\* What is rendered for m: only a PassthroughModel controls what it writes.
Owner(m) == IF m \in PassthroughModels THEN uid[m] ELSE 0
Rendered(m) == [exists |-> TRUE, owner |-> Owner(m), allow |-> ids[m], pool |-> pool[m]]

(***************************************************************************)
(* The LLMModel reconciler: policy, then the route.                        *)
(***************************************************************************)
\* Mutant: route and policy in the order of the other reconciler.
routeWithPolicyPending(m) ==
  /\ m \in LLMModels /\ pc[m] = "policy"
  /\ route' = IF want[m] /\ crds THEN [route EXCEPT ![m] = Applied(@, 0)] ELSE route
  /\ UNCHANGED policy
  /\ failed' = [failed EXCEPT ![m] = TRUE]
  /\ Goto(m, "route")
  /\ UNCHANGED <<crVars, keyVars, cache, httpRoute, crds, queue, want, ids, pool, edits, failures>>

\* Without the CRD the reconcile goes on and asks to be run again.
reconcileSecurityPolicies(m) ==
  /\ m \in LLMModels /\ pc[m] = "policy"
  /\ policy' = IF want[m] /\ crds THEN [policy EXCEPT ![m] = Rendered(m)] ELSE policy
  /\ failed' = [failed EXCEPT ![m] = want[m] /\ ~crds]
  /\ Goto(m, "route")
  /\ UNCHANGED <<crVars, keyVars, cache, route, httpRoute, crds, queue, want, ids, pool,
                 edits, failures>>

\* determinePhase is a choice: while the model downloads or starts the reconcile
\* ends and is run again; when it serves, when the Deployment is not in the cache
\* yet and when reading it fails, the route is written.
awaitServing(m) ==
  /\ m \in LLMModels /\ pc[m] = "route"
  /\ Finish(m, TRUE)
  /\ UNCHANGED <<crVars, keyVars, cache, gwVars, crds, edits, failures>>

\* A route that cannot be written is logged and left.  An endpoint that is
\* disabled keeps what it has.
reconcileRoutingResources(m) ==
  /\ m \in LLMModels /\ pc[m] = "route"
  /\ Finish(m, failed[m])
  /\ \/ /\ route' = IF want[m] /\ crds THEN [route EXCEPT ![m] = Applied(@, 0)] ELSE route
        /\ UNCHANGED failures
     \/ /\ failures < MaxFailures /\ failures' = failures + 1
        /\ UNCHANGED route
  /\ UNCHANGED <<crVars, keyVars, cache, policy, httpRoute, crds, edits>>

(***************************************************************************)
(* The PassthroughModel reconciler: applyAll(route, policy).  A failed     *)
(* apply does not stop the next one.                                       *)
(***************************************************************************)
applyRoute(m) ==
  /\ m \in PassthroughModels /\ pc[m] = "route"
  /\ Goto(m, "policy")
  /\ \/ /\ crds
        /\ route' = [route EXCEPT ![m] = Applied(@, uid[m])]
        /\ UNCHANGED <<failed, failures>>
     \/ /\ ~crds
        /\ failed' = [failed EXCEPT ![m] = TRUE]
        /\ UNCHANGED <<route, failures>>
     \/ /\ failures < MaxFailures /\ failures' = failures + 1
        /\ failed' = [failed EXCEPT ![m] = TRUE]
        /\ UNCHANGED route
  /\ UNCHANGED <<crVars, keyVars, cache, policy, httpRoute, crds, queue, want, ids, pool, edits>>

applyPolicy(m) ==
  /\ m \in PassthroughModels /\ pc[m] = "policy"
  /\ IF crds
     THEN policy' = [policy EXCEPT ![m] = Rendered(m)] /\ Finish(m, failed[m])
     ELSE UNCHANGED policy /\ Finish(m, TRUE)
  /\ UNCHANGED <<crVars, keyVars, cache, route, httpRoute, crds, edits, failures>>

(***************************************************************************)
(* removeEndpoint of a disabled endpoint: removeControlledObject(route),   *)
(* each of its two calls a step, then the wait for the HTTPRoute, then     *)
(* removeControlledObject(policy).  As long as there was something left,   *)
(* and after an error, the reconcile ends and is run again.  The UID and   *)
(* resourceVersion a deletion is conditional on differ only where AI       *)
(* Gateway has written a status meanwhile: CallFails.                      *)
(***************************************************************************)
\* "refusing to remove" what another life of the model controls is an error.
getRoute(m) ==
  /\ pc[m] = "getRoute"
  /\ \/ /\ ~route[m].exists
        /\ Goto(m, "httpRoute") /\ UNCHANGED <<queue, localVars>>
     \/ /\ route[m].exists /\ route[m].owner = uid[m] /\ ~route[m].deleting
        /\ Goto(m, "dropRoute") /\ UNCHANGED <<queue, localVars>>
     \/ /\ route[m].exists /\ (route[m].owner = uid[m] => route[m].deleting)
        /\ Finish(m, TRUE)
  /\ UNCHANGED <<crVars, keyVars, cache, gwVars, crds, edits, failures>>

deleteRoute(m) ==
  /\ pc[m] = "dropRoute"
  /\ route' = [route EXCEPT ![m] = Deleted(@)]
  /\ Finish(m, TRUE)
  /\ UNCHANGED <<crVars, keyVars, cache, policy, httpRoute, crds, edits, failures>>

\* Mutant: any error of the Get is taken for NotFound.
getHTTPRouteUnread(m) ==
  /\ pc[m] = "httpRoute"
  /\ \/ /\ httpRoute[m] /\ Finish(m, TRUE) /\ UNCHANGED failures
     \/ /\ ~httpRoute[m] /\ Goto(m, "getPolicy") /\ UNCHANGED <<queue, localVars, failures>>
     \/ /\ failures < MaxFailures /\ failures' = failures + 1
        /\ Goto(m, "getPolicy") /\ UNCHANGED <<queue, localVars>>
  /\ UNCHANGED <<crVars, keyVars, cache, gwVars, crds, edits>>

\* Mutant: the wait does not ask to be run again.
getHTTPRouteOnce(m) ==
  /\ pc[m] = "httpRoute"
  /\ IF httpRoute[m] THEN Finish(m, FALSE)
                     ELSE Goto(m, "getPolicy") /\ UNCHANGED <<queue, localVars>>
  /\ UNCHANGED <<crVars, keyVars, cache, gwVars, crds, edits, failures>>

getHTTPRoute(m) ==
  /\ pc[m] = "httpRoute"
  /\ IF httpRoute[m] THEN Finish(m, TRUE)
                     ELSE Goto(m, "getPolicy") /\ UNCHANGED <<queue, localVars>>
  /\ UNCHANGED <<crVars, keyVars, cache, gwVars, crds, edits, failures>>

getPolicy(m) ==
  /\ pc[m] = "getPolicy"
  /\ IF policy[m].exists /\ policy[m].owner = uid[m]
     THEN Goto(m, "dropPolicy") /\ UNCHANGED <<queue, localVars>>
     ELSE Finish(m, policy[m].exists)
  /\ UNCHANGED <<crVars, keyVars, cache, gwVars, crds, edits, failures>>

deletePolicy(m) ==
  /\ pc[m] = "dropPolicy"
  /\ policy' = [policy EXCEPT ![m] = NoPolicy]
  /\ Finish(m, TRUE)
  /\ UNCHANGED <<crVars, keyVars, cache, route, httpRoute, crds, edits, failures>>

removeEndpoint(m) ==
  getRoute(m) \/ deleteRoute(m) \/ getHTTPRoute(m) \/ getPolicy(m) \/ deletePolicy(m)

(***************************************************************************)
(* reconcileDelete, of either kind.                                        *)
(***************************************************************************)
deleteSecret(m) ==
  /\ pc[m] = "delete"
  /\ secret' = IF cache[m].exists THEN [secret EXCEPT ![m] = NoSecret] ELSE secret
  /\ Goto(m, "finalizer")
  /\ UNCHANGED <<crVars, used, cache, gwVars, crds, queue, localVars, edits, failures>>

removeFinalizer(m) ==
  /\ pc[m] = "finalizer"
  /\ object' = [object EXCEPT ![m] = "none"]
  /\ finalized' = [finalized EXCEPT ![m] = FALSE]
  /\ Finish(m, FALSE)
  /\ UNCHANGED <<uid, external, keyVars, cache, gwVars, crds, edits, failures>>

\* A call to the API server fails and the reconcile with it.
CallFails(m) ==
  /\ failures < MaxFailures /\ failures' = failures + 1
  /\ pc[m] \notin {"idle", "route"}
  /\ Finish(m, TRUE)
  /\ UNCHANGED <<crVars, keyVars, cache, gwVars, crds, edits>>

(***************************************************************************)
(* The specification.                                                      *)
(***************************************************************************)
Controller(m) ==
  \/ Reconcile(m)
  \/ apiKeyClientIDs(m) \/ apiKeySecretNamesWith(m) \/ createOrUpdateSecret(m)
  \/ reconcileSecurityPolicies(m) \/ awaitServing(m) \/ reconcileRoutingResources(m)
  \/ applyRoute(m) \/ applyPolicy(m) \/ removeEndpoint(m)
  \/ deleteSecret(m) \/ removeFinalizer(m)

Environment(m) ==
  \/ CreateModel(m) \/ DeleteModel(m) \/ EditEndpoint(m)
  \/ \E k \in Keys : MintKey(m, k) \/ RevokeKey(m, k)
  \/ DeploymentChanges(m)

Cluster(m) ==
  \/ SyncCache(m) \/ GenerateHTTPRoute(m)
  \/ RouteTerminates(m) \/ CollectRoute(m) \/ CollectPolicy(m)

Next ==
  \/ \E m \in Models : Controller(m) \/ CallFails(m) \/ Environment(m) \/ Cluster(m)
  \/ InstallCRDs

Spec == Init /\ [][Next]_vars

\* A queued model is reconciled (controller-runtime's queue is fair, and its
\* delays end), the informer catches up, the CRDs are installed at last.
Fairness ==
  /\ WF_vars(InstallCRDs)
  /\ \A m \in Models :
       SF_vars(Controller(m)) /\ WF_vars(SyncCache(m)) /\ WF_vars(GenerateHTTPRoute(m))
         /\ WF_vars(RouteTerminates(m)) /\ WF_vars(CollectRoute(m)) /\ WF_vars(CollectPolicy(m))

FairSpec == Spec /\ Fairness

(***************************************************************************)
(* Properties.                                                             *)
(***************************************************************************)
\* The gateway serves a request that carries client ID k's key: the key is in
\* a Secret of the pool, and the policy allows its client ID.
Admitted(m, k) ==
  /\ httpRoute[m] /\ policy[m].exists
  /\ k \in policy[m].allow
  /\ \E n \in policy[m].pool : k \in secret[n].ids

\* Although every key authenticates everywhere, a key opens only the model it
\* was minted for, and only while it is not revoked, however far the operator
\* and its cache lag.
KeyScoped ==
  \A m \in Models, k \in Keys : Admitted(m, k) => k \in secret[m].ids

\* A served model is never reachable without its policy.  (Unless the CRDs
\* are installed just between the reconcile's two writes.)
LLMRouteGuarded ==
  CRDsFirst => \A m \in LLMModels : httpRoute[m] \/ route[m].exists => policy[m].exists

\* Disabling a provider's endpoint takes the policy of the living model away only
\* when neither the HTTPRoute nor the object it would be generated from is there:
\* true when the policy goes, not just when the reconciler looked, whatever is
\* edited, deleted, collected or fails between its calls.
RemovalKeepsAuth ==
  [][\A m \in PassthroughModels :
       policy[m].exists /\ ~policy'[m].exists /\ object[m] = "live" /\ policy[m].owner = uid[m]
         => ~httpRoute'[m] /\ ~route'[m].exists]_vars

\* The same of every way the policy and the route come and go: "removing the
\* policy first could briefly expose the upstream without authentication".
UpstreamNeverExposed ==
  \A m \in PassthroughModels : httpRoute[m] => policy[m].exists

\* Keys minted and revoked, models added and removed reach every enabled
\* endpoint in the end: it allows the client IDs of its model, pools the
\* Secrets that exist, and no other.
Desired(m) ==
  object[m] = "live" /\ external[m] =>
    /\ policy[m].exists
    /\ policy[m].allow = secret[m].ids
    /\ policy[m].pool = {n \in Models : secret[n].exists}
PoliciesConverge == \A m \in Models : <>[]Desired(m)

\* A provider's endpoint that stays disabled goes away.
DisabledEndpointGoes ==
  \A m \in PassthroughModels :
    <>[](object[m] = "live" /\ ~external[m]) => <>[](~httpRoute[m] /\ ~policy[m].exists)

(***************************************************************************)
(* The inductive invariants behind KeyScoped, LLMRouteGuarded and          *)
(* RemovalKeepsAuth.                                                       *)
(***************************************************************************)
\* Every copy of a model's client IDs, fresh or stale, is of its own.
OwnIDs ==
  \A m \in Models :
    /\ secret[m].ids \subseteq KeysOf[m] /\ cache[m].ids \subseteq KeysOf[m]
    /\ ids[m] \subseteq KeysOf[m] /\ policy[m].allow \subseteq KeysOf[m]

\* A reconcile that is about to write a served model's route has written its
\* policy, and nobody removes that: it has no owner to be collected with.
PolicyFirst ==
  CRDsFirst =>
    /\ crds
    /\ \A m \in LLMModels :
         /\ policy[m].owner = 0
         /\ pc[m] = "route" /\ want[m] => policy[m].exists

\* Once a removal has found no route none comes back before it ends, and an
\* HTTPRoute that it has found gone stays away: only this reconciler writes routes.
RouteStaysGone ==
  \A m \in Models :
    /\ pc[m] \in {"httpRoute", "getPolicy", "dropPolicy"} => ~route[m].exists
    /\ pc[m] \in {"getPolicy", "dropPolicy"} => ~httpRoute[m]

EndpointInv == TypeOK /\ OwnIDs /\ PolicyFirst /\ LLMRouteGuarded /\ RouteStaysGone
=============================================================================
