-------------------------- MODULE EndpointAuthProofs -------------------------
(* Key scoping and guarded routes, for any number of models of both kinds. *)
EXTENDS EndpointAuth, TLAPS

\* At first there are no models, no Secrets and no gateway objects.
LEMMA EndpointInit == Init => EndpointInv
<1> SUFFICES ASSUME Init PROVE EndpointInv
  OBVIOUS
<1>1. TypeOK
  BY EndpointAssumptions DEF Init, TypeOK, Secrets, Policies, Routes, NoSecret, NoPolicy, NoRoute
<1>2. OwnIDs
  BY DEF Init, OwnIDs, NoSecret, NoPolicy
<1>3. PolicyFirst /\ LLMRouteGuarded /\ RouteStaysGone
  BY DEF Init, PolicyFirst, LLMRouteGuarded, RouteStaysGone, Models, NoPolicy, NoRoute
<1> QED BY <1>1, <1>2, <1>3 DEF EndpointInv

\* A reconcile that ends leaves the controller's state well typed.
LEMMA FinishTyped ==
  ASSUME TypeOK, NEW m \in Models, \E again \in BOOLEAN : Finish(m, again)
  PROVE  /\ pc' = [pc EXCEPT ![m] = "idle"]
         /\ queue' \in SUBSET Models /\ want' \in [Models -> BOOLEAN]
         /\ ids' \in [Models -> SUBSET Keys] /\ pool' \in [Models -> SUBSET Models]
         /\ failed' \in [Models -> BOOLEAN]
         /\ \A n \in Models : ids'[n] \subseteq ids[n]
BY DEF Finish, TypeOK

\* A deleted route is a route, and still there.
LEMMA DeletedTyped ==
  ASSUME NEW r \in Routes
  PROVE  Deleted(r) \in Routes /\ Deleted(r).exists = r.exists
BY DEF Deleted, Routes

\* Every step of the environment and of the cluster keeps the invariant.
LEMMA EnvironmentKeeps ==
  ASSUME EndpointInv, NEW m \in Models, Environment(m) \/ Cluster(m)
  PROVE  EndpointInv'
<1>i. TypeOK /\ OwnIDs /\ PolicyFirst /\ LLMRouteGuarded /\ RouteStaysGone
  BY DEF EndpointInv
<1> USE EndpointAssumptions, <1>i, m \in Models
<1>1. CASE CreateModel(m)
  <2>1. TypeOK'
    BY <1>1 DEF CreateModel, keyVars, gwVars, localVars, TypeOK
  <2>2. OwnIDs'
    BY <1>1 DEF CreateModel, keyVars, gwVars, localVars, TypeOK, OwnIDs, Secrets, Policies
  <2>3. PolicyFirst' /\ LLMRouteGuarded' /\ RouteStaysGone'
    BY <1>1 DEF CreateModel, keyVars, gwVars, localVars, TypeOK, PolicyFirst, LLMRouteGuarded, RouteStaysGone, Models, Policies, Routes
  <2> QED BY <2>1, <2>2, <2>3 DEF EndpointInv
<1>2. CASE DeleteModel(m)
  <2>1. TypeOK'
    BY <1>2 DEF DeleteModel, keyVars, gwVars, localVars, TypeOK
  <2>2. OwnIDs'
    BY <1>2 DEF DeleteModel, keyVars, gwVars, localVars, TypeOK, OwnIDs, Secrets, Policies
  <2>3. PolicyFirst' /\ LLMRouteGuarded' /\ RouteStaysGone'
    BY <1>2 DEF DeleteModel, keyVars, gwVars, localVars, TypeOK, PolicyFirst, LLMRouteGuarded, RouteStaysGone, Models, Policies, Routes
  <2> QED BY <2>1, <2>2, <2>3 DEF EndpointInv
<1>3. CASE EditEndpoint(m)
  <2>1. TypeOK'
    BY <1>3 DEF EditEndpoint, keyVars, gwVars, localVars, TypeOK
  <2>2. OwnIDs'
    BY <1>3 DEF EditEndpoint, keyVars, gwVars, localVars, TypeOK, OwnIDs, Secrets, Policies
  <2>3. PolicyFirst' /\ LLMRouteGuarded' /\ RouteStaysGone'
    BY <1>3 DEF EditEndpoint, keyVars, gwVars, localVars, TypeOK, PolicyFirst, LLMRouteGuarded, RouteStaysGone, Models, Policies, Routes
  <2> QED BY <2>1, <2>2, <2>3 DEF EndpointInv
<1>4. ASSUME NEW k \in Keys, MintKey(m, k) PROVE EndpointInv'
  <2>1. TypeOK'
    BY <1>4 DEF MintKey, crVars, gwVars, localVars, TypeOK, Secrets
  <2>2. OwnIDs'
    BY <1>4 DEF MintKey, crVars, gwVars, localVars, TypeOK, OwnIDs, Secrets, Policies
  <2>3. PolicyFirst' /\ LLMRouteGuarded' /\ RouteStaysGone'
    BY <1>4 DEF MintKey, crVars, gwVars, localVars, TypeOK, PolicyFirst, LLMRouteGuarded, RouteStaysGone, Models, Policies, Routes
  <2> QED BY <2>1, <2>2, <2>3 DEF EndpointInv
<1>5. ASSUME NEW k \in Keys, RevokeKey(m, k) PROVE EndpointInv'
  <2>1. TypeOK'
    BY <1>5 DEF RevokeKey, crVars, gwVars, localVars, TypeOK, Secrets
  <2>2. OwnIDs'
    BY <1>5 DEF RevokeKey, crVars, gwVars, localVars, TypeOK, OwnIDs, Secrets, Policies
  <2>3. PolicyFirst' /\ LLMRouteGuarded' /\ RouteStaysGone'
    BY <1>5 DEF RevokeKey, crVars, gwVars, localVars, TypeOK, PolicyFirst, LLMRouteGuarded, RouteStaysGone, Models, Policies, Routes
  <2> QED BY <2>1, <2>2, <2>3 DEF EndpointInv
<1>6. CASE DeploymentChanges(m)
  <2>1. TypeOK'
    BY <1>6 DEF DeploymentChanges, crVars, keyVars, gwVars, localVars, TypeOK
  <2>2. OwnIDs'
    BY <1>6 DEF DeploymentChanges, crVars, keyVars, gwVars, localVars, TypeOK, OwnIDs, Secrets, Policies
  <2>3. PolicyFirst' /\ LLMRouteGuarded' /\ RouteStaysGone'
    BY <1>6 DEF DeploymentChanges, crVars, keyVars, gwVars, localVars, TypeOK, PolicyFirst, LLMRouteGuarded, RouteStaysGone, Models, Policies, Routes
  <2> QED BY <2>1, <2>2, <2>3 DEF EndpointInv
<1>7. CASE SyncCache(m)
  <2>1. TypeOK'
    BY <1>7 DEF SyncCache, enqueueAllModels, crVars, keyVars, gwVars, localVars, TypeOK, Secrets
  <2>2. OwnIDs'
    BY <1>7 DEF SyncCache, enqueueAllModels, crVars, keyVars, gwVars, localVars, TypeOK, OwnIDs, Secrets, Policies
  <2>3. PolicyFirst' /\ LLMRouteGuarded' /\ RouteStaysGone'
    BY <1>7 DEF SyncCache, enqueueAllModels, crVars, keyVars, gwVars, localVars, TypeOK, PolicyFirst, LLMRouteGuarded, RouteStaysGone, Models, Policies, Routes
  <2> QED BY <2>1, <2>2, <2>3 DEF EndpointInv
<1>8. CASE GenerateHTTPRoute(m)
  <2>1. TypeOK'
    BY <1>8 DEF GenerateHTTPRoute, crVars, keyVars, localVars, TypeOK, Routes
  <2>2. OwnIDs'
    BY <1>8 DEF GenerateHTTPRoute, crVars, keyVars, localVars, TypeOK, OwnIDs, Secrets, Policies
  <2>3. PolicyFirst' /\ LLMRouteGuarded' /\ RouteStaysGone'
    BY <1>8 DEF GenerateHTTPRoute, crVars, keyVars, localVars, TypeOK, PolicyFirst, LLMRouteGuarded, RouteStaysGone, Models, Policies, Routes
  <2> QED BY <2>1, <2>2, <2>3 DEF EndpointInv
<1>9. CASE CollectRoute(m)
  <2>0. Deleted(route[m]) \in Routes /\ Deleted(route[m]).exists = route[m].exists
    BY DeletedTyped DEF TypeOK
  <2>1. TypeOK'
    BY <1>9, <2>0 DEF CollectRoute, crVars, keyVars, localVars, TypeOK
  <2>2. OwnIDs'
    BY <1>9 DEF CollectRoute, crVars, keyVars, localVars, TypeOK, OwnIDs, Secrets, Policies
  <2>3. PolicyFirst' /\ LLMRouteGuarded' /\ RouteStaysGone'
    BY <1>9, <2>0 DEF CollectRoute, crVars, keyVars, localVars, TypeOK, PolicyFirst,
                      LLMRouteGuarded, RouteStaysGone, Models
  <2> QED BY <2>1, <2>2, <2>3 DEF EndpointInv
<1>10. CASE CollectPolicy(m)
  <2>1. TypeOK'
    BY <1>10 DEF CollectPolicy, Collectable, NoPolicy, crVars, keyVars, localVars, TypeOK, Policies
  <2>2. OwnIDs'
    BY <1>10 DEF CollectPolicy, Collectable, NoPolicy, crVars, keyVars, localVars, TypeOK, OwnIDs, Secrets, Policies
  <2>3. PolicyFirst' /\ LLMRouteGuarded' /\ RouteStaysGone'
    BY <1>10 DEF CollectPolicy, Collectable, NoPolicy, crVars, keyVars, localVars, TypeOK, PolicyFirst, LLMRouteGuarded, RouteStaysGone, Models, Policies, Routes
  <2> QED BY <2>1, <2>2, <2>3 DEF EndpointInv
<1>11. CASE RouteTerminates(m)
  <2>1. TypeOK'
    BY <1>11 DEF RouteTerminates, NoRoute, crVars, keyVars, localVars, TypeOK, Routes
  <2>2. OwnIDs'
    BY <1>11 DEF RouteTerminates, NoRoute, crVars, keyVars, localVars, TypeOK, OwnIDs, Secrets, Policies
  <2>3. PolicyFirst' /\ LLMRouteGuarded' /\ RouteStaysGone'
    BY <1>11 DEF RouteTerminates, NoRoute, crVars, keyVars, localVars, TypeOK, PolicyFirst, LLMRouteGuarded, RouteStaysGone, Models, Policies, Routes
  <2> QED BY <2>1, <2>2, <2>3 DEF EndpointInv
<1> QED
  BY <1>1, <1>2, <1>3, <1>4, <1>5, <1>6, <1>7, <1>8, <1>9, <1>10, <1>11 DEF Environment, Cluster

\* Every step of a reconcile keeps the invariant.
LEMMA ControllerKeeps ==
  ASSUME EndpointInv, NEW m \in Models, Controller(m) \/ CallFails(m)
  PROVE  EndpointInv'
<1>i. TypeOK /\ OwnIDs /\ PolicyFirst /\ LLMRouteGuarded /\ RouteStaysGone
  BY DEF EndpointInv
<1> USE EndpointAssumptions, <1>i, m \in Models
<1>1. CASE Reconcile(m)
  <2>1. TypeOK'
    BY <1>1, ZenonT(60) DEF Reconcile, Goto, keyVars, gwVars, TypeOK
  <2>2. OwnIDs'
    BY <1>1 DEF Reconcile, Goto, keyVars, gwVars, TypeOK, OwnIDs, Secrets, Policies
  <2>3. PolicyFirst' /\ LLMRouteGuarded' /\ RouteStaysGone'
    BY <1>1 DEF Reconcile, Goto, keyVars, gwVars, TypeOK, PolicyFirst, LLMRouteGuarded, RouteStaysGone, Models, Policies, Routes
  <2> QED BY <2>1, <2>2, <2>3 DEF EndpointInv
<1>2. CASE apiKeyClientIDs(m)
  <2>0. ids' = [ids EXCEPT ![m] = cache[m].ids] /\ cache[m].ids \subseteq Keys
    BY <1>2 DEF apiKeyClientIDs, TypeOK, Secrets
  <2>1. TypeOK'
    BY <1>2, <2>0 DEF apiKeyClientIDs, Goto, crVars, keyVars, gwVars, TypeOK
  <2>2. OwnIDs'
    BY <1>2, <2>0 DEF apiKeyClientIDs, crVars, keyVars, gwVars, TypeOK, OwnIDs
  <2>3. PolicyFirst' /\ LLMRouteGuarded' /\ RouteStaysGone'
    BY <1>2 DEF apiKeyClientIDs, Goto, crVars, keyVars, gwVars, TypeOK, PolicyFirst,
                LLMRouteGuarded, RouteStaysGone, Models
  <2> QED BY <2>1, <2>2, <2>3 DEF EndpointInv
<1>3. CASE apiKeySecretNamesWith(m)
  <2>1. TypeOK'
    BY <1>3 DEF apiKeySecretNamesWith, Goto, crVars, keyVars, gwVars, TypeOK, Secrets
  <2>2. OwnIDs'
    BY <1>3 DEF apiKeySecretNamesWith, Goto, crVars, keyVars, gwVars, TypeOK, OwnIDs, Secrets, Policies
  <2>3. PolicyFirst' /\ LLMRouteGuarded' /\ RouteStaysGone'
    BY <1>3 DEF apiKeySecretNamesWith, Goto, crVars, keyVars, gwVars, TypeOK, PolicyFirst, LLMRouteGuarded, RouteStaysGone, Models, Policies, Routes
  <2> QED BY <2>1, <2>2, <2>3 DEF EndpointInv
<1>4. CASE createOrUpdateSecret(m)
  <2>1. CASE cache[m] # secret[m] /\ Finish(m, TRUE) /\ UNCHANGED secret
    <3>0. /\ pc' = [pc EXCEPT ![m] = "idle"]
        /\ queue' \in SUBSET Models /\ want' \in [Models -> BOOLEAN]
        /\ ids' \in [Models -> SUBSET Keys] /\ pool' \in [Models -> SUBSET Models]
        /\ failed' \in [Models -> BOOLEAN]
        /\ \A n \in Models : ids'[n] \subseteq ids[n]
      BY <2>1, FinishTyped
    <3>1. TypeOK'
      BY <1>4, <2>1, <3>0 DEF createOrUpdateSecret, crVars, gwVars, TypeOK
    <3>2. OwnIDs'
      BY <1>4, <2>1, <3>0 DEF createOrUpdateSecret, gwVars, OwnIDs
    <3>3. PolicyFirst' /\ LLMRouteGuarded' /\ RouteStaysGone'
      BY <1>4, <2>1 DEF createOrUpdateSecret, Finish, gwVars, TypeOK, PolicyFirst,
                        LLMRouteGuarded, RouteStaysGone, Models
    <3> QED BY <3>1, <3>2, <3>3 DEF EndpointInv
  <2>2. CASE /\ secret' = [secret EXCEPT ![m] = [exists |-> TRUE, ids |-> @.ids]]
             /\ Goto(m, IF m \in LLMModels THEN "policy" ELSE IF want[m] THEN "route" ELSE "getRoute")
             /\ UNCHANGED <<queue, localVars>>
    <3>0. secret' \in [Models -> Secrets]
      BY <2>2 DEF TypeOK, Secrets
    <3>1. TypeOK'
      BY <1>4, <2>2, <3>0 DEF createOrUpdateSecret, Goto, crVars, gwVars, localVars, TypeOK
    <3>2. OwnIDs'
      BY <1>4, <2>2 DEF createOrUpdateSecret, gwVars, localVars, TypeOK, OwnIDs, Secrets
    <3>3. PolicyFirst' /\ LLMRouteGuarded' /\ RouteStaysGone'
      BY <1>4, <2>2 DEF createOrUpdateSecret, Goto, gwVars, localVars, TypeOK, PolicyFirst,
                        LLMRouteGuarded, RouteStaysGone, Models
    <3> QED BY <3>1, <3>2, <3>3 DEF EndpointInv
  <2> QED BY <1>4, <2>1, <2>2 DEF createOrUpdateSecret
<1>5. CASE reconcileSecurityPolicies(m)
  <2>1. TypeOK'
    BY <1>5 DEF reconcileSecurityPolicies, Rendered, Owner, Goto, crVars, keyVars, TypeOK, Policies
  <2>2. OwnIDs'
    BY <1>5 DEF reconcileSecurityPolicies, Rendered, Owner, Goto, crVars, keyVars, TypeOK, OwnIDs, Secrets, Policies
  <2>3. PolicyFirst' /\ LLMRouteGuarded' /\ RouteStaysGone'
    BY <1>5 DEF reconcileSecurityPolicies, Rendered, Owner, Goto, crVars, keyVars, TypeOK, PolicyFirst, LLMRouteGuarded, RouteStaysGone, Models, Policies, Routes
  <2> QED BY <2>1, <2>2, <2>3 DEF EndpointInv
<1>6. CASE reconcileRoutingResources(m)
  <2>a. \E again \in BOOLEAN : Finish(m, again)
    BY <1>6 DEF reconcileRoutingResources, TypeOK
  <2>0. /\ pc' = [pc EXCEPT ![m] = "idle"]
        /\ queue' \in SUBSET Models /\ want' \in [Models -> BOOLEAN]
        /\ ids' \in [Models -> SUBSET Keys] /\ pool' \in [Models -> SUBSET Models]
        /\ failed' \in [Models -> BOOLEAN]
        /\ \A n \in Models : ids'[n] \subseteq ids[n]
    BY <2>a, FinishTyped
  <2>b. route' = route \/ (want[m] /\ route' = [route EXCEPT ![m] = Applied(@, 0)])
    BY <1>6 DEF reconcileRoutingResources
  <2>r. Applied(route[m], 0) \in Routes
    BY DEF Applied, Routes, TypeOK
  <2>c. /\ route' \in [Models -> Routes]
        /\ \A n \in Models : route'[n].exists => route[n].exists \/ (n = m /\ want[m])
    <3>1. CASE route' = route
      BY <3>1 DEF TypeOK
    <3>2. CASE want[m] /\ route' = [route EXCEPT ![m] = Applied(@, 0)]
      BY <3>2, <2>r DEF TypeOK
    <3> QED BY <2>b, <3>1, <3>2
  <2>e. failures' = failures \/ (failures < MaxFailures /\ failures' = failures + 1)
    BY <1>6 DEF reconcileRoutingResources
  <2>d. failures' \in 0 .. MaxFailures
    BY <2>e DEF TypeOK
  <2>1. TypeOK'
    BY <1>6, <2>0, <2>c, <2>d DEF reconcileRoutingResources, crVars, keyVars, TypeOK
  <2>2. OwnIDs'
    BY <1>6, <2>0 DEF reconcileRoutingResources, keyVars, OwnIDs
  <2>3. PolicyFirst' /\ LLMRouteGuarded' /\ RouteStaysGone'
    <3>1. /\ pc[m] = "route" /\ UNCHANGED <<policy, httpRoute, crds>>
      BY <1>6 DEF reconcileRoutingResources
    <3>2. /\ \A n \in Models : pc'[n] = "route" /\ want'[n] => pc[n] = "route" /\ want[n]
          /\ \A n \in Models : pc'[n] \in {"httpRoute", "getPolicy", "dropPolicy"}
                                => n # m /\ pc[n] = pc'[n]
      BY <2>a DEF Finish, TypeOK
    <3>3. PolicyFirst'
      BY <3>1, <3>2 DEF PolicyFirst, Models
    <3>4. LLMRouteGuarded'
      BY <3>1, <2>c DEF PolicyFirst, LLMRouteGuarded, Models
    <3>5. RouteStaysGone'
      BY <3>1, <3>2, <2>c DEF RouteStaysGone
    <3> QED BY <3>3, <3>4, <3>5
  <2> QED BY <2>1, <2>2, <2>3 DEF EndpointInv
<1>7. CASE applyRoute(m)
  <2>e. /\ failures' = failures \/ (failures < MaxFailures /\ failures' = failures + 1)
        /\ failed' = failed \/ failed' = [failed EXCEPT ![m] = TRUE]
    BY <1>7 DEF applyRoute
  <2>f. failures' \in 0 .. MaxFailures
    BY <2>e DEF TypeOK
  <2>g. failed' \in [Models -> BOOLEAN]
    BY <2>e DEF TypeOK
  <2>r. Applied(route[m], uid[m]) \in Routes
    BY DEF Applied, Routes, TypeOK
  <2>b. route' = route \/ route' = [route EXCEPT ![m] = Applied(@, uid[m])]
    BY <1>7 DEF applyRoute
  <2>a. route' \in [Models -> Routes] /\ \A n \in Models : n # m => route'[n] = route[n]
    BY <2>b, <2>r DEF TypeOK
  <2>1. TypeOK'
    BY <1>7, <2>f, <2>g, <2>a DEF applyRoute, Goto, crVars, keyVars, TypeOK
  <2>2. OwnIDs'
    BY <1>7 DEF applyRoute, keyVars, OwnIDs
  <2>3. PolicyFirst' /\ LLMRouteGuarded' /\ RouteStaysGone'
    <3>1. m \notin LLMModels /\ UNCHANGED <<policy, httpRoute, crds, want>>
          /\ pc' = [pc EXCEPT ![m] = "policy"]
      BY <1>7 DEF applyRoute, Goto
    <3> QED
      BY <3>1, <2>a DEF TypeOK, PolicyFirst, LLMRouteGuarded, RouteStaysGone, Models
  <2> QED BY <2>1, <2>2, <2>3 DEF EndpointInv
<1>8. CASE applyPolicy(m)
  <2>a. \E again \in BOOLEAN : Finish(m, again)
    BY <1>8 DEF applyPolicy, TypeOK
  <2>0. /\ pc' = [pc EXCEPT ![m] = "idle"]
        /\ queue' \in SUBSET Models /\ want' \in [Models -> BOOLEAN]
        /\ ids' \in [Models -> SUBSET Keys] /\ pool' \in [Models -> SUBSET Models]
        /\ failed' \in [Models -> BOOLEAN]
        /\ \A n \in Models : ids'[n] \subseteq ids[n]
    BY <2>a, FinishTyped
  <2>b. policy' = policy \/ policy' = [policy EXCEPT ![m] = Rendered(m)]
    BY <1>8 DEF applyPolicy
  <2>c. Rendered(m) \in Policies /\ Rendered(m).allow = ids[m]
    BY DEF Rendered, Owner, Policies, TypeOK
  <2>1. TypeOK'
    BY <1>8, <2>0, <2>b, <2>c DEF applyPolicy, crVars, keyVars, TypeOK
  <2>2. OwnIDs'
    BY <1>8, <2>0, <2>b, <2>c DEF applyPolicy, keyVars, TypeOK, OwnIDs
  <2>3. PolicyFirst' /\ LLMRouteGuarded' /\ RouteStaysGone'
    <3>1. m \notin LLMModels /\ UNCHANGED <<route, httpRoute, crds>>
      BY <1>8 DEF applyPolicy
    <3>2. \A n \in Models : n # m => policy'[n] = policy[n] /\ pc'[n] = pc[n] /\ want'[n] = want[n]
      BY <1>8, <2>b DEF applyPolicy, Finish, TypeOK
    <3>3. pc'[m] = "idle"
      BY <2>0 DEF TypeOK
    <3> QED
      BY <3>1, <3>2, <3>3 DEF PolicyFirst, LLMRouteGuarded, RouteStaysGone, Models
  <2> QED BY <2>1, <2>2, <2>3 DEF EndpointInv
<1>9. CASE removeEndpoint(m)
  <2>1. CASE getRoute(m)
    <3>0. /\ pc' \in [Models -> {"idle", "ids", "names", "secret", "policy", "route",
                            "getRoute", "dropRoute", "httpRoute", "getPolicy", "dropPolicy",
                            "delete", "finalizer"}]
          /\ queue' \in SUBSET Models /\ want' \in [Models -> BOOLEAN]
          /\ ids' \in [Models -> SUBSET Keys] /\ pool' \in [Models -> SUBSET Models]
          /\ failed' \in [Models -> BOOLEAN]
          /\ \A k \in Models : ids'[k] \subseteq ids[k]
      <4>1. CASE Finish(m, TRUE)
        BY <4>1, FinishTyped DEF TypeOK
      <4>2. CASE Goto(m, "httpRoute") /\ UNCHANGED <<queue, localVars>>
        BY <4>2 DEF Goto, localVars, TypeOK
      <4>3. CASE Goto(m, "dropRoute") /\ UNCHANGED <<queue, localVars>>
        BY <4>3 DEF Goto, localVars, TypeOK
      <4> QED BY <2>1, <4>1, <4>2, <4>3 DEF getRoute
    <3>1. TypeOK'
      BY <2>1, <3>0 DEF getRoute, crVars, keyVars, gwVars, TypeOK, Policies, Routes
    <3>2. OwnIDs'
      BY <2>1, <3>0 DEF getRoute, crVars, keyVars, gwVars, TypeOK, OwnIDs, Policies
    <3>3. PolicyFirst' /\ LLMRouteGuarded' /\ RouteStaysGone'
      BY <2>1 DEF getRoute, Finish, Goto, crVars, keyVars, gwVars, localVars, TypeOK,
                 PolicyFirst, LLMRouteGuarded, RouteStaysGone, Models, Policies, Routes
    <3> QED BY <3>1, <3>2, <3>3 DEF EndpointInv
  <2>2. CASE deleteRoute(m)
    <3>d. Deleted(route[m]) \in Routes /\ Deleted(route[m]).exists = route[m].exists
      BY DeletedTyped DEF TypeOK
    <3>0. /\ pc' \in [Models -> {"idle", "ids", "names", "secret", "policy", "route",
                            "getRoute", "dropRoute", "httpRoute", "getPolicy", "dropPolicy",
                            "delete", "finalizer"}]
          /\ queue' \in SUBSET Models /\ want' \in [Models -> BOOLEAN]
          /\ ids' \in [Models -> SUBSET Keys] /\ pool' \in [Models -> SUBSET Models]
          /\ failed' \in [Models -> BOOLEAN]
          /\ \A k \in Models : ids'[k] \subseteq ids[k]
      BY <2>2 DEF deleteRoute, Finish, Goto, localVars, TypeOK
    <3>1. TypeOK'
      BY <2>2, <3>0, <3>d DEF deleteRoute, crVars, keyVars, TypeOK
    <3>2. OwnIDs'
      BY <2>2, <3>0 DEF deleteRoute, crVars, keyVars, gwVars, TypeOK, OwnIDs, Policies
    <3>3. PolicyFirst' /\ LLMRouteGuarded' /\ RouteStaysGone'
      BY <2>2, <3>d DEF deleteRoute, Finish, Goto, crVars, keyVars, gwVars, localVars, TypeOK,
                 PolicyFirst, LLMRouteGuarded, RouteStaysGone, Models, Policies, Routes
    <3> QED BY <3>1, <3>2, <3>3 DEF EndpointInv
  <2>3. CASE getHTTPRoute(m)
    <3>0. /\ pc' \in [Models -> {"idle", "ids", "names", "secret", "policy", "route",
                            "getRoute", "dropRoute", "httpRoute", "getPolicy", "dropPolicy",
                            "delete", "finalizer"}]
          /\ queue' \in SUBSET Models /\ want' \in [Models -> BOOLEAN]
          /\ ids' \in [Models -> SUBSET Keys] /\ pool' \in [Models -> SUBSET Models]
          /\ failed' \in [Models -> BOOLEAN]
          /\ \A k \in Models : ids'[k] \subseteq ids[k]
      <4>1. CASE \E again \in BOOLEAN : Finish(m, again)
        BY <4>1, FinishTyped DEF TypeOK
      <4>2. CASE Goto(m, "getPolicy") /\ UNCHANGED <<queue, localVars>>
        BY <4>2 DEF Goto, localVars, TypeOK
      <4>3. policy[m].exists \in BOOLEAN
        BY DEF TypeOK, Policies
      <4> QED BY <2>3, <4>1, <4>2, <4>3 DEF getHTTPRoute
    <3>1. TypeOK'
      BY <2>3, <3>0 DEF getHTTPRoute, crVars, keyVars, gwVars, TypeOK, Policies, Routes
    <3>2. OwnIDs'
      BY <2>3, <3>0 DEF getHTTPRoute, crVars, keyVars, gwVars, TypeOK, OwnIDs, Policies
    <3>3. PolicyFirst' /\ LLMRouteGuarded' /\ RouteStaysGone'
      BY <2>3 DEF getHTTPRoute, Finish, Goto, crVars, keyVars, gwVars, localVars, TypeOK,
                 PolicyFirst, LLMRouteGuarded, RouteStaysGone, Models, Policies, Routes
    <3> QED BY <3>1, <3>2, <3>3 DEF EndpointInv
  <2>4. CASE getPolicy(m)
    <3>0. /\ pc' \in [Models -> {"idle", "ids", "names", "secret", "policy", "route",
                            "getRoute", "dropRoute", "httpRoute", "getPolicy", "dropPolicy",
                            "delete", "finalizer"}]
          /\ queue' \in SUBSET Models /\ want' \in [Models -> BOOLEAN]
          /\ ids' \in [Models -> SUBSET Keys] /\ pool' \in [Models -> SUBSET Models]
          /\ failed' \in [Models -> BOOLEAN]
          /\ \A k \in Models : ids'[k] \subseteq ids[k]
      <4>1. CASE \E again \in BOOLEAN : Finish(m, again)
        BY <4>1, FinishTyped DEF TypeOK
      <4>2. CASE Goto(m, "dropPolicy") /\ UNCHANGED <<queue, localVars>>
        BY <4>2 DEF Goto, localVars, TypeOK
      <4>3. policy[m].exists \in BOOLEAN
        BY DEF TypeOK, Policies
      <4> QED BY <2>4, <4>1, <4>2, <4>3 DEF getPolicy
    <3>1. TypeOK'
      BY <2>4, <3>0 DEF getPolicy, crVars, keyVars, gwVars, TypeOK, Policies, Routes
    <3>2. OwnIDs'
      BY <2>4, <3>0 DEF getPolicy, crVars, keyVars, gwVars, TypeOK, OwnIDs, Policies
    <3>3. PolicyFirst' /\ LLMRouteGuarded' /\ RouteStaysGone'
      BY <2>4 DEF getPolicy, Finish, Goto, crVars, keyVars, gwVars, localVars, TypeOK,
                 PolicyFirst, LLMRouteGuarded, RouteStaysGone, Models, Policies, Routes
    <3> QED BY <3>1, <3>2, <3>3 DEF EndpointInv
  <2>5. CASE deletePolicy(m)
    <3>0. /\ pc' \in [Models -> {"idle", "ids", "names", "secret", "policy", "route",
                            "getRoute", "dropRoute", "httpRoute", "getPolicy", "dropPolicy",
                            "delete", "finalizer"}]
          /\ queue' \in SUBSET Models /\ want' \in [Models -> BOOLEAN]
          /\ ids' \in [Models -> SUBSET Keys] /\ pool' \in [Models -> SUBSET Models]
          /\ failed' \in [Models -> BOOLEAN]
          /\ \A k \in Models : ids'[k] \subseteq ids[k]
      BY <2>5 DEF deletePolicy, Finish, Goto, localVars, TypeOK
    <3>1. TypeOK'
      BY <2>5, <3>0 DEF deletePolicy, NoPolicy, crVars, keyVars, gwVars, TypeOK, Policies, Routes
    <3>2. OwnIDs'
      BY <2>5, <3>0 DEF deletePolicy, NoPolicy, crVars, keyVars, gwVars, TypeOK, OwnIDs, Policies
    <3>3. PolicyFirst' /\ LLMRouteGuarded' /\ RouteStaysGone'
      BY <2>5 DEF deletePolicy, NoPolicy, Finish, Goto, crVars, keyVars, gwVars, localVars, TypeOK,
                 PolicyFirst, LLMRouteGuarded, RouteStaysGone, Models, Policies, Routes
    <3> QED BY <3>1, <3>2, <3>3 DEF EndpointInv
  <2> QED BY <1>9, <2>1, <2>2, <2>3, <2>4, <2>5 DEF removeEndpoint
<1>10. CASE deleteSecret(m)
  <2>1. TypeOK'
    BY <1>10 DEF deleteSecret, Goto, NoSecret, crVars, gwVars, localVars, TypeOK, Secrets
  <2>2. OwnIDs'
    BY <1>10 DEF deleteSecret, Goto, NoSecret, crVars, gwVars, localVars, TypeOK, OwnIDs, Secrets, Policies
  <2>3. PolicyFirst' /\ LLMRouteGuarded' /\ RouteStaysGone'
    BY <1>10 DEF deleteSecret, Goto, NoSecret, crVars, gwVars, localVars, TypeOK, PolicyFirst, LLMRouteGuarded, RouteStaysGone, Models, Policies, Routes
  <2> QED BY <2>1, <2>2, <2>3 DEF EndpointInv
<1>11. CASE removeFinalizer(m)
  <2>0. /\ pc' \in [Models -> {"idle", "ids", "names", "secret", "policy", "route",
                          "getRoute", "dropRoute", "httpRoute", "getPolicy", "dropPolicy",
                          "delete", "finalizer"}]
        /\ queue' \in SUBSET Models /\ want' \in [Models -> BOOLEAN]
        /\ ids' \in [Models -> SUBSET Keys] /\ pool' \in [Models -> SUBSET Models]
        /\ failed' \in [Models -> BOOLEAN]
        /\ \A n \in Models : ids'[n] \subseteq ids[n]
    BY <1>11 DEF removeFinalizer, Finish, keyVars, gwVars, TypeOK
  <2>1. TypeOK'
    BY <1>11, <2>0 DEF removeFinalizer, keyVars, gwVars, TypeOK
  <2>2. OwnIDs'
    BY <1>11, <2>0 DEF removeFinalizer, keyVars, gwVars, TypeOK, OwnIDs, Secrets, Policies
  <2>3. PolicyFirst' /\ LLMRouteGuarded' /\ RouteStaysGone'
    BY <1>11 DEF removeFinalizer, Finish, keyVars, gwVars, TypeOK, PolicyFirst, LLMRouteGuarded, RouteStaysGone, Models, Policies, Routes
  <2> QED BY <2>1, <2>2, <2>3 DEF EndpointInv
<1>12. CASE CallFails(m)
  <2>0. /\ pc' \in [Models -> {"idle", "ids", "names", "secret", "policy", "route",
                          "getRoute", "dropRoute", "httpRoute", "getPolicy", "dropPolicy",
                          "delete", "finalizer"}]
        /\ queue' \in SUBSET Models /\ want' \in [Models -> BOOLEAN]
        /\ ids' \in [Models -> SUBSET Keys] /\ pool' \in [Models -> SUBSET Models]
        /\ failed' \in [Models -> BOOLEAN]
        /\ \A n \in Models : ids'[n] \subseteq ids[n]
    BY <1>12 DEF CallFails, Finish, crVars, keyVars, gwVars, TypeOK
  <2>1. TypeOK'
    BY <1>12, <2>0 DEF CallFails, crVars, keyVars, gwVars, TypeOK
  <2>2. OwnIDs'
    BY <1>12, <2>0 DEF CallFails, crVars, keyVars, gwVars, TypeOK, OwnIDs, Secrets, Policies
  <2>3. PolicyFirst' /\ LLMRouteGuarded' /\ RouteStaysGone'
    BY <1>12 DEF CallFails, Finish, crVars, keyVars, gwVars, TypeOK, PolicyFirst, LLMRouteGuarded, RouteStaysGone, Models, Policies, Routes
  <2> QED BY <2>1, <2>2, <2>3 DEF EndpointInv
<1>13. CASE awaitServing(m)
  <2>a. \E again \in BOOLEAN : Finish(m, again)
    BY <1>13 DEF awaitServing
  <2>0. /\ pc' = [pc EXCEPT ![m] = "idle"]
        /\ queue' \in SUBSET Models /\ want' \in [Models -> BOOLEAN]
        /\ ids' \in [Models -> SUBSET Keys] /\ pool' \in [Models -> SUBSET Models]
        /\ failed' \in [Models -> BOOLEAN]
        /\ \A n \in Models : ids'[n] \subseteq ids[n]
    BY <2>a, FinishTyped
  <2>1. TypeOK'
    BY <1>13, <2>0 DEF awaitServing, crVars, keyVars, gwVars, TypeOK
  <2>2. OwnIDs'
    BY <1>13, <2>0 DEF awaitServing, keyVars, gwVars, OwnIDs
  <2>3. PolicyFirst' /\ LLMRouteGuarded' /\ RouteStaysGone'
    BY <1>13 DEF awaitServing, Finish, gwVars, TypeOK, PolicyFirst, LLMRouteGuarded,
                 RouteStaysGone, Models
  <2> QED BY <2>1, <2>2, <2>3 DEF EndpointInv
<1> QED
  BY <1>1, <1>2, <1>3, <1>4, <1>5, <1>6, <1>7, <1>8, <1>9, <1>10, <1>11, <1>12, <1>13 DEF Controller

\* Every step keeps the invariant.
LEMMA EndpointStep == EndpointInv /\ [Next]_vars => EndpointInv'
<1> SUFFICES ASSUME EndpointInv, [Next]_vars PROVE EndpointInv'
  OBVIOUS
<1>1. CASE InstallCRDs
  BY <1>1 DEF InstallCRDs, EndpointInv, TypeOK, OwnIDs, PolicyFirst, LLMRouteGuarded, RouteStaysGone,
              crVars, keyVars, gwVars, localVars
<1>2. CASE UNCHANGED vars
  BY <1>2 DEF vars, EndpointInv, TypeOK, OwnIDs, PolicyFirst, LLMRouteGuarded, RouteStaysGone,
              crVars, keyVars, gwVars, localVars
<1> QED
  BY <1>1, <1>2, EnvironmentKeeps, ControllerKeeps DEF Next

\* The inductive invariant holds in every reachable state.
LEMMA EndpointInvariant == Spec => []EndpointInv
BY EndpointInit, EndpointStep, PTL DEF Spec

\* However many models share the listener and however far the operator's cache
\* lags, a key is admitted only at the model whose Secret holds it.
THEOREM KeysAreScoped == Spec => []KeyScoped
<1>1. ASSUME EndpointInv PROVE KeyScoped
  <2> SUFFICES ASSUME NEW m \in Models, NEW k \in Keys, Admitted(m, k) PROVE k \in secret[m].ids
    BY DEF KeyScoped
  <2>1. k \in KeysOf[m]
    BY <1>1 DEF Admitted, EndpointInv, OwnIDs
  <2>2. PICK n \in Models : k \in secret[n].ids
    BY <1>1 DEF Admitted, EndpointInv, TypeOK, Policies
  <2>3. k \in KeysOf[n]
    BY <1>1, <2>2 DEF EndpointInv, OwnIDs
  <2> QED
    BY <2>1, <2>2, <2>3, EndpointAssumptions
<1> QED BY <1>1, EndpointInvariant, PTL

\* If the CRDs are there first, no LLMModel's route, nor the HTTPRoute made of
\* it, ever exists without its SecurityPolicy.
THEOREM ServedModelsAreGuarded == Spec => []LLMRouteGuarded
<1>1. EndpointInv => LLMRouteGuarded
  BY DEF EndpointInv
<1> QED BY <1>1, EndpointInvariant, PTL

\* Every Secret, policy, route and reconcile in progress keeps its type, and no
\* reconcile takes a Secret of the namespace that is not a model's into the pool.
THEOREM EndpointTypeCorrect == Spec => []TypeOK
<1>1. EndpointInv => TypeOK
  BY DEF EndpointInv
<1> QED BY <1>1, EndpointInvariant, PTL

\* Two steps take a policy away: the last call of removeEndpoint, and the
\* collector, which leaves what the living model controls.
LEMMA PolicyGoes ==
  ASSUME TypeOK, [Next]_vars, NEW m \in Models, policy[m].exists, ~policy'[m].exists
  PROVE  deletePolicy(m) \/ CollectPolicy(m)
<1>1. policy \in [Models -> Policies] /\ policy' # policy
  BY DEF TypeOK
<1>2. PICK n \in Models :
        \/ reconcileSecurityPolicies(n) \/ applyPolicy(n)
        \/ deletePolicy(n) \/ CollectPolicy(n)
  BY <1>1, ZenonT(60) DEF Next, Controller, Environment, Cluster, CallFails, InstallCRDs, CreateModel,
       DeleteModel, EditEndpoint, MintKey, RevokeKey, DeploymentChanges, SyncCache,
       GenerateHTTPRoute, RouteTerminates, CollectRoute, Reconcile, apiKeyClientIDs,
       apiKeySecretNamesWith, createOrUpdateSecret, awaitServing, reconcileRoutingResources,
       applyRoute, removeEndpoint, getRoute, deleteRoute, getHTTPRoute, getPolicy, deleteSecret,
       removeFinalizer, vars, gwVars
<1>3. CASE reconcileSecurityPolicies(n) \/ applyPolicy(n)
  <2>1. policy' = [policy EXCEPT ![n] = Rendered(n)]
    BY <1>1, <1>3 DEF reconcileSecurityPolicies, applyPolicy
  <2>2. Rendered(n).exists
    BY DEF Rendered
  <2> HIDE DEF Rendered
  <2> QED BY <1>1, <2>1, <2>2
<1>4. CASE deletePolicy(n)
  <2>1. policy' = [policy EXCEPT ![n] = NoPolicy]
    BY <1>4 DEF deletePolicy
  <2>2. n = m
    BY <1>1, <2>1
  <2> QED BY <1>4, <2>2
<1>5. CASE CollectPolicy(n)
  <2>1. n = m
    BY <1>1, <1>5 DEF CollectPolicy
  <2> QED BY <1>5, <2>1
<1> QED BY <1>2, <1>3, <1>4, <1>5

\* However the spec is edited while an endpoint is taken down, whichever calls of
\* the removal fail and whatever comes between them, the policy of a living model
\* outlasts both its HTTPRoute and the object that is generated from.
THEOREM RemovalIsGuarded == Spec => RemovalKeepsAuth
<1>1. ASSUME EndpointInv, [Next]_vars, NEW m \in PassthroughModels,
             policy[m].exists, ~policy'[m].exists, object[m] = "live", policy[m].owner = uid[m]
      PROVE  ~httpRoute'[m] /\ ~route'[m].exists
  <2>1. ~CollectPolicy(m)
    BY <1>1 DEF CollectPolicy, Collectable
  <2>2. m \in Models
    BY DEF Models
  <2>3. deletePolicy(m)
    BY <1>1, <2>1, <2>2, PolicyGoes DEF EndpointInv
  <2> QED BY <1>1, <2>2, <2>3 DEF EndpointInv, RouteStaysGone, deletePolicy
<1>2. EndpointInv /\ [Next]_vars =>
        [\A m \in PassthroughModels :
           policy[m].exists /\ ~policy'[m].exists /\ object[m] = "live" /\ policy[m].owner = uid[m]
             => ~httpRoute'[m] /\ ~route'[m].exists]_vars
  BY <1>1
<1> QED BY <1>2, EndpointInvariant, PTL DEF Spec, RemovalKeepsAuth
=============================================================================
