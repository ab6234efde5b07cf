--------------------------- MODULE KeyStoreProofs ---------------------------
(* Proofs about KeyStore, for any number of workers, users and client IDs  *)
(* and any value of the bounds.                                            *)
EXTENDS KeyStore, TLAPS

(***************************************************************************)
(* Type correctness.                                                       *)
(***************************************************************************)
\* The two objects keep their type when written or deleted.
LEMMA WrittenType ==
  /\ \A s \in Secrets, d \in [ClientIDs -> Nat] :
       Written(s, d) \in Secrets /\ Written(s, d).data = d /\ Written(s, d).rv = s.rv + 1
  /\ \A m \in ConfigMaps, d \in [ClientIDs -> KeyInfo] : Written(m, d) \in ConfigMaps
  /\ \A s \in Secrets : Deleted(s, NoKeys) \in Secrets
                        /\ Deleted(s, NoKeys).data = NoKeys /\ Deleted(s, NoKeys).rv = s.rv + 1
  /\ \A m \in ConfigMaps : Deleted(m, NoEntries) \in ConfigMaps
  /\ Absent(NoKeys) \in Secrets /\ Absent(NoEntries) \in ConfigMaps
BY DEF Written, Deleted, Absent, Secrets, ConfigMaps, NoKeys, NoEntries, NoEntry, KeyInfo, NoKey

\* The part of TypeOK that the state of the workers makes up.
WorkersTyped ==
  /\ pc \in [Workers -> {"idle", "getSecret", "getConfigMap", "putSecret", "putConfigMap"}]
  /\ call \in [Workers -> Calls]
  /\ tries \in [Workers -> 0 .. MaxRetries - 1]
  /\ sSnap \in [Workers -> Secrets]
  /\ cSnap \in [Workers -> ConfigMaps]
  /\ outcome \in [Workers -> Outcomes]

\* A call is as it is written, and well typed if its parts are.
LEMMA CallType ==
  ASSUME now \in Nat
  PROVE  \A op \in {"create", "revoke"}, u \in Users \cup {NoUser}, id \in ClientIDs \cup {NoID} :
           /\ Call(op, u, id) \in Calls
           /\ Call(op, u, id).op = op /\ Call(op, u, id).user = u /\ Call(op, u, id).id = id
BY DEF Calls, Call, NoKey

LEMMA NoCallType == NoCall \in Calls
BY DEF Calls, NoCall, NoKey

\* CreateKey's write to the Secret puts a new credential in a fresh place, and the
\* call goes on with it.
LEMMA MintWrites ==
  ASSUME TypeOK, NEW w \in Workers, putNewKey(w)
  PROVE  \E id \in ClientIDs :
           /\ FreshID(w, id)
           /\ minted' = minted + 1
           /\ secret' = Written(secret, [sSnap[w].data EXCEPT ![id] = minted + 1])
           /\ call' \in [Workers -> Calls]
           /\ call'[w].op = "create" /\ call'[w].user = call[w].user
           /\ call'[w].id = id /\ call'[w].key = minted + 1
           /\ call'[w].since = call[w].since
           /\ \A v \in Workers \ {w} : call'[v] = call[v]
<1>1. PICK id \in ClientIDs :
        /\ FreshID(w, id)
        /\ minted' = minted + 1
        /\ secret' = Written(secret, [sSnap[w].data EXCEPT ![id] = minted + 1])
        /\ call' = [call EXCEPT ![w].id = id, ![w].key = minted + 1]
  BY DEF putNewKey
<1>2. call \in [Workers -> Calls] /\ minted + 1 \in Nat
  BY DEF TypeOK
<1>3. PICK user \in Users \cup {NoUser}, i \in ClientIDs \cup {NoID}, key \in Nat, since \in Nat :
        call[w] = [op |-> "create", user |-> user, id |-> i, key |-> key, since |-> since]
  <2>1. call[w] \in Calls /\ call[w].op = "create"
    BY <1>2 DEF putNewKey
  <2> QED BY <2>1 DEF Calls
<1> DEFINE c == [op |-> "create", user |-> user, id |-> id, key |-> minted + 1, since |-> since]
<1>4. call' = [call EXCEPT ![w] = c]
  <2> DEFINE c1    == [op |-> "create", user |-> user, id |-> id, key |-> key, since |-> since]
             call1 == [call EXCEPT ![w].id = id]
  <2>1. call1 = [call EXCEPT ![w] = c1]
    <3>1. [call[w] EXCEPT !.id = id] = c1
      BY <1>3
    <3>2. call1 = [call EXCEPT ![w] = [call[w] EXCEPT !.id = id]]
      OBVIOUS
    <3> HIDE DEF c1, call1
    <3> QED BY <3>1, <3>2
  <2>2. call1[w] = c1
    BY <1>2, <2>1
  <2>3. [c1 EXCEPT !.key = minted + 1] = c
    OBVIOUS
  <2>4. call' = [call1 EXCEPT ![w].key = minted + 1]
    BY <1>1
  <2> HIDE DEF c, c1, call1
  <2>5. call' = [call1 EXCEPT ![w] = c]
    BY <2>2, <2>3, <2>4
  <2> QED BY <1>2, <2>1, <2>5
<1>5. c \in Calls
  BY <1>2 DEF Calls
<1>6. c.op = "create" /\ c.user = call[w].user /\ c.id = id /\ c.key = minted + 1
      /\ c.since = call[w].since
  BY <1>3
<1> HIDE DEF c
<1>7. call' \in [Workers -> Calls] /\ call'[w] = c /\ \A v \in Workers \ {w} : call'[v] = call[v]
  BY <1>2, <1>4, <1>5
<1> QED BY <1>1, <1>6, <1>7

\* Returning from a call keeps the workers' state well typed and formed.
LEMMA ReturnTyped ==
  ASSUME WorkersTyped, CallsFormed, NEW w \in Workers, NEW r \in Outcomes, Return(w, r)
  PROVE  WorkersTyped' /\ CallsFormed'
<1>1. WorkersTyped'
  BY WrittenType, NoCallType, KeyStoreAssumptions DEF WorkersTyped, Return
<1>2. CallsFormed'
  BY DEF WorkersTyped, Return, CallsFormed
<1> QED BY <1>1, <1>2

\* At first nothing exists and no call is under way.
LEMMA TypeInit == Init => TypeOK /\ CallsFormed
BY WrittenType, NoCallType, KeyStoreAssumptions DEF Init, TypeOK, CallsFormed, Outcomes

\* A step that starts a call keeps the types.
LEMMA TypeBegin ==
  ASSUME TypeOK, CallsFormed, NEW w \in Workers, NEW what \in Calls, Begin(w, what),
         what.op = "create" => what.user \in Users,
         what.op = "revoke" => what.id \in ClientIDs
  PROVE  TypeOK' /\ CallsFormed'
<1>1. TypeOK'
  BY KeyStoreAssumptions DEF TypeOK, Begin, storeVars, opVars, Outcomes
<1>2. CallsFormed'
  BY DEF TypeOK, Begin, CallsFormed
<1> QED BY <1>1, <1>2

\* Every step of a worker keeps TypeOK and CallsFormed.
LEMMA TypeWorker ==
  ASSUME TypeOK, CallsFormed, NEW w \in Workers, KeyManager(w)
  PROVE  TypeOK' /\ CallsFormed'
<1> USE KeyStoreAssumptions
<1>t. WorkersTyped
  BY DEF TypeOK, WorkersTyped
<1>r. ASSUME NEW r \in Outcomes, Return(w, r) PROVE WorkersTyped' /\ CallsFormed'
  BY <1>r, <1>t, ReturnTyped
<1>o. {"none", "ok", "notFound", "conflict", "tooManyConflicts", "error"} = Outcomes
  BY DEF Outcomes
<1>1. ASSUME NEW user \in Users, CreateKey(w, user) PROVE TypeOK' /\ CallsFormed'
  BY <1>1, TypeBegin, CallType DEF CreateKey, TypeOK
<1>2. ASSUME NEW user \in Users, NEW id \in ClientIDs, DeleteKey(w, user, id)
      PROVE  TypeOK' /\ CallsFormed'
  BY <1>2, TypeBegin, CallType, SMTT(30) DEF DeleteKey, TypeOK
<1>3. ASSUME NEW id \in ClientIDs, AuditRevoke(w, id) PROVE TypeOK' /\ CallsFormed'
  <2>1. /\ Call("revoke", NoUser, id) \in Calls
        /\ Call("revoke", NoUser, id).op = "revoke"
        /\ Call("revoke", NoUser, id).id = id
    <3>1. now \in Nat /\ NoUser \in Users \cup {NoUser} /\ id \in ClientIDs \cup {NoID}
      BY DEF TypeOK
    <3> QED BY <3>1 DEF Call, Calls, NoKey
  <2> QED BY <1>3, <2>1, TypeBegin DEF AuditRevoke
<1>4. CASE getSecret(w)
  <2>1. CASE secret.exists
    BY <1>4, <2>1 DEF getSecret, TypeOK, CallsFormed, storeVars, opVars, bounds
  <2>2. CASE ~secret.exists
    BY <1>4, <1>r, <1>o, <2>2 DEF getSecret, TypeOK, WorkersTyped, storeVars, opVars, bounds
  <2> QED BY <2>1, <2>2
<1>5. CASE getConfigMap(w)
  <2>1. CASE \E r \in Outcomes : Return(w, r)
    BY <1>5, <1>r, <2>1 DEF getConfigMap, TypeOK, WorkersTyped, storeVars, opVars, bounds
  <2>2. CASE ~\E r \in Outcomes : Return(w, r)
    <3>1. /\ cSnap' = [cSnap EXCEPT ![w] = cm]
          /\ pc' = [pc EXCEPT ![w] = "putSecret"]
          /\ UNCHANGED <<call, tries, sSnap, outcome>>
          /\ ~(call[w].op = "revoke" /\ sSnap[w].data[call[w].id] = NoKey)
      BY <1>5, <1>o, <2>2 DEF getConfigMap
    <3>2. TypeOK'
      BY <1>5, <3>1 DEF getConfigMap, TypeOK, storeVars, opVars, bounds
    <3>3. CallsFormed'
      BY <1>5, <3>1 DEF getConfigMap, TypeOK, CallsFormed
    <3> QED BY <3>2, <3>3
  <2> QED BY <2>1, <2>2
<1>6. CASE putNewKey(w)
  <2>1. PICK id \in ClientIDs :
          /\ minted' = minted + 1
          /\ secret' = Written(secret, [sSnap[w].data EXCEPT ![id] = minted + 1])
          /\ call' \in [Workers -> Calls]
          /\ call'[w].op = "create" /\ call'[w].user = call[w].user /\ call'[w].id = id
          /\ \A v \in Workers \ {w} : call'[v] = call[v]
    BY <1>6, MintWrites
  <2>2. [sSnap[w].data EXCEPT ![id] = minted + 1] \in [ClientIDs -> Nat]
    BY DEF TypeOK, Secrets
  <2>3. secret' \in Secrets
    BY <2>1, <2>2, WrittenType DEF TypeOK
  <2>4. TypeOK'
    BY <1>6, <2>1, <2>3 DEF putNewKey, TypeOK, opVars, bounds
  <2>5. CallsFormed'
    BY <1>6, <2>1 DEF putNewKey, TypeOK, CallsFormed
  <2> QED BY <2>4, <2>5
<1>7. CASE putNewInfo(w)
  <2>1. call[w].id \in ClientIDs /\ call[w].user \in Users /\ call[w].key \in Nat
    BY <1>7 DEF putNewInfo, CallsFormed, TypeOK, Calls
  <2>2. [cSnap[w].data EXCEPT ![call[w].id] = Entry(call[w].user, 0)] \in [ClientIDs -> KeyInfo]
    BY <2>1 DEF TypeOK, ConfigMaps, KeyInfo, Entry
  <2>3. cm' \in ConfigMaps
    BY <1>7, <2>2, WrittenType DEF putNewInfo, TypeOK
  <2> QED
    BY <1>7, <1>r, <1>o, <2>1, <2>3 DEF putNewInfo, TypeOK, WorkersTyped, opVars, bounds
<1>8. CASE dropKey(w)
  <2>1. call[w].id \in ClientIDs /\ sSnap[w].data \in [ClientIDs -> Nat]
    BY <1>8 DEF dropKey, CallsFormed, TypeOK, Secrets
  <2>2. secret' \in Secrets
    BY <1>8, <2>1, WrittenType DEF dropKey, TypeOK, NoKey
  <2>3. removed' \in SUBSET Removals
    BY <1>8, <2>1 DEF dropKey, TypeOK, Removals
  <2>4. TypeOK'
    BY <1>8, <2>2, <2>3 DEF dropKey, TypeOK, opVars, bounds
  <2>5. CallsFormed'
    BY <1>8, <2>1 DEF dropKey, TypeOK, CallsFormed
  <2> QED BY <2>4, <2>5
<1>9. CASE putTombstone(w)
  <2>1. \A i \in ClientIDs : cSnap[w].data[i] \in KeyInfo /\ Entry(cSnap[w].data[i].creator, now) \in KeyInfo
    BY DEF TypeOK, ConfigMaps, KeyInfo, Entry
  <2>2. NoEntry \in KeyInfo
    BY DEF NoEntry, KeyInfo
  <2>3. cm' \in ConfigMaps
    BY <1>9, <2>1, <2>2, WrittenType DEF putTombstone, TypeOK
  <2> QED
    BY <1>9, <1>r, <1>o, <2>3 DEF putTombstone, TypeOK, WorkersTyped, opVars, bounds
<1>10. CASE Conflict(w)
  <2>1. CASE \E r \in Outcomes : Return(w, r)
    BY <1>10, <1>r, <2>1 DEF Conflict, TypeOK, WorkersTyped, storeVars, opVars, bounds
  <2>2. CASE ~\E r \in Outcomes : Return(w, r)
    BY <1>10, <1>o, <2>2 DEF Conflict, TypeOK, CallsFormed, storeVars, opVars, bounds
  <2> QED BY <2>1, <2>2
<1>11. CASE Gone(w)
  BY <1>11, <1>r, <1>o DEF Gone, TypeOK, WorkersTyped, storeVars, opVars, bounds
<1>12. CASE Fail(w)
  BY <1>12, <1>r, <1>o DEF Fail, TypeOK, WorkersTyped, storeVars, opVars, bounds
<1> QED
  BY <1>1, <1>2, <1>3, <1>4, <1>5, <1>6, <1>7, <1>8, <1>9, <1>10, <1>11, <1>12 DEF KeyManager

\* Every step of the operator, and of the clock, keeps them too.
LEMMA TypeOperator ==
  ASSUME TypeOK, CallsFormed, Operator \/ Tick \/ UNCHANGED vars
  PROVE  TypeOK' /\ CallsFormed'
<1>c. ASSUME UNCHANGED workerVars PROVE CallsFormed'
  BY <1>c DEF CallsFormed, workerVars
<1>1. CASE SyncSecretCache
  BY <1>1, <1>c DEF SyncSecretCache, TypeOK, storeVars, workerVars, bounds
<1>2. CASE SyncConfigMapCache
  BY <1>2, <1>c DEF SyncConfigMapCache, TypeOK, storeVars, workerVars, bounds
<1>3. CASE createOrUpdateSecret
  <2>1. secret' \in Secrets
    <3>1. NoKeys \in [ClientIDs -> Nat] /\ sCache.data \in [ClientIDs -> Nat]
      BY DEF TypeOK, Secrets, NoKeys, NoKey
    <3> QED BY <1>3, <3>1, WrittenType DEF createOrUpdateSecret, TypeOK
  <2> QED BY <1>3, <1>c, <2>1 DEF createOrUpdateSecret, TypeOK, workerVars
<1>4. CASE createOrUpdateConfigMapPreserveData
  <2>1. cm' \in ConfigMaps
    <3>1. NoEntries \in [ClientIDs -> KeyInfo] /\ cCache.data \in [ClientIDs -> KeyInfo]
      BY DEF TypeOK, ConfigMaps, NoEntries, NoEntry, KeyInfo
    <3> QED BY <1>4, <3>1, WrittenType DEF createOrUpdateConfigMapPreserveData, TypeOK
  <2> QED BY <1>4, <1>c, <2>1 DEF createOrUpdateConfigMapPreserveData, TypeOK, workerVars
<1>5. CASE DeleteModel
  BY <1>5, <1>c DEF DeleteModel, TypeOK, storeVars, workerVars
<1>6. CASE deleteSecret
  <2>1. secret' \in Secrets
    BY <1>6, WrittenType DEF deleteSecret, TypeOK
  <2>2. removed' \in SUBSET Removals
    BY <1>6 DEF deleteSecret, TypeOK, Removals, Secrets
  <2> QED BY <1>6, <1>c, <2>1, <2>2 DEF deleteSecret, TypeOK, workerVars, bounds
<1>7. CASE deleteConfigMap
  <2>1. cm' \in ConfigMaps
    BY <1>7, WrittenType DEF deleteConfigMap, TypeOK
  <2> QED BY <1>7, <1>c, <2>1 DEF deleteConfigMap, TypeOK, workerVars, bounds
<1>8. CASE removeFinalizer
  BY <1>8, <1>c DEF removeFinalizer, TypeOK, storeVars, workerVars, bounds
<1>9. CASE CreateModel
  BY <1>9, <1>c DEF CreateModel, TypeOK, storeVars, workerVars, bounds
<1>10. CASE Tick
  BY <1>10, <1>c DEF Tick, TypeOK, storeVars, workerVars, opVars, bounds
<1>11. CASE UNCHANGED vars
  BY <1>11, <1>c DEF vars, TypeOK, storeVars, workerVars, opVars, bounds
<1> QED
  BY <1>1, <1>2, <1>3, <1>4, <1>5, <1>6, <1>7, <1>8, <1>9, <1>10, <1>11 DEF Operator

\* Every step keeps TypeOK and CallsFormed.
LEMMA TypeStep == TypeOK /\ CallsFormed /\ [Next]_vars => TypeOK' /\ CallsFormed'
BY TypeWorker, TypeOperator DEF Next

\* The objects in the API server, the workers' copies and the operator's caches
\* keep their shape in every execution.
THEOREM TypeCorrect == Spec => []TypeOK
<1>1. Spec => [](TypeOK /\ CallsFormed)
  BY TypeInit, TypeStep, PTL DEF Spec
<1> QED BY <1>1, PTL

(***************************************************************************)
(* The Secret.  Five conjuncts of SecretInv speak about the Secret and its *)
(* copies; they are kept together as KeysInv.                              *)
(***************************************************************************)
KeysInv ==
  /\ VersionsIdentify
  /\ KeysUnique
  /\ PendingKeyIntact
  /\ GrantedKeyIntact
  /\ RemovedStaysRemoved

\* At first there is no credential, and every copy is of the absent Secret.
LEMMA KeysInit == Init => KeysInv
BY DEF Init, KeysInv, VersionsIdentify, CopyOf, Absent, KeysUnique, NoKeys, NoKey,
       PendingKeyIntact, GrantedKeyIntact, RemovedStaysRemoved, RemovedKeys

\* A step that leaves the Secret and the removals alone, moves no worker to
\* its second write, and grants only what is in the Secret or was removed
\* from it, keeps KeysInv: the copies it takes are up to date.
LEMMA KeysQuiet ==
  ASSUME TypeOK, KeysInv,
         UNCHANGED <<secret, minted, removed>>,
         \A g \in grants' : \/ g \in grants
                             \/ /\ g.key # NoKey
                                /\ secret.data[g.id] = g.key \/ g.key \in RemovedKeys,
         \A w \in Workers : sSnap'[w] \in {sSnap[w], secret, Absent(NoKeys)},
         sCache' \in {sCache, secret},
         \A w \in Workers : pc'[w] = "putConfigMap" => pc[w] = "putConfigMap" /\ call'[w] = call[w]
  PROVE  KeysInv'
<1>1. VersionsIdentify'
  <2>1. CopyOf(secret)' /\ CopyOf(Absent(NoKeys))' /\ CopyOf(sCache)
    BY DEF TypeOK, Secrets, CopyOf, Absent, KeysInv, VersionsIdentify
  <2>2. CopyOf(sCache)'
    BY <2>1 DEF CopyOf
  <2>3. ASSUME NEW w \in Workers PROVE CopyOf(sSnap[w])'
    <3>1. CopyOf(sSnap[w])
      BY DEF KeysInv, VersionsIdentify
    <3> QED BY <2>1, <3>1 DEF CopyOf
  <2> QED BY <2>2, <2>3 DEF KeysInv, VersionsIdentify
<1>2. KeysUnique' /\ GrantedKeyIntact' /\ RemovedStaysRemoved'
  BY DEF KeysInv, KeysUnique, GrantedKeyIntact, RemovedStaysRemoved, RemovedKeys
<1>3. PendingKeyIntact'
  BY DEF KeysInv, PendingKeyIntact, RemovedKeys
<1> QED BY <1>1, <1>2, <1>3 DEF KeysInv

\* A write gives the Secret a version that no copy has.
LEMMA VersionsWritten ==
  ASSUME TypeOK, VersionsIdentify, secret' \in Secrets, secret'.rv = secret.rv + 1,
         UNCHANGED <<sSnap, sCache>>
  PROVE  VersionsIdentify'
BY DEF TypeOK, Secrets, VersionsIdentify, CopyOf

\* A write that puts back the data the Secret already has changes nothing else.
LEMMA KeysRelabel ==
  ASSUME TypeOK, KeysInv, TypeOK', secret'.rv = secret.rv + 1, secret'.data = secret.data,
         secret'.exists, UNCHANGED <<sSnap, sCache, pc, call, minted, grants, removed>>
  PROVE  KeysInv'
<1>1. VersionsIdentify'
  BY VersionsWritten DEF TypeOK, KeysInv
<1>2. KeysUnique' /\ GrantedKeyIntact' /\ RemovedStaysRemoved' /\ PendingKeyIntact'
  BY DEF KeysInv, KeysUnique, GrantedKeyIntact, RemovedStaysRemoved, PendingKeyIntact, RemovedKeys
<1> QED BY <1>1, <1>2 DEF KeysInv

\* CreateKey's write to the Secret: the credential is new, its place was free.
LEMMA KeysMint ==
  ASSUME TypeOK, CallsFormed, KeysInv, TypeOK', NEW w \in Workers, putNewKey(w)
  PROVE  /\ KeysInv'
         /\ \E id \in ClientIDs : /\ secret.data[id] = NoKey
                                  /\ secret'.data = [secret.data EXCEPT ![id] = minted + 1]
<1>1. PICK id \in ClientIDs :
        /\ FreshID(w, id)
        /\ minted' = minted + 1
        /\ secret' = Written(secret, [sSnap[w].data EXCEPT ![id] = minted + 1])
        /\ call'[w].id = id /\ call'[w].key = minted + 1
        /\ \A v \in Workers \ {w} : call'[v] = call[v]
  BY MintWrites
<1>2. sSnap[w].data = secret.data /\ secret.data \in [ClientIDs -> Nat] /\ minted \in Nat
  BY DEF putNewKey, UpToDate, KeysInv, VersionsIdentify, CopyOf, TypeOK, Secrets
<1>3. secret.data[id] = NoKey
  BY <1>1, <1>2 DEF FreshID
<1>4. /\ secret'.data = [secret.data EXCEPT ![id] = minted + 1]
      /\ secret'.rv = secret.rv + 1
      /\ secret'.exists
  BY <1>1, <1>2 DEF Written
<1>5. /\ pc' = [pc EXCEPT ![w] = "putConfigMap"]
      /\ UNCHANGED <<sSnap, sCache, grants, removed>>
  BY DEF putNewKey, opVars
<1>6. VersionsIdentify'
  BY <1>4, <1>5, VersionsWritten DEF TypeOK, KeysInv
<1>a. \A i \in ClientIDs : secret'.data[i] = IF i = id THEN minted + 1 ELSE secret.data[i]
  BY <1>2, <1>4
<1>b. RemovedKeys' = RemovedKeys /\ RemovedKeys \in SUBSET Nat
  BY <1>5 DEF RemovedKeys, TypeOK, Removals
<1>c. \A i \in ClientIDs : secret.data[i] \in Nat
  BY <1>2
<1>d. KeysUnique
  BY DEF KeysInv
<1>7. KeysUnique'
  <2>1. \A i \in ClientIDs : secret.data[i] <= minted
    BY <1>d DEF KeysUnique
  <2>2. \A i \in ClientIDs : secret'.data[i] <= minted'
    BY <1>1, <1>2, <1>a, <1>c, <2>1
  <2>3. \A k \in RemovedKeys' : k # NoKey /\ k <= minted'
    BY <1>1, <1>2, <1>b, <1>d DEF KeysUnique
  <2>4. \A i, j \in ClientIDs : secret'.data[i] = secret'.data[j] /\ secret'.data[i] # NoKey => i = j
    BY <1>2, <1>a, <1>c, <1>d, <2>1 DEF KeysUnique
  <2> QED BY <1>4, <1>5, <1>d, <2>2, <2>3, <2>4 DEF KeysUnique
<1>8. RemovedStaysRemoved'
  BY <1>2, <1>a, <1>b, <1>d DEF KeysInv, RemovedStaysRemoved, KeysUnique
<1>9. GrantedKeyIntact'
  <2>1. \A g \in grants : g.id \in ClientIDs /\ g.key # NoKey
    BY <1>d DEF KeysUnique, TypeOK
  <2> QED BY <1>3, <1>5, <1>a, <1>b, <2>1 DEF KeysInv, GrantedKeyIntact
<1>10. PendingKeyIntact'
  <2> SUFFICES ASSUME NEW v \in Workers, pc'[v] = "putConfigMap", call'[v].op = "create"
               PROVE  /\ call'[v].key # NoKey
                      /\ secret'.data[call'[v].id] = call'[v].key \/ call'[v].key \in RemovedKeys'
    BY DEF PendingKeyIntact
  <2>1. CASE v = w
    BY <1>1, <1>2, <1>a, <2>1 DEF NoKey
  <2>2. CASE v # w
    <3>1. call'[v] = call[v] /\ pc'[v] = pc[v]
      BY <1>1, <1>5, <2>2 DEF TypeOK
    <3>2. call[v].id \in ClientIDs /\ pc[v] = "putConfigMap" /\ call[v].op = "create"
      BY <3>1 DEF CallsFormed
    <3>3. call[v].key # NoKey /\ (secret.data[call[v].id] = call[v].key \/ call[v].key \in RemovedKeys)
      BY <3>2 DEF KeysInv, PendingKeyIntact
    <3> QED BY <1>3, <1>a, <1>b, <3>1, <3>2, <3>3
  <2> QED BY <2>1, <2>2
<1> QED BY <1>3, <1>4, <1>6, <1>7, <1>8, <1>9, <1>10 DEF KeysInv

\* Recording the removal of what some client IDs hold adds just that.
LEMMA RemovedKeysGrow ==
  ASSUME NEW Out, NEW data, removed' = removed \cup {[key |-> data[i], at |-> now] : i \in Out}
  PROVE  RemovedKeys' = RemovedKeys \cup {data[i] : i \in Out}
<1>1. ASSUME NEW k \in RemovedKeys' PROVE k \in RemovedKeys \cup {data[i] : i \in Out}
  <2>1. PICK r \in removed' : k = r.key
    BY <1>1 DEF RemovedKeys
  <2>2. CASE r \in removed
    BY <2>1, <2>2 DEF RemovedKeys
  <2>3. CASE r \in {[key |-> data[i], at |-> now] : i \in Out}
    <3>1. PICK i \in Out : r = [key |-> data[i], at |-> now]
      BY <2>3
    <3> QED BY <2>1, <3>1
  <2> QED BY <2>2, <2>3
<1>2. ASSUME NEW k \in RemovedKeys PROVE k \in RemovedKeys'
  BY <1>2 DEF RemovedKeys
<1>3. ASSUME NEW i \in Out PROVE data[i] \in RemovedKeys'
  <2>1. [key |-> data[i], at |-> now] \in removed'
    OBVIOUS
  <2>2. [key |-> data[i], at |-> now].key = data[i]
    OBVIOUS
  <2> QED BY <2>1, <2>2 DEF RemovedKeys
<1> QED BY <1>1, <1>2, <1>3

\* Taking credentials out of the Secret, and into the history of removals.
LEMMA KeysRemove ==
  ASSUME TypeOK, CallsFormed, KeysInv, TypeOK',
         secret'.rv = secret.rv + 1,
         NEW Out \in SUBSET ClientIDs,
         \A i \in ClientIDs : secret'.data[i] = IF i \in Out THEN NoKey ELSE secret.data[i],
         ~secret'.exists => secret'.data = NoKeys,
         \A i \in Out : secret.data[i] # NoKey,
         RemovedKeys' = RemovedKeys \cup {secret.data[i] : i \in Out},
         \A w \in Workers : pc'[w] = "putConfigMap" /\ call[w].op = "create" => pc[w] = "putConfigMap",
         UNCHANGED <<sSnap, sCache, call, minted, grants>>
  PROVE  KeysInv'
<1>1. VersionsIdentify'
  BY VersionsWritten DEF TypeOK, KeysInv
<1>2. KeysUnique
  BY DEF KeysInv
<1>c. \A i \in ClientIDs : secret.data[i] \in Nat
  BY DEF TypeOK, Secrets
<1>3. KeysUnique'
  <2>1. \A i \in ClientIDs : secret'.data[i] <= minted'
    BY <1>2, <1>c DEF KeysUnique, TypeOK, NoKey
  <2>2. \A k \in RemovedKeys' : k # NoKey /\ k <= minted'
    BY <1>2 DEF KeysUnique
  <2> QED BY <1>2, <2>1, <2>2 DEF KeysUnique
<1>4. RemovedStaysRemoved'
  <2> SUFFICES ASSUME NEW id \in ClientIDs, secret'.data[id] \in RemovedKeys'
               PROVE  FALSE
    BY DEF RemovedStaysRemoved
  <2>1. CASE id \in Out
    <3>1. NoKey \in RemovedKeys
      BY <2>1
    <3> QED BY <3>1, <1>2 DEF KeysUnique
  <2>2. CASE id \notin Out
    <3>1. secret.data[id] \notin RemovedKeys
      BY DEF KeysInv, RemovedStaysRemoved
    <3>2. PICK j \in Out : secret.data[id] = secret.data[j]
      BY <2>2, <3>1
    <3> QED BY <1>2, <2>2, <3>2 DEF KeysUnique
  <2> QED BY <2>1, <2>2
<1>5. GrantedKeyIntact'
  <2>1. \A g \in grants : g.id \in ClientIDs
    BY DEF TypeOK
  <2> QED BY <2>1 DEF KeysInv, GrantedKeyIntact
<1>6. PendingKeyIntact'
  <2> SUFFICES ASSUME NEW v \in Workers, pc'[v] = "putConfigMap", call'[v].op = "create"
               PROVE  /\ call'[v].key # NoKey
                      /\ secret'.data[call'[v].id] = call'[v].key \/ call'[v].key \in RemovedKeys'
    BY DEF PendingKeyIntact
  <2>1. pc[v] = "putConfigMap" /\ call[v].id \in ClientIDs
    BY DEF CallsFormed
  <2>2. call[v].key # NoKey /\ (secret.data[call[v].id] = call[v].key \/ call[v].key \in RemovedKeys)
    BY <2>1 DEF KeysInv, PendingKeyIntact
  <2> QED BY <2>1, <2>2
<1> QED BY <1>1, <1>3, <1>4, <1>5, <1>6 DEF KeysInv

\* RevokeKey's write to the Secret takes out the credential it has seen there.
LEMMA DropKeyWrites ==
  ASSUME TypeOK, CallsFormed, KeysInv, NEW w \in Workers, dropKey(w)
  PROVE  /\ call[w].id \in ClientIDs /\ secret.data[call[w].id] # NoKey
         /\ secret'.rv = secret.rv + 1 /\ secret'.exists
         /\ secret'.data = [secret.data EXCEPT ![call[w].id] = NoKey]
         /\ \A i \in ClientIDs : secret'.data[i] = IF i \in {call[w].id} THEN NoKey ELSE secret.data[i]
         /\ RemovedKeys' = RemovedKeys \cup {secret.data[i] : i \in {call[w].id}}
<1>1. /\ call[w].id \in ClientIDs
      /\ sSnap[w].data = secret.data /\ secret.data \in [ClientIDs -> Nat]
      /\ secret.data[call[w].id] # NoKey
  BY DEF dropKey, CallsFormed, UpToDate, KeysInv, VersionsIdentify, CopyOf, TypeOK, Secrets
<1>2. /\ secret'.rv = secret.rv + 1 /\ secret'.exists
      /\ secret'.data = [secret.data EXCEPT ![call[w].id] = NoKey]
  BY <1>1 DEF dropKey, Written
<1>3. \A i \in ClientIDs : secret'.data[i] = IF i \in {call[w].id} THEN NoKey ELSE secret.data[i]
  BY <1>1, <1>2
<1>4. RemovedKeys' = RemovedKeys \cup {secret.data[i] : i \in {call[w].id}}
  <2> DEFINE Out == {call[w].id}
             data == secret.data
  <2>1. removed' = removed \cup {[key |-> data[i], at |-> now] : i \in Out}
    BY <1>1 DEF dropKey
  <2> HIDE DEF Out, data
  <2>2. RemovedKeys' = RemovedKeys \cup {data[i] : i \in Out}
    BY <2>1, RemovedKeysGrow
  <2> QED BY <2>2 DEF Out, data
<1> QED BY <1>1, <1>2, <1>3, <1>4

\* Deleting the Secret takes out everything it held.
LEMMA DeleteSecretWrites ==
  ASSUME deleteSecret, sCache.exists, secret.exists
  PROVE  /\ secret'.rv = secret.rv + 1 /\ secret'.data = NoKeys
         /\ RemovedKeys' = RemovedKeys \cup
              {secret.data[i] : i \in {j \in ClientIDs : secret.data[j] # NoKey}}
<1>1. secret'.rv = secret.rv + 1 /\ secret'.data = NoKeys
  BY DEF deleteSecret, Deleted
<1>2. removed' = removed \cup {[key |-> secret.data[i], at |-> now] :
                                 i \in {j \in ClientIDs : secret.data[j] # NoKey}}
  BY DEF deleteSecret
<1> DEFINE Out == {j \in ClientIDs : secret.data[j] # NoKey}
           data == secret.data
<1>3. removed' = removed \cup {[key |-> data[i], at |-> now] : i \in Out}
  BY <1>2
<1> HIDE DEF Out, data
<1>4. RemovedKeys' = RemovedKeys \cup {data[i] : i \in Out}
  BY <1>3, RemovedKeysGrow
<1> QED BY <1>1, <1>4 DEF Out, data

\* Every step of a worker keeps KeysInv.
LEMMA KeysWorker ==
  ASSUME TypeOK, CallsFormed, KeysInv, TypeOK', NEW w \in Workers, KeyManager(w)
  PROVE  KeysInv'
<1>r. ASSUME NEW r, Return(w, r)
      PROVE  /\ \A v \in Workers : sSnap'[v] \in {sSnap[v], secret, Absent(NoKeys)}
             /\ \A v \in Workers : pc'[v] = "putConfigMap" => pc[v] = "putConfigMap" /\ call'[v] = call[v]
  BY <1>r DEF Return, TypeOK
<1>b. ASSUME NEW what, Begin(w, what) PROVE KeysInv'
  BY <1>b, KeysQuiet DEF Begin, TypeOK, storeVars, opVars
<1>1. ASSUME NEW user \in Users, CreateKey(w, user) PROVE KeysInv'
  BY <1>1, <1>b DEF CreateKey
<1>2. ASSUME NEW user \in Users, NEW id \in ClientIDs, DeleteKey(w, user, id) PROVE KeysInv'
  BY <1>2, <1>b DEF DeleteKey
<1>3. ASSUME NEW id \in ClientIDs, AuditRevoke(w, id) PROVE KeysInv'
  BY <1>3, <1>b DEF AuditRevoke
<1>4. CASE getSecret(w)
  <2>1. CASE secret.exists
    BY <1>4, <2>1, KeysQuiet DEF getSecret, TypeOK, storeVars, opVars
  <2>2. CASE ~secret.exists
    BY <1>4, <2>2, <1>r, KeysQuiet DEF getSecret, storeVars, opVars
  <2> QED BY <2>1, <2>2
<1>5. CASE getConfigMap(w)
  <2>1. CASE \E r : Return(w, r)
    BY <1>5, <2>1, <1>r, KeysQuiet DEF getConfigMap, storeVars, opVars
  <2>2. CASE ~\E r : Return(w, r)
    BY <1>5, <2>2, KeysQuiet DEF getConfigMap, TypeOK, storeVars, opVars
  <2> QED BY <2>1, <2>2
<1>6. CASE putNewKey(w)
  BY <1>6, KeysMint
<1>7. CASE putNewInfo(w)
  <2>1. /\ call[w].key # NoKey
        /\ secret.data[call[w].id] = call[w].key \/ call[w].key \in RemovedKeys
    BY <1>7 DEF putNewInfo, KeysInv, PendingKeyIntact
  <2>2. \A g \in grants' : \/ g \in grants
                           \/ /\ g.key # NoKey
                              /\ secret.data[g.id] = g.key \/ g.key \in RemovedKeys
    BY <1>7, <2>1 DEF putNewInfo
  <2> QED BY <1>7, <1>r, <2>2, KeysQuiet DEF putNewInfo, opVars
<1>8. CASE dropKey(w)
  <2>1. /\ \A v \in Workers : pc'[v] = "putConfigMap" /\ call[v].op = "create" => pc[v] = "putConfigMap"
        /\ UNCHANGED <<sSnap, sCache, call, minted, grants>>
    BY <1>8 DEF dropKey, TypeOK, opVars
  <2>2. call[w].id \in ClientIDs /\ secret.data[call[w].id] # NoKey
    BY <1>8, DropKeyWrites
  <2>6. {call[w].id} \in SUBSET ClientIDs /\ \A i \in {call[w].id} : secret.data[i] # NoKey
    BY <2>2
  <2>3. secret'.rv = secret.rv + 1 /\ secret'.exists
    BY <1>8, DropKeyWrites
  <2>4. \A i \in ClientIDs : secret'.data[i] = IF i \in {call[w].id} THEN NoKey ELSE secret.data[i]
    BY <1>8, DropKeyWrites
  <2>5. RemovedKeys' = RemovedKeys \cup {secret.data[i] : i \in {call[w].id}}
    BY <1>8, DropKeyWrites
  <2> QED BY <2>1, <2>3, <2>4, <2>5, <2>6, KeysRemove
<1>9. CASE putTombstone(w)
  BY <1>9, <1>r, KeysQuiet DEF putTombstone, opVars
<1>10. CASE Conflict(w)
  <2>1. CASE \E r : Return(w, r)
    BY <1>10, <2>1, <1>r, KeysQuiet DEF Conflict, storeVars, opVars
  <2>2. CASE ~\E r : Return(w, r)
    BY <1>10, <2>2, KeysQuiet DEF Conflict, TypeOK, storeVars, opVars
  <2> QED BY <2>1, <2>2
<1>11. CASE Gone(w)
  BY <1>11, <1>r, KeysQuiet DEF Gone, storeVars, opVars
<1>12. CASE Fail(w)
  BY <1>12, <1>r, KeysQuiet DEF Fail, storeVars, opVars
<1> QED
  BY <1>1, <1>2, <1>3, <1>4, <1>5, <1>6, <1>7, <1>8, <1>9, <1>10, <1>11, <1>12 DEF KeyManager

\* Every step of the operator, and of the clock, keeps KeysInv.
LEMMA KeysOperator ==
  ASSUME TypeOK, CallsFormed, KeysInv, TypeOK', Operator \/ Tick \/ UNCHANGED vars
  PROVE  KeysInv'
<1>1. CASE SyncSecretCache
  BY <1>1, KeysQuiet DEF SyncSecretCache, TypeOK, storeVars, workerVars
<1>2. CASE SyncConfigMapCache
  BY <1>2, KeysQuiet DEF SyncConfigMapCache, TypeOK, storeVars, workerVars
<1>3. CASE createOrUpdateSecret
  <2>1. CASE ~sCache.exists /\ ~secret.exists /\ secret' = Written(secret, NoKeys)
    <3>1. secret.data = NoKeys
      BY <2>1 DEF KeysInv, KeysUnique
    <3> QED BY <1>3, <2>1, <3>1, KeysRelabel DEF createOrUpdateSecret, Written, workerVars
  <2>2. CASE UpToDate(secret, sCache) /\ secret' = Written(secret, sCache.data)
    <3>1. sCache.data = secret.data
      BY <2>2 DEF UpToDate, KeysInv, VersionsIdentify, CopyOf
    <3> QED BY <1>3, <2>2, <3>1, KeysRelabel DEF createOrUpdateSecret, Written, workerVars
  <2>3. CASE UNCHANGED secret
    BY <1>3, <2>3, KeysQuiet DEF createOrUpdateSecret, TypeOK, workerVars
  <2> QED BY <1>3, <2>1, <2>2, <2>3 DEF createOrUpdateSecret
<1>4. CASE createOrUpdateConfigMapPreserveData
  BY <1>4, KeysQuiet DEF createOrUpdateConfigMapPreserveData, workerVars
<1>5. CASE DeleteModel
  BY <1>5, KeysQuiet DEF DeleteModel, storeVars, workerVars
<1>6. CASE deleteSecret
  <2>1. CASE sCache.exists /\ secret.exists
    <3> DEFINE Out == {i \in ClientIDs : secret.data[i] # NoKey}
    <3>1. /\ secret'.rv = secret.rv + 1 /\ secret'.data = NoKeys
          /\ \A i \in ClientIDs : secret'.data[i] = IF i \in Out THEN NoKey ELSE secret.data[i]
          /\ RemovedKeys' = RemovedKeys \cup {secret.data[i] : i \in Out}
      BY <1>6, <2>1, DeleteSecretWrites DEF NoKeys
    <3>2. UNCHANGED <<sSnap, sCache, pc, call, minted, grants>>
      BY <1>6 DEF deleteSecret, workerVars
    <3>3. Out \in SUBSET ClientIDs /\ \A i \in Out : secret.data[i] # NoKey
      OBVIOUS
    <3> HIDE DEF Out
    <3> QED BY <3>1, <3>2, <3>3, KeysRemove
  <2>2. CASE UNCHANGED <<secret, removed>>
    BY <1>6, <2>2, KeysQuiet DEF deleteSecret, workerVars
  <2> QED BY <1>6, <2>1, <2>2 DEF deleteSecret
<1>7. CASE deleteConfigMap
  BY <1>7, KeysQuiet DEF deleteConfigMap, workerVars
<1>8. CASE removeFinalizer
  BY <1>8, KeysQuiet DEF removeFinalizer, storeVars, workerVars
<1>9. CASE CreateModel
  BY <1>9, KeysQuiet DEF CreateModel, storeVars, workerVars
<1>10. CASE Tick
  BY <1>10, KeysQuiet DEF Tick, storeVars, workerVars, opVars
<1>11. CASE UNCHANGED vars
  BY <1>11, KeysQuiet DEF vars, storeVars, workerVars, opVars
<1> QED
  BY <1>1, <1>2, <1>3, <1>4, <1>5, <1>6, <1>7, <1>8, <1>9, <1>10, <1>11 DEF Operator

\* Every step of the key manager, the operator and the clock keeps SecretInv.
LEMMA SecretInvStep == SecretInv /\ [Next]_vars => SecretInv'
<1> SUFFICES ASSUME SecretInv, [Next]_vars PROVE SecretInv'
  OBVIOUS
<1>1. TypeOK /\ CallsFormed /\ KeysInv
  BY DEF SecretInv, KeysInv
<1>2. TypeOK' /\ CallsFormed'
  BY <1>1, TypeStep
<1>3. KeysInv'
  BY <1>1, <1>2, KeysWorker, KeysOperator DEF Next
<1> QED BY <1>2, <1>3 DEF SecretInv, KeysInv

\* The inductive invariant holds in every reachable state.
LEMMA SecretInvariant == Spec => []SecretInv
<1>1. Init => SecretInv
  BY TypeInit, KeysInit DEF SecretInv, KeysInv
<1> QED BY <1>1, SecretInvStep, PTL DEF Spec

\* A credential CreateKey returned is not overwritten or dropped by any
\* interleaving of creates, revocations, label rewrites and failures: it is in
\* the Secret until a revocation, or the deletion of its model, takes it out.
THEOREM GrantedKeysAreKept == Spec => []GrantedKeyIntact
<1>1. SecretInv => GrantedKeyIntact
  BY DEF SecretInv
<1> QED BY <1>1, SecretInvariant, PTL

\* A credential that was taken out of the Secret never authenticates again.
THEOREM RevocationIsFinal == Spec => []RemovedStaysRemoved
<1>1. SecretInv => RemovedStaysRemoved
  BY DEF SecretInv
<1> QED BY <1>1, SecretInvariant, PTL

(***************************************************************************)
(* Refinement: the Secret implements the registry of KeyRegistry.          *)
(***************************************************************************)
\* At first the Secret holds no credential, as an empty registry.
LEMMA RegistryInit == Init => Registry!Init
BY DEF Init, Registry!Init, Absent, NoKeys, NoKey, RemovedKeys

\* A step that leaves the Secret's data and the removals alone is a stutter.
LEMMA RegistryStutter ==
  ASSUME UNCHANGED removed, secret'.data = secret.data
  PROVE  [Registry!Next]_(Registry!regVars)
BY DEF Registry!regVars, RemovedKeys

\* Every step of a worker is a step of the registry.
LEMMA RegistryWorker ==
  ASSUME TypeOK, CallsFormed, KeysInv, TypeOK', NEW w \in Workers, KeyManager(w)
  PROVE  [Registry!Next]_(Registry!regVars)
<1>1. CASE putNewKey(w)
  <2>1. PICK id \in ClientIDs : /\ secret.data[id] = NoKey
                                /\ secret'.data = [secret.data EXCEPT ![id] = minted + 1]
    BY <1>1, KeysMint
  <2>2. secret.data \in [ClientIDs -> Nat] /\ minted \in Nat /\ RemovedKeys \in SUBSET Nat
    BY DEF TypeOK, Secrets, RemovedKeys, Removals
  <2>3. secret'.data[id] = minted + 1
    BY <2>1, <2>2
  <2>4. KeysUnique
    BY DEF KeysInv
  <2>5. secret'.data[id] # 0 /\ secret'.data[id] \notin RemovedKeys
        /\ \A i \in ClientIDs : secret.data[i] # secret'.data[id]
    BY <2>2, <2>3, <2>4 DEF KeysUnique
  <2>6. UNCHANGED RemovedKeys
    BY <1>1 DEF putNewKey, RemovedKeys
  <2>7. Registry!Mint(id)
    BY <2>1, <2>3, <2>5, <2>6 DEF Registry!Mint, NoKey
  <2> QED BY <2>7 DEF Registry!Next
<1>2. CASE dropKey(w)
  <2>1. Registry!Retire(call[w].id)
    BY <1>2, DropKeyWrites DEF Registry!Retire, NoKey
  <2> QED BY <1>2, <2>1, DropKeyWrites DEF Registry!Next
<1>3. CASE ~putNewKey(w) /\ ~dropKey(w)
  <2>1. UNCHANGED <<secret, removed>>
    BY <1>3 DEF KeyManager, CreateKey, DeleteKey, AuditRevoke, Begin, getSecret, getConfigMap,
                putNewInfo, putTombstone, Conflict, Gone, Fail, storeVars
  <2> QED BY <2>1, RegistryStutter
<1> QED BY <1>1, <1>2, <1>3

\* Every step of the operator, and of the clock, is a step of the registry.
LEMMA RegistryOperator ==
  ASSUME TypeOK, KeysInv, Operator \/ Tick \/ UNCHANGED vars
  PROVE  [Registry!Next]_(Registry!regVars)
<1>1. CASE createOrUpdateSecret
  <2>1. ~secret.exists => secret.data = NoKeys
    BY DEF KeysInv, KeysUnique
  <2>2. UpToDate(secret, sCache) => sCache.data = secret.data
    BY DEF UpToDate, KeysInv, VersionsIdentify, CopyOf
  <2>3. secret'.data = secret.data
    BY <1>1, <2>1, <2>2 DEF createOrUpdateSecret, Written
  <2> QED BY <1>1, <2>3, RegistryStutter DEF createOrUpdateSecret
<1>2. CASE deleteSecret
  <2>1. CASE sCache.exists /\ secret.exists
    <3>1. Registry!Wipe
      BY <1>2, <2>1, DeleteSecretWrites DEF Registry!Wipe, NoKeys, NoKey
    <3> QED BY <3>1 DEF Registry!Next
  <2>2. CASE UNCHANGED <<secret, removed>>
    BY <2>2, RegistryStutter
  <2> QED BY <1>2, <2>1, <2>2 DEF deleteSecret
<1>3. CASE ~createOrUpdateSecret /\ ~deleteSecret
  <2>1. UNCHANGED <<secret, removed>>
    BY <1>3 DEF Operator, SyncSecretCache, SyncConfigMapCache, createOrUpdateConfigMapPreserveData,
                DeleteModel, deleteConfigMap, removeFinalizer, CreateModel, Tick, storeVars, vars
  <2> QED BY <2>1, RegistryStutter
<1> QED BY <1>1, <1>2, <1>3

\* The Secret, under any interleaving of the key manager's calls, the
\* operator's writes from a lagging cache, deletions and failures, behaves as
\* the registry: a credential is minted into a free place once and retired
\* for good.
THEOREM SecretIsRegistry == Spec => ImplementsRegistry
<1>1. SecretInv /\ [Next]_vars => [Registry!Next]_(Registry!regVars)
  <2> SUFFICES ASSUME SecretInv, [Next]_vars PROVE [Registry!Next]_(Registry!regVars)
    OBVIOUS
  <2>1. TypeOK /\ CallsFormed /\ KeysInv
    BY DEF SecretInv, KeysInv
  <2>2. TypeOK'
    BY <2>1, TypeStep
  <2> QED BY <2>1, <2>2, RegistryWorker, RegistryOperator DEF Next
<1> QED
  BY <1>1, RegistryInit, SecretInvariant, PTL DEF Spec, ImplementsRegistry, Registry!Spec

(***************************************************************************)
(* The ConfigMap: a granted key is attributable, and a client ID is not    *)
(* issued again while the ConfigMap knows it.                              *)
(***************************************************************************)
\* A step leaves a worker where it is.
Kept(v) ==
  pc'[v] = pc[v] /\ call'[v] = call[v] /\ sSnap'[v] = sSnap[v] /\ cSnap'[v] = cSnap[v]

LEMMA BeginWrites ==
  ASSUME TypeOK, NEW w \in Workers, NEW what, Begin(w, what)
  PROVE  /\ pc[w] = "idle" /\ pc'[w] = "getSecret" /\ call'[w] = what
         /\ \A v \in Workers \ {w} : Kept(v)
         /\ UNCHANGED <<secret, cm, sSnap, cSnap, sCache, cCache, model, opPc, now, minted, grants,
                         removed, deletes>>
BY DEF TypeOK, Begin, Kept, storeVars, opVars

LEMMA ReturnWrites ==
  ASSUME TypeOK, NEW w \in Workers, NEW r, Return(w, r)
  PROVE  /\ pc'[w] = "idle" /\ cSnap'[w] = Absent(NoEntries)
         /\ \A v \in Workers \ {w} : Kept(v)
BY DEF TypeOK, Return, Kept

\* The calls that only read, fail or try again.
QuietCall(w) ==
  \/ \E user \in Users : CreateKey(w, user)
  \/ \E user \in Users, id \in ClientIDs : DeleteKey(w, user, id)
  \/ \E id \in ClientIDs : AuditRevoke(w, id)
  \/ getSecret(w) \/ getConfigMap(w) \/ Conflict(w) \/ Gone(w) \/ Fail(w)

\* What they move is one worker: to rest, to the start of a call of a client ID that is
\* live, or on in its call.
Moves(w) ==
  \/ pc'[w] = "idle" /\ cSnap'[w] \in {cSnap[w], Absent(NoEntries)}
  \/ /\ pc'[w] = "getSecret" /\ call'[w].since = now /\ cSnap'[w] = cSnap[w]
     /\ call'[w].op = "revoke" =>
          cm.data[call'[w].id].present /\ cm.data[call'[w].id].revokedAt = 0
  \/ /\ pc[w] # "idle" /\ pc'[w] \in {"getSecret", "getConfigMap"}
     /\ call'[w] = call[w] /\ cSnap'[w] = cSnap[w]
  \/ /\ pc[w] # "idle" /\ pc'[w] = "putSecret"
     /\ call'[w] = call[w] /\ cSnap'[w] = cm

\* They leave both objects and the histories alone.
LEMMA QuietCallWrites ==
  ASSUME TypeOK, NEW w \in Workers, QuietCall(w)
  PROVE  /\ UNCHANGED <<secret, cm, sCache, cCache, model, now, minted, grants, removed, deletes>>
         /\ \A v \in Workers \ {w} : Kept(v)
         /\ Moves(w)
<1>1. ASSUME NEW user \in Users, CreateKey(w, user)
      PROVE  /\ UNCHANGED <<secret, cm, sCache, cCache, model, now, minted, grants, removed, deletes>>
             /\ \A v \in Workers \ {w} : Kept(v)
             /\ pc'[w] = "getSecret" /\ call'[w].since = now /\ cSnap'[w] = cSnap[w]
             /\ call'[w].op = "create"
  <2>1. Begin(w, Call("create", user, NoID))
    BY <1>1 DEF CreateKey
  <2>2. Call("create", user, NoID).since = now /\ Call("create", user, NoID).op = "create"
    BY DEF Call
  <2> QED BY <2>1, <2>2, BeginWrites
<1>2. ASSUME NEW user \in Users \cup {NoUser}, NEW id \in ClientIDs,
             id \in liveKeys(cm), Begin(w, Call("revoke", user, id))
      PROVE  /\ UNCHANGED <<secret, cm, sCache, cCache, model, now, minted, grants, removed, deletes>>
             /\ \A v \in Workers \ {w} : Kept(v)
             /\ pc'[w] = "getSecret" /\ call'[w].since = now /\ cSnap'[w] = cSnap[w]
             /\ cm.data[call'[w].id].present /\ cm.data[call'[w].id].revokedAt = 0
  <2>1. Call("revoke", user, id).since = now /\ Call("revoke", user, id).id = id
    BY DEF Call
  <2> QED BY <1>2, <2>1, BeginWrites DEF liveKeys
<1>3. CASE getSecret(w) \/ getConfigMap(w) \/ Conflict(w) \/ Gone(w) \/ Fail(w)
  <2>1. UNCHANGED <<secret, cm, sCache, cCache, model, now, minted, grants, removed, deletes>>
    BY <1>3 DEF getSecret, getConfigMap, Conflict, Gone, Fail, storeVars, opVars, bounds
  <2>2. CASE \E r : Return(w, r)
    BY <2>1, <2>2, ReturnWrites DEF Moves
  <2>3. CASE ~\E r : Return(w, r)
    BY <1>3, <2>1, <2>3 DEF TypeOK, getSecret, getConfigMap, Conflict, Gone, Fail, Kept, Moves
  <2> QED BY <2>2, <2>3
<1> QED BY <1>1, <1>2, <1>3 DEF QuietCall, DeleteKey, AuditRevoke, Moves

\* CreateKey's and RevokeKey's writes to the ConfigMap.
LEMMA InfoWrites ==
  ASSUME TypeOK, NEW w \in Workers, putNewInfo(w) \/ putTombstone(w)
  PROVE  /\ pc[w] = "putConfigMap" /\ pc'[w] = "idle" /\ cSnap'[w] = Absent(NoEntries)
         /\ \A v \in Workers \ {w} : Kept(v)
         /\ cm.rv = cSnap[w].rv /\ cm'.rv = cm.rv + 1 /\ cm'.exists
         /\ UNCHANGED <<secret, sCache, cCache, model, now, minted, removed, deletes>>
BY ReturnWrites DEF putNewInfo, putTombstone, UpToDate, Written, opVars, bounds

\* Reading the ConfigMap keeps its copies, and writing it leaves no copy of its version.
LEMMA RecordRead ==
  ASSUME TypeOK, RecordVersions, cm' = cm, cCache' \in {cCache, cm},
         \A v \in Workers : cSnap'[v] \in {cSnap[v], cm, Absent(NoEntries)}
  PROVE  RecordVersions'
<1>1. /\ RecordCopyOf(cm)' /\ RecordCopyOf(Absent(NoEntries))'
      /\ Absent(NoEntries)' = Absent(NoEntries)
  BY DEF TypeOK, ConfigMaps, RecordVersions, RecordCopyOf, Absent, NoEntries, NoEntry
<1>2. ASSUME NEW v \in Workers PROVE RecordCopyOf(cSnap[v])'
  <2>1. RecordCopyOf(cSnap[v])
    BY DEF RecordVersions
  <2> QED BY <1>1, <2>1 DEF RecordCopyOf
<1>3. RecordCopyOf(cCache)'
  BY <1>1 DEF RecordVersions, RecordCopyOf
<1>4. NoEntries' = NoEntries
  BY DEF NoEntries, NoEntry
<1> QED BY <1>2, <1>3, <1>4 DEF RecordVersions

LEMMA RecordWrite ==
  ASSUME TypeOK, RecordVersions, cm'.rv = cm.rv + 1, ~cm'.exists => cm'.data = NoEntries,
         cCache' = cCache, \A v \in Workers : cSnap'[v] \in {cSnap[v], Absent(NoEntries)}
  PROVE  RecordVersions'
<1>1. cm.rv \in Nat
  BY DEF TypeOK, ConfigMaps
<1>2. ASSUME NEW v \in Workers PROVE RecordCopyOf(cSnap[v])'
  <2>1. RecordCopyOf(cSnap[v]) /\ cSnap[v].rv \in Nat
    BY DEF RecordVersions, TypeOK, ConfigMaps
  <2>2. CASE cSnap'[v] = cSnap[v]
    BY <1>1, <2>1, <2>2 DEF RecordCopyOf
  <2>3. CASE cSnap'[v] = Absent(NoEntries)
    BY <1>1, <2>3 DEF RecordCopyOf, Absent
  <2> QED BY <2>2, <2>3
<1>3. RecordCopyOf(cCache)'
  BY <1>1 DEF RecordVersions, RecordCopyOf, TypeOK, ConfigMaps
<1>4. NoEntries' = NoEntries
  BY DEF NoEntries, NoEntry
<1> QED BY <1>1, <1>2, <1>3, <1>4 DEF RecordVersions

\* Nothing is lost by steps that leave the objects and the histories alone, and by the
\* passing of time.
LEMMA RecordQuiet ==
  ASSUME TypeOK, RecordInv, UNCHANGED <<secret, cm, removed, grants, model, deletes>>,
         RecordVersions', now' \in Nat, now <= now',
         \A v \in Workers : (Kept(v) /\ (pc[v] # "idle" => now' <= call[v].since + Retention))
                           \/ (Moves(v) /\ now' = now)
  PROVE  RecordInv'
<1>1. OwnersMatch'
  BY DEF RecordInv, OwnersMatch, Kept, Moves
<1>2. TimesMatch'
  <2>1. \A r \in removed' : r.at <= now'
    BY DEF RecordInv, TimesMatch, TypeOK, Removals
  <2>2. ASSUME NEW v \in Workers, pc'[v] # "idle"
        PROVE  call'[v].since <= now' /\ now' <= call'[v].since + Retention
    BY <2>2, KeyStoreAssumptions DEF RecordInv, TimesMatch, Kept, Moves, TypeOK, Calls
  <2> QED BY <2>1, <2>2 DEF TimesMatch
<1>3. ASSUME deletes' = 0 PROVE RecordIntact'
  <2>1. RecordIntact
    BY <1>3 DEF RecordInv
  <2>2. ASSUME NEW g \in grants' PROVE GrantRecorded(g)'
    BY <2>1, KeyStoreAssumptions DEF RecordIntact, GrantRecorded, RemovedBy, TypeOK, Removals
  <2>3. ASSUME NEW v \in Workers, Kept(v)
        PROVE  (RevokedKnown(v) /\ TombstoneDue(v) /\ EntryDue(v) /\ FreshDue(v))'
    BY <2>1, <2>3 DEF RecordIntact, Kept, RevokedKnown, TombstoneDue, EntryDue, FreshDue, RemovedKeys
  <2>4. ASSUME NEW v \in Workers, Moves(v)
        PROVE  (RevokedKnown(v) /\ TombstoneDue(v) /\ EntryDue(v) /\ FreshDue(v))'
    <3>1. RevokedKnown(v)'
      BY <2>1, <2>4 DEF RecordIntact, Moves, RevokedKnown
    <3>2. TombstoneDue(v)' /\ EntryDue(v)' /\ FreshDue(v)'
      BY <2>4 DEF Moves, TombstoneDue, EntryDue, FreshDue
    <3> QED BY <3>1, <3>2
  <2> QED BY <2>1, <2>2, <2>3, <2>4 DEF RecordIntact
<1> QED BY <1>1, <1>2, <1>3 DEF RecordInv

\* A read, a failure or another attempt keeps the record.
LEMMA RecordCalls ==
  ASSUME SecretInv, RecordInv, NEW w \in Workers, QuietCall(w)
  PROVE  RecordInv'
<1>1. TypeOK /\ RecordVersions /\ TimesMatch
  BY DEF SecretInv, RecordInv
<1>2. /\ UNCHANGED <<secret, cm, sCache, cCache, model, now, minted, grants, removed, deletes>>
      /\ \A v \in Workers \ {w} : Kept(v)
      /\ Moves(w)
  BY <1>1, QuietCallWrites
<1>3. RecordVersions'
  BY <1>1, <1>2, RecordRead DEF Kept, Moves
<1>4. now \in Nat
  BY <1>1 DEF TypeOK
<1>5. \A v \in Workers : pc[v] # "idle" => now' <= call[v].since + Retention
  BY <1>1, <1>2 DEF TimesMatch
<1> QED BY <1>1, <1>2, <1>3, <1>4, <1>5, RecordQuiet

\* A copy of the ConfigMap is out of date once the ConfigMap is written, and a copy of
\* the Secret once the Secret is.
LEMMA RecordBump ==
  ASSUME TypeOK, RecordVersions, NEW v \in Workers, Kept(v), cm'.rv = cm.rv + 1
  PROVE  TombstoneDue(v)' /\ EntryDue(v)'
<1>1. cm.rv \in Nat /\ cSnap[v].rv \in Nat /\ cSnap[v].rv <= cm.rv
  BY DEF TypeOK, ConfigMaps, RecordVersions, RecordCopyOf
<1>2. cSnap'[v].rv # cm'.rv
  BY <1>1 DEF Kept
<1> QED BY <1>2 DEF TombstoneDue, EntryDue

LEMMA SecretBump ==
  ASSUME TypeOK, VersionsIdentify, NEW v \in Workers, sSnap'[v] = sSnap[v],
         secret'.rv = secret.rv + 1
  PROVE  FreshDue(v)'
<1>1. secret.rv \in Nat /\ sSnap[v].rv \in Nat /\ sSnap[v].rv <= secret.rv
  BY DEF TypeOK, Secrets, VersionsIdentify, CopyOf
<1>2. sSnap'[v].rv # secret'.rv
  BY <1>1
<1> QED BY <1>2 DEF FreshDue

\* A worker that rests owes nothing.
LEMMA RestOwesNothing ==
  ASSUME NEW v \in Workers, pc'[v] = "idle"
  PROVE  (RevokedKnown(v) /\ TombstoneDue(v) /\ EntryDue(v) /\ FreshDue(v))'
BY DEF RevokedKnown, TombstoneDue, EntryDue, FreshDue

\* CreateKey records the owner under a client ID that was free, of a key that is there.
LEMMA RecordInfo ==
  ASSUME SecretInv, RecordInv, TypeOK', NEW w \in Workers, putNewInfo(w)
  PROVE  RecordInv'
<1> DEFINE id == call[w].id
           new == [id |-> id, key |-> call[w].key, owner |-> call[w].user]
<1>1. TypeOK /\ RecordVersions /\ TimesMatch /\ OwnersMatch
  BY DEF SecretInv, RecordInv
<1>2. /\ pc[w] = "putConfigMap" /\ pc'[w] = "idle" /\ cSnap'[w] = Absent(NoEntries)
      /\ \A v \in Workers \ {w} : Kept(v)
      /\ cm.rv = cSnap[w].rv /\ cm'.rv = cm.rv + 1 /\ cm'.exists
      /\ UNCHANGED <<secret, sCache, cCache, model, now, minted, removed, deletes>>
  BY <1>1, InfoWrites
<1>3. RecordVersions'
  BY <1>1, <1>2, RecordWrite DEF Kept
<1>4. /\ call[w].op = "create" /\ grants' = grants \cup {new}
      /\ cm'.data = [cSnap[w].data EXCEPT ![id] = Entry(call[w].user, 0)]
  BY DEF putNewInfo, Written
<1>5. /\ id \in ClientIDs /\ cm.data \in [ClientIDs -> KeyInfo] /\ cSnap[w].data = cm.data
      /\ call[w].user = OwnerOf[id]
  BY <1>1, <1>2, <1>4
     DEF SecretInv, CallsFormed, TypeOK, ConfigMaps, RecordVersions, RecordCopyOf, OwnersMatch
<1>6. OwnersMatch'
  BY <1>1, <1>2, <1>4, <1>5 DEF OwnersMatch, Kept
<1>7. TimesMatch'
  BY <1>1, <1>2 DEF TimesMatch, Kept
<1>8. ASSUME deletes' = 0 PROVE RecordIntact'
  <2>1. RecordIntact
    BY <1>2, <1>8 DEF RecordInv
  <2>2. ~cm.data[id].present /\ secret.data[id] # NoKey
    BY <1>2, <1>4, <1>5, <2>1 DEF RecordIntact, EntryDue, SecretInv, PendingKeyIntact
  <2>3. /\ cm'.data[id].present /\ cm'.data[id].creator = call[w].user
        /\ cm'.data[id].revokedAt = 0
        /\ \A i \in ClientIDs \ {id} : cm'.data[i] = cm.data[i]
    BY <1>4, <1>5 DEF Entry
  <2>4. ASSUME NEW g \in grants' PROVE GrantRecorded(g)'
    <3>1. CASE g = new
      BY <2>3, <3>1 DEF GrantRecorded
    <3>2. CASE g \in grants
      <4>1. GrantRecorded(g) /\ g.id \in ClientIDs
        BY <1>1, <2>1, <3>2 DEF RecordIntact, TypeOK
      <4> QED BY <1>2, <2>2, <2>3, <4>1 DEF GrantRecorded, RemovedBy
    <3> QED BY <1>4, <3>1, <3>2
  <2>5. ASSUME NEW v \in Workers \ {w} PROVE RevokedKnown(v)' /\ FreshDue(v)'
    <3>1. Kept(v) /\ RevokedKnown(v) /\ FreshDue(v)
      BY <1>2, <2>1 DEF RecordIntact
    <3>2. RevokedKnown(v)'
      <4>1. CASE pc[v] # "idle" /\ call[v].op = "revoke"
        <5>1. call[v].id \in ClientIDs
          BY <4>1 DEF SecretInv, CallsFormed
        <5> QED BY <2>3, <3>1, <4>1, <5>1 DEF RevokedKnown, Kept
      <4> QED BY <3>1, <4>1 DEF RevokedKnown, Kept
    <3>3. FreshDue(v)'
      BY <1>2, <2>2, <2>3, <3>1 DEF FreshDue, Kept
    <3> QED BY <3>2, <3>3
  <2>6. \A v \in Workers \ {w} : TombstoneDue(v)' /\ EntryDue(v)'
    BY <1>1, <1>2, RecordBump
  <2>7. (RevokedKnown(w) /\ TombstoneDue(w) /\ EntryDue(w) /\ FreshDue(w))'
    BY <1>2, RestOwesNothing
  <2> QED BY <1>2, <2>1, <2>4, <2>5, <2>6, <2>7 DEF RecordIntact
<1> QED BY <1>3, <1>6, <1>7, <1>8 DEF RecordInv

\* RevokeKey's tombstone keeps the creator of a client ID that is known, and the entries
\* it purges are of keys removed long ago that no call is about.
LEMMA RecordTombstone ==
  ASSUME SecretInv, RecordInv, TypeOK', NEW w \in Workers, putTombstone(w)
  PROVE  RecordInv'
<1> DEFINE id == call[w].id
<1>1. TypeOK /\ RecordVersions /\ TimesMatch /\ OwnersMatch
  BY DEF SecretInv, RecordInv
<1>2. /\ pc[w] = "putConfigMap" /\ pc'[w] = "idle" /\ cSnap'[w] = Absent(NoEntries)
      /\ \A v \in Workers \ {w} : Kept(v)
      /\ cm.rv = cSnap[w].rv /\ cm'.rv = cm.rv + 1 /\ cm'.exists
      /\ UNCHANGED <<secret, sCache, cCache, model, now, minted, removed, deletes>>
  BY <1>1, InfoWrites
<1>3. RecordVersions'
  BY <1>1, <1>2, RecordWrite DEF Kept
<1>4. /\ call[w].op = "revoke" /\ grants' = grants
      /\ cm'.data = [i \in ClientIDs |->
                       IF i = id THEN Entry(cSnap[w].data[id].creator, now)
                       ELSE IF Expired(cSnap[w].data[i]) THEN NoEntry ELSE cSnap[w].data[i]]
  BY DEF putTombstone, Written
<1>5. id \in ClientIDs /\ cm.data \in [ClientIDs -> KeyInfo] /\ cSnap[w].data = cm.data
  BY <1>1, <1>2, <1>4 DEF SecretInv, CallsFormed, TypeOK, ConfigMaps, RecordVersions, RecordCopyOf
<1>6. OwnersMatch'
  BY <1>1, <1>2, <1>4 DEF OwnersMatch, Kept
<1>7. TimesMatch'
  BY <1>1, <1>2 DEF TimesMatch, Kept
<1>8. ASSUME deletes' = 0 PROVE RecordIntact'
  <2>1. RecordIntact
    BY <1>2, <1>8 DEF RecordInv
  <2>2. now \in Nat /\ Retention \in Nat /\ removed \in SUBSET Removals
    BY <1>1, KeyStoreAssumptions DEF TypeOK
  <2>3. cm'.data[id] = Entry(cm.data[id].creator, now) /\ cm.data[id].present
    BY <1>2, <1>4, <1>5, <2>1 DEF RecordIntact, RevokedKnown
  <2>4. ASSUME NEW i \in ClientIDs \ {id}
        PROVE  IF Expired(cm.data[i]) THEN cm'.data[i] = NoEntry ELSE cm'.data[i] = cm.data[i]
    BY <1>4, <1>5
  <2>5. ASSUME NEW g \in grants' PROVE GrantRecorded(g)'
    <3>1. GrantRecorded(g) /\ g \in grants /\ g.id \in ClientIDs /\ cm.data[g.id].revokedAt \in Nat
      BY <1>1, <1>4, <1>5, <2>1 DEF RecordIntact, TypeOK, KeyInfo
    <3>2. CASE \E r \in removed : r.key = g.key /\ now > r.at + Retention
      BY <1>2, <3>2 DEF GrantRecorded
    <3>3. CASE ~\E r \in removed : r.key = g.key /\ now > r.at + Retention
      <4>1. /\ cm.data[g.id].present /\ cm.data[g.id].creator = g.owner
            /\ cm.data[g.id].revokedAt = 0 \/ RemovedBy(g.key, cm.data[g.id].revokedAt)
        BY <3>1, <3>3 DEF GrantRecorded
      <4>2. CASE g.id = id
        <5>1. g.key \in RemovedKeys
          BY <1>2, <1>4, <2>1, <3>1, <4>2 DEF RecordIntact, TombstoneDue
        <5>2. RemovedBy(g.key, now)
          BY <1>1, <5>1 DEF RemovedKeys, RemovedBy, TimesMatch
        <5>3. cm'.data[g.id] = Entry(g.owner, now)
          BY <2>3, <4>1, <4>2
        <5> QED BY <1>2, <5>2, <5>3 DEF GrantRecorded, RemovedBy, Entry
      <4>3. CASE g.id # id
        <5>1. ~Expired(cm.data[g.id])
          <6> SUFFICES ASSUME Expired(cm.data[g.id]) PROVE FALSE
            OBVIOUS
          <6>1. PICK r \in removed : r.key = g.key /\ r.at <= cm.data[g.id].revokedAt
            BY <4>1 DEF Expired, RemovedBy
          <6>2. now > r.at + Retention
            BY <2>2, <3>1, <6>1 DEF Expired, Removals
          <6> QED BY <3>3, <6>1, <6>2
        <5>2. cm'.data[g.id] = cm.data[g.id]
          BY <2>4, <3>1, <4>3, <5>1
        <5> QED BY <1>2, <4>1, <5>2 DEF GrantRecorded, RemovedBy
      <4> QED BY <4>2, <4>3
    <3> QED BY <3>2, <3>3
  <2>6. ASSUME NEW v \in Workers \ {w} PROVE RevokedKnown(v)'
    <3>1. Kept(v) /\ RevokedKnown(v)
      BY <1>2, <2>1 DEF RecordIntact
    <3>2. CASE pc[v] # "idle" /\ call[v].op = "revoke"
      <4>1. /\ call[v].id \in ClientIDs /\ call[v].since \in Nat
            /\ call[v].since <= now /\ now <= call[v].since + Retention
        BY <1>1, <3>2 DEF SecretInv, CallsFormed, TimesMatch, TypeOK, Calls
      <4>2. /\ cm.data[call[v].id].present
            /\ cm.data[call[v].id].revokedAt = 0 \/ cm.data[call[v].id].revokedAt >= call[v].since
        BY <3>1, <3>2 DEF RevokedKnown
      <4>3. cm.data[call[v].id].revokedAt \in Nat
        BY <1>5, <4>1 DEF KeyInfo
      <4>4. ~Expired(cm.data[call[v].id])
        BY <2>2, <4>1, <4>2, <4>3 DEF Expired
      <4>5. CASE call[v].id = id
        BY <2>3, <3>1, <4>1, <4>5 DEF RevokedKnown, Kept, Entry
      <4>6. CASE call[v].id # id
        <5>1. cm'.data[call[v].id] = cm.data[call[v].id]
          BY <2>4, <4>1, <4>4, <4>6
        <5> QED BY <3>1, <4>2, <5>1 DEF RevokedKnown, Kept
      <4> QED BY <4>5, <4>6
    <3> QED BY <3>1, <3>2 DEF RevokedKnown, Kept
  <2>7. \A i \in ClientIDs : cm'.data[i].present => cm.data[i].present
    BY <2>3, <2>4 DEF NoEntry
  <2>8. ASSUME NEW v \in Workers \ {w} PROVE FreshDue(v)'
    BY <1>2, <2>1, <2>7 DEF RecordIntact, FreshDue, Kept
  <2>9. \A v \in Workers \ {w} : TombstoneDue(v)' /\ EntryDue(v)'
    BY <1>1, <1>2, RecordBump
  <2>10. (RevokedKnown(w) /\ TombstoneDue(w) /\ EntryDue(w) /\ FreshDue(w))'
    BY <1>2, RestOwesNothing
  <2> QED BY <1>2, <2>1, <2>5, <2>6, <2>8, <2>9, <2>10 DEF RecordIntact
<1> QED BY <1>3, <1>6, <1>7, <1>8 DEF RecordInv

\* CreateKey's write to the Secret: the client ID was free, so no other create owes an
\* entry for it.
LEMMA RecordMint ==
  ASSUME SecretInv, RecordInv, TypeOK', NEW w \in Workers, putNewKey(w)
  PROVE  RecordInv'
<1>1. TypeOK /\ CallsFormed /\ VersionsIdentify /\ PendingKeyIntact
      /\ RecordVersions /\ TimesMatch /\ OwnersMatch
  BY DEF SecretInv, RecordInv
<1>2. PICK id \in ClientIDs :
        /\ FreshID(w, id)
        /\ secret' = Written(secret, [sSnap[w].data EXCEPT ![id] = minted + 1])
        /\ call'[w].op = "create" /\ call'[w].user = call[w].user
        /\ call'[w].id = id /\ call'[w].key = minted + 1 /\ call'[w].since = call[w].since
        /\ \A v \in Workers \ {w} : call'[v] = call[v]
  BY <1>1, MintWrites
<1>3. /\ pc[w] = "putSecret" /\ pc'[w] = "putConfigMap"
      /\ \A v \in Workers \ {w} : Kept(v)
      /\ UNCHANGED <<cm, sSnap, cSnap, cCache, model, now, grants, removed, deletes>>
  BY <1>1, <1>2 DEF putNewKey, TypeOK, Kept, opVars, bounds
<1>4. /\ secret.data \in [ClientIDs -> Nat] /\ secret.data[id] = NoKey
      /\ secret'.rv = secret.rv + 1 /\ secret'.data = [secret.data EXCEPT ![id] = minted + 1]
      /\ ~cSnap[w].data[id].present /\ call[w].user = OwnerOf[id]
  BY <1>1, <1>2
     DEF putNewKey, UpToDate, FreshID, Written, VersionsIdentify, CopyOf, TypeOK, Secrets
<1>5. RecordVersions'
  BY <1>1, <1>3, RecordRead
<1>6. OwnersMatch'
  BY <1>1, <1>2, <1>3, <1>4 DEF OwnersMatch, Kept
<1>7. TimesMatch'
  BY <1>1, <1>2, <1>3 DEF TimesMatch, Kept
<1>8. ASSUME deletes' = 0 PROVE RecordIntact'
  <2>1. RecordIntact
    BY <1>3, <1>8 DEF RecordInv
  <2>2. \A g \in grants' : GrantRecorded(g)'
    BY <1>3, <2>1 DEF RecordIntact, GrantRecorded, RemovedBy
  <2>3. (RevokedKnown(w) /\ TombstoneDue(w) /\ EntryDue(w) /\ FreshDue(w))'
    BY <1>2, <1>3, <1>4 DEF RevokedKnown, TombstoneDue, EntryDue, FreshDue
  <2>4. ASSUME NEW v \in Workers \ {w}
        PROVE  (RevokedKnown(v) /\ TombstoneDue(v) /\ EntryDue(v) /\ FreshDue(v))'
    <3>1. Kept(v) /\ RevokedKnown(v) /\ TombstoneDue(v) /\ EntryDue(v)
      BY <1>3, <2>1 DEF RecordIntact
    <3>2. RevokedKnown(v)' /\ TombstoneDue(v)'
      BY <1>3, <3>1 DEF RevokedKnown, TombstoneDue, Kept, RemovedKeys
    <3>3. FreshDue(v)'
      BY <1>1, <1>3, <1>4, SecretBump
    <3>4. EntryDue(v)'
      <4>1. CASE pc[v] = "putConfigMap" /\ call[v].op = "create" /\ cSnap[v].rv = cm.rv
        <5>1. /\ call[v].id \in ClientIDs /\ call[v].key # NoKey
              /\ ~cSnap[v].data[call[v].id].present
              /\ secret.data[call[v].id] = call[v].key
          BY <1>1, <3>1, <4>1 DEF CallsFormed, PendingKeyIntact, EntryDue
        <5>2. secret'.data[call[v].id] = secret.data[call[v].id]
          BY <1>4, <5>1
        <5> QED BY <1>3, <3>1, <5>1, <5>2 DEF EntryDue, Kept
      <4> QED BY <1>3, <3>1, <4>1 DEF EntryDue, Kept
    <3> QED BY <3>2, <3>3, <3>4
  <2> QED BY <1>3, <2>1, <2>2, <2>3, <2>4 DEF RecordIntact
<1> QED BY <1>5, <1>6, <1>7, <1>8 DEF RecordInv

\* RevokeKey's write to the Secret: whoever holds the client ID, its key is removed now.
LEMMA RecordDrop ==
  ASSUME SecretInv, RecordInv, TypeOK', NEW w \in Workers, dropKey(w)
  PROVE  RecordInv'
<1> DEFINE id == call[w].id
<1>1. /\ TypeOK /\ CallsFormed /\ VersionsIdentify /\ GrantedKeyIntact
      /\ RecordVersions /\ TimesMatch /\ OwnersMatch /\ KeysInv
  BY DEF SecretInv, RecordInv, KeysInv
<1>2. /\ id \in ClientIDs /\ secret'.rv = secret.rv + 1
      /\ secret'.data = [secret.data EXCEPT ![id] = NoKey]
      /\ RemovedKeys' = RemovedKeys \cup {secret.data[id]}
  BY <1>1, DropKeyWrites
<1>3. /\ pc[w] = "putSecret" /\ call[w].op = "revoke" /\ pc'[w] = "putConfigMap"
      /\ UNCHANGED <<cm, call, sSnap, cSnap, cCache, model, now, grants, deletes>>
      /\ \A v \in Workers \ {w} : Kept(v)
      /\ removed' = removed \cup {[key |-> sSnap[w].data[id], at |-> now]}
  BY <1>1 DEF dropKey, TypeOK, Kept, opVars, bounds
<1>4. RecordVersions'
  BY <1>1, <1>3, RecordRead
<1>5. OwnersMatch'
  BY <1>1, <1>3 DEF OwnersMatch, Kept
<1>6. TimesMatch'
  <2>1. now \in Nat
    BY <1>1 DEF TypeOK
  <2> QED BY <1>1, <1>3, <2>1 DEF TimesMatch, Kept
<1>7. ASSUME deletes' = 0 PROVE RecordIntact'
  <2>1. RecordIntact /\ RevokedKnown(w)
    BY <1>3, <1>7 DEF RecordInv, RecordIntact
  <2>2. cm.data[id].present
    BY <1>3, <2>1 DEF RevokedKnown
  <2>3. ASSUME NEW g \in grants' PROVE GrantRecorded(g)'
    <3>1. GrantRecorded(g)
      BY <1>3, <2>1 DEF RecordIntact
    <3> QED BY <1>3, <3>1 DEF GrantRecorded, RemovedBy
  <2>4. (RevokedKnown(w) /\ TombstoneDue(w) /\ EntryDue(w) /\ FreshDue(w))'
    <3>1. \A g \in grants : g.id = id => g.key \in RemovedKeys'
      BY <1>1, <1>2 DEF GrantedKeyIntact
    <3> QED BY <1>3, <2>1, <3>1 DEF RevokedKnown, TombstoneDue, EntryDue, FreshDue
  <2>5. ASSUME NEW v \in Workers \ {w}
        PROVE  (RevokedKnown(v) /\ TombstoneDue(v) /\ EntryDue(v) /\ FreshDue(v))'
    <3>1. Kept(v) /\ RevokedKnown(v) /\ TombstoneDue(v) /\ EntryDue(v)
      BY <1>3, <2>1 DEF RecordIntact
    <3>2. RevokedKnown(v)' /\ TombstoneDue(v)'
      BY <1>2, <1>3, <3>1 DEF RevokedKnown, TombstoneDue, Kept
    <3>3. FreshDue(v)'
      BY <1>1, <1>2, <1>3, SecretBump
    <3>4. EntryDue(v)'
      <4>1. CASE pc[v] = "putConfigMap" /\ call[v].op = "create" /\ cSnap[v].rv = cm.rv
        <5>1. /\ call[v].id \in ClientIDs /\ secret.data[call[v].id] = call[v].key
              /\ ~cSnap[v].data[call[v].id].present /\ cSnap[v].data = cm.data
          BY <1>1, <3>1, <4>1 DEF CallsFormed, EntryDue, RecordVersions, RecordCopyOf
        <5>2. call[v].id # id
          BY <2>2, <5>1
        <5>3. secret.data \in [ClientIDs -> Nat]
          BY <1>1 DEF TypeOK, Secrets
        <5>4. secret'.data[call[v].id] = secret.data[call[v].id]
          BY <1>2, <5>1, <5>2, <5>3
        <5> QED BY <1>3, <3>1, <5>1, <5>4 DEF EntryDue, Kept
      <4> QED BY <1>3, <3>1, <4>1 DEF EntryDue, Kept
    <3> QED BY <3>2, <3>3, <3>4
  <2> QED BY <1>3, <2>1, <2>3, <2>4, <2>5 DEF RecordIntact
<1> QED BY <1>4, <1>5, <1>6, <1>7 DEF RecordInv

\* Every step of a worker keeps the record.
LEMMA RecordWorker ==
  ASSUME SecretInv, RecordInv, TypeOK', NEW w \in Workers, KeyManager(w)
  PROVE  RecordInv'
BY RecordCalls, RecordInfo, RecordTombstone, RecordMint, RecordDrop DEF KeyManager, QuietCall

\* A step of the operator after a deletion, or on the labels, leaves the workers and the
\* history of grants alone.
LEMMA RecordAside ==
  ASSUME TypeOK, RecordInv, UNCHANGED <<workerVars, now, grants>>, RecordVersions',
         \A r \in removed' : r \in removed \/ r.at = now
  PROVE  /\ OwnersMatch' /\ TimesMatch'
         /\ deletes' # 0 => RecordInv'
<1>1. OwnersMatch'
  BY DEF RecordInv, OwnersMatch, workerVars
<1>2. now \in Nat
  BY DEF TypeOK
<1>3. TimesMatch'
  BY <1>2 DEF RecordInv, TimesMatch, workerVars
<1> QED BY <1>1, <1>3 DEF RecordInv

\* Every step of the operator, and of the clock, keeps the record.
LEMMA RecordOperator ==
  ASSUME SecretInv, RecordInv, TypeOK', Operator \/ Tick \/ UNCHANGED vars
  PROVE  RecordInv'
<1>1. TypeOK /\ RecordVersions /\ TimesMatch /\ now \in Nat /\ deletes \in Nat
  BY DEF SecretInv, RecordInv, TypeOK
<1>k. ASSUME UNCHANGED workerVars PROVE \A v \in Workers : Kept(v)
  BY <1>k DEF workerVars, Kept
<1>q. ASSUME UNCHANGED <<secret, cm, workerVars, model, now, grants, removed, deletes>>,
             cCache' \in {cCache, cm}
      PROVE  RecordInv'
  <2>1. \A v \in Workers : Kept(v)
    BY <1>q, <1>k
  <2>2. RecordVersions'
    BY <1>1, <1>q, <2>1, RecordRead DEF Kept
  <2> QED BY <1>1, <1>q, <2>1, <2>2, RecordQuiet DEF TimesMatch
<1>1s. CASE SyncSecretCache
  BY <1>1s, <1>q DEF SyncSecretCache, storeVars, bounds
<1>2. CASE SyncConfigMapCache
  BY <1>2, <1>q DEF SyncConfigMapCache, storeVars, bounds
<1>3. CASE createOrUpdateSecret
  <2>1. /\ UNCHANGED <<cm, workerVars, cCache, model, now, grants, removed, deletes>>
        /\ \A v \in Workers : Kept(v)
    BY <1>3, <1>k DEF createOrUpdateSecret
  <2>2. CASE UNCHANGED secret
    BY <1>q, <2>1, <2>2
  <2>3. CASE ~UNCHANGED secret
    <3>1. secret'.rv = secret.rv + 1 /\ secret'.data = secret.data
      <4>1. ~secret.exists => secret.data = NoKeys
        BY DEF SecretInv, KeysUnique
      <4>2. UpToDate(secret, sCache) => sCache.data = secret.data
        BY DEF UpToDate, SecretInv, VersionsIdentify, CopyOf
      <4> QED BY <1>3, <2>3, <4>1, <4>2 DEF createOrUpdateSecret, Written
    <3>2. RecordVersions'
      BY <1>1, <2>1, RecordRead DEF Kept
    <3>3. OwnersMatch' /\ TimesMatch'
      BY <1>1, <2>1, <3>2, RecordAside
    <3>4. ASSUME deletes' = 0 PROVE RecordIntact'
      <4>1. RecordIntact
        BY <2>1, <3>4 DEF RecordInv
      <4>2. \A v \in Workers : FreshDue(v)'
        BY <1>1, <2>1, <3>1, SecretBump DEF SecretInv, Kept
      <4>3. \A v \in Workers : RevokedKnown(v)' /\ TombstoneDue(v)' /\ EntryDue(v)'
        BY <2>1, <3>1, <4>1
           DEF RecordIntact, RevokedKnown, TombstoneDue, EntryDue, RemovedKeys, Kept
      <4>4. \A g \in grants' : GrantRecorded(g)'
        BY <2>1, <4>1 DEF RecordIntact, GrantRecorded, RemovedBy
      <4> QED BY <2>1, <4>1, <4>2, <4>3, <4>4 DEF RecordIntact
    <3> QED BY <3>2, <3>3, <3>4 DEF RecordInv
  <2> QED BY <2>2, <2>3
<1>4. CASE createOrUpdateConfigMapPreserveData
  <2>1. /\ UNCHANGED <<secret, workerVars, cCache, model, now, grants, removed, deletes>>
        /\ \A v \in Workers : Kept(v)
    BY <1>4, <1>k DEF createOrUpdateConfigMapPreserveData
  <2>2. CASE UNCHANGED cm
    BY <1>q, <2>1, <2>2
  <2>3. CASE ~UNCHANGED cm
    <3>1. cm'.rv = cm.rv + 1 /\ cm'.data = cm.data /\ cm'.exists
      <4>1. ~cm.exists => cm.data = NoEntries
        BY <1>1 DEF RecordVersions
      <4>2. UpToDate(cm, cCache) => cCache.data = cm.data
        BY <1>1 DEF UpToDate, RecordVersions, RecordCopyOf
      <4> QED BY <1>4, <2>3, <4>1, <4>2 DEF createOrUpdateConfigMapPreserveData, Written
    <3>2. RecordVersions'
      BY <1>1, <2>1, <3>1, RecordWrite DEF Kept
    <3>3. OwnersMatch' /\ TimesMatch'
      BY <1>1, <2>1, <3>2, RecordAside
    <3>4. ASSUME deletes' = 0 PROVE RecordIntact'
      <4>1. RecordIntact
        BY <2>1, <3>4 DEF RecordInv
      <4>2. \A v \in Workers : TombstoneDue(v)' /\ EntryDue(v)'
        BY <1>1, <2>1, <3>1, RecordBump
      <4>3. \A v \in Workers : RevokedKnown(v)' /\ FreshDue(v)'
        BY <2>1, <3>1, <4>1 DEF RecordIntact, RevokedKnown, FreshDue, Kept
      <4>4. \A g \in grants' : GrantRecorded(g)'
        BY <2>1, <3>1, <4>1 DEF RecordIntact, GrantRecorded, RemovedBy
      <4> QED BY <2>1, <4>1, <4>2, <4>3, <4>4 DEF RecordIntact
    <3> QED BY <3>2, <3>3, <3>4 DEF RecordInv
  <2> QED BY <2>2, <2>3
<1>5. CASE DeleteModel
  <2>1. /\ UNCHANGED <<cm, workerVars, cCache, now, grants, removed>> /\ deletes' # 0
        /\ \A v \in Workers : Kept(v)
    BY <1>1, <1>5, <1>k DEF DeleteModel, storeVars
  <2>2. RecordVersions'
    BY <1>1, <2>1, RecordRead DEF Kept
  <2> QED BY <1>1, <2>1, <2>2, RecordAside
<1>d. model # "live" => deletes # 0
  BY DEF RecordInv, RecordIntact
<1>6. CASE deleteSecret
  <2>1. /\ UNCHANGED <<cm, workerVars, cCache, now, grants, deletes>> /\ deletes # 0
        /\ \A r \in removed' : r \in removed \/ r.at = now
        /\ \A v \in Workers : Kept(v)
    BY <1>6, <1>d, <1>k DEF deleteSecret, bounds
  <2>2. RecordVersions'
    BY <1>1, <2>1, RecordRead DEF Kept
  <2> QED BY <1>1, <2>1, <2>2, RecordAside
<1>7. CASE deleteConfigMap
  <2>1. /\ UNCHANGED <<workerVars, cCache, now, grants, removed, deletes>> /\ deletes # 0
        /\ \A v \in Workers : Kept(v)
    BY <1>7, <1>d, <1>k DEF deleteConfigMap, bounds
  <2>2. RecordVersions'
    <3>1. CASE cm' = cm
      BY <1>1, <2>1, <3>1, RecordRead DEF Kept
    <3>2. CASE cm' = Deleted(cm, NoEntries)
      BY <1>1, <2>1, <3>2, RecordWrite DEF Kept, Deleted
    <3> QED BY <1>7, <3>1, <3>2 DEF deleteConfigMap
  <2> QED BY <1>1, <2>1, <2>2, RecordAside
<1>8. CASE removeFinalizer \/ CreateModel
  <2>1. /\ UNCHANGED <<cm, workerVars, cCache, now, grants, removed, deletes>> /\ deletes # 0
        /\ \A v \in Workers : Kept(v)
    BY <1>8, <1>d, <1>k DEF removeFinalizer, CreateModel, storeVars, bounds
  <2>2. RecordVersions'
    BY <1>1, <2>1, RecordRead DEF Kept
  <2> QED BY <1>1, <2>1, <2>2, RecordAside
<1>9. CASE Tick
  <2>1. /\ UNCHANGED <<secret, cm, cCache, model, grants, removed, deletes>> /\ now' = now + 1
        /\ \A v \in Workers : Kept(v)
    BY <1>9, <1>k DEF Tick, storeVars, opVars, bounds
  <2>2. RecordVersions'
    BY <1>1, <2>1, RecordRead DEF Kept
  <2>3. \A v \in Workers : pc[v] # "idle" => now' <= call[v].since + Retention
    BY <1>1, <1>9, <2>1, KeyStoreAssumptions DEF Tick, TypeOK, Calls
  <2> QED BY <1>1, <2>1, <2>2, <2>3, RecordQuiet
<1>10. CASE UNCHANGED vars
  BY <1>10, <1>q DEF vars, storeVars, opVars, bounds
<1> QED
  BY <1>1s, <1>2, <1>3, <1>4, <1>5, <1>6, <1>7, <1>8, <1>9, <1>10 DEF Operator

\* The record of who holds which key is kept in every execution.
LEMMA RecordInvariant == Spec => [](SecretInv /\ RecordInv)
<1>1. Init => RecordInv
  <2>1. ASSUME Init PROVE RecordInv
    BY <2>1, KeyStoreAssumptions
       DEF Init, RecordInv, RecordVersions, RecordCopyOf, Absent, OwnersMatch, TimesMatch,
           RecordIntact, RevokedKnown, TombstoneDue, EntryDue, FreshDue
  <2> QED BY <2>1
<1>2. SecretInv /\ RecordInv /\ [Next]_vars => RecordInv'
  <2> SUFFICES ASSUME SecretInv, RecordInv, [Next]_vars PROVE RecordInv'
    OBVIOUS
  <2>1. TypeOK'
    BY SecretInvStep DEF SecretInv
  <2> QED BY <2>1, RecordWorker, RecordOperator DEF Next
<1> QED BY <1>1, <1>2, SecretInvariant, PTL DEF Spec

\* While a granted key is live, and for as long as a tombstone is kept, the ConfigMap
\* names its owner: no concurrent create or revocation, label rewrite or failure loses
\* the record, and a purge drops it only when its time is over.
THEOREM GrantsAreAttributable == Spec => []GrantAttributable
<1>1. SecretInv /\ RecordInv => GrantAttributable
  <2> SUFFICES ASSUME SecretInv, RecordInv, deletes = 0, NEW g \in grants,
                      \A r \in removed : r.key = g.key => now <= r.at + Retention
               PROVE  cm.data[g.id].present /\ cm.data[g.id].creator = g.owner
    BY DEF GrantAttributable
  <2>1. GrantRecorded(g)
    BY DEF RecordInv, RecordIntact
  <2>2. now \in Nat /\ removed \in SUBSET Removals /\ Retention \in Nat
    BY KeyStoreAssumptions DEF SecretInv, TypeOK
  <2> QED BY <2>1, <2>2 DEF GrantRecorded, Removals
<1> QED BY <1>1, RecordInvariant, PTL

\* A new credential is minted under a client ID that neither object knows at that very
\* moment, although CreateKey has checked two copies that it read one after the other.
THEOREM NothingIsReissued == Spec => NoReissue
<1> DEFINE Reissued == \E id \in ClientIDs :
             deletes = 0 /\ secret'.data[id] > minted
               /\ ~(secret.data[id] = NoKey /\ ~cm.data[id].present)
<1>1. SecretInv /\ RecordInv /\ [Next]_vars => ~Reissued
  <2> SUFFICES ASSUME SecretInv, RecordInv, [Next]_vars, NEW id \in ClientIDs, deletes = 0,
                      secret'.data[id] > minted
               PROVE  secret.data[id] = NoKey /\ ~cm.data[id].present
    OBVIOUS
  <2>1. /\ TypeOK /\ CallsFormed /\ KeysInv /\ KeysUnique /\ VersionsIdentify
        /\ minted \in Nat /\ secret.data \in [ClientIDs -> Nat]
    BY DEF SecretInv, KeysInv, TypeOK, Secrets
  <2>2. \A i \in ClientIDs : ~(secret.data[i] > minted) /\ ~(NoKey > minted)
    BY <2>1 DEF KeysUnique, NoKey
  <2>3. ASSUME NEW w \in Workers, putNewKey(w) PROVE secret.data[id] = NoKey /\ ~cm.data[id].present
    <3>1. PICK i \in ClientIDs :
            /\ FreshID(w, i)
            /\ secret' = Written(secret, [sSnap[w].data EXCEPT ![i] = minted + 1])
      BY <2>1, <2>3, MintWrites
    <3>2. sSnap[w].data = secret.data /\ sSnap[w].rv = secret.rv
      BY <2>1, <2>3 DEF putNewKey, UpToDate, VersionsIdentify, CopyOf
    <3>3. secret'.data = [secret.data EXCEPT ![i] = minted + 1]
      BY <3>1, <3>2 DEF Written
    <3>4. id = i
      BY <2>1, <2>2, <3>3
    <3>5. FreshDue(w)
      BY DEF RecordInv, RecordIntact
    <3> QED BY <2>3, <3>1, <3>2, <3>4, <3>5 DEF FreshID, FreshDue, putNewKey
  <2>4. ASSUME NEW w \in Workers, dropKey(w) PROVE FALSE
    BY <2>1, <2>2, <2>4, DropKeyWrites
  <2>5. CASE createOrUpdateSecret
    <3>1. ~secret.exists => secret.data = NoKeys
      BY <2>1 DEF KeysUnique
    <3>2. UpToDate(secret, sCache) => sCache.data = secret.data
      BY <2>1 DEF UpToDate, VersionsIdentify, CopyOf
    <3>3. secret'.data = secret.data
      BY <2>5, <3>1, <3>2 DEF createOrUpdateSecret, Written
    <3> QED BY <2>2, <3>3
  <2>6. CASE deleteSecret
    BY <2>2, <2>6 DEF deleteSecret, Deleted, NoKeys
  <2>7. CASE UNCHANGED secret
    BY <2>2, <2>7
  <2>8. (\E w \in Workers : putNewKey(w) \/ dropKey(w)) \/ createOrUpdateSecret \/ deleteSecret
        \/ UNCHANGED secret
    BY DEF Next, KeyManager, Operator, CreateKey, DeleteKey, AuditRevoke, Begin, getSecret,
           getConfigMap, putNewInfo, putTombstone, Conflict, Gone, Fail, SyncSecretCache,
           SyncConfigMapCache, createOrUpdateConfigMapPreserveData, DeleteModel, deleteConfigMap,
           removeFinalizer, CreateModel, Tick, storeVars, vars
  <2> QED BY <2>3, <2>4, <2>5, <2>6, <2>7, <2>8
<1>2. ~Reissued => [\A id \in ClientIDs :
                       deletes = 0 /\ secret'.data[id] > minted
                         => secret.data[id] = NoKey /\ ~cm.data[id].present]_vars
  OBVIOUS
<1> HIDE DEF Reissued
<1> QED BY <1>1, <1>2, RecordInvariant, PTL DEF Spec, NoReissue
=============================================================================
