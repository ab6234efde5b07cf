------------------------------ MODULE KeyStore ------------------------------
(***************************************************************************)
(* The API key store of one model: the Secret <model>-api-keys, which      *)
(* holds the credentials, and the ConfigMap <model>-api-key-metadata,      *)
(* which says who minted each of them.  Both are written                   *)
(*                                                                         *)
(*   - by the key manager (key-manager/internal/secrets/manager.go):       *)
(*     CreateKey and RevokeKey run concurrently, called by the HTTP        *)
(*     handlers and by the auditor, and update first the Secret and then   *)
(*     the ConfigMap, each with a read-modify-write that the API server    *)
(*     refuses if the object has changed since it was read;                *)
(*   - by the operator (llmmodel_controller.go), which creates the two     *)
(*     objects, rewrites their labels from an informer cache that may lag, *)
(*     and deletes them when the model is deleted.                         *)
(*                                                                         *)
(* A step of a worker is one call to the API server together with the      *)
(* local computation before it.  A worker may fail or die between any two  *)
(* of its steps (Fail).                                                    *)
(***************************************************************************)
EXTENDS Naturals, FiniteSets

CONSTANTS
  Workers,        \* goroutines of the key manager that call the Manager
  Users,          \* usernames
  ClientIDs,      \* the client IDs randomHex can lead to
  OwnerOf,        \* the (username, model) prefix each client ID carries
  MaxRetries,     \* const maxRetries in CreateKey and RevokeKey
  Retention,      \* RevokedKeyRetention, in clock ticks
  ConflictText,   \* the phrases of the error of a 409, the model's name included
  MayFail,        \* whether a call may fail or die between two steps
  MaxCalls,       \* bound: calls of the Manager
  MaxTime,        \* bound: the clock
  MaxRelabels,    \* bound: label rewrites by the operator
  MaxDeletes      \* bound: deletions of the model

ASSUME KeyStoreAssumptions ==
  /\ OwnerOf \in [ClientIDs -> Users]
  /\ "none" \notin ClientIDs /\ "nobody" \notin Users
  /\ MaxRetries \in Nat \ {0}
  /\ Retention \in Nat
  /\ MayFail \in BOOLEAN
  /\ MaxCalls \in Nat /\ MaxTime \in Nat /\ MaxRelabels \in Nat /\ MaxDeletes \in Nat

VARIABLES
  secret,     \* the Secret in the API server
  cm,         \* the ConfigMap in the API server
  pc,         \* where each worker is
  call,       \* what each worker was called to do
  tries,      \* attempt, of the retry loop
  sSnap,      \* the Secret as the worker read it
  cSnap,      \* the ConfigMap as the worker read it
  outcome,    \* what the worker's last call returned
  sCache,     \* the Secret in the operator's informer cache
  cCache,     \* the ConfigMap in the operator's informer cache
  model,      \* the LLMModel object, as far as its finalizer matters
  opPc,       \* where the operator's reconcile of the model is
  now,        \* the wall clock
  minted,     \* how many credentials generateAPIKey has produced
  grants,     \* history: the credentials CreateKey returned
  removed,    \* history: the credentials taken out of the Secret, and when
  calls, relabels, deletes   \* what the bounds count

storeVars  == <<secret, cm>>
workerVars == <<pc, call, tries, sSnap, cSnap, outcome>>
opVars     == <<sCache, cCache, model, opPc>>
bounds     == <<calls, relabels, deletes>>
vars == <<storeVars, workerVars, opVars, now, minted, grants, removed, bounds>>

(***************************************************************************)
(* Data.  A credential is a number, its place in the order of minting:     *)
(* generateAPIKey's 256 random bits never repeat.  The random part of a    *)
(* client ID is not assumed fresh: createKeyOnce has a loop for that.      *)
(***************************************************************************)
NoKey  == 0
NoUser == "nobody"
NoID   == "none"

\* A ConfigMap entry; revokedAt = 0 is a nil RevokedAt, the clock starts at 1.
KeyInfo == [present : BOOLEAN, creator : Users \cup {NoUser}, revokedAt : Nat]
NoEntry == [present |-> FALSE, creator |-> NoUser, revokedAt |-> 0]
Entry(creator, revokedAt) == [present |-> TRUE, creator |-> creator, revokedAt |-> revokedAt]

Secrets    == [rv : Nat, exists : BOOLEAN, data : [ClientIDs -> Nat]]
ConfigMaps == [rv : Nat, exists : BOOLEAN, data : [ClientIDs -> KeyInfo]]

\* What a worker was called for and when, and the credential it has minted
\* meanwhile.
Calls == [op : {"create", "revoke"}, user : Users \cup {NoUser},
          id : ClientIDs \cup {NoID}, key : Nat, since : Nat]
Call(op, user, id) == [op |-> op, user |-> user, id |-> id, key |-> NoKey, since |-> now]
NoCall == [op |-> "create", user |-> NoUser, id |-> NoID, key |-> NoKey, since |-> 0]
Outcomes == {"none", "ok", "notFound", "conflict", "tooManyConflicts", "error"}

NoKeys    == [id \in ClientIDs |-> NoKey]
NoEntries == [id \in ClientIDs |-> NoEntry]

Removals == [key : Nat, at : Nat]
RemovedKeys == {r.key : r \in removed}

\* The keys ListKeys returns: entries that carry no RevokedAt.
liveKeys(m) == {id \in ClientIDs : m.data[id].present /\ m.data[id].revokedAt = 0}

\* Mutant: a tombstone is dropped in the last instant it is to be kept.
ExpiredAtEdge(info) == info.revokedAt # 0 /\ now >= info.revokedAt + Retention

\* An entry that a revocation drops because its tombstone is too old.
Expired(info) == info.revokedAt # 0 /\ now > info.revokedAt + Retention

\* The test is on the error's text.
isConflict(text) == "conflict" \in text \/ "409" \in text

(***************************************************************************)
(* The API server: a write carries the resourceVersion it was read at and  *)
(* is applied only if that is still the current one.                       *)
(***************************************************************************)
UpToDate(obj, snap) == obj.exists /\ obj.rv = snap.rv
Stale(obj, snap)    == obj.exists /\ obj.rv # snap.rv

Written(obj, data) == [rv |-> obj.rv + 1, exists |-> TRUE, data |-> data]
Deleted(obj, none) == [rv |-> obj.rv + 1, exists |-> FALSE, data |-> none]

TypeOK ==
  /\ secret \in Secrets
  /\ cm \in ConfigMaps
  /\ pc \in [Workers -> {"idle", "getSecret", "getConfigMap", "putSecret", "putConfigMap"}]
  /\ call \in [Workers -> Calls]
  /\ tries \in [Workers -> 0 .. MaxRetries - 1]
  /\ sSnap \in [Workers -> Secrets]
  /\ cSnap \in [Workers -> ConfigMaps]
  /\ outcome \in [Workers -> Outcomes]
  /\ sCache \in Secrets
  /\ cCache \in ConfigMaps
  /\ model \in {"live", "deleting", "gone"}
  /\ opPc \in {"secret", "configMap", "deleteConfigMap", "finalizer"}
  /\ now \in Nat
  /\ minted \in Nat
  /\ grants \in SUBSET [id : ClientIDs, key : Nat, owner : Users]
  /\ removed \in SUBSET Removals
  /\ calls \in Nat /\ relabels \in Nat /\ deletes \in Nat

Absent(none) == [rv |-> 0, exists |-> FALSE, data |-> none]

Init ==
  /\ secret = Absent(NoKeys)
  /\ cm = Absent(NoEntries)
  /\ pc = [w \in Workers |-> "idle"]
  /\ call = [w \in Workers |-> NoCall]
  /\ tries = [w \in Workers |-> 0]
  /\ sSnap = [w \in Workers |-> Absent(NoKeys)]
  /\ cSnap = [w \in Workers |-> Absent(NoEntries)]
  /\ outcome = [w \in Workers |-> "none"]
  /\ sCache = Absent(NoKeys)
  /\ cCache = Absent(NoEntries)
  /\ model = "live"
  /\ opPc = "secret"
  /\ now = 1
  /\ minted = 0
  /\ grants = {}
  /\ removed = {}
  /\ calls = 0 /\ relabels = 0 /\ deletes = 0

(***************************************************************************)
(* The key manager.                                                        *)
(***************************************************************************)
Begin(w, what) ==
  /\ pc[w] = "idle"
  /\ calls < MaxCalls
  /\ calls' = calls + 1
  /\ pc' = [pc EXCEPT ![w] = "getSecret"]
  /\ call' = [call EXCEPT ![w] = what]
  /\ tries' = [tries EXCEPT ![w] = 0]
  /\ outcome' = [outcome EXCEPT ![w] = "none"]
  /\ UNCHANGED <<storeVars, sSnap, cSnap, opVars, now, minted, grants, removed, relabels, deletes>>

\* Return from the Manager; what a finished call knew is forgotten.
Return(w, result) ==
  /\ pc' = [pc EXCEPT ![w] = "idle"]
  /\ call' = [call EXCEPT ![w] = NoCall]
  /\ tries' = [tries EXCEPT ![w] = 0]
  /\ sSnap' = [sSnap EXCEPT ![w] = Absent(NoKeys)]
  /\ cSnap' = [cSnap EXCEPT ![w] = Absent(NoEntries)]
  /\ outcome' = [outcome EXCEPT ![w] = result]

\* POST /api/keys by a user who may use the model.
CreateKey(w, user) ==
  Begin(w, Call("create", user, NoID))

\* DELETE /api/keys: the handler finds the key among the live ones and checks
\* who made it, then calls RevokeKey.
DeleteKey(w, user, id) ==
  /\ id \in liveKeys(cm)
  /\ cm.data[id].creator = user
  /\ Begin(w, Call("revoke", user, id))

\* The auditor revokes a listed key whose creator has lost access.
AuditRevoke(w, id) ==
  /\ id \in liveKeys(cm)
  /\ Begin(w, Call("revoke", NoUser, id))

getSecret(w) ==
  /\ pc[w] = "getSecret"
  /\ IF secret.exists
     THEN /\ sSnap' = [sSnap EXCEPT ![w] = secret]
          /\ pc' = [pc EXCEPT ![w] = "getConfigMap"]
          /\ UNCHANGED <<call, tries, cSnap, outcome>>
     ELSE Return(w, "error")
  /\ UNCHANGED <<storeVars, opVars, now, minted, grants, removed, bounds>>

\* revokeKeyOnce checks here that the key exists.
getConfigMap(w) ==
  /\ pc[w] = "getConfigMap"
  /\ IF ~cm.exists
     THEN Return(w, "error")
     ELSE IF call[w].op = "revoke" /\ sSnap[w].data[call[w].id] = NoKey
     THEN Return(w, "notFound")
     ELSE /\ cSnap' = [cSnap EXCEPT ![w] = cm]
          /\ pc' = [pc EXCEPT ![w] = "putSecret"]
          /\ UNCHANGED <<call, tries, sSnap, outcome>>
  /\ UNCHANGED <<storeVars, opVars, now, minted, grants, removed, bounds>>

\* Mutant: the client ID is only compared with the live keys.
FreshInSecret(w, id) ==
  OwnerOf[id] = call[w].user /\ sSnap[w].data[id] = NoKey

\* A client ID of the user's prefix that is in neither snapshot.
FreshID(w, id) ==
  /\ OwnerOf[id] = call[w].user
  /\ sSnap[w].data[id] = NoKey
  /\ ~cSnap[w].data[id].present

\* Mutant: the Secret is written without its resourceVersion.
putNewKeyBlind(w) ==
  /\ pc[w] = "putSecret" /\ call[w].op = "create" /\ secret.exists
  /\ \E id \in ClientIDs :
       /\ FreshID(w, id)
       /\ minted' = minted + 1
       /\ secret' = Written(secret, [sSnap[w].data EXCEPT ![id] = minted + 1])
       /\ call' = [call EXCEPT ![w].id = id, ![w].key = minted + 1]
  /\ pc' = [pc EXCEPT ![w] = "putConfigMap"]
  /\ UNCHANGED <<cm, tries, sSnap, cSnap, outcome, opVars, now, grants, removed, bounds>>

\* createKeyOnce: mint a credential under a fresh client ID, update the Secret.
putNewKey(w) ==
  /\ pc[w] = "putSecret" /\ call[w].op = "create"
  /\ UpToDate(secret, sSnap[w])
  /\ \E id \in ClientIDs :
       /\ FreshID(w, id)
       /\ minted' = minted + 1
       /\ secret' = Written(secret, [sSnap[w].data EXCEPT ![id] = minted + 1])
       /\ call' = [call EXCEPT ![w].id = id, ![w].key = minted + 1]
  /\ pc' = [pc EXCEPT ![w] = "putConfigMap"]
  /\ UNCHANGED <<cm, tries, sSnap, cSnap, outcome, opVars, now, grants, removed, bounds>>

\* createKeyOnce: record who minted it, return it to the caller.
putNewInfo(w) ==
  /\ pc[w] = "putConfigMap" /\ call[w].op = "create"
  /\ UpToDate(cm, cSnap[w])
  /\ cm' = Written(cm, [cSnap[w].data EXCEPT
                          ![call[w].id] = Entry(call[w].user, 0)])
  /\ grants' = grants \cup {[id |-> call[w].id, key |-> call[w].key, owner |-> call[w].user]}
  /\ Return(w, "ok")
  /\ UNCHANGED <<secret, opVars, now, minted, removed, bounds>>

\* revokeKeyOnce: take the credential out of the Secret.
dropKey(w) ==
  /\ pc[w] = "putSecret" /\ call[w].op = "revoke"
  /\ UpToDate(secret, sSnap[w])
  /\ secret' = Written(secret, [sSnap[w].data EXCEPT ![call[w].id] = NoKey])
  /\ removed' = removed \cup {[key |-> sSnap[w].data[call[w].id], at |-> now]}
  /\ pc' = [pc EXCEPT ![w] = "putConfigMap"]
  /\ UNCHANGED <<cm, call, tries, sSnap, cSnap, outcome, opVars, now, minted, grants, bounds>>

\* revokeKeyOnce: purge old tombstones, leave one that keeps the creator.
putTombstone(w) ==
  LET id == call[w].id IN
  /\ pc[w] = "putConfigMap" /\ call[w].op = "revoke"
  /\ UpToDate(cm, cSnap[w])
  /\ cm' = Written(cm,
       [i \in ClientIDs |->
          IF i = id
          THEN Entry(cSnap[w].data[id].creator, now)
          ELSE IF Expired(cSnap[w].data[i]) THEN NoEntry ELSE cSnap[w].data[i]])
  /\ Return(w, "ok")
  /\ UNCHANGED <<secret, opVars, now, minted, grants, removed, bounds>>

\* The API server answers an update with 409: the loop tries again if it
\* recognises the error and has attempts left.
Conflict(w) ==
  /\ \/ pc[w] = "putSecret" /\ Stale(secret, sSnap[w])
     \/ pc[w] = "putConfigMap" /\ Stale(cm, cSnap[w])
  /\ IF ~isConflict(ConflictText)
     THEN Return(w, "conflict")
     ELSE IF tries[w] + 1 < MaxRetries
     THEN /\ tries' = [tries EXCEPT ![w] = @ + 1]
          /\ pc' = [pc EXCEPT ![w] = "getSecret"]
          /\ UNCHANGED <<call, sSnap, cSnap, outcome>>
     ELSE Return(w, "tooManyConflicts")
  /\ UNCHANGED <<storeVars, opVars, now, minted, grants, removed, bounds>>

\* An update of an object that is gone.
Gone(w) ==
  /\ \/ pc[w] = "putSecret" /\ ~secret.exists
     \/ pc[w] = "putConfigMap" /\ ~cm.exists
  /\ Return(w, "error")
  /\ UNCHANGED <<storeVars, opVars, now, minted, grants, removed, bounds>>

\* A request cancelled, an API error, a response lost, a crash: the call ends
\* here and nothing is undone.
Fail(w) ==
  /\ MayFail
  /\ pc[w] # "idle"
  /\ Return(w, "error")
  /\ UNCHANGED <<storeVars, opVars, now, minted, grants, removed, bounds>>

(***************************************************************************)
(* The operator.  It reads both objects from its cache and writes them to  *)
(* the API server; an error ends the reconcile, which is retried from the  *)
(* start.                                                                  *)
(***************************************************************************)
SyncSecretCache ==
  /\ sCache # secret
  /\ sCache' = secret
  /\ UNCHANGED <<storeVars, workerVars, cCache, model, opPc, now, minted, grants, removed, bounds>>

SyncConfigMapCache ==
  /\ cCache # cm
  /\ cCache' = cm
  /\ UNCHANGED <<storeVars, workerVars, sCache, model, opPc, now, minted, grants, removed, bounds>>

\* Mutant: the cached copy is written whatever the API server holds now.
relabelBlind ==
  /\ model = "live" /\ opPc = "secret"
  /\ opPc' = "configMap"
  /\ \/ ~secret.exists /\ secret' = Written(secret, NoKeys) /\ UNCHANGED relabels
     \/ /\ sCache.exists /\ relabels < MaxRelabels /\ relabels' = relabels + 1
        /\ secret' = Written(secret, sCache.data)
  /\ UNCHANGED <<cm, workerVars, sCache, cCache, model, now, minted, grants, removed, calls, deletes>>

\* createOrUpdateSecret, as the API server applies it: the Secret is created,
\* or its labels change, or nothing does.
createOrUpdateSecret ==
  /\ model = "live" /\ opPc = "secret"
  /\ \/ /\ ~sCache.exists /\ ~secret.exists
        /\ secret' = Written(secret, NoKeys)
        /\ opPc' = "configMap" /\ UNCHANGED relabels
     \/ /\ sCache.exists /\ UpToDate(secret, sCache)
        /\ opPc' = "configMap"
        /\ \/ UNCHANGED <<secret, relabels>>
           \/ /\ relabels < MaxRelabels /\ relabels' = relabels + 1
              /\ secret' = Written(secret, sCache.data)
  /\ UNCHANGED <<cm, workerVars, sCache, cCache, model, now, minted, grants, removed, calls, deletes>>

createOrUpdateConfigMapPreserveData ==
  /\ opPc = "configMap"
  /\ opPc' = "secret"
  /\ \/ /\ ~cCache.exists /\ ~cm.exists
        /\ cm' = Written(cm, NoEntries)
        /\ UNCHANGED relabels
     \/ /\ cCache.exists /\ UpToDate(cm, cCache)
        /\ relabels < MaxRelabels /\ relabels' = relabels + 1
        /\ cm' = Written(cm, cCache.data)
     \/ UNCHANGED <<cm, relabels>>      \* refused, or the labels were right
  /\ UNCHANGED <<secret, workerVars, sCache, cCache, model, now, minted, grants, removed, calls, deletes>>

\* kubectl delete llmmodel: the finalizer holds the object, and a reconcile
\* under way completes before reconcileDelete runs.
DeleteModel ==
  /\ model = "live" /\ deletes < MaxDeletes
  /\ deletes' = deletes + 1
  /\ model' = "deleting"
  /\ UNCHANGED <<storeVars, workerVars, sCache, cCache, opPc, now, minted, grants, removed, calls, relabels>>

\* reconcileDelete: an object the cache does not show is not deleted.
deleteSecret ==
  /\ model = "deleting" /\ opPc = "secret"
  /\ opPc' = "deleteConfigMap"
  /\ IF sCache.exists /\ secret.exists
     THEN /\ secret' = Deleted(secret, NoKeys)
          /\ removed' = removed \cup
               {[key |-> secret.data[id], at |-> now] :
                  id \in {i \in ClientIDs : secret.data[i] # NoKey}}
     ELSE UNCHANGED <<secret, removed>>
  /\ UNCHANGED <<cm, workerVars, sCache, cCache, model, now, minted, grants, bounds>>

deleteConfigMap ==
  /\ model = "deleting" /\ opPc = "deleteConfigMap"
  /\ opPc' = "finalizer"
  /\ cm' = IF cCache.exists /\ cm.exists THEN Deleted(cm, NoEntries) ELSE cm
  /\ UNCHANGED <<secret, workerVars, sCache, cCache, model, now, minted, grants, removed, bounds>>

removeFinalizer ==
  /\ model = "deleting" /\ opPc = "finalizer"
  /\ model' = "gone" /\ opPc' = "secret"
  /\ UNCHANGED <<storeVars, workerVars, sCache, cCache, now, minted, grants, removed, bounds>>

CreateModel ==
  /\ model = "gone"
  /\ model' = "live"
  /\ UNCHANGED <<storeVars, workerVars, sCache, cCache, opPc, now, minted, grants, removed, bounds>>

\* A call is a few requests to the API server: it does not last for the 90 days
\* that a tombstone is kept.
Tick ==
  /\ now < MaxTime
  /\ \A w \in Workers : pc[w] # "idle" => now < call[w].since + Retention
  /\ now' = now + 1
  /\ UNCHANGED <<storeVars, workerVars, opVars, minted, grants, removed, bounds>>

(***************************************************************************)
(* The specification.                                                      *)
(***************************************************************************)
KeyManager(w) ==
  \/ \E user \in Users : CreateKey(w, user)
  \/ \E user \in Users, id \in ClientIDs : DeleteKey(w, user, id)
  \/ \E id \in ClientIDs : AuditRevoke(w, id)
  \/ getSecret(w)
  \/ getConfigMap(w)
  \/ putNewKey(w)
  \/ putNewInfo(w)
  \/ dropKey(w)
  \/ putTombstone(w)
  \/ Conflict(w)
  \/ Gone(w)
  \/ Fail(w)

Operator ==
  \/ SyncSecretCache
  \/ SyncConfigMapCache
  \/ createOrUpdateSecret
  \/ createOrUpdateConfigMapPreserveData
  \/ DeleteModel
  \/ deleteSecret
  \/ deleteConfigMap
  \/ removeFinalizer
  \/ CreateModel

Next ==
  \/ \E w \in Workers : KeyManager(w)
  \/ Operator
  \/ Tick

Spec == Init /\ [][Next]_vars

(***************************************************************************)
(* Properties.                                                             *)
(***************************************************************************)
\* A credential that CreateKey returned to its user stays in the Secret, under
\* its client ID and with its value, until it is revoked or its model deleted:
\* no concurrent create, revoke or label rewrite overwrites or drops it.
GrantedKeyIntact ==
  \A g \in grants : secret.data[g.id] = g.key \/ g.key \in RemovedKeys

\* A credential taken out of the Secret never comes back, although the other
\* workers and the operator write the object from copies that still hold it.
RemovedStaysRemoved ==
  \A id \in ClientIDs : secret.data[id] \notin RemovedKeys

\* A granted credential is attributable: while it is live, and for
\* RevokedKeyRetention after it was revoked, the ConfigMap names its owner.
\* (Deleting the model deletes the record.)
GrantAttributable ==
  deletes = 0 =>
    \A g \in grants :
      (\A r \in removed : r.key = g.key => now <= r.at + Retention)
        => cm.data[g.id].present /\ cm.data[g.id].creator = g.owner

\* CreateKey never mints under a client ID that the Secret or the ConfigMap
\* still knows, as live or as revoked: usage billed to that ID has one owner.
\* (A deleted model's record is gone; only the 64 random bits help then.)
NoReissue ==
  [][\A id \in ClientIDs :
       deletes = 0 /\ secret'.data[id] > minted
         => secret.data[id] = NoKey /\ ~cm.data[id].present]_vars

\* The Secret is a registry that mints a credential once and retires it for
\* good (module KeyRegistry), whatever the workers, the operator and failures do.
Registry == INSTANCE KeyRegistry WITH live <- secret.data, retired <- RemovedKeys
ImplementsRegistry == Registry!Spec

Quiescent == \A w \in Workers : pc[w] = "idle"

\* CreateKey "writes it to the Secret, and stores metadata in the ConfigMap";
\* RevokeKey "removes a key from the Secret and its metadata from the
\* ConfigMap": when no call is under way, the keys that are listed are the
\* keys that work.
SecretMatchesMetadata ==
  Quiescent => liveKeys(cm) = {id \in ClientIDs : secret.data[id] # NoKey}

\* "On conflict, retry": a caller sees "too many conflicts", never the
\* conflict of one attempt.
ConflictIsRetried == \A w \in Workers : outcome[w] # "conflict"

(***************************************************************************)
(* The inductive invariant behind GrantedKeyIntact, RemovedStaysRemoved    *)
(* and ImplementsRegistry.                                                 *)
(***************************************************************************)
\* Two copies of the Secret with one resourceVersion are one and the same.
CopyOf(snap) ==
  /\ snap.rv <= secret.rv
  /\ snap.rv = secret.rv => snap.data = secret.data

VersionsIdentify ==
  /\ secret.rv = 0 => secret.data = NoKeys
  /\ \A w \in Workers : CopyOf(sSnap[w])
  /\ CopyOf(sCache)

\* Credentials are numbered by minting, and no two client IDs share one.
KeysUnique ==
  /\ \A id \in ClientIDs : secret.data[id] <= minted
  /\ \A k \in RemovedKeys : k # NoKey /\ k <= minted
  /\ \A i, j \in ClientIDs : secret.data[i] = secret.data[j] /\ secret.data[i] # NoKey => i = j
  /\ \A g \in grants : g.key # NoKey
  /\ ~secret.exists => secret.data = NoKeys

\* A call that has started knows whom it serves; a revocation that is about
\* to write has seen the credential it takes out, and a call between its two
\* writes has a client ID.
CallsFormed ==
  \A w \in Workers :
    /\ pc[w] # "idle" /\ call[w].op = "create" => call[w].user \in Users
    /\ pc[w] # "idle" /\ call[w].op = "revoke" => call[w].id \in ClientIDs
    /\ pc[w] = "putConfigMap" => call[w].id \in ClientIDs
    /\ pc[w] = "putSecret" /\ call[w].op = "revoke" => sSnap[w].data[call[w].id] # NoKey

\* Between its two writes a create owns a credential that is in the Secret,
\* unless somebody has taken it out meanwhile.
PendingKeyIntact ==
  \A w \in Workers :
    pc[w] = "putConfigMap" /\ call[w].op = "create"
      => /\ call[w].key # NoKey
         /\ secret.data[call[w].id] = call[w].key \/ call[w].key \in RemovedKeys

SecretInv ==
  /\ TypeOK
  /\ VersionsIdentify
  /\ KeysUnique
  /\ CallsFormed
  /\ PendingKeyIntact
  /\ GrantedKeyIntact
  /\ RemovedStaysRemoved

(***************************************************************************)
(* The inductive invariant behind GrantAttributable and NoReissue, which   *)
(* rests on SecretInv.                                                     *)
(***************************************************************************)
\* Two copies of the ConfigMap with one resourceVersion are one and the same.
RecordCopyOf(snap) ==
  /\ snap.rv <= cm.rv
  /\ snap.rv = cm.rv => snap.data = cm.data

RecordVersions ==
  /\ cm.rv = 0 \/ ~cm.exists => cm.data = NoEntries
  /\ \A w \in Workers : RecordCopyOf(cSnap[w])
  /\ RecordCopyOf(cCache)

\* What is recorded of a client ID, or about to be, is whose prefix it carries.
OwnersMatch ==
  /\ \A g \in grants : g.owner = OwnerOf[g.id]
  /\ \A w \in Workers :
       pc[w] = "putConfigMap" /\ call[w].op = "create" => call[w].user = OwnerOf[call[w].id]

\* Removals are of the past, and no call is older than a tombstone gets.
TimesMatch ==
  /\ \A r \in removed : r.at <= now
  /\ \A w \in Workers : pc[w] # "idle" => call[w].since <= now /\ now <= call[w].since + Retention

\* A granted key is recorded until its tombstone, which is no older than its removal,
\* has expired.
RemovedBy(key, time) == \E r \in removed : r.key = key /\ r.at <= time
GrantRecorded(g) ==
  \/ \E r \in removed : r.key = g.key /\ now > r.at + Retention
  \/ LET info == cm.data[g.id] IN
     /\ info.present /\ info.creator = g.owner
     /\ info.revokedAt = 0 \/ RemovedBy(g.key, info.revokedAt)

\* A revocation under way is of a client ID that the ConfigMap knows: its tombstone,
\* if another call has left one, is younger than the call and so not expired.
RevokedKnown(w) ==
  pc[w] # "idle" /\ call[w].op = "revoke" =>
    LET info == cm.data[call[w].id] IN
    info.present /\ (info.revokedAt = 0 \/ info.revokedAt >= call[w].since)

\* A tombstone about to be written is for keys that have all been removed.
TombstoneDue(w) ==
  pc[w] = "putConfigMap" /\ call[w].op = "revoke" /\ cSnap[w].rv = cm.rv =>
    \A g \in grants : g.id = call[w].id => g.key \in RemovedKeys

\* An entry about to be written is for a new client ID and a key that is still there.
EntryDue(w) ==
  pc[w] = "putConfigMap" /\ call[w].op = "create" /\ cSnap[w].rv = cm.rv =>
    /\ ~cSnap[w].data[call[w].id].present
    /\ secret.data[call[w].id] = call[w].key

\* The ConfigMap was read after the Secret: a client ID that is in neither copy is in
\* neither object, if the Secret is still as it was read.
FreshDue(w) ==
  pc[w] = "putSecret" /\ call[w].op = "create" /\ sSnap[w].rv = secret.rv =>
    \A id \in ClientIDs :
      secret.data[id] = NoKey /\ ~cSnap[w].data[id].present => ~cm.data[id].present

RecordIntact ==
  /\ model = "live"
  /\ \A g \in grants : GrantRecorded(g)
  /\ \A w \in Workers : RevokedKnown(w) /\ TombstoneDue(w) /\ EntryDue(w) /\ FreshDue(w)

RecordInv == RecordVersions /\ OwnersMatch /\ TimesMatch /\ (deletes = 0 => RecordIntact)
=============================================================================
