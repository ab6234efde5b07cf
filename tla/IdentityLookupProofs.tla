------------------------ MODULE IdentityLookupProofs ------------------------
(* Proofs about IdentityLookup, for any number of lookups, client IDs and  *)
(* clock ticks.                                                            *)
EXTENDS IdentityLookup, TLAPS

\* At first no lookup is under way and nothing is cached.
LEMMA LookupInit == Init => LookupInv
<1>1. (CHOOSE id \in ClientIDs : TRUE) \in ClientIDs
  BY IdentityAssumptions
<1> QED
  BY <1>1, IdentityAssumptions
  DEF Init, LookupInv, TypeOK, MutexHeld, Unanswered, KnownInStore, QueueCovered, ReaderCovered,
      UnknownIsTruthful, Epoch

\* Every step of a lookup keeps the types.
LEMMA LookupType ==
  ASSUME TypeOK, [Next]_vars
  PROVE  TypeOK'
<1> USE IdentityAssumptions DEF TypeOK
<1>1. ASSUME NEW l \in Lookups, NEW id \in ClientIDs, getOwner(l, id) PROVE TypeOK'
  BY <1>1 DEF getOwner
<1>2. ASSUME NEW l \in Lookups, shareRefresh(l) PROVE TypeOK'
  BY <1>2 DEF shareRefresh, Reply, cached
<1>3. ASSUME NEW l \in Lookups, lockRefresh(l) PROVE TypeOK'
  BY <1>3 DEF lockRefresh
<1>4. ASSUME NEW l \in Lookups, startRefresh(l) PROVE TypeOK'
  BY <1>4 DEF startRefresh
<1>5. ASSUME NEW l \in Lookups, listKeys(l) PROVE TypeOK'
  BY <1>5 DEF listKeys
<1>6. ASSUME NEW l \in Lookups, listFails(l) \/ cancelWait(l) PROVE TypeOK'
  BY <1>6 DEF listFails, cancelWait, Mislead, Reply
<1>7. ASSUME NEW l \in Lookups, fillOwners(l) PROVE TypeOK'
  BY <1>7 DEF fillOwners, Reply, cached
<1>8. ASSUME NEW id \in ClientIDs, Mint(id) \/ Purge(id) PROVE TypeOK'
  BY <1>8 DEF Mint, Purge, lookupVars
<1>9. CASE Restart
  BY <1>9 DEF Restart
<1>10. CASE Tick
  BY <1>10 DEF Tick, lookupVars
<1>11. CASE UNCHANGED vars
  BY <1>11 DEF vars, lookupVars
<1> QED
  BY <1>1, <1>2, <1>3, <1>4, <1>5, <1>6, <1>7, <1>8, <1>9, <1>10, <1>11 DEF Next, Lookup

\* Every step keeps the invariant.
LEMMA LookupStep ==
  ASSUME LookupInv, [Next]_vars
  PROVE  LookupInv'
<1>t. TypeOK /\ TypeOK'
  BY LookupType DEF LookupInv
<1> USE <1>t, IdentityAssumptions
    DEF LookupInv, MutexHeld, Unanswered, KnownInStore, QueueCovered, ReaderCovered, UnknownIsTruthful
<1>1. ASSUME NEW l \in Lookups, NEW id \in ClientIDs, getOwner(l, id) PROVE LookupInv'
  <2>1. \A x \in Lookups : x # l =>
          /\ pc'[x] = pc[x] /\ target'[x] = target[x] /\ arrived'[x] = arrived[x]
          /\ answer'[x] = answer[x] /\ known'[x] = known[x] /\ misled'[x] = misled[x]
    BY <1>1 DEF getOwner, TypeOK
  <2>2. /\ target'[l] = id /\ known'[l] = (id \in store) /\ answer'[l] # "unknown"
        /\ pc[l] = "idle" /\ pc'[l] \in {"idle", "lock"}
        /\ pc'[l] = "lock" => arrived'[l] = now /\ answer'[l] = "none"
    BY <1>1 DEF getOwner, TypeOK
  <2>3. UNCHANGED <<store, owners, holder, lastRefresh, listed, now>>
    BY <1>1 DEF getOwner
  <2> QED BY <2>1, <2>2, <2>3 DEF TypeOK
<1>2. ASSUME NEW l \in Lookups, shareRefresh(l) PROVE LookupInv'
  BY <1>2 DEF shareRefresh, Reply, cached, TypeOK
<1>3. ASSUME NEW l \in Lookups, lockRefresh(l) PROVE LookupInv'
  BY <1>3 DEF lockRefresh, TypeOK
<1>4. ASSUME NEW l \in Lookups, startRefresh(l) PROVE LookupInv'
  BY <1>4 DEF startRefresh, TypeOK
<1>5. ASSUME NEW l \in Lookups, listKeys(l) PROVE LookupInv'
  BY <1>5 DEF listKeys, TypeOK
<1>6. ASSUME NEW l \in Lookups, cancelWait(l) PROVE LookupInv'
  BY <1>6 DEF cancelWait, Reply, TypeOK
<1>12. ASSUME NEW l \in Lookups, listFails(l) PROVE LookupInv'
  BY <1>12 DEF listFails, Mislead, Reply, TypeOK
<1>7. ASSUME NEW l \in Lookups, fillOwners(l) PROVE LookupInv'
  BY <1>7 DEF fillOwners, Reply, cached, TypeOK
<1>8. ASSUME NEW id \in ClientIDs, Mint(id) \/ Purge(id) PROVE LookupInv'
  BY <1>8 DEF Mint, Purge, lookupVars, TypeOK
<1>9. CASE Restart
  BY <1>9 DEF Restart, TypeOK
<1>10. CASE Tick
  BY <1>10 DEF Tick, lookupVars, TypeOK
<1>11. CASE UNCHANGED vars
  BY <1>11 DEF vars, lookupVars
<1> QED
  BY <1>1, <1>2, <1>3, <1>4, <1>5, <1>6, <1>7, <1>8, <1>9, <1>10, <1>11, <1>12
  DEF Next, Lookup

\* A lookup answers 404 only for a key that was not in the key store throughout
\* the lookup, or after sharing a read that failed: sharing another lookup's
\* read, the rate limit, cancelled waits and restarts never turn a recorded
\* key into an unknown one.
THEOREM UnknownAnswersAreTrue == Spec => []UnknownIsTruthful
<1>1. LookupInv /\ [Next]_vars => LookupInv'
  BY LookupStep
<1>2. LookupInv => UnknownIsTruthful
  BY DEF LookupInv
<1> QED BY <1>1, <1>2, LookupInit, PTL DEF Spec

\* The cache, the stamp and every lookup keep their types; a stamp is never ahead
\* of the clock, whatever reads fail or restarts come.
THEOREM LookupTypeCorrect == Spec => []TypeOK
<1>1. LookupInv /\ [Next]_vars => LookupInv'
  BY LookupStep
<1>2. LookupInv => TypeOK
  BY DEF LookupInv
<1> QED BY <1>1, <1>2, LookupInit, PTL DEF Spec

\* Reads of the key store begin at least MinInterval apart and never while one is
\* under way, for any number of lookups: a failed list, a cancelled wait, or a
\* lookup that arrives meanwhile never opens a way past the mutex and the stamp.
THEOREM ReadsAreSpaced == Spec => ReadsSpaced
<1> DEFINE Spaced ==
      lastRefresh' \notin {lastRefresh, 0} =>
        /\ lastRefresh' >= lastRefresh + MinInterval
        /\ \A l \in Lookups : pc[l] \notin {"reading", "filling"}
<1>1. LookupInv /\ [Next]_vars => LookupInv'
  BY LookupStep
<1>2. ASSUME LookupInv, [Next]_vars PROVE Spaced
  <2>1. ASSUME NEW l \in Lookups, startRefresh(l) PROVE Spaced
    <3>1. lastRefresh' >= lastRefresh + MinInterval /\ pc[l] = "waiting"
      BY <2>1 DEF startRefresh
    <3>2. \A x \in Lookups : pc[x] \in {"waiting", "reading", "filling"} => x = l
      BY <1>2, <3>1 DEF LookupInv, MutexHeld
    <3> QED BY <3>1, <3>2
  <2>2. CASE lastRefresh' \in {lastRefresh, 0}
    BY <2>2
  <2>3. CASE \A l \in Lookups : ~startRefresh(l)
    <3>1. lastRefresh' \in {lastRefresh, 0}
      BY <1>2, <2>3 DEF Next, Lookup, getOwner, shareRefresh, lockRefresh, listKeys, listFails,
                        cancelWait, fillOwners, Mint, Purge, Restart, Tick, vars
    <3> QED BY <3>1
  <2> QED BY <2>1, <2>3
<1>3. LookupInv /\ [Next]_vars => [Spaced]_vars
  BY <1>2
<1> QED BY <1>1, <1>3, LookupInit, PTL DEF Spec, ReadsSpaced
=============================================================================
