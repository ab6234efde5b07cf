------------------------ MODULE OidcValidatorProofs -------------------------
(* Proofs about OidcValidator, for any number of requests and key IDs, any *)
(* cooldown longer than a fetch, and any clock.                            *)
EXTENDS OidcValidator, TLAPS

\* At first nothing is cached, asked for or under way.
LEMMA OidcInit == Init => OidcInv
<1> SUFFICES ASSUME Init PROVE OidcInv
  OBVIOUS
<1> USE OidcAssumptions DEF Init
<1>1. TypeOK
  <2>1. published \in SUBSET Kids /\ published # {} /\ publishedAt \in [Kids -> Nat] /\ up \in BOOLEAN
    OBVIOUS
  <2>2. /\ pc \in [Requests -> {"idle", "miss", "wait", "recheck", "flag"}]
        /\ kid \in [Requests -> Kids \cup {NoKid}]
        /\ outcome \in [Requests -> {"none", "valid", "notReady", "unavailable", "unknown"}]
    OBVIOUS
  <2>3. /\ seasoned \in [Requests -> BOOLEAN] /\ cancelled \in [Requests -> BOOLEAN]
        /\ raced \in [Requests -> BOOLEAN]
    OBVIOUS
  <2>4. attempts \in 0 .. MaxAttempts /\ now \in Nat
    OBVIOUS
  <2> QED BY <2>1, <2>2, <2>3, <2>4 DEF TypeOK
<1>2. Phases /\ Stamps /\ CacheCovers /\ ReadyHasKeys
  BY DEF Phases, Stamps, InFlight, CacheCovers, Covers, ReadyHasKeys
<1>3. RotationDelayBounded /\ \A r \in Requests : RequestSound(r)
  BY DEF RotationDelayBounded, RequestSound, LongPublished
<1> QED BY <1>1, <1>2, <1>3 DEF OidcInv

\* Every step keeps the types.
LEMMA OidcType ==
  ASSUME TypeOK, [Next]_vars
  PROVE  TypeOK'
<1> USE OidcAssumptions DEF TypeOK, provVars, fetchVars, cacheVars, bgVars, reqVars
<1>1. ASSUME NEW k \in Kids, Rotate(k) PROVE TypeOK'
  BY <1>1 DEF Rotate
<1>2. CASE GoDown
  <2>1. up' \in BOOLEAN /\ UNCHANGED <<published, publishedAt, fetchVars, cacheVars, bgVars, reqVars, now>>
    BY <1>2 DEF GoDown
  <2> QED BY <2>1
<1>3. CASE ComeUp
  BY <1>3 DEF ComeUp
<1>4. CASE beginFetch
  BY <1>4 DEF beginFetch
<1>5. CASE suppressFetch
  BY <1>5 DEF suppressFetch, Release
<1>6. CASE keysAnswered \/ fetchError
  <2>1. /\ answerKeys' \in SUBSET Kids /\ fetchOk' \in BOOLEAN /\ stage' \in {"store", "flag"}
        /\ UNCHANGED <<provVars, kind, since, cacheVars, bgVars, reqVars, now>>
    BY <1>6 DEF keysAnswered, fetchError
  <2> QED BY <2>1
<1>7. CASE storeKeys
  BY <1>7 DEF storeKeys
<1>8. CASE returnFetch
  <2>1. fetchFailed' \in BOOLEAN /\ ready' \in BOOLEAN
    BY <1>8 DEF returnFetch
  <2>2. attempts' \in 0 .. MaxAttempts
    BY <1>8 DEF returnFetch
  <2>3. bg' \in {"active", "slow", "fetching", "ticking", "waiting", "done"}
    BY <1>8 DEF returnFetch
  <2> QED BY <1>8, <2>1, <2>2, <2>3 DEF returnFetch, Release
<1>9. CASE initialFetch \/ refreshKeys
  BY <1>9 DEF initialFetch, refreshKeys, Launch
<1>10. CASE Stop
  BY <1>10 DEF Stop
<1>11. CASE exitLoop
  BY <1>11 DEF exitLoop
<1>a. ASSUME NEW r \in Requests, NEW what \in {"valid", "notReady", "unavailable", "unknown"},
             Answer(r, what), UNCHANGED <<provVars, fetchVars, cacheVars, bgVars, now>>
      PROVE  TypeOK'
  <2>1. /\ pc' \in [Requests -> {"idle", "miss", "wait", "recheck", "flag"}]
        /\ outcome' \in [Requests -> {"none", "valid", "notReady", "unavailable", "unknown"}]
    BY <1>a DEF Answer
  <2>2. /\ kid' \in [Requests -> Kids \cup {NoKid}] /\ seasoned' \in [Requests -> BOOLEAN]
        /\ cancelled' \in [Requests -> BOOLEAN] /\ raced' \in [Requests -> BOOLEAN]
    <3>1. CASE what = "unknown"
      BY <1>a, <3>1 DEF Answer
    <3>2. CASE what # "unknown"
      BY <1>a, <3>2 DEF Answer
    <3> QED BY <3>1, <3>2
  <2> QED BY <1>a, <2>1, <2>2
<1>12. ASSUME NEW r \in Requests, NEW k \in Kids, ValidateToken(r, k) PROVE TypeOK'
  <2>1. CASE ~ready \/ k \in publicKeys
    BY <1>12, <1>a, <2>1 DEF ValidateToken
  <2>2. CASE ~(~ready \/ k \in publicKeys)
    <3>1. Seasoned(k) \in BOOLEAN
      BY DEF Seasoned
    <3>2. /\ pc' = [pc EXCEPT ![r] = "miss"]
          /\ outcome' = [outcome EXCEPT ![r] = "none"]
          /\ kid' = [kid EXCEPT ![r] = k]
          /\ seasoned' = [seasoned EXCEPT ![r] = Seasoned(k)]
          /\ cancelled' = [cancelled EXCEPT ![r] = FALSE]
          /\ raced' = [raced EXCEPT ![r] = FALSE]
          /\ UNCHANGED <<provVars, fetchVars, cacheVars, bgVars, now>>
      BY <1>12, <2>2 DEF ValidateToken
    <3> QED BY <3>1, <3>2
  <2> QED BY <2>1, <2>2
<1>13. ASSUME NEW r \in Requests, refreshForUnknownKID(r) PROVE TypeOK'
  BY <1>13 DEF refreshForUnknownKID, Launch
<1>14. ASSUME NEW r \in Requests, cancelRequest(r) PROVE TypeOK'
  BY <1>14 DEF cancelRequest
<1>15. ASSUME NEW r \in Requests, recheckCache(r) PROVE TypeOK'
  <2>1. CASE kid[r] \in publicKeys
    BY <1>15, <1>a, <2>1 DEF recheckCache
  <2>2. CASE kid[r] \notin publicKeys
    BY <1>15, <2>2 DEF recheckCache
  <2> QED BY <2>1, <2>2
<1>16. ASSUME NEW r \in Requests, checkFetchFailed(r) PROVE TypeOK'
  <2>1. PICK what \in {"unavailable", "unknown"} :
          Answer(r, what) /\ UNCHANGED <<provVars, fetchVars, cacheVars, bgVars, now>>
    BY <1>16 DEF checkFetchFailed
  <2> QED BY <1>a, <2>1
<1>17. CASE Tick
  BY <1>17 DEF Tick
<1>18. CASE UNCHANGED vars
  BY <1>18 DEF vars
<1> QED
  BY <1>1, <1>2, <1>3, <1>4, <1>5, <1>6, <1>7, <1>8, <1>9, <1>10, <1>11, <1>12, <1>13, <1>14,
     <1>15, <1>16, <1>17, <1>18
  DEF Next, Fetch, Request

\* Every step keeps the invariant.
LEMMA OidcStep ==
  ASSUME OidcInv, [Next]_vars
  PROVE  OidcInv'
<1>t. TypeOK /\ TypeOK'
  BY OidcType DEF OidcInv
<1> USE <1>t, OidcAssumptions
    DEF OidcInv, Phases, Stamps, InFlight, CacheCovers, Covers, ReadyHasKeys,
        RequestSound, LongPublished, RotationDelayBounded
<1>1. ASSUME NEW k \in Kids, Rotate(k) PROVE OidcInv'
  BY <1>1 DEF Rotate, TypeOK, fetchVars, cacheVars, bgVars, reqVars
<1>2. CASE GoDown \/ ComeUp
  <2>1. UNCHANGED <<published, publishedAt, fetchVars, cacheVars, bgVars, reqVars, now>>
    BY <1>2 DEF GoDown, ComeUp
  <2> QED BY <2>1 DEF fetchVars, cacheVars, bgVars, reqVars
<1>3. CASE beginFetch
  BY <1>3 DEF beginFetch, TypeOK, provVars, bgVars, reqVars
<1>4. CASE suppressFetch
  BY <1>4 DEF suppressFetch, Release, InCooldown, TypeOK, provVars, cacheVars
<1>5. CASE keysAnswered
  BY <1>5 DEF keysAnswered, TypeOK, provVars, cacheVars, bgVars, reqVars
<1>6. CASE fetchError
  BY <1>6 DEF fetchError, TypeOK, provVars, cacheVars, bgVars, reqVars
<1>7. CASE storeKeys
  BY <1>7 DEF storeKeys, TypeOK, provVars, bgVars
<1>8. CASE returnFetch
  <2>1. /\ stage = "flag" /\ stage' = "none" /\ fetchFailed' = ~fetchOk
        /\ UNCHANGED <<published, publishedAt, publicKeys, lastKIDRefresh, asked, now,
                       kid, cancelled, outcome, seasoned, raced>>
    BY <1>8 DEF returnFetch, Release, provVars
  <2>2. \A r \in Requests : pc'[r] = IF pc[r] = "wait" THEN "recheck" ELSE pc[r]
    BY <1>8 DEF returnFetch, Release
  <2>3. Phases' /\ ReadyHasKeys'
    <3>1. CASE kind = "initial"
      <4>1. ~ready /\ \A r \in Requests : pc[r] = "idle"
        BY <2>1, <3>1
      <4>2. ready' = fetchOk /\ bg' = IF fetchOk THEN "ticking"
                                      ELSE IF attempts' < MaxAttempts THEN "active" ELSE "slow"
        BY <1>8, <3>1 DEF returnFetch
      <4> QED BY <2>1, <2>2, <4>1, <4>2
    <3>2. CASE kind # "initial"
      <4>1. ready /\ ready' = ready /\ bg' \in {"ticking", "waiting", "done"}
        BY <1>8, <2>1, <3>2 DEF returnFetch
      <4> QED BY <2>1, <4>1
    <3> QED BY <3>1, <3>2
  <2>4. Stamps'
    BY <2>1
  <2>5. CacheCovers'
    <3>1. ASSUME fetchOk, NEW k \in published, publishedAt[k] < lastKIDRefresh
          PROVE  k \in publicKeys
      <4>1. publishedAt[k] < since
        BY <2>1, <3>1 DEF TypeOK
      <4> QED BY <2>1, <3>1, <4>1
    <3> QED BY <2>1, <3>1
  <2>6. ASSUME NEW r \in Requests PROVE RequestSound(r)'
    <3>1. seasoned[r] /\ kid[r] \in published => publishedAt[kid[r]] < since
      BY <2>1 DEF TypeOK
    <3>2. LongPublished(r) /\ fetchOk => kid[r] \in publicKeys
      BY <2>1, <3>1
    <3> QED BY <2>1, <2>2, <3>2 DEF TypeOK
  <2>7. RotationDelayBounded'
    BY <2>1
  <2> QED BY <2>3, <2>4, <2>5, <2>6, <2>7
<1>9. CASE initialFetch
  BY <1>9 DEF initialFetch, Launch, TypeOK, provVars, cacheVars, reqVars
<1>10. CASE refreshKeys
  <2>1. /\ bg = "ticking" /\ bg' = "waiting" /\ ready
        /\ UNCHANGED <<provVars, cacheVars, reqVars, since, answerKeys, fetchOk, now>>
    BY <1>10 DEF refreshKeys, Launch, fetchVars
  <2>2. \/ stage = "none" /\ stage' = "gate" /\ kind' = "refresh"
        \/ UNCHANGED <<stage, kind>>
    BY <1>10 DEF refreshKeys, Launch, fetchVars
  <2> QED BY <2>1, <2>2 DEF provVars, cacheVars, reqVars
<1>11. CASE Stop \/ exitLoop
  <2>1. bg' = bg \/ (bg # "fetching" /\ bg' = "done")
    BY <1>11 DEF Stop, exitLoop
  <2>2. UNCHANGED <<provVars, fetchVars, cacheVars, reqVars, now>>
    BY <1>11 DEF Stop, exitLoop
  <2> QED BY <2>1, <2>2 DEF provVars, fetchVars, cacheVars, reqVars
<1>12. ASSUME NEW r \in Requests, NEW k \in Kids, ValidateToken(r, k) PROVE OidcInv'
  <2>1. UNCHANGED <<provVars, fetchVars, cacheVars, bgVars, now>>
    BY <1>12 DEF ValidateToken
  <2>2. ASSUME NEW x \in Requests, x # r
        PROVE  /\ pc'[x] = pc[x] /\ kid'[x] = kid[x] /\ seasoned'[x] = seasoned[x]
               /\ cancelled'[x] = cancelled[x] /\ raced'[x] = raced[x] /\ outcome'[x] = outcome[x]
    BY <1>12, <2>2 DEF ValidateToken, Answer, TypeOK
  <2>3. outcome'[r] # "unknown" /\ pc'[r] \in {"idle", "miss"} /\ (~ready => pc'[r] = "idle")
    BY <1>12 DEF ValidateToken, Answer, TypeOK
  <2>4. seasoned'[r] =>
          /\ kid'[r] \in Kids /\ (kid'[r] = FirstKid \/ publishedAt[kid'[r]] # 0)
          /\ publishedAt[kid'[r]] + Cooldown <= now
    <3>1. CASE pc'[r] = "miss"
      <4>1. kid'[r] = k /\ seasoned'[r] = Seasoned(k)
        BY <1>12, <3>1 DEF ValidateToken, Answer, TypeOK
      <4> QED BY <4>1 DEF Seasoned, TypeOK
    <3>2. CASE pc'[r] # "miss"
      <4>1. Answer(r, "notReady") \/ Answer(r, "valid")
        BY <1>12, <3>2 DEF ValidateToken, TypeOK
      <4>2. seasoned' = [seasoned EXCEPT ![r] = FALSE]
        BY <4>1 DEF Answer
      <4> QED BY <4>2 DEF TypeOK
    <3> QED BY <3>1, <3>2
  <2>5. Phases' /\ Stamps' /\ CacheCovers' /\ ReadyHasKeys'
    BY <2>1, <2>2, <2>3 DEF provVars, fetchVars, cacheVars, bgVars
  <2>6. ASSUME NEW x \in Requests PROVE RequestSound(x)'
    BY <2>1, <2>2, <2>3, <2>4 DEF provVars, fetchVars, cacheVars
  <2>7. RotationDelayBounded'
    BY <2>1, <2>2, <2>3 DEF provVars
  <2> QED BY <2>5, <2>6, <2>7
<1>13. ASSUME NEW r \in Requests, refreshForUnknownKID(r) PROVE OidcInv'
  <2>1. /\ pc[r] = "miss" /\ pc' = [pc EXCEPT ![r] = "wait"]
        /\ UNCHANGED <<provVars, cacheVars, bgVars, kid, cancelled, outcome, seasoned, raced,
                       since, answerKeys, fetchOk, now>>
    BY <1>13 DEF refreshForUnknownKID, Launch, fetchVars
  <2>2. \/ stage = "none" /\ stage' = "gate" /\ kind' = "unknownKID"
        \/ UNCHANGED <<stage, kind>>
    BY <1>13 DEF refreshForUnknownKID, Launch, fetchVars
  <2>3. ready
    BY <2>1
  <2>4. \A x \in Requests : pc'[x] = pc[x] \/ pc'[x] = "wait"
    BY <2>1 DEF TypeOK
  <2> QED BY <2>1, <2>2, <2>3, <2>4 DEF provVars, cacheVars, bgVars
<1>14. ASSUME NEW r \in Requests, cancelRequest(r) PROVE OidcInv'
  BY <1>14 DEF cancelRequest, TypeOK, provVars, fetchVars, cacheVars, bgVars
<1>15. ASSUME NEW r \in Requests, recheckCache(r) PROVE OidcInv'
  BY <1>15 DEF recheckCache, Answer, TypeOK, provVars, fetchVars, cacheVars, bgVars
<1>16. ASSUME NEW r \in Requests, checkFetchFailed(r) PROVE OidcInv'
  BY <1>16 DEF checkFetchFailed, Answer, TypeOK, provVars, fetchVars, cacheVars, bgVars
<1>17. CASE Tick
  BY <1>17 DEF Tick, TypeOK, provVars, fetchVars, cacheVars, bgVars, reqVars
<1>18. CASE UNCHANGED vars
  BY <1>18 DEF vars, provVars, fetchVars, cacheVars, bgVars, reqVars
<1> QED
  BY <1>1, <1>2, <1>3, <1>4, <1>5, <1>6, <1>7, <1>8, <1>9, <1>10, <1>11, <1>12, <1>13, <1>14,
     <1>15, <1>16, <1>17, <1>18
  DEF Next, Fetch, Request

\* Every reachable state is well typed, the attempts of the initial fetch
\* within their bound: the slow polls that follow are not counted.
THEOREM OidcTypeCorrect == Spec => []TypeOK
<1>1. OidcInv /\ [Next]_vars => OidcInv'
  BY OidcStep
<1>2. OidcInv => TypeOK
  BY DEF OidcInv
<1> QED BY <1>1, <1>2, OidcInit, PTL DEF Spec

\* A validator that has become ready is never without keys: a fetch that fails,
\* at whatever point, leaves those it had.
THEOREM ReadyStaysUsable == Spec => []ReadyHasKeys
<1>1. OidcInv /\ [Next]_vars => OidcInv'
  BY OidcStep
<1>2. OidcInv => ReadyHasKeys
  BY DEF OidcInv
<1> QED BY <1>1, <1>2, OidcInit, PTL DEF Spec

\* A rotated key is accepted within the cooldown: ValidateToken never reports as
\* forged a token whose key was published for a cooldown when it came in, with
\* the two exceptions the property names.
THEOREM RotationIsFollowed == Spec => []RotationDelayBounded
<1>1. OidcInv /\ [Next]_vars => OidcInv'
  BY OidcStep
<1>2. OidcInv => RotationDelayBounded
  BY DEF OidcInv
<1> QED BY <1>1, <1>2, OidcInit, PTL DEF Spec

\* refreshForUnknownKID sends the provider at most one fetch per cooldown,
\* however many requests carry unknown kids and whether or not it answers.
THEOREM UnknownKidsAreRateLimited == Spec => FetchesBounded
<1>1. OidcInv /\ [Next]_vars => OidcInv'
  BY OidcStep
<1>2. ASSUME OidcInv, [Next]_vars
      PROVE  [stage = "gate" /\ stage' = "fetch" /\ kind = "unknownKID" /\ asked # 0
                => now >= asked + Cooldown]_vars
  BY <1>2, OidcAssumptions
  DEF OidcInv, TypeOK, Stamps, InCooldown, Next, Fetch, Request, Rotate, GoDown, ComeUp,
      beginFetch, suppressFetch, keysAnswered, fetchError, storeKeys, returnFetch, Release,
      initialFetch, refreshKeys, Launch, Stop, exitLoop, ValidateToken, refreshForUnknownKID,
      cancelRequest, recheckCache, checkFetchFailed, Tick, fetchVars
<1> QED BY <1>1, <1>2, OidcInit, PTL DEF Spec, FetchesBounded
=============================================================================
