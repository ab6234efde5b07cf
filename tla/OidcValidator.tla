--------------------------- MODULE OidcValidator ----------------------------
(***************************************************************************)
(* The OIDC token validator shared by the key manager and the usage        *)
(* console (shared/oidc/validator.go), as far as its cache of the          *)
(* provider's signing keys goes.                                           *)
(*                                                                         *)
(* A background goroutine fetches the key set until it has one, then       *)
(* refreshes it on a ticker.  A token whose kid is not cached triggers a   *)
(* fetch too, at most one per cooldown.  Both run inside one singleflight  *)
(* call, which concurrent callers share; the cooldown is tested inside it. *)
(* A fetch is several steps: the provider answers with the keys of that    *)
(* moment, the cache is replaced, fetchFailed is stored, the callers are   *)
(* released.  A request reads the cache and fetchFailed in separate steps. *)
(*                                                                         *)
(* Signature, expiry, issuer and client checks come after the key is found *)
(* and depend on the token alone; a token here is its kid.                 *)
(***************************************************************************)
EXTENDS Naturals, FiniteSets

CONSTANTS
  Requests,      \* request goroutines
  Kids,          \* key IDs, published or forged
  FirstKid,      \* the key the provider signs with at first
  NoKid,
  Cooldown,      \* unknownKIDCooldown, in ticks
  FetchTimeout,  \* the 10s timeout of one fetch, in ticks
  MaxAttempts,   \* retryMaxAttempts
  MaxTime,       \* bound: the clock
  MayStop        \* whether the process may shut down

ASSUME OidcAssumptions ==
  /\ FirstKid \in Kids /\ NoKid \notin Kids
  /\ Cooldown \in Nat \ {0} /\ FetchTimeout \in Nat /\ FetchTimeout < Cooldown
  /\ MaxAttempts \in Nat \ {0}
  /\ MaxTime \in Nat
  /\ MayStop \in BOOLEAN

VARIABLES
  \* the provider
  published,      \* kids in its JWKS
  publishedAt,    \* when each was added
  up,             \* whether it answers, and with at least one valid key
  \* the Validator
  publicKeys,     \* kids in the cache
  ready, fetchFailed,
  lastKIDRefresh, \* 0 is never
  stopped,        \* stopCh closed and baseCtx cancelled
  bg,             \* where the background goroutine is
  attempts,       \* active attempts of initialFetch so far
  \* the fetch in progress: a singleflight call, or the initial one
  stage, kind, since, answerKeys, fetchOk,
  asked,          \* history: when the last fetch for a request began
  \* requests
  pc, kid, cancelled, outcome,
  seasoned,       \* history: the kid had been published for a cooldown on arrival
  raced,          \* history: whether the cache was replaced between recheck and flag
  now

provVars   == <<published, publishedAt, up>>
fetchVars  == <<stage, kind, since, answerKeys, fetchOk>>
cacheVars  == <<publicKeys, ready, fetchFailed, lastKIDRefresh, asked>>
bgVars     == <<stopped, bg, attempts>>
reqVars    == <<pc, kid, cancelled, outcome, seasoned, raced>>
vars == <<provVars, fetchVars, cacheVars, bgVars, reqVars, now>>

TypeOK ==
  /\ published \in SUBSET Kids /\ published # {}
  /\ publishedAt \in [Kids -> Nat]
  /\ up \in BOOLEAN
  /\ publicKeys \in SUBSET Kids
  /\ ready \in BOOLEAN /\ fetchFailed \in BOOLEAN /\ stopped \in BOOLEAN
  /\ lastKIDRefresh \in Nat /\ asked \in Nat
  /\ bg \in {"active", "slow", "fetching", "ticking", "waiting", "done"}
  /\ attempts \in 0 .. MaxAttempts
  /\ stage \in {"none", "gate", "fetch", "store", "flag"}
  /\ kind \in {"initial", "refresh", "unknownKID"}
  /\ since \in Nat
  /\ answerKeys \in SUBSET Kids
  /\ fetchOk \in BOOLEAN
  /\ pc \in [Requests -> {"idle", "miss", "wait", "recheck", "flag"}]
  /\ kid \in [Requests -> Kids \cup {NoKid}]
  /\ seasoned \in [Requests -> BOOLEAN]
  /\ cancelled \in [Requests -> BOOLEAN]
  /\ raced \in [Requests -> BOOLEAN]
  /\ outcome \in [Requests -> {"none", "valid", "notReady", "unavailable", "unknown"}]
  /\ now \in Nat

\* New: nothing cached, the background goroutine about to fetch.
Init ==
  /\ published = {FirstKid}
  /\ publishedAt = [k \in Kids |-> 0]
  /\ up \in BOOLEAN
  /\ publicKeys = {}
  /\ ready = FALSE /\ fetchFailed = FALSE /\ stopped = FALSE
  /\ lastKIDRefresh = 0 /\ asked = 0
  /\ bg = "active"
  /\ attempts = 0
  /\ stage = "none" /\ kind = "initial" /\ since = 0 /\ answerKeys = {} /\ fetchOk = FALSE
  /\ pc = [r \in Requests |-> "idle"]
  /\ kid = [r \in Requests |-> NoKid]
  /\ seasoned = [r \in Requests |-> FALSE]
  /\ cancelled = [r \in Requests |-> FALSE]
  /\ raced = [r \in Requests |-> FALSE]
  /\ outcome = [r \in Requests |-> "none"]
  /\ now = 1

(***************************************************************************)
(* The provider.                                                           *)
(***************************************************************************)
\* A new key is published; the old ones stay or are withdrawn.
Rotate(k) ==
  /\ k # FirstKid /\ publishedAt[k] = 0
  /\ published' \in {published \cup {k}, {k}}
  /\ publishedAt' = [publishedAt EXCEPT ![k] = now]
  /\ UNCHANGED <<up, fetchVars, cacheVars, bgVars, reqVars, now>>

GoDown ==
  /\ up
  /\ up' = FALSE
  /\ UNCHANGED <<published, publishedAt, fetchVars, cacheVars, bgVars, reqVars, now>>

ComeUp ==
  /\ ~up
  /\ up' = TRUE
  /\ UNCHANGED <<published, publishedAt, fetchVars, cacheVars, bgVars, reqVars, now>>

(***************************************************************************)
(* fetchPublicKeys.                                                        *)
(***************************************************************************)
Launch(why) ==
  /\ stage' = "gate"
  /\ kind' = why
  /\ UNCHANGED <<since, answerKeys, fetchOk>>

InCooldown == lastKIDRefresh # 0 /\ now - lastKIDRefresh < Cooldown

\* The callers of the singleflight call that is in progress get its result.
Release ==
  /\ stage' = "none" /\ kind' = "refresh" /\ since' = 0 /\ fetchOk' = FALSE
  /\ pc' = [r \in Requests |-> IF pc[r] = "wait" THEN "recheck" ELSE pc[r]]
  /\ UNCHANGED <<answerKeys, kid, cancelled, outcome, seasoned, raced>>

\* Mutant: a fetch that will fail does not start the cooldown.
beginFetchUnstamped ==
  /\ stage = "gate"
  /\ ~(kind = "unknownKID" /\ InCooldown)
  /\ stage' = "fetch" /\ since' = now
  /\ lastKIDRefresh' = IF kind = "unknownKID" /\ up THEN now ELSE lastKIDRefresh
  /\ asked' = IF kind = "unknownKID" THEN now ELSE asked
  /\ UNCHANGED <<provVars, kind, answerKeys, fetchOk, publicKeys, ready, fetchFailed, bgVars,
                 reqVars, now>>

\* The callback begins: an unknown-kid refresh tests and stamps the cooldown.
beginFetch ==
  /\ stage = "gate"
  /\ ~(kind = "unknownKID" /\ InCooldown)
  /\ stage' = "fetch" /\ since' = now
  /\ lastKIDRefresh' = IF kind = "unknownKID" THEN now ELSE lastKIDRefresh
  /\ asked' = IF kind = "unknownKID" THEN now ELSE asked
  /\ UNCHANGED <<provVars, kind, answerKeys, fetchOk, publicKeys, ready, fetchFailed, bgVars,
                 reqVars, now>>

\* Mutant: a suppressed refresh starts the cooldown anew.
suppressFetchRestamped ==
  /\ stage = "gate"
  /\ kind = "unknownKID" /\ InCooldown
  /\ lastKIDRefresh' = now
  /\ Release
  /\ bg' = IF bg = "waiting" THEN "ticking" ELSE bg
  /\ UNCHANGED <<provVars, publicKeys, ready, fetchFailed, asked, stopped, attempts, now>>

suppressFetch ==
  /\ stage = "gate"
  /\ kind = "unknownKID" /\ InCooldown
  /\ Release
  /\ bg' = IF bg = "waiting" THEN "ticking" ELSE bg
  /\ UNCHANGED <<provVars, cacheVars, stopped, attempts, now>>

\* The provider answers with the keys it publishes at that moment.
keysAnswered ==
  /\ stage = "fetch" /\ up /\ ~stopped
  /\ answerKeys' = published
  /\ stage' = "store"
  /\ UNCHANGED <<provVars, kind, since, fetchOk, cacheVars, bgVars, reqVars, now>>

\* Mutants: the cache is replaced before the answer is found bad; the fetch has
\* no timeout.
fetchErrorEmpties ==
  /\ stage = "fetch" /\ (~up \/ stopped)
  /\ publicKeys' = {}
  /\ fetchOk' = FALSE
  /\ stage' = "flag"
  /\ UNCHANGED <<provVars, kind, since, answerKeys, ready, fetchFailed, lastKIDRefresh, asked,
                 bgVars, reqVars, now>>
fetchErrorOnStop ==
  /\ stage = "fetch" /\ stopped
  /\ fetchOk' = FALSE
  /\ stage' = "flag"
  /\ UNCHANGED <<provVars, kind, since, answerKeys, cacheVars, bgVars, reqVars, now>>

\* No connection, a bad status or body, a timeout, or baseCtx cancelled.
fetchError ==
  /\ stage = "fetch" /\ (~up \/ stopped)
  /\ fetchOk' = FALSE
  /\ stage' = "flag"
  /\ UNCHANGED <<provVars, kind, since, answerKeys, cacheVars, bgVars, reqVars, now>>

storeKeys ==
  /\ stage = "store"
  /\ publicKeys' = answerKeys
  /\ answerKeys' = {}
  /\ fetchOk' = TRUE
  /\ stage' = "flag"
  /\ raced' = [r \in Requests |-> raced[r] \/ pc[r] = "flag"]
  /\ UNCHANGED <<provVars, kind, since, ready, fetchFailed, lastKIDRefresh, asked, bgVars,
                 pc, kid, cancelled, outcome, seasoned, now>>

\* Mutant: the initial fetch gives up when its attempts are spent.
returnFetchGivesUp ==
  /\ stage = "flag"
  /\ fetchFailed' = ~fetchOk
  /\ Release
  /\ IF kind = "initial"
     THEN /\ ready' = fetchOk
          /\ attempts' = IF fetchOk THEN 0 ELSE attempts + 1
          /\ bg' = IF fetchOk THEN "ticking"
                   ELSE IF attempts' < MaxAttempts THEN "active" ELSE "done"
     ELSE /\ bg' = IF bg = "waiting" THEN "ticking" ELSE bg
          /\ UNCHANGED <<ready, attempts>>
  /\ UNCHANGED <<provVars, publicKeys, lastKIDRefresh, asked, stopped, now>>

\* The deferred store of fetchFailed, and the return to the callers.  What the
\* background goroutine does with the result of its initial fetch is part of it.
returnFetch ==
  /\ stage = "flag"
  /\ fetchFailed' = ~fetchOk
  /\ Release
  /\ IF kind = "initial"
     THEN /\ ready' = fetchOk
          /\ attempts' = IF fetchOk THEN 0 ELSE IF attempts = MaxAttempts THEN attempts ELSE attempts + 1
          /\ bg' = IF fetchOk THEN "ticking"
                   ELSE IF attempts' < MaxAttempts THEN "active" ELSE "slow"
     ELSE /\ bg' = IF bg = "waiting" THEN "ticking" ELSE bg
          /\ UNCHANGED <<ready, attempts>>
  /\ UNCHANGED <<provVars, publicKeys, lastKIDRefresh, asked, stopped, now>>

(***************************************************************************)
(* The background goroutine: initLoop.                                     *)
(***************************************************************************)
\* initialFetch calls fetchPublicKeys directly: an active attempt after its
\* backoff, or a slow poll.
initialFetch ==
  /\ bg = "slow" \/ (bg = "active" /\ ~stopped)
  /\ bg' = "fetching"
  /\ Launch("initial")
  /\ UNCHANGED <<provVars, cacheVars, stopped, attempts, reqVars, now>>

\* refreshLoop's ticker: start a singleflight call, or join the one in progress.
refreshKeys ==
  /\ bg = "ticking"
  /\ bg' = "waiting"
  /\ IF stage = "none" THEN Launch("refresh") ELSE UNCHANGED fetchVars
  /\ UNCHANGED <<provVars, cacheVars, stopped, attempts, reqVars, now>>

\* Stop closes stopCh and cancels baseCtx ...
Stop ==
  /\ MayStop /\ ~stopped
  /\ stopped' = TRUE
  /\ UNCHANGED <<provVars, fetchVars, cacheVars, bg, attempts, reqVars, now>>

\* ... and waits for the goroutine, which sees it at its next select.
exitLoop ==
  /\ stopped
  /\ bg \in {"active", "slow", "ticking", "waiting"}
  /\ bg' = "done"
  /\ UNCHANGED <<provVars, fetchVars, cacheVars, stopped, attempts, reqVars, now>>

(***************************************************************************)
(* ValidateToken.                                                          *)
(***************************************************************************)
\* Only a rejected request keeps what the properties ask about it.
Answer(r, what) ==
  /\ pc' = [pc EXCEPT ![r] = "idle"]
  /\ outcome' = [outcome EXCEPT ![r] = what]
  /\ IF what = "unknown"
     THEN UNCHANGED <<kid, seasoned, cancelled, raced>>
     ELSE /\ kid' = [kid EXCEPT ![r] = NoKid]
          /\ seasoned' = [seasoned EXCEPT ![r] = FALSE]
          /\ cancelled' = [cancelled EXCEPT ![r] = FALSE]
          /\ raced' = [raced EXCEPT ![r] = FALSE]

\* The provider has published k for the whole cooldown.
Seasoned(k) == k \in published /\ publishedAt[k] + Cooldown <= now

ValidateToken(r, k) ==
  /\ pc[r] = "idle"
  /\ IF ~ready THEN Answer(r, "notReady")
     ELSE IF k \in publicKeys THEN Answer(r, "valid")
     ELSE /\ pc' = [pc EXCEPT ![r] = "miss"]
          /\ outcome' = [outcome EXCEPT ![r] = "none"]
          /\ kid' = [kid EXCEPT ![r] = k]
          /\ seasoned' = [seasoned EXCEPT ![r] = Seasoned(k)]
          /\ cancelled' = [cancelled EXCEPT ![r] = FALSE]
          /\ raced' = [raced EXCEPT ![r] = FALSE]
  /\ UNCHANGED <<provVars, fetchVars, cacheVars, bgVars, now>>

\* Start a singleflight call, or join the one in progress.
refreshForUnknownKID(r) ==
  /\ pc[r] = "miss"
  /\ pc' = [pc EXCEPT ![r] = "wait"]
  /\ IF stage = "none" THEN Launch("unknownKID") ELSE UNCHANGED fetchVars
  /\ UNCHANGED <<provVars, cacheVars, bgVars, kid, cancelled, outcome, seasoned, raced, now>>

\* The client hangs up; the fetch goes on for the others.
cancelRequest(r) ==
  /\ pc[r] = "wait"
  /\ pc' = [pc EXCEPT ![r] = "recheck"]
  /\ cancelled' = [cancelled EXCEPT ![r] = TRUE]
  /\ UNCHANGED <<provVars, fetchVars, cacheVars, bgVars, kid, outcome, seasoned, raced, now>>

recheckCache(r) ==
  /\ pc[r] = "recheck"
  /\ IF kid[r] \in publicKeys
     THEN Answer(r, "valid")
     ELSE /\ pc' = [pc EXCEPT ![r] = "flag"]
          /\ UNCHANGED <<kid, cancelled, outcome, seasoned, raced>>
  /\ UNCHANGED <<provVars, fetchVars, cacheVars, bgVars, now>>

\* 503 if the last fetch failed, else 401.
checkFetchFailed(r) ==
  /\ pc[r] = "flag"
  /\ Answer(r, IF fetchFailed THEN "unavailable" ELSE "unknown")
  /\ UNCHANGED <<provVars, fetchVars, cacheVars, bgVars, now>>

\* A fetch takes at most FetchTimeout.
Tick ==
  /\ now < MaxTime
  /\ stage \in {"fetch", "store", "flag"} => now < since + FetchTimeout
  /\ now' = now + 1
  /\ UNCHANGED <<provVars, fetchVars, cacheVars, bgVars, reqVars>>

Fetch == beginFetch \/ suppressFetch \/ keysAnswered \/ fetchError \/ storeKeys \/ returnFetch

Request(r) ==
  \/ \E k \in Kids : ValidateToken(r, k)
  \/ refreshForUnknownKID(r)
  \/ cancelRequest(r)
  \/ recheckCache(r)
  \/ checkFetchFailed(r)

Next ==
  \/ \E k \in Kids : Rotate(k)
  \/ GoDown \/ ComeUp
  \/ Fetch
  \/ initialFetch \/ refreshKeys \/ Stop \/ exitLoop
  \/ \E r \in Requests : Request(r)
  \/ Tick

Spec == Init /\ [][Next]_vars

\* Goroutines run, the timers fire, a fetch ends within its timeout, and a
\* select whose cases are ready again and again takes each of them.  A tick of
\* the refresh ticker that lands on a suppressed call in progress is lost; not
\* every tick does.
Fairness ==
  /\ WF_vars(Fetch)
  /\ WF_vars(initialFetch)
  /\ WF_vars(refreshKeys)
  /\ SF_vars(stage = "none" /\ refreshKeys)
  /\ SF_vars(exitLoop)
  /\ \A r \in Requests :
       WF_vars(refreshForUnknownKID(r) \/ recheckCache(r) \/ checkFetchFailed(r))

FairSpec == Spec /\ Fairness

(***************************************************************************)
(* Properties.                                                             *)
(***************************************************************************)
\* A key the provider had published for the whole cooldown when the request
\* arrived, and has not withdrawn since.
LongPublished(r) == seasoned[r] /\ kid[r] \in published

\* A rotation is accepted within the cooldown: after that its tokens are
\* served, or answered 503 in an outage, never 401 as if they were forged.
\* The one exception is a refresh that replaces the cache between the
\* request's reading the cache and its reading fetchFailed.
RotationDelayBounded ==
  \A r \in Requests :
    outcome[r] = "unknown" /\ ~cancelled[r] /\ ~raced[r] => ~LongPublished(r)

\* Once ready, the validator always has keys to check tokens with: failed
\* refreshes never empty the cache.
ReadyHasKeys == ready => publicKeys # {}

\* Tokens with unknown kids cost the provider at most one fetch per cooldown,
\* whatever they carry, however they interleave and whether or not it answers.
FetchesBounded ==
  [][stage = "gate" /\ stage' = "fetch" /\ kind = "unknownKID" /\ asked # 0
       => now >= asked + Cooldown]_vars

\* The validator comes online however long the provider fails at first, and
\* once it is up for good holds exactly the keys the provider publishes.
KeysConverge == <>[]up => <>[](stopped \/ (ready /\ publicKeys = published))

\* Every request that missed the cache is answered.
EveryRequestAnswered == \A r \in Requests : pc[r] = "miss" ~> pc[r] = "idle"

\* Stop returns: the background goroutine ends wherever it was.
StopReturns == stopped ~> bg = "done"

\* Nobody is left waiting for the shared fetch, whichever of them started it and
\* whether it fails, hangs until its timeout, or is suppressed by the cooldown.
CallsReturn == EveryRequestAnswered /\ StopReturns

(***************************************************************************)
(* The inductive invariant behind the safety properties.                   *)
(***************************************************************************)
InFlight == stage \in {"fetch", "store", "flag"}

\* The initial fetch and the singleflight calls never overlap.
Phases ==
  IF ready
  THEN bg \in {"ticking", "waiting", "done"} /\ (stage # "none" => kind # "initial")
  ELSE /\ \A r \in Requests : pc[r] = "idle"
       /\ bg \in {"active", "slow", "fetching", "done"}
       /\ stage # "none" => bg = "fetching" /\ kind = "initial"

\* Every key but the first has a stamp, stamps lie in the past, and a fetch is
\* younger than its timeout.
Stamps ==
  /\ now # 0 /\ \A k \in published : k = FirstKid \/ publishedAt[k] # 0
  /\ lastKIDRefresh = asked /\ asked <= now
  /\ InFlight => since <= now /\ now <= since + FetchTimeout /\ lastKIDRefresh <= since

\* ks has every key that is published still and was so before t.
Covers(ks, t) == \A k \in published : publishedAt[k] < t => k \in ks

\* An answer, a finished fetch and, unless it failed, the last fetch of all.
CacheCovers ==
  /\ stage = "store" => answerKeys # {} /\ Covers(answerKeys, since)
  /\ stage = "flag" /\ fetchOk => publicKeys # {} /\ Covers(publicKeys, since)
  /\ ~InFlight => fetchFailed \/ Covers(publicKeys, lastKIDRefresh)

\* A seasoned kid is not published a second time; a request that waited for a
\* fetch finds it in the cache, or finds fetchFailed.
RequestSound(r) ==
  /\ seasoned[r] =>
       /\ kid[r] \in Kids /\ (kid[r] = FirstKid \/ publishedAt[kid[r]] # 0)
       /\ publishedAt[kid[r]] + Cooldown <= now
  /\ LongPublished(r) /\ ~cancelled[r] =>
       /\ pc[r] = "recheck" => fetchFailed \/ kid[r] \in publicKeys
       /\ pc[r] = "flag" /\ ~raced[r] => fetchFailed /\ ~(stage = "flag" /\ fetchOk)

OidcInv ==
  /\ TypeOK
  /\ Phases
  /\ Stamps
  /\ CacheCovers
  /\ ReadyHasKeys
  /\ \A r \in Requests : RequestSound(r)
  /\ RotationDelayBounded
=============================================================================
