--------------------------- MODULE IdentityLookup ---------------------------
(***************************************************************************)
(* The key-owner lookup the usage collector asks who to bill               *)
(* (key-manager/internal/identity/lookup.go).  Owners are cached for good; *)
(* a client ID that is not cached makes the handler list every key from    *)
(* the Kubernetes API, under a mutex and at least MinInterval after the    *)
(* previous read began.  A lookup that finds, once it has the mutex, that  *)
(* a read began after it arrived answers from the cache instead.           *)
(*                                                                         *)
(* The key store is the set of client IDs that have a ConfigMap entry,     *)
(* live or tombstone (module KeyStore): keys are minted into it and        *)
(* tombstones older than RevokedKeyRetention are purged from it.           *)
(***************************************************************************)
EXTENDS Naturals

CONSTANTS
  Lookups,      \* requests in flight (handler goroutines)
  ClientIDs,
  None,         \* no lookup
  MinInterval,  \* minRefreshInterval, in clock ticks
  MayFail,      \* whether listing the keys may fail
  MaxTime,      \* bound: the clock
  MaxRequests,  \* bound: requests
  MaxRestarts   \* bound: restarts of the key manager

ASSUME IdentityAssumptions ==
  /\ None \notin Lookups
  /\ ClientIDs # {}
  /\ MinInterval \in Nat
  /\ MayFail \in BOOLEAN
  /\ MaxTime \in Nat /\ MaxRequests \in Nat /\ MaxRestarts \in Nat

VARIABLES
  store,        \* client IDs in the key store
  minted,       \* client IDs ever minted: none is minted twice
  owners,       \* Handler.owners: client IDs whose owner is cached
  holder,       \* who holds refreshMu
  lastRefresh,  \* Handler.lastRefresh; 0 is the zero time
  pc,
  target,       \* the client ID each lookup asks for
  arrived,      \* when it arrived
  listed,       \* what the read in progress returned
  answer,       \* what getOwner replied
  known,        \* history: target has been in the store since arrival
  misled,       \* history: the last read begun since arrival has failed
  now, requests, restarts

lookupVars == <<pc, target, arrived, answer, known, misled>>
vars == <<store, minted, owners, holder, lastRefresh, lookupVars, listed, now, requests, restarts>>

\* The clock starts where the zero time is long past.
Epoch == MinInterval + 1

TypeOK ==
  /\ store \in SUBSET ClientIDs
  /\ minted \in SUBSET ClientIDs
  /\ owners \in SUBSET ClientIDs
  /\ holder \in Lookups \cup {None}
  /\ lastRefresh \in 0 .. now
  /\ pc \in [Lookups -> {"idle", "lock", "waiting", "reading", "filling"}]
  /\ target \in [Lookups -> ClientIDs]
  /\ arrived \in [Lookups -> Nat]
  /\ listed \in SUBSET ClientIDs
  /\ answer \in [Lookups -> {"none", "owner", "unknown", "error"}]
  /\ known \in [Lookups -> BOOLEAN]
  /\ misled \in [Lookups -> BOOLEAN]
  /\ now \in Nat
  /\ requests \in Nat
  /\ restarts \in Nat

Init ==
  /\ store = {}
  /\ minted = {}
  /\ owners = {}
  /\ holder = None
  /\ lastRefresh = 0
  /\ pc = [l \in Lookups |-> "idle"]
  /\ target = [l \in Lookups |-> CHOOSE id \in ClientIDs : TRUE]
  /\ arrived = [l \in Lookups |-> 0]
  /\ listed = {}
  /\ answer = [l \in Lookups |-> "none"]
  /\ known = [l \in Lookups |-> FALSE]
  /\ misled = [l \in Lookups |-> FALSE]
  /\ now = Epoch
  /\ requests = 0
  /\ restarts = 0

\* getOwner: 200 with the owner, 404 if it is not cached, 503 on an error.
cached(id) == IF id \in owners' THEN "owner" ELSE "unknown"

Reply(l, code) ==
  /\ pc' = [pc EXCEPT ![l] = "idle"]
  /\ answer' = [answer EXCEPT ![l] = code]
  /\ arrived' = [arrived EXCEPT ![l] = 0]
  /\ UNCHANGED <<target, known>>

(***************************************************************************)
(* owner(ctx, clientID).                                                   *)
(***************************************************************************)
getOwner(l, id) ==
  /\ pc[l] = "idle" /\ requests < MaxRequests
  /\ requests' = requests + 1
  /\ target' = [target EXCEPT ![l] = id]
  /\ known' = [known EXCEPT ![l] = id \in store]
  /\ misled' = [misled EXCEPT ![l] = FALSE]
  /\ IF id \in owners
     THEN answer' = [answer EXCEPT ![l] = "owner"] /\ UNCHANGED <<pc, arrived>>
     ELSE /\ pc' = [pc EXCEPT ![l] = "lock"]
          /\ arrived' = [arrived EXCEPT ![l] = now]
          /\ answer' = [answer EXCEPT ![l] = "none"]
  /\ UNCHANGED <<store, minted, owners, holder, lastRefresh, listed, now, restarts>>

\* Mutant: a read that began in the instant of the arrival counts too.
shareRefreshSameInstant(l) ==
  /\ pc[l] = "lock" /\ holder = None
  /\ lastRefresh >= arrived[l]
  /\ UNCHANGED owners
  /\ Reply(l, cached(target[l]))
  /\ UNCHANGED <<store, minted, holder, lastRefresh, listed, misled, now, requests, restarts>>

\* The mutex is free and a read began after this lookup arrived.
shareRefresh(l) ==
  /\ pc[l] = "lock" /\ holder = None
  /\ lastRefresh > arrived[l]
  /\ UNCHANGED owners
  /\ Reply(l, cached(target[l]))
  /\ UNCHANGED <<store, minted, holder, lastRefresh, listed, misled, now, requests, restarts>>

\* The mutex is free and this lookup must read: it takes the mutex and waits
\* for the interval to pass.
lockRefresh(l) ==
  /\ pc[l] = "lock" /\ holder = None
  /\ lastRefresh <= arrived[l]
  /\ holder' = l
  /\ pc' = [pc EXCEPT ![l] = "waiting"]
  /\ UNCHANGED <<store, minted, owners, lastRefresh, target, arrived, listed, answer, known, misled,
                 now, requests, restarts>>

\* Mutant: the wait ends a tick early.
startRefreshEarly(l) ==
  /\ pc[l] = "waiting"
  /\ now + 1 >= lastRefresh + MinInterval
  /\ lastRefresh' = now
  /\ pc' = [pc EXCEPT ![l] = "reading"]
  /\ UNCHANGED <<store, minted, owners, holder, target, arrived, listed, answer, known, misled,
                 now, requests, restarts>>

\* The interval has passed: stamp the start of the read.
startRefresh(l) ==
  /\ pc[l] = "waiting"
  /\ now >= lastRefresh + MinInterval
  /\ lastRefresh' = now
  /\ pc' = [pc EXCEPT ![l] = "reading"]
  /\ UNCHANGED <<store, minted, owners, holder, target, arrived, listed, answer, known, misled,
                 now, requests, restarts>>

\* ListAllKeysIncludingRevoked returns what the store holds at one moment.
listKeys(l) ==
  /\ pc[l] = "reading"
  /\ listed' = store
  /\ misled' = [x \in Lookups |-> misled[x] /\ pc[x] # "lock"]
  /\ pc' = [pc EXCEPT ![l] = "filling"]
  /\ UNCHANGED <<store, minted, owners, holder, lastRefresh, target, arrived, answer, known,
                 now, requests, restarts>>

\* The lookups that arrived before this read take it for one that succeeded.
Mislead ==
  misled' = [x \in Lookups |-> misled[x] \/ (pc[x] = "lock" /\ lastRefresh > arrived[x])]

\* Mutant: the error path returns without unlocking.
listFailsLocked(l) ==
  /\ MayFail
  /\ pc[l] = "reading"
  /\ Mislead
  /\ Reply(l, "error")
  /\ UNCHANGED <<store, minted, owners, holder, lastRefresh, listed, now, requests, restarts>>

\* The list fails: an error of the API server, or the request cancelled.
listFails(l) ==
  /\ MayFail
  /\ pc[l] = "reading"
  /\ holder' = None
  /\ Mislead
  /\ Reply(l, "error")
  /\ UNCHANGED <<store, minted, owners, lastRefresh, listed, now, requests, restarts>>

\* The request is cancelled while it waits for the interval to pass.
cancelWait(l) ==
  /\ pc[l] = "waiting"
  /\ now < lastRefresh + MinInterval
  /\ holder' = None
  /\ Reply(l, "error")
  /\ UNCHANGED <<store, minted, owners, lastRefresh, listed, misled, now, requests, restarts>>

fillOwners(l) ==
  /\ pc[l] = "filling"
  /\ owners' = owners \cup listed
  /\ listed' = {}
  /\ holder' = None
  /\ Reply(l, cached(target[l]))
  /\ UNCHANGED <<store, minted, lastRefresh, misled, now, requests, restarts>>

(***************************************************************************)
(* The environment.                                                        *)
(***************************************************************************)
Mint(id) ==
  /\ id \notin minted
  /\ minted' = minted \cup {id}
  /\ store' = store \cup {id}
  /\ UNCHANGED <<owners, holder, lastRefresh, lookupVars, listed, now, requests, restarts>>

Purge(id) ==
  /\ id \in store
  /\ store' = store \ {id}
  /\ known' = [l \in Lookups |-> known[l] /\ target[l] # id]
  /\ UNCHANGED <<minted, owners, holder, lastRefresh, pc, target, arrived, listed, answer,
                 misled, now, requests, restarts>>

\* The key manager restarts: its memory and the requests in flight are gone.
Restart ==
  /\ restarts < MaxRestarts
  /\ restarts' = restarts + 1
  /\ owners' = {} /\ holder' = None /\ lastRefresh' = 0 /\ listed' = {}
  /\ pc' = [l \in Lookups |-> "idle"]
  /\ arrived' = [l \in Lookups |-> 0]
  /\ answer' = [l \in Lookups |-> IF pc[l] = "idle" THEN answer[l] ELSE "error"]
  /\ UNCHANGED <<store, minted, target, known, misled, now, requests>>

\* The bound never stops the clock for a lookup that waits on it.
Tick ==
  /\ \/ now < MaxTime
     \/ \E l \in Lookups : pc[l] = "waiting" /\ now < lastRefresh + MinInterval
  /\ now' = now + 1
  /\ UNCHANGED <<store, minted, owners, holder, lastRefresh, lookupVars, listed, requests, restarts>>

Lookup(l) ==
  \/ \E id \in ClientIDs : getOwner(l, id)
  \/ shareRefresh(l)
  \/ lockRefresh(l)
  \/ startRefresh(l)
  \/ listKeys(l)
  \/ listFails(l)
  \/ cancelWait(l)
  \/ fillOwners(l)

Next ==
  \/ \E l \in Lookups : Lookup(l)
  \/ \E id \in ClientIDs : Mint(id) \/ Purge(id)
  \/ Restart
  \/ Tick

Spec == Init /\ [][Next]_vars

\* A goroutine that can run does run; Go's Mutex hands itself to a waiter that
\* has starved (strong fairness for taking it); time passes; and a list call
\* ends, well or badly.  Nothing makes a client hang up (cancelWait).
Fairness ==
  /\ WF_vars(Tick)
  /\ \A l \in Lookups :
       /\ SF_vars(shareRefresh(l) \/ lockRefresh(l))
       /\ WF_vars(startRefresh(l))
       /\ WF_vars(listKeys(l) \/ listFails(l))
       /\ WF_vars(fillOwners(l))

FairSpec == Spec /\ Fairness

(***************************************************************************)
(* Properties.                                                             *)
(***************************************************************************)
\* A 404 is an answer: the collector then bills the key itself.  It is given
\* only for a key that was not in the store throughout the lookup.  The one
\* exception is a lookup that shares a read that failed.
UnknownIsTruthful ==
  \A l \in Lookups : answer[l] = "unknown" /\ ~misled[l] => ~known[l]

\* The same without the exception: a lookup that shares a read answers from
\* the cache because "the key store was read after this lookup arrived".
SharedReadHappened ==
  \A l \in Lookups : answer[l] = "unknown" => ~known[l]

\* One goroutine reads at a time, holding the mutex, and reads begin at least
\* MinInterval apart, whatever fails, is cancelled or arrives meanwhile.
ReadsSpaced ==
  [][lastRefresh' \notin {lastRefresh, 0} =>
       /\ lastRefresh' >= lastRefresh + MinInterval
       /\ \A l \in Lookups : pc[l] \notin {"reading", "filling"}]_vars

\* Every lookup is answered: no error path keeps the mutex.
EveryLookupAnswered ==
  \A l \in Lookups : pc[l] = "lock" ~> pc[l] = "idle"

(***************************************************************************)
(* The inductive invariant behind UnknownIsTruthful.                       *)
(***************************************************************************)
\* The mutex is held by the lookup that waits, reads or fills, and only then.
MutexHeld ==
  /\ \A l \in Lookups : pc[l] \in {"waiting", "reading", "filling"} <=> holder = l
  /\ listed # {} => \E l \in Lookups : pc[l] = "filling"
  /\ lastRefresh <= now

Unanswered == \A l \in Lookups : pc[l] # "idle" => answer[l] = "none"

KnownInStore == \A l \in Lookups : known[l] => target[l] \in store

\* What a queued lookup asks for is in the cache, or in the list about to be
\* put there, as soon as a read that began after it arrived has listed, unless
\* a later one has failed.
QueueCovered ==
  \A l \in Lookups :
    pc[l] = "lock" /\ known[l] /\ ~misled[l] /\ lastRefresh > arrived[l]
      => (\E r \in Lookups : pc[r] = "reading") \/ target[l] \in owners \cup listed

ReaderCovered ==
  \A l \in Lookups : pc[l] = "filling" /\ known[l] => target[l] \in owners \cup listed

LookupInv ==
  /\ TypeOK
  /\ MutexHeld
  /\ Unanswered
  /\ KnownInStore
  /\ QueueCovered
  /\ ReaderCovered
  /\ UnknownIsTruthful
=============================================================================
