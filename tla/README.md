# A TLA+ verification project for llm-serving-pack

The pack turns a Kubernetes cluster with an Envoy AI Gateway into a multi-tenant
LLM service: an operator reconciles model resources into deployments and
authenticated endpoints, a key manager lets users mint API keys for the models
their groups allow, and a billing side attributes every request to the user who
minted the key. Two web clients show all this: the key manager's page, and a
usage console with a live list of requests and the spend behind them.

On the server side the state lives in Kubernetes objects that several programs
read and write at once, in caches that lag those objects, and in a few
in-memory caches with clocks; what is modelled is the order of the API calls of
one program, interleaved with the calls of the others, with conflicts, failures
and restarts between them. In the browser it lives in lists and views that
answers, polls and event streams fill in any order, in the address, in storage
shared between tabs, and in dialogs; what is modelled is every order in which
those can arrive between the user's gestures.

Paths below are relative to `src/`.

Contents:

1. The system: parts, state, interactions, what is hard
2. The modules and how they follow the code
3. The runs: questions, bounds, fairness
4. Disagreements between the code and what it says of itself
5. What is proved
6. What is only model-checked, and what is not modelled
7. Plan
8. Running everything

## 1. The system

### Components

| Component | State it keeps | Operations | What makes it correct |
|---|---|---|---|
| **API key store** `key-manager/internal/secrets/manager.go` | per model: Secret `<model>-api-keys` (client ID -> credential) and ConfigMap `<model>-api-key-metadata` (client ID -> creator, created, revokedAt), both in the API server | `CreateKey`, `RevokeKey` (get, get, update, update; retried on conflict), `ListKeys`, `ListAllKeysIncludingRevoked` | no write undoes another; a revoked key stays revoked; every key has an owner for as long as its usage may be billed; a client ID is never reissued |
| **HTTP handlers** `key-manager/internal/api/handler.go` | none (read the watcher's list) | create, delete, list keys | a user only revokes keys of their own |
| **Auditor** `key-manager/internal/audit/auditor.go` | none | periodic `RunOnce`: revoke keys whose creator lost access | runs concurrently with the handlers on the same store |
| **Model watcher** `key-manager/internal/models/watcher.go` | list of models and their groups, replaced every 30 s | `Sync` | bounded staleness |
| **Key-owner lookup** `key-manager/internal/identity/lookup.go` | `owners` cache, `lastRefresh`, `refreshMu` | `GET owner` for the usage collector | never says "unknown" of a key that exists; reads of the key store are bounded; nobody waits for ever |
| **Customer sync** `key-manager/internal/openmeter/customers.go` | OpenMeter customers and their subject keys | periodic `Sync` | every key owner has one customer |
| **OIDC validator** `shared/oidc/validator.go` (key manager and usage console) | cached signing keys, `ready`, `fetchFailed`, `lastKIDRefresh`, a singleflight group, a background goroutine | `ValidateToken`, periodic refresh, `Stop` | rotations are followed, outages told apart from forgeries, the provider is not flooded, shutdown terminates |
| **LLMModel reconciler** `operator/internal/controller/llmmodel_controller.go` with `apikeys.go`, `securitypolicy_status.go` | Kubernetes objects, informer caches, work queue | `Reconcile`, `reconcileDelete` | endpoints are guarded, policies follow the keys, keys survive relabelling |
| **PassthroughModel reconciler** `operator/internal/controller/passthroughmodel_controller.go`, `passthroughmodel_endpoints.go` | the same, for models served by an external provider | `applyAll`, `removeEndpoint`, `reconcileDelete` | the same; turning an endpoint off never exposes the upstream |
| **Object builders** `operator/internal/controller/reconcilers/*.go` | none | pure functions from a spec to an object | (their effect is part of the two reconcilers) |
| **Cluster TLS and listener policies** `clustertls_singleton.go`, `listener_headers.go` | a Gateway shared with other controllers, Certificates, per-listener policies | resync pass and policy watch, under one mutex | keeps the listeners of others; header policies follow those of others; listeners name a granted Secret |
| **Admission webhooks** `operator/internal/webhook/v1alpha1` | none (list the other kind) | validate create/update | a LLMModel and a PassthroughModel never share a name |
| **openmeter-setup** `openmeter-setup/internal/openmeter/bootstrap.go` | OpenMeter meters, features, customers; one Secret | one-shot job, may be rerun | idempotent from every point of interruption |
| **Usage collector** `charts/nebari-llm-serving/files/usage-collector.yaml` | Benthos buffers | asks the key-owner lookup, sends events to OpenMeter | bills to an owner or keeps the event |
| **Usage console server** `usage-console/server` | event stream cursors | queries, polling stream | no event lost without saying so |
| **Traffic feed** `usage-console/console/src/state/traffic-feed.ts`, `pages/traffic.tsx` | rows of the query, paging flags, the tab's event stream and its queue, a held view | first page, older pages, batches, change of query, reload, pause | no receipt twice or against the filters; a quiet list is the server's; what is left out is said; only newcomers move rows |
| **Live rows** `state/app-state.tsx` (class `ReceiptStream`) | live rows, copies by id, both capped | batches, remembered pages, the demo's simulation | a receipt is one row, settles in place, and is counted once |
| **Shell** `state/app-state.tsx`, `components/shell`, `components/gw/receipt-drawer.tsx` | address and history, saved range, palette | links, filters, range, open receipt, Back | a link opens what it was copied from; one source of truth for the range |
| **Polling pages** `state/live.ts`, `pages/overview.tsx`, `spend.tsx`, `spend-data.ts`, `keys.tsx`, `lib/csv.ts`, `components/gw/charts.tsx` | one polled state per hook | choice of range and dimension, drill-down, export | figures are of the choice on the screen and reconcile; links lead to what they were made from |
| **Notifications** `components/ui/toast.tsx` | Base UI's items | add, update, promise, dismiss | an action stays until it is used and never traps the user |
| **Key manager page** `frontend/src` | session, query cache, dialogs | list, create, revoke | a submit mints once, a new key is shown, the list catches up |
| **Appearance** `use-theme-preference.ts` (both clients), `frontend/src/app/config.ts` | theme in storage and memory, branding | choose, follow the system, mount | the page looks as was chosen, from the first paint on; no unsafe branding value |
| Widgets, charts, downloader, dev tools | - | - | presentation, templates, stand-ins |

### Interactions

```
 users --HTTP--> key manager --get/update--> Secret, ConfigMap <--cache/update-- operator
                  |   ^                          |                                 |
   OIDC validator-+   | owner?                   | informer                        | SecurityPolicy,
   (JWKS over HTTP)   |                          v                                v AIGatewayRoute
               usage collector             client IDs, pool of Secrets ----> gateway --> HTTPRoute
```

- The key manager and the operator write the same Secret and ConfigMap. The
  key manager reads them with an uncached client; the operator reads an
  informer cache and updates the labels of what it read. The API server's
  optimistic concurrency (an update carries the `resourceVersion` that was read)
  is the only synchronisation.
- The operator turns the Secrets of *all* models into the SecurityPolicy of
  *each* model: the listener authenticates any key in the pool, and the policy's
  allow-list of client IDs says which of them open this model. So one model's
  mint or revocation is an event for every model.
- The gateway generates the served HTTPRoute from the AIGatewayRoute on its own
  time, and deletes it on its own time.
- The usage collector asks the key-owner lookup who owns a client ID; a 404 is
  taken as an answer, a 503 is retried.
- The usage console's tab has one event stream. Traffic narrows it to its
  filters while it is shown, which is why the live rows of the other pages miss
  what it leaves out; every page's receipts are remembered in one map, from which
  the receipt drawer reads. The pages talk to each other through addresses only.
- The key manager's page polls nothing: its list is read again after each of
  its own mutations.

### What is hard here

Two writes to two objects with nothing that makes them one; retries that
recognise a conflict by its text; informer caches behind by any amount;
a `want` read once at the start of a reconcile; garbage collection in any
order; singleflight calls joined halfway; a cooldown tested inside a shared
call; a mutex held across a wait and an API call; shutdown while a fetch runs.
In the browser: three sources of one list that race (first page, older page,
stream), answers to a question no longer asked, mutations whose answer is the
only copy of a secret, patches merged onto items that earlier patches made,
amounts that are folded, rounded, partly without a price, and must still add up.
PROJECT.json lists every such hazard at its line with the property that covers
it, or the reason none does yet.

## 2. The modules and how they follow the code

A step of a model is one call to the API server (or one critical section)
together with the local computation before it, because that is what other
programs can observe. Definitions keep the code's names; each file says in
comments what it leaves out. Definitions marked `Mutant` next to an action are
plausible wrong versions of it, used to check that each property would notice.

**KeyStore** (`MCKeyStore`, `KeyStoreProofs`). `secret` and `cm` are the two
objects, with a version and whether they exist. A worker is a goroutine of the
key manager; its `pc` walks `getSecret`, `getConfigMap`, `putSecret`,
`putConfigMap`, the four calls of `createKeyOnce`/`revokeKeyOnce`. `sSnap` and
`cSnap` are the copies it works on, `tries` the loop counter, `outcome` what it
returned. `Conflict` is the API server's 409 followed by the loop's decision;
whether `isConflict` recognises it is decided by `ConflictText`, the phrases of
the error message. `Fail` is an API error, a lost response's timeout or a crash
at any point: nothing is undone. A credential is a number in order of minting
(256 random bits do not repeat); the random part of a *client ID* is not taken
to be fresh, since the code has a loop for it (`FreshID`). The operator's part
is `createOrUpdateSecret`, `createOrUpdateConfigMapPreserveData` and
`reconcileDelete`, each from caches that catch up only in `SyncSecretCache` and
`SyncConfigMapCache`. A write refused to the operator (AlreadyExists, conflict,
NotFound) ends its reconcile and changes nothing; for the Secret it is therefore
no step at all, for the ConfigMap it is the step back to the start of the loop.

**KeyRegistry** is what the Secret promises, in four definitions: a client ID
holds at most one credential, a credential is put there once and taken away for
good. `KeyStore` implements it with `live <- secret.data` and
`retired <- RemovedKeys`.

**IdentityLookup** (`MCIdentityLookup`, `IdentityLookupProofs`). One record of
state per request: `lock` (queued on `refreshMu`), `waiting` (holding it until
`minRefreshInterval` has passed), `reading`, `filling`. `startRefresh` stamps
`lastRefresh`; `shareRefresh` is the early return of a lookup that finds a read
began after it arrived. `Mint` and `Purge` move the key store underneath;
`listFails`, `cancelWait` and `Restart` are the failures. History: `known` (the
key has been in the store since the lookup arrived) and `misled` (the latest
read begun since then failed).

**OidcValidator** (`OidcValidatorProofs`; run as it is). `bg` is the background goroutine
(`initLoop`: active attempts, slow polling, then `refreshLoop`); `stage` and `kind` are the
one fetch that can be in progress, split where another goroutine can see the difference:
cooldown test and stamp (`beginFetch` / `suppressFetch`, which returns to its callers in the
same step), the provider's answer, `storeKeys`, and the deferred store of `fetchFailed` with
the release of the callers (`returnFetch`). A request reads the cache, misses, starts or
joins a fetch, rechecks, then reads `fetchFailed`, each in a step of its own. A token is its
`kid`: the other checks depend on the token alone. The provider rotates, withdraws, goes
down and comes up.

**EndpointAuth** (`MCEndpointAuth`, `EndpointAuthProofs`). Both reconcilers for
a set of models of each kind, one reconcile per kind at a time as
controller-runtime runs them. `Reconcile` reads the spec once (`want`), then
one step per call: client IDs from the cache, the pool from the cache, the
Secret, then policy-then-route (LLMModel) or route-then-policy
(PassthroughModel), or `removeEndpoint`. `SyncCache` is the informer together
with the watch that enqueues every model of both kinds. The gateway
(`GenerateHTTPRoute`) and the garbage collector (`CollectRoute`,
`CollectPolicy`) are external. `uid` tells the lives of a name apart, since what
a deleted life controlled may still be there when the next begins.
Each call of `removeEndpoint` is a step (`getRoute`, `deleteRoute`, `getHTTPRoute`,
`getPolicy`, `deletePolicy`): the gateway, the collector, edits, deletions and
failed calls come between any two of them. A deleted AIGatewayRoute is there until
the gateway lets it go (`deleting`, `RouteTerminates`). Whether the deployment is
up, and in which phase the route is written nevertheless (pending, error), is a
choice (`awaitServing`, `reconcileRoutingResources`). One flag, `crds`, stands for the
separate CRDs of routes and policies.

**SharedGateway** (`MCSharedGateway`, `SharedGatewayProofs`). `holder` is the mutex of
`ClusterTLSSingleton`, taken by the resync pass (`startPass`) or by the watch on
ClientTrafficPolicies (`startWatch`); `pc` and `at` say which call comes next and for which
of the two listeners. `ensureSource` and `ensureReferenceGrant` are a Get and a write of
objects nobody else writes. For each listener `listPolicies` decides on the operator's
policy (`plan`: none beside somebody's own policy for the listener, else a copy of the
Gateway-wide policy that applies; it stands for a Get of the Gateway, of which only name and
labels are used, and a List of the policies) and `applyPolicy` writes it; then `getGateway`
reads the Gateway (`snap`) and `updateGateway` writes the merged copy, if its version is
still current. `policyFails` and `passFails` are the two error paths, `Restart` a crash
anywhere followed by a start with any configuration. Others create, retarget and delete
policies, delete the operator's, and write the Gateway, keeping or dropping the shared
listeners. `look` is history: whether the operator has looked at the header policies since
the last change only a resync would notice. All these objects are unstructured, which the
client does not read from its cache.

**TrafficFeed** (`MCTrafficFeed`, `TrafficFeedProofs`). `feed` is `useApiFeed`'s state for `query`;
`first` and `older` are the two requests, each read by the server in one step
(`FirstRead`, `OlderRead`) and answered in another (`firstAnswered`,
`olderAnswered`, or failed). `stream` is the tab's EventSource with the filters
the server applies, `wire` the events under way, `queue` those the flush timer
waits for. `setFilter`, `leavePage` and `reload` are the effect's cleanup and its
next run, with untail, tail and the microtask between them (`retail`). A
receipt's copy is its id and how far it was; times, filters and windows come
from the constants. The server's steps follow the Go code of
`usage-console/server/internal/openmeter`: `Answers` and `Stops` are a page of
`receipts.go`, with its window, limit and scan cap, of the filters of `filter.go`;
`StreamReady` and `ReceiptChanges` are what the hub of `stream.go` polls: a baseline,
then every receipt that is new or has changed, a notice when it could not keep up,
and without a word the loss of a receipt that is older than what it reads
(`streamWindow`) or settled before all of its tokens were in. Only sampling is external:
the console's protocol has it, and no server of the repository sends it.
`noteSampled` and `startLoad` are the two effects of a load in their order; the
note names the load it is of, so a new load starts without the old one's.
`holes` is history: the ways in which this load of the list
may have come to miss a row. Each is a branch of the code, and `ListIsExact` says
that there is no other. Sorting and filtering are written as functions over
positions (`Ranked` and `RowsAt` of the small module *Lists*, which SpendView and
ReceiptRows use too, and `Filtered`) and not with the recursive operators of the
community modules, so that the proofs reach them.

**WebClients** (`MCWebClients`, `WebClientsProofs`) composes six modules that share no state, and
follows one of them per behaviour (`part`): the others wait at their start. It
exists so that one run checks them all.

- *KeyPortal*: `calls` holds the three requests that can be on their way
  together (list, create, revoke), each walking from `token` (getToken) to
  `sent` and `replied`; `Serve` is the server, `fetchRejects` a lost connection
  before or after it. `dialog`, `form` and `errorAtom` are the atoms; an answer
  finds its handler whatever dialog is open. `keyList` is the query cache, with
  `invalidate` as React Query does it: a request on its way is cancelled unless
  the list has never been read.
  `submits` counts creations alone, so that a revocation never pays for a second mint.
- *Appearance*: tabs over one `stored` value and `storage` that may refuse; the
  inline script paints (`OpenTab`), React mounts (`Mount`), and a tab renders
  again only when its own choice or the system's scheme says so (after a choice in any
  case: where React would skip the render, because the mode is the same, it would paint
  the same).
- *ConsoleShell*: `tab.entries` is the browser's history, of which the last is
  the address; `settle` is the effect that takes a link's range over and removes
  it. The saved range is whatever storage holds (`Junk` among it), since `usePersisted`
  takes it as it is. The cap on remembered receipts is ReceiptRows' `ByIdCap` and does not
  bind here. `link` is what a user last copied and another browser may open.
- *SpendView*: `held` and `asked` are `useLive`'s state and its requests, of the
  page that is mounted; `cleanup` marks those of an effect that has ended. The server's
  answers are `spend.go`'s, from the ledger of `usage.go` and the keys of `catalog.go`, all
  read at one time: groups by team, key, person, or the *name* of a project, while the
  demo groups by its id. The
  figures (`rows`, `bars`, `niceTicks`, `spendCsv`, ...) are operators on a view:
  a choice and the state of the ledger it was read from, or the demo's fixtures.
  Money is counted in a unit of which every amount is a whole number
  (`SharesAreWhole`), so that the model has no rounding where the code has the
  error of a double.
- *ReceiptRows*: `liveRows`, `byId` (in order of insertion) and the batch that waits;
  `upsertMany` is the class's method, of which `fresh`, `knownIn`, `patched` and `cutRows`
  are the parts. A receipt is "open" until its token counts are in: the server sends what
  was served at once and again when it has changed (`ReceiptEvent`), so one batch may bring
  a receipt twice, and the first event may bring what `hydrate` has read (`RowsInit`). Only
  the demo calls such a receipt in flight. The timers of the demo are its `simulatedTick`
  and `simulatedSettle`; that at most `MaxStreams` receipts stream at a time is how their
  delays relate (a receipt every 0.7 s at most, each for 4.4 s at most).
- *Toasts*: an item is what Base UI has merged from patches; the wrapper's
  functions (`priorityOf`, `timeoutOf`) see only the patch.

KeyStore and EndpointAuth overlap on purpose: the Secret of KeyStore, with its
versions and its metadata, appears in EndpointAuth as a set of client IDs that
is minted into and revoked from (what KeyRegistry allows), and IdentityLookup's
`store` is the set of client IDs with an entry in KeyStore's ConfigMap.

## 3. The runs

| Run | Question | Bounds |
|---|---|---|
| `KeyStore` | Does any interleaving of creates and revokes, with conflicts, retries, failures and expiring tombstones, lose, reissue or disown a key (`GrantedKeyIntact`, `GrantAttributable`, `NoReissue`)? Does the operator, relabelling, deleting and recreating from stale caches, drop or revive one, or does the Secret otherwise differ from a registry in which a credential comes once and goes for good (`ImplementsRegistry`)? | 2 workers, 1 user, 2 client IDs, 4 calls, the fourth after the others have ended (`LastCallAlone`), 2 attempts, clock 1..3, tombstones kept until the second tick after theirs (`Retention` = 1), no call longer than that, 1 relabel, 1 deletion and recreation; once the operator has acted, 2 calls (`OperatorMeetsTwo`) |
| `KeyStoreHalfDone`, `KeyStoreConflict` | see section 4 | 2 workers, 3 calls, 1 relabel, no failures |
| `IdentityLookup` | Is a 404 ever false (`UnknownIsTruthful`)? Are reads spaced and exclusive (`ReadsSpaced`)? Is every lookup answered (`EveryLookupAnswered`)? | 2 lookups, 2 keys, 3 requests, interval 2, clock 3..5 (further while someone waits on it), 1 restart |
| `IdentityLookupFailedRead` | see section 4 | 3 lookups, 4 requests |
| `OidcValidator` | Is a rotated key accepted within the cooldown (`RotationDelayBounded`), is a ready validator ever without keys (`ReadyHasKeys`), can unknown kids flood the provider (`FetchesBounded`)? Does the validator recover and follow (`KeysConverge`), and do all callers come back, requests and Stop (`CallsReturn`)? | 1 request at a time beside the background goroutine, 2 kids, cooldown 2, fetch up to 1 tick, 2 active attempts, clock 1..3, shutdown at any point |
| `EndpointAuth` | Does a key ever open a model it was not minted for, or after its revocation (`KeyScoped`)? Is a served model's route ever without its policy (`LLMRouteGuarded`)? | one served model, one provider with a key, 1 failed call, CRDs installed first |
| `EndpointAuthLive` | Does every change of any key reach every policy (`PoliciesConverge`)? Does an endpoint switched on and off end up right, and does its policy, through the separate calls of the removal, outlive its route (`DisabledEndpointGoes`, `RemovalKeepsAuth`)? | two served models, of which the second has a key and may be deleted, or (`OneKindAtATime`) one provider with 2 lives, 2 edits and 1 failed call; CRDs installed late |
| `EndpointAuthExposed` | see section 4 | one provider, 1 life, no failures |
| `SharedGateway` | Does a pass ever undo what others wrote to the Gateway (`ForeignListenersKept`)? Are the header policies right when nothing is left to do (`HeadersSettled`)? Is a listener ever pointed at a Secret it is not granted (`GrantedWhenWritten`)? In the end, are the policies right and do listeners, grant and Certificate follow the configuration (`GatewayConverges`)? And `TypeOK`, which has the shape of the copies that two goroutines hold | both listeners on one Gateway, 2 policies of others with 2 settings, 1 other listener, 3 configurations, 2 passes, any 3 of: a change by others, a failed call, a restart; 2 where the operator does not manage the listeners (`FewerIfUnmanaged`) |
| `TrafficFeed` | Is a receipt ever listed twice (`ListWellFormed`) or against the filters (`OnlyMatchingRows`)? Is a quiet list the server's (`ListIsExact`), is what was left out said (`GapsAreSaid`), is a row of a loaded list, held or not, pushed down by anything but the newcomers of a batch (`OnlyNewcomersMoveRows`)? Do the waits for a first and an older page end (`PagesCome`)? | 6 receipts over 5 instants, 2 of one instant, 1 that is stored late, 1 that streams, 2 queries (one with filters and a window that closes), pages of 3, lists of 4, 3 moves of the reader, one of which a fault may replace (`FaultForMove`) |
| `WebClients` | Key manager page: does a submit mint once and is the key seen (`MintedOnceAndShown`), does the list catch up (`ListCatchesUp`), does every request end in an answer or the login (`RequestsSettle`)? Appearance: `LookIsAsChosen`. Shell: does an address open what it was made for (`WhatIsOpenedIsShown`), and is no part of it lost on the way (`AddressKeepsView`)? Polling pages: is what is shown, exported and awaited of the current choice (`ViewsFollowChoice`), do the figures agree (`FiguresReconcile`), do the links hold what they were made from (`LinksOpenWhatIsShown`)? Live rows: `RowsFollowReceipts`. Notifications: `ToastsAreAccessible`. All: `WebTypeOK` | see the constants in `WebClients.cfg` and `MCWebClients`: 3 keys, 2 submits or revocations, one of which a mishap may replace or follow (`MishapForSubmit`); 2 tabs; 2 browsers, of which one may start with a range in storage that is none (`OneStaleRange`); a ledger of 3 days, 2 teams, 2 persons and 4 cells, shown by project and by person for a week only (`WeekByTheRest`); 4 receipts, of which 2 stream at a time; 2 items |

A property of the web clients is a conjunction of named parts, each with a
comment of its own in the module (`RowsFollowReceipts` is five of them): the
parts are about one question and share its run.

State constraints in the MC modules keep large questions from being multiplied:
a history of four calls *and* an operator that acts, or a fourth call that races
(`OperatorMeetsTwo`, `LastCallAlone`); two served models *and* a provider with
two lives (`OneKindAtATime`); three moves *and* a fault (`FaultForMove`); two submits
*and* a mishap other than the loss of a key (`MishapForSubmit`); a ledger that
changes *and* a poll that fails (`GrowthOrOutage`); two users *and* a stale range
in the storage of both (`OneStaleRange`); a view by project or person *and* another
range, a changed ledger or a second request (`WeekByTheRest`); three
events *and* nothing done to the listeners (`FewerIfUnmanaged`). The first two and
`OneStaleRange` meet safety properties only. `WeekByTheRest` cuts, of the views by project
and by person, the polls that overlap; `ViewLoads` is judged in full of those by team and
by key, whose requests differ in nothing but the path. The others cut only steps of users,
failures, restarts and other controllers, to which nothing is fair, so no behaviour on
which a temporal property is judged ends for want of a step that the system owes.

Why the bounds are enough for what is asked of them:

- *KeyStore.* A lost update, a revived key or a reissued ID needs two writers
  and one object; four calls let each worker mint and revoke, with the same
  client ID coming up again after its tombstone has expired. With `Retention` = 1
  three ticks put the clock below, at and above the purge's comparison, and a
  call may straddle a tick. That no call outlasts the retention is an assumption
  (`Tick`): a call is a few requests, the retention 90 days. The proof of
  `GrantAttributable` and `NoReissue` needs it: a revocation that outlasts the
  tombstone of its client ID finds no entry to take the creator from. In this
  run the model's name contains the word "conflict", so that `isConflict` does
  recognise a 409 and the retry loop runs (section 4 has the usual case). What the operator can
  do to a key needs one relabel from a stale copy, or one deletion, meeting two
  calls.
- *IdentityLookup.* The interesting case is a lookup that arrives before, at or
  after the start of somebody else's read: two lookups, an interval longer than
  a tick, and a third request so that a worker can come back. The restart
  empties the cache and resets the stamp once.
- *OidcValidator.* A rotation inside a cooldown, a fetch that straddles a
  rotation, a call joined by the other goroutine and the end of a cooldown all
  fit three ticks with a cooldown of two; two attempts take the goroutine through
  all of its phases. What several requests at once can do to the three safety
  properties is settled by the proofs (section 5).
- *EndpointAuth.* Every hazard is between two models or two lives: two models
  (one of each kind, or two of one kind), two lives, one failure at any point.
  `MCKeysOf` gives a key only to `a` and to `p`; the other model is there to be
  wrongly opened.

- *SharedGateway.* A lost update needs a pass and one foreign write between its
  read and its write; a wrong copy needs two Gateway-wide policies; a mixed
  configuration needs one restart. Three events, at any points of two passes and
  as many runs of the watch as they cause, allow each of these together with one
  more disturbance. The three configurations give each setting both values.

- *TrafficFeed.* Pages of three and lists of four, from six receipts, make a
  list that is longer than a page, one that must be trimmed, and one that ends;
  two receipts of one instant fall on both sides of a page's edge; a receipt that
  is stored late, below a first page, can fill an older page with rows that the
  list has already (it takes six). Three moves
  are a change of query and back with something in flight, or a hold, a change
  and a release. The receipt that is stored late, and the one that shares an instant with
  another, are also what comes into a held view.
- *WebClients.* Two tabs, browsers, or entries of history are enough for one to
  differ from the other; three days with a new year among them, and two groups of
  which one has a series of its own, make an "Other" and a label that could name
  either year; two requests in flight can overtake each other. A cap of two rows
  overflows with the third receipt, one of three copies with the fourth. That is
  the least that the demo bears: a receipt that streams needs its copy until its
  timer has come, and with as many copies as rows and other streams
  (`ByIdCap >= RowCap + MaxStreams - 1`) it is never thrown out before. TLC finds
  `StreamsWillSettle` violated one below, and the proof needs exactly this much;
  the code has 20,000 for 600 and 6.

`CHECK_DEADLOCK FALSE` is set where the bounds (calls, edits, lives) or the
system itself may come to rest. The run of OidcValidator does not set it:
there is always a goroutine that can move.

**Fairness.** Stated once per module, as `FairSpec`:

- IdentityLookup: weak fairness of every step of a goroutine that has what it
  needs, of the list call ending (well or badly) and of the clock; strong
  fairness of taking the mutex, since Go's `sync.Mutex` hands itself to a waiter
  that has starved for a millisecond. None on `cancelWait`: nothing makes a
  client hang up.
- OidcValidator: weak fairness of the fetch (it has a timeout), of the
  goroutine's timers and of a request's steps; strong fairness of `exitLoop`,
  because a `select` with two ready cases picks each with positive probability
  and Stop closes a channel that stays closed; strong fairness of a refresh
  tick that finds no call in progress, because a tick that joins a *suppressed*
  unknown-kid call fetches nothing and is lost, and not every tick of the period
  can coincide with one.
- EndpointAuth: strong fairness of each model's controller (the work queue is
  fair and its backoff ends, but another model of the kind may keep the single
  worker busy again and again), weak fairness of the informers, the gateway and
  the collector, and the CRDs are installed at last. Users, the key manager and
  failures are not fair; failures are finite by `MaxFailures`.

- SharedGateway: weak fairness of a goroutine that holds the mutex; strong
  fairness of taking it, for the watch that has an event and for the ticker,
  again because of how `sync.Mutex` hands itself over. The ticker fires at most
  `MaxPasses` times; what only a resync would notice (a Gateway written, a pass
  that failed, a restart) does not happen after the last.
- TrafficFeed (`FeedFairness`): neither request stays open for ever, since the
  browser ends it if the server does not. Nothing is said of events, of which
  any may be lost, nor of the reader.
- WebClients (`PortalFairness`, `SpendFairness`): a request under way is
  served, lost, or given up, and its answer is handled; in SpendView the polling
  interval goes on and the server answers in the end, as the outages are
  finite (`MaxOutages`). The other four parts wait for nothing but their user.

**Two exceptions that the properties state openly.** `LLMRouteGuarded` assumes
the CRDs are there before the operator: installed exactly between the two writes
of one reconcile, the policy is skipped and the route written, and the operator
is unaware until the requeue it has asked for. `RotationDelayBounded` excepts a
request whose caller hung up, and one for which a fetch completed between its
recheck of the cache and its read of `fetchFailed`: it sees the old cache and
the new flag, and gets a 401 for a good token just as an outage ends.

## 4. Disagreements between the code and what it says of itself

Each is a run that TLC finds violated, and a finding in PROJECT.json with the
quoted lines.

- **`SecretMatchesMetadata`** (`KeyStoreHalfDone`): no failure is needed. A
  create or a revocation whose second update is refused leaves the first in
  place. A revoked key stays on every list and can never be revoked (the next
  call finds it missing from the Secret); a created key works, is on no list,
  and nobody can revoke it.
- **`ConflictIsRetried`** (`KeyStoreConflict`): the message of a Kubernetes
  conflict has neither "conflict" nor "409" in it, so the loop that is to retry
  returns at once.
- **`SharedReadHappened`** (`IdentityLookupFailedRead`): the stamp is set before
  the read and stays when the read fails; a queued lookup then answers 404 from
  a cache nobody has filled. `UnknownIsTruthful` is what remains true.
- **`UpstreamNeverExposed`** (`EndpointAuthExposed`): removal keeps the policy
  until the route is gone (`RemovalKeepsAuth` holds), creation writes the route
  first.

The web clients have more of these, found while modelling. They have no run of
their own: each is an exception that a property names, or a branch that the
module describes.

- *Traffic.* "Trimmed rows can be fetched again by scrolling" (`traffic-feed.ts:139`), but
  not when the server has said where to go on (`continueBefore`, which lies below them) or a
  page is under way. A query that changes while an older page is under way leaves
  `loadingOlder` set, and no older page is ever asked for again (`traffic-feed.ts:176`;
  `PagesCome` excepts it). A reload, or a change of query and back, lets an outdated older
  page be appended, with a gap. A streamed receipt older than a full first page becomes the
  last row, and what lies between is skipped. An older page that is full, but of rows the
  list has already (late receipts, which the stream has put on top), ends the list as though
  nothing lay below (`older.length === 0`, `traffic-feed.ts:173`; the proof of `ListIsExact`
  failed on it first, and the run then found it with six receipts). What changes between the
  page's read and the stream's start, or while the EventSource reconnects, is lost without a
  word, and so is what the hub no longer reads. "Rows never move under the pointer"
  (`traffic.tsx:336`), but a receipt that comes late, or in the whole second
  (`stream.go:109`) of the row that the view is held at, is put on top of the held view and
  pushes every row down: `OnlyNewcomersMoveRows` names these, and excludes any other. A
  first page that is empty but has `X-Receipts-Continue-Before` shows "nothing here". These
  are the members of `holes`.
- *Live rows.* "A receipt that arrived and settled in the same batch is new, in
  its settled form" (`app-state.tsx:223`), but a receipt that one batch brings twice is added
  twice (`joined` in ReceiptRows). The server does send a receipt again when it has
  changed (`stream.go:25`), so with the control plane both rows count as requests of the key and
  both costs are summed (`keys.tsx:140`); one of the two may stay without its tokens for ever.
  `FiguresCountOnce` excepts batches of that kind. A page read before a receipt settled, and applied
  after, puts the drawer's copy back (`overtaken`).
- *Key manager page.* A revocation's late answer closes whatever dialog is open,
  the one with the new key included, which is the only place it is ever shown.
  The first reading of the list is not cancelled by an invalidation, so a key
  created meanwhile may be missing from it (`behind`).
- *Spend.* In the demo, `useLive` returns the state of the mount: another range or dimension
  never changes the figures, a row's link then names the new dimension with the old group's
  id, and a bar of the old chart may open a day of which the new range has nothing. Overview
  shows the demo's summary until `/summary` has answered, and for ever if it fails. Links by
  a key's name open the first key that has it. Provider rows look as if they could be opened
  and cannot. "Click any row to open the receipts behind it" (`spend.tsx:415`), but with the
  control plane a project's row has the bare resource name for an id (`spend.go:35`), while
  Traffic's filter compares `team/resource` (`filter.go:41`), so the list is empty; and a
  person's row is linked (`spend.tsx:68`) although Traffic has no filter for persons, so the
  list is everyone's. `RowOpensItsReceipts` excepts the two dimensions.
- *Shell, appearance, toasts.* The range that storage holds is taken as it is
  (`app-state.tsx:25`), one that no longer exists included. A related receipt opened from
  the drawer may be told "No receipt ... in the hot window". A theme that storage refuses
  while it can be read is ignored, and other tabs hear of a choice only when the system's
  scheme next changes. Promise toasts get no priority, as Base UI names their type after the
  wrapper has looked for one.

Observations that are no disagreement with any statement of the repository:
`reconcileDelete` skips a Secret its cache does not show yet, so a model deleted
right after its creation leaves the Secret behind; a served model's route that
cannot be written is logged and the reconcile succeeds
(`reconcileRoutingResources`), so only a later event retries it; the deletion of
an LLMModel leaves its policy and route (the installation guide says so); a key
published within an unknown-kid cooldown is answered 401 until it ends; the
auditor is wired to a group lookup that always fails (`makeUserinfoLookup` in
`key-manager/cmd/main.go`, "a stub"), so `AuditRevoke` is what `auditor.go` does
and not yet what a deployment does.

## 5. What is proved

All theorems hold for every value of the constants that satisfies the module's
named assumption, and all are checked by TLAPS.

| Theorem | States | Assumptions |
|---|---|---|
| `KeyStoreProofs!TypeCorrect` | `Spec => []TypeOK` | `KeyStoreAssumptions` |
| `KeyStoreProofs!GrantedKeysAreKept` | `Spec => []GrantedKeyIntact` | same |
| `KeyStoreProofs!RevocationIsFinal` | `Spec => []RemovedStaysRemoved` | same |
| `KeyStoreProofs!SecretIsRegistry` | `Spec => ImplementsRegistry` | same |
| `IdentityLookupProofs!UnknownAnswersAreTrue` | `Spec => []UnknownIsTruthful` | `IdentityAssumptions` |
| `IdentityLookupProofs!LookupTypeCorrect` | `Spec => []TypeOK` | same |
| `EndpointAuthProofs!KeysAreScoped` | `Spec => []KeyScoped` | `EndpointAssumptions` |
| `EndpointAuthProofs!ServedModelsAreGuarded` | `Spec => []LLMRouteGuarded` | same |
| `EndpointAuthProofs!EndpointTypeCorrect` | `Spec => []TypeOK` | same |
| `OidcValidatorProofs!OidcTypeCorrect` | `Spec => []TypeOK` | `OidcAssumptions` |
| `OidcValidatorProofs!ReadyStaysUsable` | `Spec => []ReadyHasKeys` | same |
| `OidcValidatorProofs!RotationIsFollowed` | `Spec => []RotationDelayBounded` | same |
| `OidcValidatorProofs!UnknownKidsAreRateLimited` | `Spec => FetchesBounded` | same |
| `KeyStoreProofs!GrantsAreAttributable` | `Spec => []GrantAttributable` | `KeyStoreAssumptions` |
| `KeyStoreProofs!NothingIsReissued` | `Spec => NoReissue` | same |
| `IdentityLookupProofs!ReadsAreSpaced` | `Spec => ReadsSpaced` | `IdentityAssumptions` |
| `EndpointAuthProofs!RemovalIsGuarded` | `Spec => RemovalKeepsAuth` | `EndpointAssumptions` |
| `SharedGatewayProofs!GatewayTypeCorrect` | `Spec => []TypeOK` | `SharedGatewayAssumptions` |
| `SharedGatewayProofs!ForeignListenersAreKept` | `Spec => []ForeignListenersKept` | same |
| `SharedGatewayProofs!ListenersAreGranted` | `Spec => GrantedWhenWritten` | same |
| `SharedGatewayProofs!HeadersAreSettled` | `Spec => []HeadersSettled` | same |
| `TrafficFeedProofs!ListsAreWellFormed` | `FeedSpec => []ListWellFormed` | `FeedAssumptions` |
| `TrafficFeedProofs!OnlyMatchingRowsAreListed` | `FeedSpec => []OnlyMatchingRows` | same |
| `TrafficFeedProofs!GapsAreTold` | `FeedSpec => []GapsAreSaid` | same |
| `TrafficFeedProofs!RowsKeepTheirPlace` | `FeedSpec => OnlyNewcomersMoveRows` | same |
| `TrafficFeedProofs!QuietListsAreExact` | `FeedSpec => []ListIsExact` | same |
| `WebClientsProofs!SubmitsMintOnce` | `PortalSpec => []MintedOnceAndShown` | `PortalAssumptions` |
| `WebClientsProofs!ListIsTheServers` | `PortalSpec => []ListCatchesUp` | same |
| `WebClientsProofs!ExpiryLeadsToLogin` | `PortalSpec => []LoginIsUnderWay` | same |
| `WebClientsProofs!PageKeepsItsWord` | the three of KeyPortal, of `WebSpec` | same |
| `WebClientsProofs!LookFollowsThePreference` | `WebSpec => LookIsAsChosen` | `LookAssumptions` |
| `WebClientsProofs!LinksOpenTheirView` | `WebSpec => []WhatIsOpenedIsShown` | `ShellAssumptions` |
| `WebClientsProofs!AddressStepsKeepTheView` | `WebSpec => AddressKeepsView` | same |
| `WebClientsProofs!ToastsReachTheirUser` | `WebSpec => []ToastsAreAccessible` | `ToastAssumptions` |
| `WebClientsProofs!RowsFollow` | `WebSpec => RowsFollowReceipts` | `RowAssumptions` |
| `WebClientsProofs!FiguresAgree` | `WebSpec => []FiguresReconcile` | `SpendAssumptions`, `LedgerAssumptions`, `SharesAreWhole` |
| `WebClientsProofs!LinksHoldWhatIsShown` | `WebSpec => []LinksOpenWhatIsShown` | same |
| `WebClientsProofs!ChoiceIsFollowed` | `WebSpec => []FileIsOfChoice /\ LoadedStays` | same |
| `WebClientsProofs!WebTypesCorrect` | `WebSpec => []WebTypeOK` | those of the six parts |

The assumptions are types of the constants, plus: receipts are finitely many and
their ids are numbers, pages and lists have room for one; Gateways, listeners and
`None` are different things and settings are none of them; a fetch times out before the
unknown-kid cooldown ends (10 s and 30 s in the code); client IDs carry the prefix of
one user (`OwnerOf`), and the client IDs of two models are disjoint (they carry
the model's name); the copies of receipts have room for the rows and the streams
(section 3); the demo's teams that spend are those that have keys, every key calls
a model of its team and has made a request (the fixtures of `mock.ts` are so; where
a sum of weights or of requests is 0 the code divides by 1 instead, and its cells
would not add up to the team's spend); a range of more than a day reaches into
every day that its chart shows; and a chart does not go back more than a year.

**KeyStore: `SecretInv`.** Neither `GrantedKeyIntact` nor `RemovedStaysRemoved`
is inductive. A worker or the operator writes a whole copy of the Secret, so one
must know what the copy is: `VersionsIdentify` says that a copy with the current
version *is* the Secret, which is what makes an accepted update safe.
`KeysUnique` says credentials are numbered by minting, so a new one differs from
all removed ones. `CallsFormed` says what a worker between its calls knows
(whom it serves, which client ID). `PendingKeyIntact` carries the credential of
a create from its first write to its second, where it becomes a grant. The step
proof groups the actions by what they do to the Secret (nothing, relabel, mint,
remove), one lemma each, and the refinement reuses the same grouping: nothing
and relabel stutter, mint is `Mint`, remove is `Retire` or `Wipe`.

**KeyStore: `RecordInv`.** `GrantAttributable` and `NoReissue` are about two
objects, and rest on `SecretInv` together with `RecordInv`. `RecordVersions` is
for the ConfigMap what `VersionsIdentify` is for the Secret. Then each conjunct
says what a call may rely on between two of its requests. `FreshDue` is the one that
makes `NoReissue` true: the ConfigMap is read after the Secret, and an entry is only
written for a credential that is in the Secret, so a client ID in neither copy is in
neither object as long as the Secret is the one that was read. `EntryDue` says that the
entry a create is about to write replaces none, `TombstoneDue` that a tombstone
is for keys that are all gone, `RevokedKnown` that a revocation under way finds the
creator it is to keep, which is where `TimesMatch` comes in: no call is older than
a tombstone gets. `GrantRecorded` ties the age of a tombstone to the removal of the
key. All of it holds while no model has been deleted; a deletion takes the record away.

**IdentityLookup: `LookupInv`.** `UnknownIsTruthful` speaks of the moment of the
answer; the reason is earlier. `MutexHeld` makes the reader unique,
`KnownInStore` says a key known since arrival is still in the store, and
`QueueCovered` that as soon as a read begun after a lookup's arrival has listed,
what the lookup asks for is in the cache or in the list about to be put there,
unless a later read has failed. `ReaderCovered` is the same for the reader
itself. `ReadsSpaced` follows from `MutexHeld` and the guard of `startRefresh`, the
only step that advances the stamp.

**EndpointAuth: `EndpointInv`.** `KeyScoped` follows from `OwnIDs`: every copy
of a model's client IDs, in the Secret, in the cache, in a reconcile's
variables, in a policy however stale, is of that model's own, and distinct
models have distinct IDs; a key that is in *some* Secret of the pool and on this
policy's list is therefore in this model's Secret. `LLMRouteGuarded` needs
`PolicyFirst`: a reconcile that has come to the route step with the endpoint
enabled has a policy behind it, and no collector takes a policy nobody owns.
`RemovalKeepsAuth` speaks of the moment the policy goes, which is two calls after the
HTTPRoute was last looked for and three after the AIGatewayRoute was. `RouteStaysGone` carries
what those reads have seen over everything that can happen in between: a route that was absent
is still so, since only this model's own reconcile writes one, and with it absent the gateway
generates no HTTPRoute. A policy goes in two steps (`PolicyGoes`), the last of those calls and
the collector's, which leaves what a living model controls.

**OidcValidator: `OidcInv`.** `RotationDelayBounded` speaks of the answer; what
makes it true is what the cache holds. `Covers(ks, t)` says that `ks` has every
key published before `t` and not withdrawn. `CacheCovers` carries it from the
provider's answer (`t` is when the fetch began) to the cache, and says of an idle
validator that its last fetch failed or that it covers the last unknown-kid
fetch. A key that was published for a cooldown is older than a fetch in progress
(`Stamps`: a fetch is younger than its timeout, which is below the cooldown) and
older than the last unknown-kid fetch if that still suppresses others; so
whichever way a waiting request is released, the key is in the cache or
`fetchFailed` is set (`RequestSound`). `Phases` keeps the initial fetch, which is
not a singleflight call, apart from the others. `Stamps` also has the equality
of the code's stamp and the history's that `FetchesBounded` rests on.

**SharedGateway: `GatewayInv`.** `SnapIsCopy` makes the write of a Gateway safe
for others, as `VersionsIdentify` does in the key store: what is written, if it
is accepted, is the merge of the Gateway as it is. `Roles` keeps the two goroutines apart by the
mutex, and `GrantFirst` says that a pass which has come to the listeners has left
the grant as configured; only a restart changes the configuration, and it ends the
pass. `HeadersSettled` needs `LookHolds`: unless the watch has an event, what
a look at the policies has found still holds for every listener it has been at,
and the plan for the one it is at is right (`PlanRight`). Every step that would
make it wrong is an event for the watch or takes the look back. That the code finds
a policy to copy when there is one (`OldestApplies`) needs a least element of a finite set of
creation times, which the module derives from the well-foundedness of `<`.

**TrafficFeed: `FeedInv`, `LoadsOnce`, `ExactInv`.** The first half of the module is about
sorting, filtering and joining lists as the code does it: a sorted list is a
permutation, in order (`SortingPermutes`, `RankedLists`), a batch joins a list
without a second copy of a receipt (`BatchJoins`), a server's page is all there is
down to its last row (`PageIsComplete`). With these,
`FeedInv` has for the list and for everything that can still come to it that it
holds a receipt once (`RowsOnce`), that it is of the query it was asked for, though
that may be gone (`PagesMatch`, `StreamMatches`), and that an omission has been
said or its notice is on the wire (`GapsTold`). `OnlyNewcomersMoveRows` is one lemma per
way in which the rows change (a batch put on top, an older page below) and one from there to
the held view (`ViewMoves`); it needs `LoadsOnce` too: the one step that sorts rows in among
those on the screen is the first page's, and it comes to a list that is not yet shown as
loaded.

`ListIsExact` speaks of a list at rest, and the proof is about the time before. While
no row has come to be missing, `NothingMissing` says: a row, of the list or of a
page on its way, is the server's copy unless something on its way will replace
it (`AreCurrent`), the last event of a receipt on the wire, and then in the queue,
being the latest copy (`WireIsCurrent`, `QueueIsCurrent`); every receipt that the list
reaches down to is in it or on its way (`ListIsComplete`); a page on its way has all
that matches down to where it says it stops (`IsComplete`); and an older page that is
not outdated was asked for by the list as it now is, from where it now ends. `StreamOpen`,
`OlderIsOurs` and `FailureIsNoted` are what the steps need of the requests and the
connection. There is one lemma per step (`FirstSounds`, `OlderSounds`,
`FlushSounds`, `ReceiptSounds` and so on), and a frame lemma, `NewsStays`, for the steps
that leave the list alone. At rest nothing is pending, and `ListIsExact` is
`ListIsComplete` with `AreCurrent`. The first attempt failed at the older page: a
full page in which every row is known already ends the list. That is now the hole
`allSeen` (section 4).

**KeyPortal: `PortalInv`.** A creation is known by what it owns: nothing, and one submit to
spare, until it is served, and then its key (`OneKeyDue`); an answer of 401 makes it a creation
that has not been served. `ListCurrent` carries the list from the server's answer to
the page. `SessionKnown` is what `LoginIsUnderWay` rests on: calls end in an
expired session only once the page is there, which it is with a session or a redirect.

**Toasts, Appearance, ConsoleShell.** `ToastInv` says what merging patches never takes from
an item: with an action its timer is off unless an update has set one and left the action
unsaid, its priority is that of its type, and it is open only while it follows a promise.
`LookInv` says of a tab that no step has left behind that it looks as it would if it
rendered now, and of every tab that its configuration is safe. `ShellInv` says that the
history behind an open tab holds no range, and of the tab that it shows what the link it was
opened by was made to show.

**ListLemmas: induction without an induction theorem.** The library states induction
with an operator for a parameter, which no prover here can be given. The module goes
round this: a statement about all numbers, or all finite sets, that fails somewhere
fails at a least number (`LeastNumber`, from the well-foundedness of `<`), or at a
set of which no smaller subset fails (`SmallestBad`); there its step is contradicted. What is an
operator in an induction theorem is here the set of the counterexamples, so each
statement has its own search, and the sums get theirs once and for all: a sum over a set
is a table over its subsets (`SumTableExists`, `SumTablesAgree`), and from there it
takes elements out in any order (`SumRemove`), splits (`SumUnion`), is linear, may be
taken group by group (`SumRegroup`), along another index (`SumMoved`), or by columns
instead of rows (`SumSwapped`), and counts (`SumCounts`). The same way, a recursive
function is what its equation says (`TensRecur`, and `RememberTable` for the fold over a
batch). The lists of `.sort` and `.filter` are here as well, for TrafficFeed too.

**ReceiptRows: `RowInv`.** `RowsHold` says of the rows what `OneRowPerReceipt` and
`SettlesInPlace` say, and of a receipt that is among them twice that one batch has brought
both; `DrawerHolds` the same of the copies. It is stated of any list of rows and any batch
that fits it (`BatchFits`: a receipt's events come in their order, each once, and none after
the last), so that one lemma, `UpsertKeeps`, serves the flush and both steps of the demo.
The figures then need counting only: where no row is there twice, rows and receipts
correspond one to one (`RowsStandForReceipts`), so the length of a filtered list is the size
of a set. `StreamsWillSettle` asks that a copy is not thrown out while its receipt streams.
What keeps it is a bound on the copies behind it in the order of insertion: but for
`MaxStreams - 1` of them, counting the receipts that may still move there, they are of rows
above it (`Behind`, `HasRoom`). With the cap of `RowAssumptions` the copy of a row that
streams is therefore not the first of a full list (`CopyIsNotFirst`).

**SpendView: `SpendInv`.** For `FileIsOfChoice`, `LoadedStays` and `OpenKeyIsFound` it is enough
to know of each request on its way whether its effect still lives, and that a living one
asked for the path on the screen (`AskedHolds`, `Holds`). What a click has led to carries
what it was made from (`CsvHolds`, `RowHolds`, `BarHolds`), and the rest is about figures:
`BarOpensItsDay` is arithmetic modulo the year (`LabelsLeadBack`), `FiguresReconcile` is a
chain of equations between sums. A view's cells are what was spent (`CellsSpend`; in the demo,
shares of a key within a team and of a model within a key add up to one, `DemoSpends`);
they are the same cells whether taken by group or at once (`RowsAddUp`, `WindowsAddUp`), and by day
(`DayValues`); the order of the chart lists every group (`OrderListsAll`, from `RankedByValue`:
a finite set can be ranked), those without spend are left out for nothing, and the folded
series is the rest of the list (`FoldedBar`); the file leaves out only rows whose spend is 0
(`LinesAddUp`). `AxesFit` is about the ticks of any amount, with the power of ten that a
logarithm finds, or the one below where it may fall short (`TensAre`, `TicksFit`).

**WebClients.** A behaviour of `WebSpec` is one of each part (`ShellIsFollowed`,
`RowsAreFollowed` and the like), so what a part's invariant shows holds of the composition.
`WebTypeOK` adds what no other invariant needs: the counters of the toasts, a shut tab's
empty history, why a tab is outdated.

## 6. Only model-checked, and not modelled

Model-checked on the instances of section 3 only:

- all liveness: `EveryLookupAnswered`, `KeysConverge`, `CallsReturn`,
  `PoliciesConverge`, `DisabledEndpointGoes`, `GatewayConverges`, `PagesCome`, the part
  `RequestsEnd` of `RequestsSettle` and the part `ViewLoads` of `ViewsFollowChoice`. The
  prover has no support for ENABLED, without which fairness says nothing.

Every invariant and every other action property of a passing run is a theorem of
section 5, with the liveness left out where a property has some: of `RequestsSettle`
and `ViewsFollowChoice` the safety parts are proved.

The four properties of section 4 are checked to be false.

Proved and not run: the type invariants of KeyStore, IdentityLookup,
OidcValidator and EndpointAuth, and `RemovedStaysRemoved`, which the run KeyStore
has as part of `ImplementsRegistry`; `LoginIsUnderWay` is run as part of `RequestsSettle`.
The proofs hold for every instance, that of the runs included.

Abstracted inside the modules: labels, annotations and descriptions of objects;
JSON and base64 encodings; the contents of routes and policies other than client
IDs and pools; status conditions and phases except whether a model serves; the
internal endpoint, which runs the same steps with a policy that depends on the
spec alone; token checks other than finding the key. EndpointAuth takes the
names of the two kinds to be disjoint, which the webhooks are to ensure.

Not modelled, with the reasons in PROJECT.json: object builders without state,
configuration, provider tables, HTTP plumbing, the Benthos pipeline, widgets,
charts and tools. Of the web clients: columns, formats, charts other than the
spend trend, the environment and density settings (persisted as the range is),
and whether the sidebar is collapsed. The parts of WebClients are checked side by
side and not through each other: what they share is an address or a copied
object, which each part takes as any of those it may be. Planned: see below.

## 7. Plan

Done, in this order, because the key store is what all others read:

1. `KeyStore` with `KeyRegistry` and proofs.
2. `IdentityLookup` with proofs.
3. `OidcValidator` with proofs.
4. `EndpointAuth` with proofs.
5. `SharedGateway` with proofs.
6. `TrafficFeed` with proofs.
7. `WebClients`: `KeyPortal`, `Appearance`, `ConsoleShell`, `SpendView`,
   `ReceiptRows`, `Toasts`, with proofs of all six and of the composition.

Next:

8. `KeyAccess`: watcher (30 s list), handlers and auditor composed with the
   abstract registry: after access is lost, keys are gone within one audit
   period plus the watcher's staleness; a failed listing revokes nothing.
9. `CustomerSync`: owners to OpenMeter customers, subject-key conflicts,
   partial failures; abstract specification: a partial function from subjects to
   customers.
10. `Bootstrap`: openmeter-setup, crash at any call, rerun, idempotence as a
   refinement of a single atomic setup.
11. `Admission`: the two webhooks' name check as a race.
12. `EventStream`: the console server's hub as a program of its own (its poll, its table
    of what was sent, its subscribers' buffers), refined by the server's steps of
    `TrafficFeed`.

Theorems next: the safety properties of modules 8 to 12. Of the modules there are, what
is left is liveness.

## 8. Running everything

```
tlc -workers 2 -config KeyStore.cfg MCKeyStore        # each run: cfg and module in PROJECT.json
tlapm KeyStoreProofs.tla
tlapm IdentityLookupProofs.tla
tlapm EndpointAuthProofs.tla
tlapm OidcValidatorProofs.tla
tlapm SharedGatewayProofs.tla
tlapm ListLemmas.tla
tlapm TrafficFeedProofs.tla                           # some five minutes
tlapm WebClientsProofs.tla                            # some fifteen minutes
```

Each passing run ends within some four minutes on two workers; the runs of
section 4 stop at their counterexample within seconds.
