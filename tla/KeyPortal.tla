----------------------------- MODULE KeyPortal ------------------------------
(***************************************************************************)
(* The key manager's web page (frontend/src): it signs the user in, lists  *)
(* their keys, creates and revokes them, and shows a new key once.         *)
(*                                                                         *)
(* Three requests can be on their way together: the list and one creation  *)
(* and one revocation (their buttons are disabled meanwhile, but their     *)
(* dialogs can be left and others opened).  A request waits for a token,   *)
(* is served by the server in one step and answered to the page in a later *)
(* one.  The dialogs stay mounted, so an answer finds its handler whatever *)
(* is on the screen.                                                       *)
(***************************************************************************)
EXTENDS Naturals, FiniteSets

CONSTANTS
  MaxKeys,          \* bound: keys ever minted
  MaxSubmits,       \* bound: creations and revocations asked for
  MaxMishaps        \* bound: failures, lost answers, others' changes

ASSUME PortalAssumptions ==
  MaxKeys \in Nat \ {0} /\ MaxSubmits \in Nat /\ MaxMishaps \in Nat

VARIABLES
  boot,         \* how far main.tsx has come
  kc,           \* the Keycloak session, as the page knows it
  calls,        \* the three requests
  keyList,      \* the query cache's entry for the list
  dialog,       \* dialogAtom
  form,         \* the create dialog's model and error
  errorAtom,    \* is the error banner shown?
  keys,         \* the user's keys on the server
  minted,       \* history: the keys created for this page
  unseen,       \* history: those whose answer was lost, or failed
  shownKeys,    \* history: those the page has shown
  behind,       \* history: why the list may differ from the server
  expired,      \* history: a call has thrown SessionExpiredError
  submits,      \* creations that were submitted
  revokes,      \* revocations that were confirmed
  mishaps

screenVars == <<dialog, form, errorAtom>>
countVars  == <<submits, revokes, mishaps>>
keyHistory == <<minted, unseen, shownKeys>>
portalVars == <<boot, kc, calls, keyList, screenVars, keys, keyHistory, behind,
                expired, countVars>>

Keys  == 1 .. MaxKeys
NoKey == 0

Idle == [at |-> "none", forced |-> FALSE, reply |-> "none", key |-> NoKey, seen |-> {}]

Pending(c) == calls[c].at # "none"

\* A request at its start: exec() asks for a token before it fetches.
Asking(k) == [Idle EXCEPT !.at = "token", !.key = k]

NoDialog == [type |-> "none", key |-> NoKey]

NoForm == [model |-> FALSE, error |-> FALSE]

NoData == [held |-> FALSE, data |-> {}, error |-> FALSE]

Mishap == mishaps < MaxMishaps /\ mishaps' = mishaps + 1

PortalTypeOK ==
  /\ boot \in {"config", "login", "shown", "failed"}
  /\ kc \in [authenticated : BOOLEAN, redirecting : BOOLEAN]
  /\ DOMAIN calls = {"list", "create", "revoke"}
  /\ \A c \in DOMAIN calls :
       /\ calls[c].at \in {"none", "token", "sent", "replied"}
       /\ calls[c].reply \in {"none", "ok", "401", "error"}
       /\ calls[c].reply # "none" <=> calls[c].at = "replied"
       /\ calls[c].key \in Keys \cup {NoKey} /\ calls[c].seen \subseteq Keys
  /\ keyList.data \subseteq Keys /\ (keyList.data # {} => keyList.held)
  /\ dialog.type \in {"none", "create", "created", "revoke"}
  /\ dialog.key # NoKey <=> dialog.type \in {"created", "revoke"}
  /\ form \in [model : BOOLEAN, error : BOOLEAN] /\ errorAtom \in BOOLEAN
  /\ keys \subseteq Keys /\ minted \subseteq Keys
  /\ unseen \subseteq minted /\ shownKeys \subseteq minted
  /\ behind \subseteq {"unanswered", "elsewhere", "firstLoad"}
  /\ boot # "shown" => \A c \in DOMAIN calls : ~Pending(c)

PortalInit ==
  /\ boot = "config"
  /\ kc = [authenticated |-> FALSE, redirecting |-> FALSE]
  /\ calls = [c \in {"list", "create", "revoke"} |-> Idle]
  /\ keyList = NoData
  /\ dialog = NoDialog /\ form = NoForm /\ errorAtom = FALSE
  /\ keys = {1} /\ minted = {} /\ unseen = {} /\ shownKeys = {}
  /\ behind = {} /\ expired = FALSE
  /\ submits = 0 /\ revokes = 0 /\ mishaps = 0

-----------------------------------------------------------------------------
(* Starting *)

\* loadAppConfig as initKeycloak calls it: a /config.json that cannot be read
\* ends the start with renderBootstrapError.
loadAppConfig ==
  /\ boot = "config"
  /\ \/ boot' = "login" /\ UNCHANGED mishaps
     \/ Mishap /\ boot' = "failed"
  /\ UNCHANGED <<kc, calls, keyList, screenVars, keys, keyHistory, behind,
                 expired, submits, revokes>>

\* kc.init resolves once the user is signed in; then the page is rendered and
\* the list's first request is made.
initKeycloak ==
  /\ boot = "login"
  /\ \/ /\ boot' = "shown" /\ UNCHANGED mishaps
        /\ kc' = [authenticated |-> TRUE, redirecting |-> FALSE]
        /\ calls' = [calls EXCEPT !["list"] = Asking(NoKey)]
     \/ Mishap /\ boot' = "failed" /\ UNCHANGED <<kc, calls>>
  /\ UNCHANGED <<keyList, screenVars, keys, keyHistory, behind, expired, submits, revokes>>

\* The page goes: the user reloads or signs out, or login() has led away.  All
\* that it held is lost; answers on their way have nobody to take them.
LeavePage ==
  /\ boot \in {"failed", "shown"}
  /\ boot' = "config"
  /\ kc' = [authenticated |-> FALSE, redirecting |-> FALSE]
  /\ calls' = [c \in DOMAIN calls |-> Idle]
  /\ keyList' = NoData /\ dialog' = NoDialog /\ form' = NoForm
  /\ errorAtom' = FALSE /\ behind' = {} /\ expired' = FALSE
  /\ unseen' = unseen \cup (minted \cap {calls["create"].key})
  /\ UNCHANGED <<keys, minted, shownKeys, countVars>>

-----------------------------------------------------------------------------
(* What an answer does to the page *)

\* Mutant: a request on its way is left to answer.
invalidateLazily(cs) == [cs EXCEPT !["list"] =
  IF cs["list"].at # "none" THEN cs["list"] ELSE Asking(NoKey)]

\* invalidateQueries: a list request is made; one that is on its way is
\* cancelled first, unless the list has never been read: then it is that one's
\* answer that counts, however old.
invalidate(cs) == [cs EXCEPT !["list"] =
  IF cs["list"].at # "none" /\ ~keyList.held THEN cs["list"] ELSE Asking(NoKey)]

\* The list will show this change, unless its first answer is already made.
CaughtUp == (behind \ {"unanswered"}) \cup
            (IF ~keyList.held /\ calls["list"].at = "replied"
             THEN {"firstLoad"} ELSE {})

Done(c) == [calls EXCEPT ![c] = Idle]

\* useApiKeys: the list is replaced; a refetch that fails keeps it, and
\* KeysCard shows the error in its place.
listSucceeds ==
  /\ keyList' = [held |-> TRUE, data |-> calls["list"].seen, error |-> FALSE]
  /\ calls' = Done("list")
  /\ UNCHANGED <<screenVars, keyHistory, behind>>

listFails ==
  /\ keyList' = [keyList EXCEPT !.error = TRUE]
  /\ calls' = Done("list")
  /\ UNCHANGED <<screenVars, keyHistory, behind>>

\* useCreateKey's onSuccess, then onSubmit: the key replaces whatever dialog
\* is open.
createSucceeds ==
  /\ calls' = invalidate(Done("create"))
  /\ behind' = CaughtUp
  /\ dialog' = [type |-> "created", key |-> calls["create"].key]
  /\ shownKeys' = shownKeys \cup {calls["create"].key}
  /\ form' = [form EXCEPT !.model = FALSE]
  /\ UNCHANGED <<keyList, errorAtom, minted, unseen>>

\* A failed creation is said in the create dialog only, open or not; the list
\* is not read again.
createFails ==
  /\ calls' = Done("create")
  /\ form' = [form EXCEPT !.error = TRUE]
  /\ unseen' = unseen \cup (minted \cap {calls["create"].key})
  /\ UNCHANGED <<keyList, dialog, errorAtom, minted, shownKeys, behind>>

\* confirm(): whatever dialog is open is closed, a new key's included.
revokeSucceeds ==
  /\ calls' = invalidate(Done("revoke"))
  /\ behind' = CaughtUp
  /\ dialog' = NoDialog
  /\ UNCHANGED <<keyList, form, errorAtom, keyHistory>>

revokeFails ==
  /\ calls' = Done("revoke")
  /\ dialog' = NoDialog /\ errorAtom' = TRUE
  /\ UNCHANGED <<keyList, form, keyHistory, behind>>

CallSucceeds(c) == \/ c = "list"   /\ listSucceeds
                   \/ c = "create" /\ createSucceeds
                   \/ c = "revoke" /\ revokeSucceeds

CallFails(c) == \/ c = "list"   /\ listFails
                \/ c = "create" /\ createFails
                \/ c = "revoke" /\ revokeFails

-----------------------------------------------------------------------------
(* A request *)

At(c, at) == boot = "shown" /\ calls[c].at = at

\* getToken with a token at hand, refreshed if need be (always, on a retry).
getToken(c) ==
  /\ At(c, "token") /\ kc.authenticated
  /\ calls' = [calls EXCEPT ![c].at = "sent"]
  /\ UNCHANGED <<boot, kc, keyList, screenVars, keys, keyHistory, behind,
                 expired, countVars>>

\* The refresh is refused, which drops the session, or cannot be tried: either
\* way the page is sent to the login.
refreshFails(c) ==
  /\ At(c, "token") /\ kc.authenticated /\ Mishap
  /\ \E dropped \in BOOLEAN :
       kc' = [authenticated |-> ~dropped, redirecting |-> TRUE]
  /\ expired' = TRUE
  /\ CallFails(c)
  /\ UNCHANGED <<boot, keys, submits, revokes>>

\* A session already dropped: the call ends, with no further login().
sessionExpired(c) ==
  /\ At(c, "token") /\ ~kc.authenticated
  /\ expired' = TRUE
  /\ CallFails(c)
  /\ UNCHANGED <<boot, kc, keys, countVars>>

\* The request c with its answer: the key it is about, and the keys it lists.
Replied(c, reply, key, seen) ==
  [at |-> "replied", forced |-> calls[c].forced, reply |-> reply, key |-> key, seen |-> seen]
Refused(c, reply) == Replied(c, reply, calls[c].key, {})

\* What the server does for a request it lets in.
Applied(c) ==
  \/ /\ c = "list"
     /\ calls' = [calls EXCEPT ![c] = Replied(c, "ok", NoKey, keys)]
     /\ behind' = {}
     /\ UNCHANGED <<keys, minted, mishaps>>
  \/ \E r \in {"ok", "error"} :
       /\ IF r = "ok" THEN UNCHANGED mishaps ELSE Mishap
       /\ behind' = behind \cup {"unanswered"}
       /\ \/ /\ c = "create"
             /\ \E k \in Keys :
                  /\ k = Cardinality(minted) + 2
                  /\ keys' = keys \cup {k} /\ minted' = minted \cup {k}
                  /\ calls' = [calls EXCEPT ![c] = Replied(c, r, k, {})]
          \/ /\ c = "revoke" /\ calls[c].key \in keys
             /\ keys' = keys \ {calls[c].key}
             /\ calls' = [calls EXCEPT ![c] = Replied(c, r, @.key, {})]
             /\ UNCHANGED minted

\* The server serves a request, or refuses it before it changes anything.  A
\* mutation that fails may have been applied.
Serve(c) ==
  /\ At(c, "sent")
  /\ \/ Applied(c)
     \/ /\ calls' = [calls EXCEPT ![c] = Refused(c, "401")]
        /\ UNCHANGED <<behind, keys, minted, mishaps>>
     \/ /\ c = "revoke" /\ calls[c].key \notin keys
        /\ calls' = [calls EXCEPT ![c] = Refused(c, "error")]
        /\ UNCHANGED <<behind, keys, minted, mishaps>>
     \/ /\ Mishap
        /\ calls' = [calls EXCEPT ![c] = Refused(c, "error")]
        /\ UNCHANGED <<behind, keys, minted>>
  /\ UNCHANGED <<boot, kc, keyList, screenVars, unseen, shownKeys, expired, submits, revokes>>

\* Mutant: a request whose answer is lost is sent again.
lostAgain(c) ==
  /\ At(c, "sent") \/ At(c, "replied")
  /\ Mishap
  /\ calls' = [calls EXCEPT ![c] = [Asking(calls[c].key) EXCEPT !.forced = TRUE]]
  /\ UNCHANGED <<boot, kc, keyList, screenVars, keys, keyHistory, behind,
                 expired, submits, revokes>>

\* The connection breaks and fetch rejects, whether or not the server has
\* served the request.
fetchRejects(c) ==
  /\ At(c, "sent") \/ At(c, "replied")
  /\ Mishap
  /\ CallFails(c)
  /\ UNCHANGED <<boot, kc, keys, expired, submits, revokes>>

\* Mutant: the retry is retried.
RetriesAlways(c) == calls[c].reply = "401"

\* request(): a 401 is retried once, with a new token; any other answer is
\* the call's.
Retries(c) == calls[c].reply = "401" /\ ~calls[c].forced

answered(c) ==
  /\ At(c, "replied")
  /\ \/ /\ Retries(c)
        /\ calls' = [calls EXCEPT ![c] = [Asking(@.key) EXCEPT !.forced = TRUE]]
        /\ UNCHANGED <<keyList, screenVars, keyHistory, behind>>
     \/ calls[c].reply = "ok" /\ CallSucceeds(c)
     \/ calls[c].reply \in {"401", "error"} /\ ~Retries(c) /\ CallFails(c)
  /\ UNCHANGED <<boot, kc, keys, expired, countVars>>

-----------------------------------------------------------------------------
(* The user, and everybody else *)

requestVars == <<boot, kc, keyList, keys, keyHistory, behind, expired>>

OnScreen(type) == boot = "shown" /\ dialog.type = type

openCreate ==
  /\ OnScreen("none") /\ dialog' = [NoDialog EXCEPT !.type = "create"]
  /\ UNCHANGED <<requestVars, calls, form, errorAtom, countVars>>

\* useModels has answered, and the user picks one.
chooseModel ==
  /\ OnScreen("create") /\ form' = [form EXCEPT !.model = TRUE]
  /\ UNCHANGED <<requestVars, calls, dialog, errorAtom, countVars>>

\* onSubmit; the button is disabled while a creation is pending.
onSubmit ==
  /\ OnScreen("create") /\ ~Pending("create")
  /\ form' = [form EXCEPT !.error = ~form.model]
  /\ \/ ~form.model /\ UNCHANGED <<calls, submits>>
     \/ /\ form.model /\ submits + revokes < MaxSubmits
        /\ submits' = submits + 1
        /\ calls' = [calls EXCEPT !["create"] = Asking(NoKey)]
  /\ UNCHANGED <<requestVars, dialog, errorAtom, revokes, mishaps>>

closeCreate ==
  /\ OnScreen("create") /\ dialog' = NoDialog /\ form' = NoForm
  /\ UNCHANGED <<requestVars, calls, errorAtom, countVars>>

\* "I've copied my key": the page forgets it.
closeCreated ==
  /\ OnScreen("created") /\ dialog' = NoDialog
  /\ UNCHANGED <<requestVars, calls, form, errorAtom, countVars>>

\* KeysCard: the rows of the table, in whose place an error stands.
tableRows == IF keyList.error THEN {} ELSE keyList.data

\* KeyRowActions, on a row.
openRevoke(k) ==
  /\ OnScreen("none") /\ k \in tableRows
  /\ dialog' = [type |-> "revoke", key |-> k]
  /\ UNCHANGED <<requestVars, calls, form, errorAtom, countVars>>

confirmRevoke ==
  /\ OnScreen("revoke") /\ ~Pending("revoke") /\ submits + revokes < MaxSubmits
  /\ revokes' = revokes + 1
  /\ calls' = [calls EXCEPT !["revoke"] = Asking(dialog.key)]
  /\ UNCHANGED <<requestVars, screenVars, submits, mishaps>>

cancelRevoke ==
  /\ OnScreen("revoke") /\ dialog' = NoDialog
  /\ UNCHANGED <<requestVars, calls, form, errorAtom, countVars>>

dismissError ==
  /\ boot = "shown" /\ errorAtom /\ errorAtom' = FALSE
  /\ UNCHANGED <<requestVars, calls, dialog, form, countVars>>

\* Another tab, or an audit, removes a key.
RevokedElsewhere ==
  /\ Mishap
  /\ \E k \in keys : keys' = keys \ {k}
  /\ behind' = behind \cup {"elsewhere"}
  /\ UNCHANGED <<boot, kc, calls, keyList, screenVars, keyHistory, expired, submits, revokes>>

PortalUser ==
  \/ openCreate \/ chooseModel \/ onSubmit \/ closeCreate \/ closeCreated
  \/ \E k \in Keys : openRevoke(k)
  \/ confirmRevoke \/ cancelRevoke \/ dismissError

PortalNext ==
  \/ loadAppConfig \/ initKeycloak \/ LeavePage \/ PortalUser \/ RevokedElsewhere
  \/ \E c \in DOMAIN calls :
       \/ getToken(c) \/ refreshFails(c) \/ sessionExpired(c)
       \/ Serve(c) \/ fetchRejects(c) \/ answered(c)

\* The page's own steps are taken, and the server serves what it is sent: the
\* code puts no limit on the time of a request.
PortalFairness ==
  \A c \in {"list", "create", "revoke"} :
    WF_portalVars(getToken(c) \/ sessionExpired(c) \/ Serve(c) \/ answered(c))

PortalSpec == PortalInit /\ [][PortalNext]_portalVars /\ PortalFairness

-----------------------------------------------------------------------------
(* Properties *)

\* A submit of the form mints at most one key: request() sends a mutation again only when
\* the server refused it with a 401, never when the answer was lost.
OneKeyPerSubmit == Cardinality(minted) <= submits

\* A key created for this page is shown, whatever dialog the user has gone to
\* since; the exceptions are a creation still pending, and one whose answer was
\* lost, failed, or came after the page had gone.
NewKeyIsShown ==
  minted \subseteq shownKeys \cup unseen \cup {calls["create"].key}

\* When nothing is pending and no error is shown, the list is the server's,
\* unless a mutation's answer never came, somebody else changed the keys, or a
\* mutation was answered between the first list's reading and its arrival.
ListCatchesUp ==
  (\A c \in DOMAIN calls : ~Pending(c)) /\ keyList.held /\ ~keyList.error
    => keyList.data = keys \/ behind # {}

\* Every request ends, so that its button is enabled again: the retry of a 401
\* is not repeated however often the server refuses.
RequestsEnd == \A c \in {"list", "create", "revoke"} : []<>~Pending(c)

\* A creation's outcome is one key, and its user's to copy: the two ways in
\* which a retry or a late answer could go wrong, a second key that nobody asked
\* for and a key that nobody ever saw.
MintedOnceAndShown == OneKeyPerSubmit /\ NewKeyIsShown

\* "a redirect to Keycloak is already in flight" (keycloak.ts:83) whenever a call
\* has ended in SessionExpiredError.
LoginIsUnderWay == expired => kc.redirecting

\* Every request comes to an end that its user can see, an answer or the login.
RequestsSettle == RequestsEnd /\ []LoginIsUnderWay

-----------------------------------------------------------------------------
(* The inductive invariant behind MintedOnceAndShown, ListCatchesUp and    *)
(* LoginIsUnderWay                                                         *)

CallRecords == [at : {"none", "token", "sent", "replied"}, forced : BOOLEAN,
                reply : {"none", "ok", "401", "error"}, key : Keys \cup {NoKey},
                seen : SUBSET Keys]

PortalShape ==
  /\ calls \in [{"list", "create", "revoke"} -> CallRecords]
  /\ keyList \in [held : BOOLEAN, data : SUBSET Keys, error : BOOLEAN]
  /\ dialog \in [type : {"none", "create", "created", "revoke"}, key : Keys \cup {NoKey}]
  /\ submits \in Nat /\ mishaps \in Nat

\* A creation that may still be served, for the first time or after a 401.
Unserved == calls["create"].at \in {"token", "sent"} \/ calls["create"].reply = "401"

\* A creation owns no key before it is served, and then the one it was given.
OneKeyDue ==
  /\ Unserved => calls["create"].key = NoKey /\ Cardinality(minted) < submits
  /\ calls["create"].at = "none" => calls["create"].key = NoKey
  /\ calls["create"].reply = "ok" => calls["create"].key \in minted

\* The list, or the answer that will replace it, is the server's, unless it is noted
\* how it came to differ.
ListCurrent ==
  behind = {} =>
    /\ calls["list"].at = "none" /\ keyList.held /\ ~keyList.error => keyList.data = keys
    /\ calls["list"].reply = "ok" => calls["list"].seen = keys

\* Whoever has lost the session on the page is being sent to the login; no call is made,
\* and none ends, before the page is there.
SessionKnown ==
  /\ boot = "shown" => kc.authenticated \/ kc.redirecting
  /\ expired => boot = "shown"

PortalInv ==
  /\ PortalTypeOK /\ PortalShape
  /\ MintedOnceAndShown /\ OneKeyDue
  /\ ListCurrent
  /\ LoginIsUnderWay /\ SessionKnown
=============================================================================
