---------------------------- MODULE KeyRegistry -----------------------------
(***************************************************************************)
(* What a model's key store promises, without objects, versions, caches or *)
(* retries: a client ID holds at most one credential, a credential is put  *)
(* there once and taken away for good, and nothing else happens to it.     *)
(* KeyStore implements this with live as the data of the Secret.           *)
(***************************************************************************)
CONSTANT ClientIDs

VARIABLES
  live,      \* the credential each client ID holds; 0 is none
  retired    \* the credentials that have been taken away

regVars == <<live, retired>>

Init ==
  /\ live = [id \in ClientIDs |-> 0]
  /\ retired = {}

\* A credential nobody holds or has held goes to a client ID that has none.
Mint(id) ==
  /\ live[id] = 0
  /\ live'[id] # 0 /\ live'[id] \notin retired
  /\ \A i \in ClientIDs : live[i] # live'[id]
  /\ live' = [live EXCEPT ![id] = live'[id]]
  /\ UNCHANGED retired

Retire(id) ==
  /\ live[id] # 0
  /\ live' = [live EXCEPT ![id] = 0]
  /\ retired' = retired \cup {live[id]}

\* The model is deleted with all its credentials.
Wipe ==
  /\ live' = [id \in ClientIDs |-> 0]
  /\ retired' = retired \cup {live[i] : i \in {j \in ClientIDs : live[j] # 0}}

Next ==
  \/ \E id \in ClientIDs : Mint(id)
  \/ \E id \in ClientIDs : Retire(id)
  \/ Wipe

Spec == Init /\ [][Next]_regVars
=============================================================================
