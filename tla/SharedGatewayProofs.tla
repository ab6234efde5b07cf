------------------------- MODULE SharedGatewayProofs -------------------------
(* Proofs about SharedGateway, for any number of policies and listeners of *)
(* others, one Gateway or two, and any configurations, events and passes.  *)
EXTENDS SharedGateway, FiniteSetTheorems, FunctionTheorems, WellFoundedInduction, TLAPS

(***************************************************************************)
(* Least and greatest numbers, which the order of policies rests on.       *)
(***************************************************************************)
\* A set of numbers has a least one: somebody's policy is the oldest.
LEMMA LeastNumber ==
  ASSUME NEW S \in SUBSET Nat, S # {}
  PROVE  \E m \in S : \A x \in S : m <= x
<1>1. PICK m \in S : \A x \in S : ~(<<x, m>> \in OpToRel(<, Nat))
  BY NatLessThanWellFounded, WFMin
<1>2. \A x \in S : ~(x < m)
  BY <1>1 DEF OpToRel
<1> QED BY <1>2

\* A finite set of numbers has a greatest: somebody's policy is the youngest.
LEMMA GreatestNumber ==
  ASSUME NEW S \in SUBSET Nat, S # {}, IsFiniteSet(S)
  PROVE  Max(S) \in S
<1> DEFINE Without == {T \in SUBSET S : T # {} /\ ~\E m \in T : \A x \in T : m >= x}
           Sizes   == {Cardinality(T) : T \in Without}
<1>f. \A T \in SUBSET S : IsFiniteSet(T) /\ Cardinality(T) \in Nat
  BY FS_Subset, FS_CardinalityType
<1>1. Without = {}
  <2> SUFFICES ASSUME Without # {} PROVE FALSE
    OBVIOUS
  <2>1. PICK n \in Sizes : \A k \in Sizes : n <= k
    <3>1. Sizes \in SUBSET Nat /\ Sizes # {}
      BY <1>f
    <3> HIDE DEF Sizes
    <3> QED BY <3>1, LeastNumber
  <2>2. PICK T \in Without : Cardinality(T) = n
    OBVIOUS
  <2>3. PICK x \in T : TRUE
    OBVIOUS
  <2>4. Cardinality(T \ {x}) < Cardinality(T) /\ T \ {x} \in SUBSET S
    BY <1>f, <2>3, FS_RemoveElement
  <2>5. T \ {x} \notin Without
    <3> SUFFICES ASSUME T \ {x} \in Without PROVE FALSE
      OBVIOUS
    <3>1. Cardinality(T \ {x}) \in Sizes
      OBVIOUS
    <3>2. Cardinality(T \ {x}) \in Nat /\ Cardinality(T) \in Nat
      BY <1>f, <2>4
    <3> HIDE DEF Without, Sizes
    <3> QED BY <2>1, <2>2, <2>4, <3>1, <3>2
  <2>6. CASE T \ {x} = {}
    BY <2>2, <2>3, <2>6
  <2>7. CASE T \ {x} # {}
    <3>1. PICK m \in T \ {x} : \A y \in T \ {x} : m >= y
      BY <2>4, <2>5, <2>7
    <3>2. m \in Nat /\ x \in Nat /\ \A y \in T : y \in Nat
      BY <2>2, <2>3, <3>1
    <3>3. \E z \in T : \A y \in T : z >= y
      <4>1. CASE m >= x
        BY <3>1, <4>1
      <4>2. CASE x >= m
        BY <2>3, <3>1, <3>2, <4>2
      <4> QED BY <3>2, <4>1, <4>2
    <3> QED BY <2>2, <3>3
  <2> QED BY <2>6, <2>7
<1>2. \E m \in S : \A x \in S : m >= x
  BY <1>1
<1> QED BY <1>2 DEF Max

(***************************************************************************)
(* Which policy of somebody else applies.                                  *)
(***************************************************************************)
\* Choosing the oldest, and the first by name among those as old, is a choice:
\* what the code copies from is the policy that Envoy Gateway applies.
LEMMA OldestApplies ==
  ASSUME others \in [Others -> OtherPolicies], NEW l, GatewayWide(l) # {}
  PROVE  /\ appliedGatewayWidePolicy(GatewayWide(l)) \in GatewayWide(l)
         /\ Applies(appliedGatewayWidePolicy(GatewayWide(l)), l)
<1> DEFINE ps     == GatewayWide(l)
           births == {others[p].born : p \in ps}
           First(p) == \A q \in ps :
             others[p].born < others[q].born \/ (others[p].born = others[q].born /\ p <= q)
<1>1. ps \in SUBSET Nat /\ \A p \in ps : others[p].born \in Nat
  BY SharedGatewayAssumptions DEF GatewayWide, OtherPolicies
<1>2. PICK b \in births : \A x \in births : b <= x
  <2>1. births \in SUBSET Nat /\ births # {}
    BY <1>1
  <2> HIDE DEF births
  <2> QED BY <2>1, LeastNumber
<1> DEFINE oldest == {p \in ps : others[p].born = b}
<1>3. PICK p \in oldest : \A q \in oldest : p <= q
  <2>1. oldest \in SUBSET Nat /\ oldest # {}
    BY <1>1, <1>2
  <2> HIDE DEF oldest
  <2> QED BY <2>1, LeastNumber
<1>4. p \in ps /\ First(p)
  <2>1. \A q \in ps : b <= others[q].born /\ (others[q].born = b => p <= q)
    BY <1>2, <1>3
  <2> QED BY <1>1, <1>2, <1>3, <2>1
<1>5. /\ appliedGatewayWidePolicy(ps) \in ps
      /\ First(appliedGatewayWidePolicy(ps))
  BY <1>4 DEF appliedGatewayWidePolicy
<1>6. \A q \in ps : First(q) => Applies(q, l)
  BY <1>1 DEF Applies
<1> QED BY <1>5, <1>6

(***************************************************************************)
(* Type correctness.                                                       *)
(***************************************************************************)
\* The values that steps write are well typed.
LEMMA ValuesTyped ==
  /\ External \in Listeners /\ Internal \in Listeners
  /\ \A l \in Listeners : GatewayOf[l] \in Gateways
  /\ NoGateway \in GatewayType /\ NoPolicy \in OwnPolicies /\ NoOther \in OtherPolicies
  /\ \A s \in Settings \cup {None} : PolicyWith(s) \in OwnPolicies
  /\ Source \in Secrets \ {None}
BY DEF Listeners, Gateways, NoGateway, GatewayType, Secrets, NoPolicy, OwnPolicies, NoOther,
       OtherPolicies, PolicyWith, Source, None

\* The bounds on events and passes are kept by the guards that count them.
LEMMA BoundsKept ==
  ASSUME TypeOK
  PROVE  /\ Event => events' \in 0..MaxEvents
         /\ passes < MaxPasses => passes + 1 \in 0..MaxPasses
<1>1. MaxEvents \in Nat /\ MaxPasses \in Nat
  BY SharedGatewayAssumptions
<1>2. events \in 0..MaxEvents /\ passes \in 0..MaxPasses
  BY DEF TypeOK
<1> QED BY <1>1, <1>2 DEF Event

LEMMA ConfigsTyped == \A c \in Configs : c.byo \in BOOLEAN /\ c.metering \in BOOLEAN
BY SharedGatewayAssumptions

\* A pass that ends, or goes on to another call, keeps the operator's types.
LocalTyped ==
  /\ holder \in {"nobody", "resync", "watch"}
  /\ pc \in {"rest", "source", "grant", "list", "apply", "get", "update"}
  /\ at \in Listeners
  /\ plan \in OwnPolicies
  /\ snap \in GatewayType

LEMMA LocalSteps ==
  ASSUME LocalTyped
  PROVE  /\ Done => LocalTyped'
         /\ \A l \in Listeners, where \in {"source", "grant", "list", "get"} :
              Step(where, l) => LocalTyped'
BY ValuesTyped DEF LocalTyped, Done, Step

\* A policy is born in the second of the youngest, or later.
LEMMA BirthsAreNumbers ==
  ASSUME others \in [Others -> OtherPolicies]
  PROVE  Births \subseteq Nat
<1> DEFINE Theirs == {q \in Others : others[q] # NoOther}
           there  == {others[p].born : p \in Theirs}
           born   == [p \in Theirs |-> others[p].born]
<1>1. there \in SUBSET Nat
  BY DEF OtherPolicies
<1>2. IsFiniteSet(there)
  <2>1. IsFiniteSet(Theirs)
    BY SharedGatewayAssumptions, FS_Subset
  <2>2. born \in Surjection(Theirs, there)
    BY Zenon DEF Surjection
  <2> HIDE DEF Theirs, there, born
  <2> QED BY <2>1, <2>2, FS_Surjection
<1>3. there # {} => Max(there) \in Nat
  <2> HIDE DEF there
  <2> QED BY <1>1, <1>2, GreatestNumber
<1>4. Births = IF there = {} THEN {0} ELSE {Max(there), Max(there) + 1}
  BY DEF Births
<1> HIDE DEF there
<1> QED BY <1>3, <1>4

\* What is written is the copy with one listener replaced, as its next version.
LEMMA Written ==
  ASSUME snap \in GatewayType
  PROVE  [Merged(snap) EXCEPT !.rv = @ + 1] =
           [rv |-> snap.rv + 1, exists |-> snap.exists, foreign |-> snap.foreign,
            shared |-> [snap.shared EXCEPT ![at] = Source]]
<1>1. PICK rv \in Nat, exists \in BOOLEAN, foreign \in SUBSET Foreign,
          shared \in [Listeners -> Secrets] :
        snap = [rv |-> rv, exists |-> exists, shared |-> shared, foreign |-> foreign]
  BY DEF GatewayType
<1>2. Merged(snap) = [rv |-> rv, exists |-> exists, foreign |-> foreign,
                      shared |-> [shared EXCEPT ![at] = Source]]
  BY <1>1 DEF Merged
<1> QED BY <1>1, <1>2

\* At first there are no policies, and no listener points anywhere.
LEMMA TypeInit == Init => TypeOK
<1> SUFFICES ASSUME Init PROVE TypeOK
  OBVIOUS
<1>1. PICK there \in BOOLEAN : gateway = [g \in Gateways |-> [NoGateway EXCEPT !.exists = there]]
  BY DEF Init
<1>2. [NoGateway EXCEPT !.exists = there] \in GatewayType
  BY ValuesTyped DEF GatewayType
<1>3. gateway \in [Gateways -> GatewayType]
  BY <1>1, <1>2
<1>4. events \in 0..MaxEvents /\ passes \in 0..MaxPasses
  <2>1. MaxEvents \in Nat /\ MaxPasses \in Nat
    BY SharedGatewayAssumptions
  <2> QED BY <2>1 DEF Init
<1> QED BY <1>3, <1>4, ValuesTyped DEF Init, TypeOK, Secrets

\* The operator's steps about its own state keep the types.
LEMMA TypeWork ==
  ASSUME TypeOK, startPass \/ startWatch \/ Work
  PROVE  TypeOK'
<1> USE ValuesTyped
<1>l. LocalTyped
  BY DEF TypeOK, LocalTyped
<1>1. CASE startPass
  <2>1. passes' \in 0..MaxPasses
    BY <1>1, BoundsKept DEF startPass
  <2> QED BY <1>1, <2>1 DEF startPass, TypeOK, clusterVars
<1>2. CASE startWatch
  BY <1>2 DEF startWatch, TypeOK, clusterVars, bounds
<1>3. CASE ensureSource
  <2>1. config.byo \in BOOLEAN
    BY ConfigsTyped DEF TypeOK
  <2>2. LocalTyped'
    BY <1>3, <1>l, LocalSteps DEF ensureSource
  <2> QED BY <1>3, <2>1, <2>2 DEF ensureSource, TypeOK, LocalTyped, bounds
<1>4. CASE ensureReferenceGrant
  <2>1. LocalTyped'
    BY <1>4, <1>l, LocalSteps DEF ensureReferenceGrant, AfterGrant
  <2> QED BY <1>4, <2>1 DEF ensureReferenceGrant, TypeOK, LocalTyped, bounds
<1>n. ASSUME NextPolicy PROVE LocalTyped' /\ look' \in {"none", "under way", "complete"}
  BY <1>n, <1>l, LocalSteps DEF NextPolicy, TypeOK
<1>5. CASE skipPolicy
  BY <1>5, <1>n DEF skipPolicy, TypeOK, LocalTyped, clusterVars, bounds
<1>6. CASE listPolicies
  <2>1. ASSUME GatewayWide(at) # {}
        PROVE  others[appliedGatewayWidePolicy(GatewayWide(at))].setting \in Settings \cup {None}
    <3>1. appliedGatewayWidePolicy(GatewayWide(at)) \in GatewayWide(at)
      BY <2>1, OldestApplies DEF TypeOK
    <3> QED BY <3>1 DEF GatewayWide, TypeOK, OtherPolicies
  <2>2. plan' \in OwnPolicies
    BY <1>6, <2>1 DEF listPolicies
  <2> QED BY <1>6, <2>2 DEF listPolicies, TypeOK, clusterVars, bounds
<1>7. CASE applyPolicy
  <2>1. own' \in [Listeners -> OwnPolicies] /\ pending' \in BOOLEAN
    BY <1>7 DEF applyPolicy, TypeOK
  <2> QED BY <1>7, <1>n, <2>1 DEF applyPolicy, TypeOK, LocalTyped, bounds
<1>8. CASE getGateway
  <2>1. LocalTyped'
    <3>1. CASE NextListener
      BY <1>l, <3>1, LocalSteps DEF NextListener
    <3>2. CASE /\ snap' = gateway[GatewayOf[at]] /\ pc' = "update"
               /\ UNCHANGED <<holder, at, plan>>
      BY <1>l, <3>2 DEF LocalTyped, TypeOK
    <3>3. NextListener \/ (/\ snap' = gateway[GatewayOf[at]] /\ pc' = "update"
                           /\ UNCHANGED <<holder, at, plan>>)
      BY <1>8 DEF getGateway
    <3> QED BY <3>1, <3>2, <3>3
  <2> QED BY <1>8, <2>1 DEF getGateway, TypeOK, LocalTyped, clusterVars, bounds
<1>9. CASE updateGateway
  <2>1. LocalTyped'
    BY <1>9, <1>l, LocalSteps DEF updateGateway, NextListener
  <2>2. [Merged(snap) EXCEPT !.rv = @ + 1] \in GatewayType
    <3>1. [snap.shared EXCEPT ![at] = Source] \in [Listeners -> Secrets]
      BY DEF TypeOK, GatewayType
    <3>2. snap \in GatewayType
      BY DEF TypeOK
    <3>3. snap.rv + 1 \in Nat /\ snap.exists \in BOOLEAN /\ snap.foreign \in SUBSET Foreign
      <4>1. snap.rv \in Nat
        BY <3>2 DEF GatewayType
      <4> QED BY <3>2, <4>1 DEF GatewayType
    <3> QED BY <3>1, <3>2, <3>3, Written DEF GatewayType
  <2>3. gateway' \in [Gateways -> GatewayType]
    BY <1>9, <2>2 DEF updateGateway, TypeOK
  <2> QED BY <1>9, <2>1, <2>3 DEF updateGateway, TypeOK, LocalTyped, bounds
<1>10. CASE updateConflicts
  BY <1>10, <1>l, LocalSteps DEF updateConflicts, TypeOK, LocalTyped, clusterVars, bounds
<1> QED
  BY <1>1, <1>2, <1>3, <1>4, <1>5, <1>6, <1>7, <1>8, <1>9, <1>10 DEF Work

\* So do failures and restarts, and what others do.
LEMMA TypeAround ==
  ASSUME TypeOK, passFails \/ policyFails \/ Restart \/ Environment
  PROVE  TypeOK'
<1>l. LocalTyped
  BY DEF TypeOK, LocalTyped
<1>1. CASE passFails
  BY <1>1, <1>l, LocalSteps, BoundsKept DEF passFails, TypeOK, LocalTyped, clusterVars
<1>2. CASE policyFails
  <2>1. LocalTyped' /\ pending' \in BOOLEAN
    <3>1. CASE Done
      BY <1>2, <1>l, <3>1, LocalSteps DEF policyFails, TypeOK
    <3>2. CASE Step("get", External)
      BY <1>2, <1>l, <3>2, LocalSteps, ValuesTyped DEF policyFails, TypeOK
    <3> QED BY <1>2, <3>1, <3>2 DEF policyFails, AfterPolicyError
  <2> QED BY <1>2, <2>1, BoundsKept DEF policyFails, TypeOK, LocalTyped, clusterVars
<1>3. CASE Restart
  <2>1. pending' \in BOOLEAN
    BY <1>3, ConfigsTyped DEF Restart, AnyPolicy
  <2> QED BY <1>3, <1>l, <2>1, LocalSteps, BoundsKept
          DEF Restart, TypeOK, LocalTyped, clusterVars
<1>p. ASSUME ChangePolicies, own' \in [Listeners -> OwnPolicies],
             others' \in [Others -> OtherPolicies]
      PROVE  TypeOK'
  <2>1. pending' \in BOOLEAN
    BY <1>p, ConfigsTyped DEF ChangePolicies, TypeOK
  <2> QED BY <1>p, <2>1, BoundsKept DEF ChangePolicies, TypeOK, localVars
<1>4. ASSUME NEW p \in Others, CreateOther(p) \/ EditOther(p) \/ DeleteOther(p)
      PROVE  TypeOK'
  <2>1. CASE CreateOther(p)
    <3>1. PICK t \in Gateways \cup Listeners, s \in Settings, born \in Births :
            others' = [others EXCEPT ![p] = [target |-> t, setting |-> s, born |-> born]]
      BY <2>1 DEF CreateOther
    <3>2. [target |-> t, setting |-> s, born |-> born] \in OtherPolicies
      BY BirthsAreNumbers DEF TypeOK, OtherPolicies
    <3>3. others' \in [Others -> OtherPolicies]
      BY <3>1, <3>2 DEF TypeOK
    <3> QED BY <1>p, <2>1, <3>3 DEF CreateOther, TypeOK
  <2>2. CASE EditOther(p)
    <3>1. PICK t \in Gateways \cup Listeners, s \in Settings \cup {None} :
            others' = [others EXCEPT ![p].target = t] \/ others' = [others EXCEPT ![p].setting = s]
      <4>1. CASE \E t \in Gateways \cup Listeners : others' = [others EXCEPT ![p].target = t]
        BY <4>1
      <4>2. CASE \E s \in Settings : others' = [others EXCEPT ![p].setting = s]
        BY <4>2, ValuesTyped
      <4> QED BY <2>2, <4>1, <4>2 DEF EditOther
    <3>2. others' \in [Others -> OtherPolicies]
      <4>1. others \in [Others -> OtherPolicies] /\ others[p] \in OtherPolicies
        BY DEF TypeOK
      <4>2. /\ [others[p] EXCEPT !.target = t] \in OtherPolicies
            /\ [others[p] EXCEPT !.setting = s] \in OtherPolicies
        BY <4>1 DEF OtherPolicies
      <4>3. \E r \in OtherPolicies : others' = [others EXCEPT ![p] = r]
        BY <3>1, <4>2
      <4> QED BY <4>1, <4>3
    <3> QED BY <1>p, <2>2, <3>2 DEF EditOther, TypeOK
  <2>3. CASE DeleteOther(p)
    <3>1. others' \in [Others -> OtherPolicies]
      BY <2>3, ValuesTyped DEF DeleteOther, TypeOK
    <3> QED BY <1>p, <2>3, <3>1 DEF DeleteOther, TypeOK
  <2> QED BY <1>4, <2>1, <2>2, <2>3
<1>5. ASSUME NEW l \in Listeners, DeleteOwn(l)
      PROVE  TypeOK'
  <2>1. own' \in [Listeners -> OwnPolicies]
    BY <1>5, ValuesTyped DEF DeleteOwn, TypeOK
  <2> QED BY <1>5, <1>p, <2>1 DEF DeleteOwn, TypeOK
<1>6. ASSUME NEW g \in Gateways, WriteGateway(g)
      PROVE  TypeOK'
  <2>1. PICK ls \in SUBSET Foreign, kept \in {{}, Listeners} :
          /\ theirs' = [theirs EXCEPT ![g] = ls]
          /\ gateway' = [gateway EXCEPT ![g] =
               [rv |-> @.rv + 1, exists |-> TRUE, foreign |-> ls,
                shared |-> [l \in Listeners |-> IF l \in kept THEN @.shared[l] ELSE None]]]
    BY <1>6 DEF WriteGateway
  <2> DEFINE gw == [rv |-> gateway[g].rv + 1, exists |-> TRUE, foreign |-> ls,
                    shared |-> [l \in Listeners |-> IF l \in kept THEN gateway[g].shared[l] ELSE None]]
  <2>2. gateway[g] \in GatewayType
    BY DEF TypeOK
  <2>3. gw.shared \in [Listeners -> Secrets]
    BY <2>2 DEF GatewayType, Secrets
  <2>4. gw \in GatewayType
    BY <2>2, <2>3 DEF GatewayType
  <2>5. gateway' = [gateway EXCEPT ![g] = gw]
    BY <2>1
  <2>6. gateway' \in [Gateways -> GatewayType]
    <3> HIDE DEF gw
    <3> QED BY <2>4, <2>5 DEF TypeOK
  <2>7. theirs' \in [Gateways -> SUBSET Foreign] /\ look' \in {"none", "under way", "complete"}
    BY <1>6, <2>1 DEF WriteGateway, TypeOK
  <2> QED BY <1>6, <2>6, <2>7, BoundsKept DEF WriteGateway, TypeOK, localVars
<1> QED BY <1>1, <1>2, <1>3, <1>4, <1>5, <1>6 DEF Environment

LEMMA TypeStep ==
  ASSUME TypeOK, [Next]_vars
  PROVE  TypeOK'
<1>1. CASE UNCHANGED vars
  BY <1>1 DEF vars, clusterVars, localVars, bounds, TypeOK
<1> QED BY <1>1, TypeWork, TypeAround DEF Next

\* Every reachable state is well typed, whatever policies, Gateways and configurations there are.
THEOREM GatewayTypeCorrect == Spec => []TypeOK
<1> QED BY TypeInit, TypeStep, PTL DEF Spec

(***************************************************************************)
(* The listeners: theirs are kept, and ours follow the grant.              *)
(***************************************************************************)
\* A step that ends the pass, or goes on to a call for which the grant is as it
\* should be, reads no Gateway.
LEMMA MovesOn ==
  ASSUME TypeOK, Roles, pc # "rest", ForeignListenersKept',
         \/ Done
         \/ Step("grant", External)
         \/ Step("list", Internal)
         \/ Step("list", External) /\ holder = "resync"
         \/ \E l \in Listeners : Step("get", l) /\ holder = "resync",
         \/ pc' \in {"rest", "source", "grant"}
         \/ holder = "resync" => grant' = Source',
         pc' = "grant" => holder = "resync"
  PROVE  ListenerInv'
<1>1. CASE Done
  BY <1>1 DEF Done, ListenerInv, SnapIsCopy, Roles, GrantFirst
<1>2. CASE ~Done
  BY <1>2 DEF TypeOK, Step, ListenerInv, SnapIsCopy, Roles, GrantFirst
<1> QED BY <1>1, <1>2

\* With the Gateways left alone, so are the listeners of others.
LEMMA ForeignFrame ==
  ASSUME ForeignListenersKept, UNCHANGED <<gateway, theirs>>
  PROVE  ForeignListenersKept'
BY DEF ForeignListenersKept

\* A write that the API server accepts puts back what was there, but for one
\* listener.
LEMMA AcceptedWrite ==
  ASSUME TypeOK, SnapIsCopy, updateGateway
  PROVE  LET gw  == gateway[GatewayOf[at]]
             gw2 == gateway'[GatewayOf[at]] IN
         /\ \A g \in Gateways \ {GatewayOf[at]} : gateway'[g] = gateway[g]
         /\ gw2.exists = gw.exists /\ gw2.foreign = gw.foreign
         /\ gw2.shared = [gw.shared EXCEPT ![at] = Source]
<1>1. snap \in GatewayType /\ gateway \in [Gateways -> GatewayType] /\ GatewayOf[at] \in Gateways
  BY ValuesTyped DEF TypeOK
<1>2. snap = gateway[GatewayOf[at]]
  BY DEF updateGateway, SnapIsCopy
<1> DEFINE w == [rv |-> snap.rv + 1, exists |-> snap.exists, foreign |-> snap.foreign,
                 shared |-> [snap.shared EXCEPT ![at] = Source]]
<1>3. gateway' = [gateway EXCEPT ![GatewayOf[at]] = w]
  BY <1>1, Written DEF updateGateway
<1>4. w.exists = snap.exists /\ w.foreign = snap.foreign
      /\ w.shared = [snap.shared EXCEPT ![at] = Source]
  OBVIOUS
<1> HIDE DEF w
<1>5. gateway'[GatewayOf[at]] = w /\ \A g \in Gateways \ {GatewayOf[at]} : gateway'[g] = gateway[g]
  BY <1>1, <1>3
<1> QED BY <1>2, <1>4, <1>5

\* The operator's own steps.
LEMMA ListenersWork ==
  ASSUME TypeOK, ListenerInv, Work
  PROVE  ListenerInv'
<1> USE DEF ListenerInv
<1>s. UNCHANGED config => Source' = Source
  BY DEF Source
<1>r. pc \in {"source", "grant", "get", "update"} => holder = "resync"
  BY DEF Roles, TypeOK
<1>a. pc \notin {"source", "grant"} /\ UNCHANGED <<config, grant>> /\ holder = "resync"
        => grant' = Source'
  BY <1>s DEF GrantFirst
<1>l. External \in Listeners /\ Internal \in Listeners
  BY ValuesTyped
<1>1. CASE ensureSource
  <2>1. ForeignListenersKept'
    BY <1>1, ForeignFrame DEF ensureSource
  <2>2. pc = "source" /\ Step("grant", External) /\ pc' = "grant"
    BY <1>1 DEF ensureSource, Step
  <2> QED BY <1>r, <2>1, <2>2, MovesOn
<1>2. CASE ensureReferenceGrant
  <2>1. ForeignListenersKept' /\ grant' = Source'
    BY <1>2, <1>s, ForeignFrame DEF ensureReferenceGrant
  <2>2. pc = "grant" /\ (Step("list", External) \/ Step("get", External) \/ Done)
    BY <1>2 DEF ensureReferenceGrant, AfterGrant
  <2>3. pc' # "grant"
    BY <2>2 DEF Step, Done
  <2> QED BY <1>l, <1>r, <2>1, <2>2, <2>3, MovesOn
<1>n. ASSUME NextPolicy, pc \in {"list", "apply"}, UNCHANGED <<config, grant, gateway, theirs>>
      PROVE  ListenerInv'
  <2>1. ForeignListenersKept'
    BY <1>n, ForeignFrame
  <2>2. Step("list", Internal) \/ (Step("get", External) /\ holder = "resync") \/ Done
    BY <1>n DEF NextPolicy
  <2>3. pc' # "grant"
    BY <2>2 DEF Step, Done
  <2> QED BY <1>a, <1>l, <1>n, <2>1, <2>2, <2>3, MovesOn
<1>3. CASE skipPolicy
  BY <1>3, <1>n DEF skipPolicy, clusterVars
<1>4. CASE listPolicies
  <2>1. ForeignListenersKept'
    BY <1>4, ForeignFrame DEF listPolicies, clusterVars
  <2>2. /\ pc = "list" /\ pc' = "apply"
        /\ UNCHANGED <<config, grant, holder>>
    BY <1>4 DEF listPolicies, clusterVars
  <2> QED BY <1>a, <2>1, <2>2 DEF SnapIsCopy, Roles, GrantFirst
<1>5. CASE applyPolicy
  BY <1>5, <1>n DEF applyPolicy
<1>g. ASSUME NextListener, pc \in {"get", "update"}, ForeignListenersKept', UNCHANGED <<config, grant>>
      PROVE  ListenerInv'
  <2>1. Step("get", Internal) \/ Done
    BY <1>g DEF NextListener
  <2>2. pc' # "grant"
    BY <2>1 DEF Step, Done
  <2> QED BY <1>a, <1>l, <1>r, <1>g, <2>1, <2>2, MovesOn
<1>6. CASE getGateway
  <2>1. ForeignListenersKept'
    BY <1>6, ForeignFrame DEF getGateway, clusterVars
  <2>2. pc = "get" /\ UNCHANGED <<config, grant, gateway>>
    BY <1>6 DEF getGateway, clusterVars
  <2>3. CASE NextListener
    BY <1>g, <2>1, <2>2, <2>3
  <2>4. CASE snap' = gateway[GatewayOf[at]] /\ pc' = "update" /\ UNCHANGED <<holder, at, plan>>
    <3>1. snap'.rv \in Nat
      BY <2>4, ValuesTyped DEF TypeOK, GatewayType
    <3>2. SnapIsCopy'
      BY <2>2, <2>4, <3>1 DEF SnapIsCopy
    <3> QED BY <1>a, <1>r, <2>1, <2>2, <2>4, <3>2 DEF Roles, GrantFirst
  <2>5. NextListener \/ (snap' = gateway[GatewayOf[at]] /\ pc' = "update" /\ UNCHANGED <<holder, at, plan>>)
    BY <1>6 DEF getGateway
  <2> QED BY <2>3, <2>4, <2>5
<1>7. CASE updateGateway
  <2>1. ForeignListenersKept'
    <3>1. theirs' = theirs
      BY <1>7 DEF updateGateway
    <3>2. \A g \in Gateways : gateway'[g].foreign = gateway[g].foreign
      BY <1>7, AcceptedWrite, ValuesTyped DEF TypeOK
    <3> QED BY <3>1, <3>2 DEF ForeignListenersKept
  <2> QED BY <1>7, <1>g, <2>1 DEF updateGateway
<1>8. CASE updateConflicts
  <2>1. ForeignListenersKept'
    BY <1>8, ForeignFrame DEF updateConflicts, clusterVars
  <2>2. pc = "update" /\ Done /\ pc' = "rest"
    BY <1>8 DEF updateConflicts, Done
  <2> QED BY <2>1, <2>2, MovesOn
<1> QED BY <1>1, <1>2, <1>3, <1>4, <1>5, <1>6, <1>7, <1>8 DEF Work

\* The passes that begin or fail, and what others do.
LEMMA ListenersAround ==
  ASSUME TypeOK, ListenerInv, [Next]_vars, ~Work
  PROVE  ListenerInv'
<1> USE DEF ListenerInv
<1>s. UNCHANGED config => Source' = Source
  BY DEF Source
<1>l. External \in Listeners /\ Internal \in Listeners
  BY ValuesTyped
<1>e. ASSUME Done, UNCHANGED <<gateway, theirs>>
      PROVE  ListenerInv'
  <2>1. ForeignListenersKept'
    BY <1>e, ForeignFrame
  <2> QED BY <1>e, <2>1 DEF Done, SnapIsCopy, Roles, GrantFirst
<1>u. ASSUME UNCHANGED <<config, grant, gateway, holder, pc, at, snap, theirs>>
      PROVE  ListenerInv'
  BY <1>s, <1>u DEF ForeignListenersKept, SnapIsCopy, Roles, GrantFirst
<1>1. CASE startPass
  <2>1. ForeignListenersKept'
    BY <1>1, ForeignFrame DEF startPass, clusterVars
  <2> QED BY <1>1, <2>1 DEF startPass, SnapIsCopy, Roles, GrantFirst
<1>2. CASE startWatch
  <2>1. ForeignListenersKept'
    BY <1>2, ForeignFrame DEF startWatch, clusterVars
  <2> QED BY <1>2, <2>1 DEF startWatch, SnapIsCopy, Roles, GrantFirst
<1>3. CASE passFails
  BY <1>3, <1>e DEF passFails, clusterVars
<1>4. CASE policyFails
  <2>1. UNCHANGED <<config, grant, gateway, theirs>> /\ pc \in {"list", "apply"}
    BY <1>4 DEF policyFails, clusterVars
  <2>2. CASE Done
    BY <1>e, <2>1, <2>2
  <2>3. CASE Step("get", External) /\ holder = "resync"
    <3>1. ForeignListenersKept'
      BY <2>1, ForeignFrame
    <3>2. pc' # "grant"
      BY <2>3 DEF Step
    <3> QED BY <1>l, <1>s, <2>1, <2>3, <3>1, <3>2, MovesOn DEF GrantFirst
  <2>4. Done \/ (Step("get", External) /\ holder = "resync")
    BY <1>4, <2>1 DEF policyFails, AfterPolicyError, Roles, TypeOK
  <2> QED BY <2>2, <2>3, <2>4
<1>5. CASE Restart
  BY <1>5, <1>e DEF Restart, clusterVars
<1>6. CASE \/ \E p \in Others : CreateOther(p) \/ EditOther(p) \/ DeleteOther(p)
           \/ \E l \in Listeners : DeleteOwn(l)
  BY <1>6, <1>u DEF CreateOther, EditOther, DeleteOther, DeleteOwn, ChangePolicies, localVars
<1>7. ASSUME NEW g \in Gateways, WriteGateway(g)
      PROVE  ListenerInv'
  <2>a. PICK ls \in SUBSET Foreign : \E shared :
          /\ theirs' = [theirs EXCEPT ![g] = ls]
          /\ gateway' = [gateway EXCEPT ![g] =
               [rv |-> @.rv + 1, exists |-> TRUE, foreign |-> ls, shared |-> shared]]
    BY <1>7 DEF WriteGateway
  <2>1. PICK shared :
          /\ theirs' = [theirs EXCEPT ![g] = ls]
          /\ gateway' = [gateway EXCEPT ![g] =
               [rv |-> @.rv + 1, exists |-> TRUE, foreign |-> ls, shared |-> shared]]
    BY <2>a
  <2>2. gateway \in [Gateways -> GatewayType] /\ theirs \in [Gateways -> SUBSET Foreign]
    BY DEF TypeOK
  <2>3. /\ gateway'[g].rv = gateway[g].rv + 1 /\ gateway'[g].foreign = ls /\ theirs'[g] = ls
        /\ \A h \in Gateways \ {g} : gateway'[h] = gateway[h] /\ theirs'[h] = theirs[h]
    BY <2>1, <2>2
  <2>4. ForeignListenersKept'
    BY <2>3 DEF ForeignListenersKept
  <2>5. UNCHANGED <<config, grant, holder, pc, at, snap>>
    BY <1>7 DEF WriteGateway, localVars
  <2>6. SnapIsCopy'
    <3>1. GatewayOf[at] \in Gateways /\ gateway[GatewayOf[at]].rv \in Nat /\ snap.rv \in Nat
      BY <2>2, ValuesTyped DEF TypeOK, GatewayType
    <3>2. CASE GatewayOf[at] = g
      BY <2>3, <2>5, <3>1, <3>2 DEF SnapIsCopy
    <3>3. CASE GatewayOf[at] # g
      BY <2>3, <2>5, <3>1, <3>3 DEF SnapIsCopy
    <3> QED BY <3>2, <3>3
  <2> QED BY <1>s, <2>4, <2>5, <2>6 DEF Roles, GrantFirst
<1>8. CASE UNCHANGED vars
  BY <1>8, <1>u DEF vars, clusterVars, localVars
<1> QED BY <1>1, <1>2, <1>3, <1>4, <1>5, <1>6, <1>7, <1>8 DEF Next, Environment

LEMMA ListenerInvariant == Spec => [](TypeOK /\ ListenerInv)
<1>1. Init => ListenerInv
  <2> SUFFICES ASSUME Init PROVE ListenerInv
    OBVIOUS
  <2>1. PICK there \in BOOLEAN : gateway = [g \in Gateways |-> [NoGateway EXCEPT !.exists = there]]
    BY DEF Init
  <2>2. [NoGateway EXCEPT !.exists = there].foreign = {}
    BY DEF NoGateway
  <2>3. ForeignListenersKept
    BY <2>1, <2>2 DEF Init, ForeignListenersKept
  <2> QED BY <2>3 DEF Init, ListenerInv, SnapIsCopy, Roles, GrantFirst
<1>2. TypeOK /\ ListenerInv /\ [Next]_vars => TypeOK' /\ ListenerInv'
  BY TypeStep, ListenersWork, ListenersAround
<1> QED BY <1>1, <1>2, TypeInit, PTL DEF Spec

\* A pass that writes the copy of a Gateway it has read never undoes what others wrote
\* to it since, for any number of their listeners, writes and failures.
THEOREM ForeignListenersAreKept == Spec => []ForeignListenersKept
<1>1. ListenerInv => ForeignListenersKept
  BY DEF ListenerInv
<1> QED BY <1>1, ListenerInvariant, PTL

\* What GrantedWhenWritten says of a step.
Granted ==
  \A l \in Listeners :
    LET ref == gateway'[GatewayOf[l]].shared[l] IN
    ref # gateway[GatewayOf[l]].shared[l] /\ ref # None => grant = ref

LEMMA GrantedStep ==
  ASSUME TypeOK, ListenerInv, [Next]_vars
  PROVE  Granted
<1> USE DEF ListenerInv
<1>t. gateway \in [Gateways -> GatewayType] /\ \A l \in Listeners : GatewayOf[l] \in Gateways
  BY ValuesTyped DEF TypeOK
<1>1. CASE gateway' = gateway
  BY <1>1 DEF Granted
<1>2. CASE updateGateway
  <2>1. grant = Source
    BY <1>2 DEF updateGateway, Roles, GrantFirst, TypeOK
  <2>2. ASSUME NEW l \in Listeners, GatewayOf[l] = GatewayOf[at]
        PROVE  \/ gateway'[GatewayOf[l]].shared[l] = gateway[GatewayOf[l]].shared[l]
               \/ gateway'[GatewayOf[l]].shared[l] = Source
    <3> DEFINE sh == gateway[GatewayOf[at]].shared
    <3>1. gateway'[GatewayOf[l]].shared = [sh EXCEPT ![at] = Source]
      BY <1>2, <1>t, <2>2, AcceptedWrite
    <3>2. sh \in [Listeners -> Secrets]
      BY <1>t, <2>2 DEF GatewayType
    <3> QED BY <2>2, <3>1, <3>2
  <2>3. ASSUME NEW l \in Listeners, GatewayOf[l] # GatewayOf[at]
        PROVE  gateway'[GatewayOf[l]] = gateway[GatewayOf[l]]
    BY <1>2, <1>t, <2>3, AcceptedWrite
  <2> QED BY <2>1, <2>2, <2>3 DEF Granted
<1>3. ASSUME NEW g \in Gateways, WriteGateway(g)
      PROVE  Granted
  <2>1. PICK ls \in SUBSET Foreign, kept \in {{}, Listeners} :
          gateway' = [gateway EXCEPT ![g] =
            [rv |-> @.rv + 1, exists |-> TRUE, foreign |-> ls,
             shared |-> [l \in Listeners |-> IF l \in kept THEN @.shared[l] ELSE None]]]
    BY <1>3 DEF WriteGateway
  <2>2. ASSUME NEW l \in Listeners
        PROVE  gateway'[GatewayOf[l]].shared[l] \in {gateway[GatewayOf[l]].shared[l], None}
    BY <1>t, <2>1
  <2> QED BY <2>2 DEF Granted
<1>4. gateway' = gateway \/ updateGateway \/ \E g \in Gateways : WriteGateway(g)
  BY DEF Next, Work, Environment, startPass, startWatch, passFails, policyFails, Restart,
         ensureSource, ensureReferenceGrant, skipPolicy, listPolicies, applyPolicy, getGateway,
         updateConflicts, CreateOther, EditOther, DeleteOther, DeleteOwn, ChangePolicies,
         vars, clusterVars
<1> QED BY <1>1, <1>2, <1>3, <1>4

\* A listener is only ever pointed at the Secret that the grant permits then: the
\* mutex keeps any other pass out between the grant and the write, and the version
\* keeps out a Gateway that has changed.
THEOREM ListenersAreGranted == Spec => GrantedWhenWritten
<1>1. TypeOK /\ ListenerInv /\ [Next]_vars => [Granted]_vars
  BY GrantedStep
<1> QED BY <1>1, ListenerInvariant, PTL DEF Spec, GrantedWhenWritten, Granted

(***************************************************************************)
(* The headers.                                                            *)
(***************************************************************************)
SameGateways == \A g \in Gateways : gateway'[g].exists = gateway[g].exists

\* What is right for a listener depends on the policies and on its Gateway only.
LEMMA SettledFrame ==
  ASSUME NEW l \in Listeners, UNCHANGED <<own, others>>, SameGateways
  PROVE  Settled(l)' = Settled(l)
BY ValuesTyped DEF SameGateways, Settled, HeadersRight, ForListener, GatewayWide, Applies

LEMMA PlanFrame ==
  ASSUME NEW l, UNCHANGED <<plan, others>>
  PROVE  PlanRight(l)' = PlanRight(l)
BY DEF PlanRight, ForListener, GatewayWide, Applies

\* A step with no part in the header policies.
LEMMA LookFrame ==
  ASSUME TypeOK, LookHolds, UNCHANGED <<config, pending, own, others, look>>, SameGateways,
         UNCHANGED <<pc, at, plan>> \/ pc' \notin {"list", "apply"}
  PROVE  LookHolds'
<1>1. Settled(External)' = Settled(External) /\ Settled(Internal)' = Settled(Internal)
  BY SettledFrame, ValuesTyped
<1>2. \A l \in Listeners : l = External \/ l = Internal
  BY DEF Listeners
<1>3. UNCHANGED plan => \A l \in Listeners : PlanRight(l)' = PlanRight(l)
  BY PlanFrame
<1>4. CASE pc' \notin {"list", "apply"}
  BY <1>1, <1>2, <1>4 DEF LookHolds
<1>5. CASE UNCHANGED <<pc, at, plan>>
  <2>1. PlanRight(at)' = PlanRight(at)
    BY <1>5, PlanFrame
  <2> QED BY <1>1, <1>2, <1>5, <2>1 DEF LookHolds
<1> QED BY <1>4, <1>5

\* Going on from a listener that is settled, if the look at it still holds.
LEMMA LookNext ==
  ASSUME TypeOK, LookHolds, pc \in {"list", "apply"}, NextPolicy, SameGateways,
         config' = config, pending \in BOOLEAN,
         config.metering /\ ~pending' /\ look = "under way"
           => ~pending /\ Settled(at) /\ UNCHANGED <<own, others>>,
         config.metering /\ ~pending' => ~pending
  PROVE  LookHolds'
<1> SUFFICES ASSUME config.metering, ~pending'
             PROVE  LookHolds'
  BY DEF LookHolds
<1>1. ~pending /\ look # "complete"
  BY DEF LookHolds
<1>2. External # Internal /\ Listeners = {External, Internal}
  BY SharedGatewayAssumptions DEF Listeners
<1>3. CASE look = "none"
  <2>1. look' = "none"
    BY <1>3 DEF NextPolicy
  <2> QED BY <2>1 DEF LookHolds
<1>4. CASE look = "under way"
  <2>1. \A l \in Listeners : Settled(l)' = Settled(l)
    BY <1>4, SettledFrame
  <2>2. CASE at = External
    <3>1. look' = "under way" /\ pc' = "list" /\ at' = Internal
      BY <1>4, <2>2 DEF NextPolicy, Step
    <3> QED BY <1>2, <1>4, <2>1, <2>2, <3>1 DEF LookHolds
  <2>3. CASE at = Internal
    <3>1. look' = "complete" /\ pc' \in {"get", "rest"}
      BY <1>2, <1>4, <2>3 DEF NextPolicy, Step, Done
    <3>2. Settled(External)' /\ Settled(Internal)'
      BY <1>1, <1>2, <1>4, <2>1, <2>3 DEF LookHolds
    <3> QED BY <1>2, <3>1, <3>2 DEF LookHolds
  <2> QED BY <1>2, <2>2, <2>3 DEF TypeOK
<1> QED BY <1>1, <1>3, <1>4 DEF TypeOK

\* What has been decided for a listener, applied, settles it.
LEMMA PlanSettles ==
  ASSUME NEW l \in Listeners, PlanRight(l), own[l] = plan
  PROVE  Settled(l)
BY DEF PlanRight, Settled, HeadersRight

\* What is decided for a listener is right for it.
LEMMA ListIsRight ==
  ASSUME TypeOK, listPolicies
  PROVE  PlanRight(at)'
<1>1. UNCHANGED <<others, at>>
  BY DEF listPolicies, clusterVars
<1>2. /\ ForListener(at)' = ForListener(at) /\ GatewayWide(at)' = GatewayWide(at)
      /\ \A p : Applies(p, at)' = Applies(p, at)
  BY <1>1 DEF ForListener, GatewayWide, Applies
<1>3. CASE ForListener(at) # {}
  BY <1>2, <1>3 DEF listPolicies, PlanRight, NoPolicy
<1>4. CASE ForListener(at) = {} /\ GatewayWide(at) = {}
  BY <1>2, <1>4 DEF listPolicies, PlanRight, PolicyWith
<1>5. CASE ForListener(at) = {} /\ GatewayWide(at) # {}
  <2>1. PICK p \in GatewayWide(at) : p = appliedGatewayWidePolicy(GatewayWide(at)) /\ Applies(p, at)
    BY <1>5, OldestApplies DEF TypeOK
  <2>2. plan' = PolicyWith(others[p].setting)
    BY <1>5, <2>1 DEF listPolicies
  <2>3. plan'.exists /\ plan'.inherits = others'[p].setting
    BY <1>1, <2>2 DEF PolicyWith
  <2>4. p \in GatewayWide(at)' /\ Applies(p, at)'
    BY <1>2, <2>1
  <2> QED BY <1>1, <1>2, <1>5, <2>3, <2>4 DEF PlanRight
<1> QED BY <1>3, <1>4, <1>5

\* A look at the policies keeps holding, through every step of the two goroutines and
\* of the administrator.
LEMMA LookStep ==
  ASSUME TypeOK, ListenerInv, LookHolds, [Next]_vars
  PROVE  LookHolds'
<1> USE DEF ListenerInv
<1>c. \A c \in Configs : c.metering \in BOOLEAN
  BY ConfigsTyped
<1>g. gateway' = gateway => SameGateways
  BY DEF SameGateways
<1>1. CASE startPass
  <2>1. pc' = "source" /\ UNCHANGED <<config, pending, own, others, look, gateway>>
    BY <1>1 DEF startPass, clusterVars
  <2> QED BY <1>g, <2>1, LookFrame
<1>2. CASE startWatch
  <2>1. at' = External /\ look' = "under way" /\ pc' = "list"
    BY <1>2 DEF startWatch, Roles
  <2>2. External # Internal
    BY SharedGatewayAssumptions
  <2> QED BY <2>1, <2>2 DEF LookHolds
<1>3. CASE ensureSource
  <2>1. pc' = "grant" /\ UNCHANGED <<config, pending, own, others, look, gateway>>
    BY <1>3 DEF ensureSource, Step
  <2> QED BY <1>g, <2>1, LookFrame
<1>4. CASE ensureReferenceGrant
  <2>1. look' = "under way" /\ pc' # "apply" /\ at' = External
    BY <1>4 DEF ensureReferenceGrant, AfterGrant, Step, Done
  <2>2. External # Internal
    BY SharedGatewayAssumptions
  <2> QED BY <2>1, <2>2 DEF LookHolds
<1>5. CASE skipPolicy
  <2>1. /\ pc = "list" /\ NextPolicy
        /\ UNCHANGED <<config, pending, own, others, gateway>>
    BY <1>5 DEF skipPolicy, clusterVars
  <2>2. Settled(at)
    BY <1>5 DEF skipPolicy, Settled
  <2> QED BY <1>g, <2>1, <2>2, LookNext DEF TypeOK
<1>6. CASE listPolicies
  <2>1. /\ pc = "list" /\ pc' = "apply"
        /\ UNCHANGED <<config, pending, own, others, look, gateway, at>>
    BY <1>6 DEF listPolicies, clusterVars
  <2>2. Settled(External)' = Settled(External)
    BY <1>g, <2>1, SettledFrame, ValuesTyped
  <2> QED BY <1>6, <2>1, <2>2, ListIsRight DEF LookHolds
<1>7. CASE applyPolicy
  <2>1. /\ pc = "apply" /\ NextPolicy /\ own' = [own EXCEPT ![at] = plan]
        /\ pending' = (pending \/ own[at] # plan)
        /\ UNCHANGED <<config, others, gateway>>
    BY <1>7 DEF applyPolicy
  <2>2. at \in Listeners /\ pending \in BOOLEAN /\ own \in [Listeners -> OwnPolicies]
    BY DEF TypeOK
  <2>3. ASSUME config.metering, ~pending', look = "under way"
        PROVE  ~pending /\ Settled(at) /\ UNCHANGED <<own, others>>
    <3>1. ~pending /\ own[at] = plan
      BY <2>1, <2>2, <2>3
    <3>2. own' = own
      BY <2>1, <2>2, <3>1
    <3>3. PlanRight(at)
      BY <2>1, <2>3, <3>1 DEF LookHolds
    <3> QED BY <2>1, <2>2, <3>1, <3>2, <3>3, PlanSettles
  <2> QED BY <1>g, <2>1, <2>2, <2>3, LookNext
<1>8. CASE getGateway
  <2>1. pc' \notin {"list", "apply"} /\ UNCHANGED <<config, pending, own, others, look, gateway>>
    BY <1>8 DEF getGateway, NextListener, Step, Done, clusterVars
  <2> QED BY <1>g, <2>1, LookFrame
<1>9. CASE updateGateway
  <2>1. pc' \notin {"list", "apply"} /\ UNCHANGED <<config, pending, own, others, look>>
    BY <1>9 DEF updateGateway, NextListener, Step, Done
  <2>2. SameGateways
    BY <1>9, AcceptedWrite DEF SameGateways
  <2> QED BY <2>1, <2>2, LookFrame
<1>10. CASE updateConflicts \/ passFails
  <2>1. pc' \notin {"list", "apply"} /\ UNCHANGED <<config, pending, own, others, look, gateway>>
    BY <1>10 DEF updateConflicts, passFails, Done, clusterVars
  <2> QED BY <1>g, <2>1, LookFrame
<1>11. CASE policyFails
  <2>1. pc' \notin {"list", "apply"} /\ UNCHANGED <<config, own, others, look, gateway>>
    BY <1>11 DEF policyFails, AfterPolicyError, Step, Done, clusterVars
  <2>2. pending' = TRUE \/ pending' = pending
    BY <1>11 DEF policyFails
  <2>3. CASE pending' = TRUE
    BY <2>3 DEF LookHolds
  <2> QED BY <1>g, <2>1, <2>2, <2>3, LookFrame
<1>12. CASE Restart
  <2>1. look' = "none"
    BY <1>12 DEF Restart
  <2> QED BY <2>1 DEF LookHolds
<1>13. CASE \/ \E p \in Others : CreateOther(p) \/ EditOther(p) \/ DeleteOther(p)
            \/ \E l \in Listeners : DeleteOwn(l)
  <2>1. ChangePolicies
    BY <1>13 DEF CreateOther, EditOther, DeleteOther, DeleteOwn
  <2> QED BY <2>1 DEF ChangePolicies, LookHolds
<1>14. ASSUME NEW g \in Gateways, WriteGateway(g)
       PROVE  LookHolds'
  <2>1. CASE ~gateway[g].exists
    <3>1. look' = "none"
      BY <1>14, <2>1 DEF WriteGateway
    <3> QED BY <3>1 DEF LookHolds
  <2>2. CASE gateway[g].exists
    <3>1. UNCHANGED <<config, pending, own, others, look, pc, at, plan>>
      BY <1>14, <2>2 DEF WriteGateway, localVars
    <3>2. PICK ls, shared :
            gateway' = [gateway EXCEPT ![g] =
              [rv |-> @.rv + 1, exists |-> TRUE, foreign |-> ls, shared |-> shared]]
      BY <1>14 DEF WriteGateway
    <3>3. SameGateways
      <4>1. gateway \in [Gateways -> GatewayType] /\ gateway[g].exists = TRUE
        BY <2>2 DEF TypeOK, GatewayType
      <4> QED BY <3>2, <4>1 DEF SameGateways
    <3> QED BY <3>1, <3>3, LookFrame
  <2> QED BY <2>1, <2>2
<1>15. CASE UNCHANGED vars
  <2>1. UNCHANGED <<config, pending, own, others, look, gateway, pc, at, plan>>
    BY <1>15 DEF vars, clusterVars, localVars
  <2> QED BY <1>g, <2>1, LookFrame
<1> QED BY <1>1, <1>2, <1>3, <1>4, <1>5, <1>6, <1>7, <1>8, <1>9, <1>10, <1>11, <1>12, <1>13,
           <1>14, <1>15 DEF Next, Work, Environment

LEMMA GatewayInvariant == Spec => []GatewayInv
<1>1. Init => LookHolds
  BY DEF Init, LookHolds
<1>2. TypeOK /\ ListenerInv /\ LookHolds /\ [Next]_vars => LookHolds'
  BY LookStep
<1>3. TypeOK /\ ListenerInv /\ LookHolds => GatewayInv
  BY DEF GatewayInv
<1> QED BY <1>1, <1>2, <1>3, ListenerInvariant, PTL DEF Spec

\* When the operator has looked at the policies of others and has no event about them
\* queued, every listener has the headers policy it should have, in whatever order the
\* resync, the watch and the administrator took their steps.
THEOREM HeadersAreSettled == Spec => []HeadersSettled
<1>1. GatewayInv => HeadersSettled
  BY DEF GatewayInv, LookHolds, HeadersSettled, Settled
<1> QED BY <1>1, GatewayInvariant, PTL
=============================================================================
