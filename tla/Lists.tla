-------------------------------- MODULE Lists --------------------------------
(* The lists that both the Traffic list and the pages of the usage console *)
(* are made of: what .sort and .filter return.                             *)
EXTENDS Integers, FiniteSets, Sequences

\* The elements of S in the order in which ahead[x] are those before x.
Ranked(S, ahead) ==
  [k \in 1 .. Cardinality(S) |-> CHOOSE x \in S : Cardinality(ahead[x]) = k - 1]

\* The rows at the positions `at`, in their order.
RowsAt(rows, at) ==
  LET order == Ranked(at, [i \in at |-> {j \in at : j < i}])
  IN  [k \in DOMAIN order |-> rows[order[k]]]
=============================================================================
