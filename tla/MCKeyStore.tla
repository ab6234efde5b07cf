----------------------------- MODULE MCKeyStore -----------------------------
(* Instances of KeyStore for TLC. *)
EXTENDS KeyStore, TLC

CONSTANTS w1, w2, u1, u2, a1, a2, b1

MCOwnerOf == [id \in ClientIDs |-> IF id = b1 THEN u2 ELSE u1]
WorkerSymmetry == Permutations(Workers)

\* Bound: the operator's changes meet at most two calls, made before time passes.
OperatorMeetsTwo == relabels + deletes > 0 => calls <= 2 /\ now = 1

\* Bound: the last call of a full history begins when the others have ended.
LastCallAlone == calls = MaxCalls => \E w \in Workers : \A x \in Workers \ {w} : pc[x] = "idle"
=============================================================================
