-------------------------- MODULE MCIdentityLookup --------------------------
(* Instances of IdentityLookup for TLC. *)
EXTENDS IdentityLookup, TLC

LookupSymmetry == Permutations(Lookups)
=============================================================================
