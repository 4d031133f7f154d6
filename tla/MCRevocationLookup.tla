------------------------- MODULE MCRevocationLookup -------------------------
(***************************************************************************)
(* Instances of RevocationLookup for TLC: two revocations of one           *)
(* delegation.                                                             *)
(***************************************************************************)
EXTENDS RevocationLookup, TLC

SameDelegation == [c \in Cause |-> CHOOSE d \in Delegation : TRUE]

Interchangeable == Permutations(Writer) \cup Permutations(Cached)
=============================================================================
