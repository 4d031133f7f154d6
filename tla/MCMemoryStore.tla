--------------------------- MODULE MCMemoryStore ---------------------------
(***************************************************************************)
(* Instances of MemoryStore for TLC.                                       *)
(***************************************************************************)
EXTENDS MemoryStoreProofs

\* The first cause has a delegation of its own, the others share one.
OneAlone == [c \in Cause |-> IF c = 1 THEN 1 ELSE 2]

\* Every cause revokes the same delegation.
SameDelegation == [c \in Cause |-> CHOOSE d \in Delegation : TRUE]
=============================================================================
