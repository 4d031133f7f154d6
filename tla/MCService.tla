----------------------------- MODULE MCService -----------------------------
(***************************************************************************)
(* Instances of Service for TLC: one process serves every handler, the     *)
(* others start beside it.                                                 *)
(***************************************************************************)
EXTENDS ServiceProofs

AllAtOne == [h \in Handler |-> CHOOSE i \in Instance : TRUE]
=============================================================================
