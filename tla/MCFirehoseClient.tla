-------------------------- MODULE MCFirehoseClient --------------------------
(***************************************************************************)
(* Instances of FirehoseClient for TLC. Writers are interchangeable: the   *)
(* runs of invariants alone permute them.                                  *)
(***************************************************************************)
EXTENDS FirehoseClient, TLC

WriterSymmetry == Permutations(Writer)
=============================================================================
