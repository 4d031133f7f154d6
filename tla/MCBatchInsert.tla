---------------------------- MODULE MCBatchInsert ----------------------------
(***************************************************************************)
(* Instances of BatchInsert for TLC: paths of different lengths that share *)
(* their first delegation, and one revocation without a path.              *)
(***************************************************************************)
EXTENDS BatchInsertProofs

UnevenPaths == [c \in Cause |-> CASE c = 1 -> <<"root", "middle">>
                                  [] c = 2 -> <<"root">>
                                  [] OTHER -> <<>>]
=============================================================================
