------------------------------ MODULE MCDbPool ------------------------------
(* Instances of DbPool for TLC: the open() calls are interchangeable. *)
EXTENDS DbPoolInv, TLC

OpenSymmetry == Permutations(Opens)
=============================================================================
