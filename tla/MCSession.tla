------------------------------ MODULE MCSession ------------------------------
(* Instances of Session and of its inductive invariant for TLC. *)
EXTENDS SessionInv, TLC

Symmetry == {f @@ g : f \in Permutations(Threads), g \in Permutations(Values)}
=============================================================================
