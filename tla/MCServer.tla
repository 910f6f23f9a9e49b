------------------------------ MODULE MCServer ------------------------------
(* Instances of Server for TLC: the clients are interchangeable. *)
EXTENDS ServerInv, TLC

ClientSymmetry == Permutations(Clients)
=============================================================================
