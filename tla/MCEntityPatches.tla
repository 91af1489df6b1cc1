-------------------------- MODULE MCEntityPatches --------------------------
(* Model values for EntityPatches: the clients are interchangeable.         *)
EXTENDS EntityPatches, TLC

ClientSymmetry == Permutations(Clients)
=============================================================================
