-------------------------- MODULE MCRegistryStore --------------------------
(* RegistryStore with interchangeable calls. *)
EXTENDS RegistryStore, TLC

Symmetry == Permutations(Calls)
=============================================================================
