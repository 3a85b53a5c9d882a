---------------------- MODULE MCPengoloGenerations ----------------------
(* Instances of PengoloGenerations for TLC.                              *)
EXTENDS PengoloGenerations, TLC

\* Idempotency keys are interchangeable.
Symmetry == Permutations(Generations)
=========================================================================
