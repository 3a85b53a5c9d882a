------------------------ MODULE MCCommandExecution ------------------------
(* Small instances of Vision's command execution.  Workers and results are *)
(* interchangeable where no liveness is checked.                           *)
EXTENDS CommandExecution, TLC

Interchangeable == Permutations(Workers) \cup Permutations(Results)
=============================================================================
