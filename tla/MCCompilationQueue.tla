------------------------ MODULE MCCompilationQueue ------------------------
(* A small instance of the queue: two jobs of one tenant.                  *)
EXTENDS CompilationQueue

OneTenant == [j \in Jobs |-> "a"]
=============================================================================
