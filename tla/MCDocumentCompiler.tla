------------------------ MODULE MCDocumentCompiler ------------------------
(* Small instances of the document compiler.                               *)
EXTENDS DocumentCompiler

OneTenant == [j \in Jobs |-> "a"]
WorkerHost == [w \in Workers |-> w]
FirstController == [s \in Clients |-> CHOOSE k \in Controllers : TRUE]
=============================================================================
