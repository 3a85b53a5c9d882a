------------------------ MODULE MCRegistryAuthoring ------------------------
(* RegistryAuthoring with three kinds of behaviour: releases of a pipeline  *)
(* and its ontologies, two branches and main, and reviews of a branch.      *)
EXTENDS RegistryAuthoring

Releases ==
    {"put_pipeline", "publish_pipeline", "delete_pipeline", "put_binding",
     "save_draft", "bind_ontology", "approve", "publish", "deploy",
     "put_ontology", "publish_ontology", "retire_ontology",
     "delete_ontology", "restore_ontology"}

Collaboration ==
    {"save_draft", "save_branch", "create_branch", "delete_branch",
     "propose_merge", "merge"}

Review ==
    {"put_pipeline", "publish_pipeline", "approve", "publish", "deploy"} \cup Collaboration

\* The definitions with no block that requires an ontology.
Plain == {d \in Definitions : ~d.needs}

MCSessions ==
    {[commands |-> Releases, branches |-> {}, defs |-> Definitions],
     [commands |-> Collaboration, branches |-> Branches, defs |-> Plain],
     [commands |-> Review, branches |-> {CHOOSE b \in Branches : TRUE}, defs |-> Definitions]}
=============================================================================
