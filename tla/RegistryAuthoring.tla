------------------------- MODULE RegistryAuthoring -------------------------
(***************************************************************************)
(* What Registry's commands do to a tenant's state: the drafts, branches,  *)
(* merge proposals, approval, release and deployment of one pipeline, the  *)
(* ontologies it may be bound to, and the strict commands that existed     *)
(* before authoring.                                                       *)
(*                                                                         *)
(* Every command loads the head, checks it, computes a new state and       *)
(* commits it against the revision it loaded: RegistryStore shows that     *)
(* this is one step on a linear history.  Revisions are immutable, so a    *)
(* pointer to one (release, published) holds what the revision says.       *)
(* References between pipelines (compile_composition) are left out.        *)
(***************************************************************************)
EXTENDS Naturals, FiniteSets

CONSTANTS
    Graphs,         \* the contents of a definition, apart from its ontology
    Structured,     \* the ones validate_pipeline_structure accepts
    Executable,     \* of these, the ones validate_executable accepts too
    Branches,       \* names of branches beside "main"
    Ontologies,     \* names of ontologies
    None,           \* no value
    MaxBranches,    \* branches and proposals of a pipeline, 32 in the code
    Sessions        \* bound: the commands, branches and definitions a
                    \* behaviour may use

VARIABLES
    pipeline,   \* the pipeline's record, Absent before it is created
    branch,     \* authoring.branches: by name, None or a branch
    proposal,   \* authoring.proposals: by source branch, None or a proposal
    binding,    \* the ontology bound to the pipeline's block
    ontology,   \* the ontologies' records
    session     \* the commands, branches and definitions of this behaviour

vars == << pipeline, branch, proposal, binding, ontology, session >>

\* A definition: its graph, and whether a block of it requires an ontology.
Definitions == [graph : Graphs, needs : BOOLEAN]

\* What a pinned revision says: the definition, its approval, whether the
\* pipeline was managed, and whether runtime_pipeline accepts it.
Pins == [def : Definitions, approval : Definitions \cup {None},
         managed : BOOLEAN, runs : BOOLEAN]

Pipelines == [exists : {TRUE}, deleted : BOOLEAN, managed : BOOLEAN, def : Definitions,
              approval : Definitions \cup {None}, release : Pins \cup {None},
              published : Pins \cup {None}]

Absent == [exists |-> FALSE]

Drafts == [parent : Branches \cup {"main"}, def : Definitions, base : Definitions]

Proposals == [source : Definitions, target : Definitions]

\* production_publication, and the ontology a model was derived from.
OntologyRecords == [exists : BOOLEAN, deleted : BOOLEAN,
                    publication : {"none", "production", "retired"},
                    target : Ontologies \cup {None}]

ASSUME AuthoringAssumption ==
    /\ Executable \subseteq Structured /\ Structured \subseteq Graphs
    /\ "main" \notin Branches
    /\ None \notin Branches \cup Ontologies \cup Graphs \cup {"main"}
    /\ None \notin Definitions /\ None \notin Pins
    /\ None \notin Drafts /\ None \notin Proposals
    /\ MaxBranches \in Nat
    /\ IsFiniteSet(Branches)
    /\ \A s \in Sessions : s.branches \subseteq Branches /\ s.defs \subseteq Definitions

TypeOK ==
    /\ pipeline \in Pipelines \cup {Absent}
    /\ branch \in [Branches -> Drafts \cup {None}]
    /\ proposal \in [Branches -> Proposals \cup {None}]
    /\ binding \in Ontologies \cup {None}
    /\ ontology \in [Ontologies -> OntologyRecords]
    /\ session \in Sessions
    /\ \A o \in Ontologies : ontology[o].publication # "none" =>
                                ontology[o].exists /\ ~ontology[o].deleted

NoOntology == [exists |-> FALSE, deleted |-> FALSE, publication |-> "none", target |-> None]

Init ==
    /\ pipeline = Absent
    /\ branch = [b \in Branches |-> None]
    /\ proposal = [b \in Branches |-> None]
    /\ binding = None
    /\ ontology = [o \in Ontologies |-> NoOntology]
    /\ session \in Sessions

-----------------------------------------------------------------------------
(* Reading a state.                                                        *)

Live == pipeline.exists /\ ~pipeline.deleted

Forks == {b \in Branches : branch[b] # None}

Proposed == {b \in Branches : proposal[b] # None}

InProduction(o) == ontology[o].publication = "production"

\* validate_pipeline (the structure and the bindings required, no more), then
\* the bound ontology's publication.
Runs(def) ==
    /\ def.graph \in Structured
    /\ def.needs => binding # None
    /\ binding # None => InProduction(binding)

\* The head as a later pointer to it will see it.
Head == [def |-> pipeline.def, approval |-> pipeline.approval,
         managed |-> pipeline.managed, runs |-> Runs(pipeline.def)]

\* merge_definitions, part by part: what only one side changed is taken, what
\* both changed differently needs a resolution.
Merge3(base, target, source, choice) ==
    LET part(b, t, s, c) ==
            IF t = s \/ s = b THEN t
            ELSE IF t = b THEN s
            ELSE IF c = "source" THEN s ELSE t
    IN  [graph |-> part(base.graph, target.graph, source.graph, choice),
         needs |-> part(base.needs, target.needs, source.needs, choice)]

-----------------------------------------------------------------------------
(* The strict commands.                                                    *)

May(command) == command \in session.commands

New(def) == [exists |-> TRUE, deleted |-> FALSE, managed |-> FALSE, def |-> def,
             approval |-> None, release |-> None, published |-> None]

\* put_pipeline: creates, or replaces a record that is not managed.  Of the
\* definition it checks the structure alone.  The authoring state starts anew,
\* the production pointer is kept, a deleted pipeline comes back.
PutPipeline(def) ==
    /\ May("put_pipeline")
    /\ def.graph \in Structured
    /\ pipeline.exists => ~pipeline.managed
    /\ pipeline' = IF pipeline.exists
                   THEN [New(def) EXCEPT !.published = pipeline.published]
                   ELSE New(def)
    /\ UNCHANGED << branch, proposal, binding, ontology, session >>

Publishable_Managed(def) == Runs(def)

Publishable(def) == ~pipeline.managed /\ Runs(def)

\* publish_pipeline: the revision it names must be the head.
PublishPipeline ==
    /\ May("publish_pipeline")
    /\ Live
    /\ Publishable(pipeline.def)
    /\ pipeline' = [pipeline EXCEPT !.published = Head]
    /\ UNCHANGED << branch, proposal, binding, ontology, session >>

\* delete_pipeline: managed or not, deleted or not.
DeletePipeline ==
    /\ May("delete_pipeline")
    /\ pipeline.exists
    /\ pipeline' = [pipeline EXCEPT !.deleted = TRUE, !.published = None]
    /\ UNCHANGED << branch, proposal, binding, ontology, session >>

\* put_binding: the block must be in the definition; nothing else is asked
\* of the pipeline, and its approval is left alone.
PutBinding(o) ==
    /\ May("put_binding")
    /\ pipeline.exists
    /\ InProduction(o)
    /\ binding' = o
    /\ UNCHANGED << pipeline, branch, proposal, ontology, session >>

-----------------------------------------------------------------------------
(* author_pipeline.                                                        *)

\* The record a command works on: managed from now on.
Managed == [pipeline EXCEPT !.managed = TRUE]

\* A main definition that changes loses its approval.
Edited(def) == [Managed EXCEPT !.def = def, !.approval = None]

\* create_only: only a main draft creates a pipeline.
CreateDraft(def) ==
    /\ May("save_draft")
    /\ ~pipeline.exists
    /\ pipeline' = [New(def) EXCEPT !.managed = TRUE]
    /\ UNCHANGED << branch, proposal, binding, ontology, session >>

SaveMain(def) ==
    /\ May("save_draft")
    /\ Live
    /\ pipeline' = Edited(def)
    /\ UNCHANGED << branch, proposal, binding, ontology, session >>

SaveBranch(b, def) ==
    /\ May("save_branch")
    /\ Live
    /\ branch[b] # None
    /\ pipeline' = Managed
    /\ branch' = [branch EXCEPT ![b].def = def]
    /\ UNCHANGED << proposal, binding, ontology, session >>

BindOntology(o) ==
    /\ May("bind_ontology")
    /\ Live
    /\ InProduction(o)
    /\ pipeline' = Edited([pipeline.def EXCEPT !.needs = TRUE])
    /\ binding' = o
    /\ UNCHANGED << branch, proposal, ontology, session >>

\* A branch from main starts a new base, a branch from a branch inherits one.
CreateBranch(b, from) ==
    /\ May("create_branch")
    /\ Live
    /\ branch[b] = None
    /\ Cardinality(Forks) < MaxBranches
    /\ from # "main" => branch[from] # None
    /\ pipeline' = Managed
    /\ branch' = [branch EXCEPT ![b] =
            IF from = "main"
            THEN [parent |-> "main", def |-> pipeline.def, base |-> pipeline.def]
            ELSE [parent |-> from, def |-> branch[from].def, base |-> branch[from].base]]
    /\ UNCHANGED << proposal, binding, ontology, session >>

Removable(b) ==
    /\ branch[b] # None
    /\ \A c \in Forks : branch[c].parent # b
    /\ proposal[b] = None

DeleteBranch(b) ==
    /\ May("delete_branch")
    /\ Live
    /\ Removable(b)
    /\ pipeline' = Managed
    /\ branch' = [branch EXCEPT ![b] = None]
    /\ UNCHANGED << proposal, binding, ontology, session >>

ProposeMerge(b) ==
    /\ May("propose_merge")
    /\ Live
    /\ branch[b] # None
    /\ Cardinality(Proposed) < MaxBranches \/ proposal[b] # None
    /\ pipeline' = Managed
    /\ proposal' = [proposal EXCEPT ![b] = [source |-> branch[b].def, target |-> pipeline.def]]
    /\ UNCHANGED << branch, binding, ontology, session >>

Current_SourceOnly(b) == proposal[b].source = branch[b].def

\* Neither participant changed since the proposal.
Current(b) == proposal[b] = [source |-> branch[b].def, target |-> pipeline.def]

\* Merge: the result becomes main and the source's new base and content.
Merge(b, choice) ==
    /\ May("merge")
    /\ Live
    /\ proposal[b] # None
    /\ branch[b] # None
    /\ Current(b)
    /\ LET merged == Merge3(branch[b].base, pipeline.def, branch[b].def, choice)
       IN  /\ pipeline' = Edited(merged)
           /\ branch' = [branch EXCEPT ![b].def = merged, ![b].base = merged]
    /\ proposal' = [proposal EXCEPT ![b] = None]
    /\ UNCHANGED << binding, ontology, session >>

\* Only an approval asks for more than structure: validate_executable.
Approvable == pipeline.def.graph \in Executable

Approve ==
    /\ May("approve")
    /\ Live
    /\ Approvable
    /\ pipeline' = [Managed EXCEPT !.approval = pipeline.def]
    /\ UNCHANGED << branch, proposal, binding, ontology, session >>

\* Publish: pins the head, which holds the approval.
Publish ==
    /\ May("publish")
    /\ Live
    /\ pipeline.approval = pipeline.def
    /\ pipeline' = [Managed EXCEPT !.release = Head]
    /\ UNCHANGED << branch, proposal, binding, ontology, session >>

\* Deploy revalidates the pinned revision with runtime_pipeline.
Deployable == pipeline.release # None /\ pipeline.release.runs

Deploy ==
    /\ May("deploy")
    /\ Live
    /\ Deployable
    /\ pipeline' = [Managed EXCEPT !.published = pipeline.release]
    /\ UNCHANGED << branch, proposal, binding, ontology, session >>

-----------------------------------------------------------------------------
(* Ontologies.                                                             *)

Record(o, record) ==
    /\ ontology' = [ontology EXCEPT ![o] = record]
    /\ UNCHANGED << pipeline, branch, proposal, binding, session >>

\* put_ontology: creates, or replaces the document of one that is not deleted.
\* The caller may name the model it was derived from (target_origin).
PutOntology(o, target) ==
    /\ May("put_ontology")
    /\ ~ontology[o].deleted
    /\ Record(o, [ontology[o] EXCEPT !.exists = TRUE, !.target = target])

PublishOntology(o) ==
    /\ May("publish_ontology")
    /\ ontology[o].exists /\ ~ontology[o].deleted
    /\ Record(o, [ontology[o] EXCEPT !.publication = "production"])

RetireOntology(o) ==
    /\ May("retire_ontology")
    /\ InProduction(o)
    /\ Record(o, [ontology[o] EXCEPT !.publication = "retired"])

Unused_Unbound(o) ==
    \A p \in Ontologies \ {o} :
        ontology[p].exists /\ ~ontology[p].deleted => ontology[p].target # o

\* No binding names it, no other model that is not deleted derives from it.
\* The record itself was taken out of the state before the check.
Unused(o) ==
    /\ binding # o
    /\ \A p \in Ontologies \ {o} :
          ontology[p].exists /\ ~ontology[p].deleted => ontology[p].target # o

Deleted(record) == [record EXCEPT !.deleted = TRUE, !.publication = "none"]

DeleteOntology(o) ==
    /\ May("delete_ontology")
    /\ ontology[o].exists /\ ~ontology[o].deleted
    /\ Unused(o)
    /\ Record(o, Deleted(ontology[o]))

RestoreOntology(o) ==
    /\ May("restore_ontology")
    /\ ontology[o].exists /\ ontology[o].deleted
    /\ Record(o, [ontology[o] EXCEPT !.deleted = FALSE])

Next ==
    \/ \E def \in session.defs : PutPipeline(def) \/ CreateDraft(def) \/ SaveMain(def)
    \/ PublishPipeline \/ DeletePipeline \/ Approve \/ Publish \/ Deploy
    \/ \E b \in session.branches :
          \/ \E def \in session.defs : SaveBranch(b, def)
          \/ \E from \in session.branches \cup {"main"} : CreateBranch(b, from)
          \/ \E choice \in {"source", "target"} : Merge(b, choice)
          \/ DeleteBranch(b)
          \/ ProposeMerge(b)
    \/ \E o \in Ontologies :
          \/ \E target \in (Ontologies \ {o}) \cup {None} : PutOntology(o, target)
          \/ PutBinding(o) \/ BindOntology(o)
          \/ PublishOntology(o) \/ RetireOntology(o)
          \/ DeleteOntology(o) \/ RestoreOntology(o)

Spec == Init /\ [][Next]_vars

-----------------------------------------------------------------------------
(* Properties.                                                             *)

\* What is published at a revision where the pipeline was managed carries its
\* own approval there, and is executable, however main, its approval and the
\* release moved since.
DeployedWasApproved ==
    pipeline.exists /\ pipeline.published # None /\ pipeline.published.managed =>
        /\ pipeline.published.approval = pipeline.published.def
        /\ pipeline.published.def.graph \in Executable

\* The published revision passes runtime_pipeline; a deleted pipeline has none.
PublishedRuns ==
    pipeline.exists /\ pipeline.published # None =>
        pipeline.published.runs /\ ~pipeline.deleted

\* Runtime discovery (list_published_pipelines) never fails on what it lists,
\* and of a managed pipeline never sees an incomplete or unreviewed definition,
\* in whatever order a pipeline was put, edited, approved, released, bound,
\* deleted and recreated.  One published strictly has its structure and its
\* bindings, and may be incomplete otherwise.
ProductionIsSound == DeployedWasApproved /\ PublishedRuns

\* An ontology that a pipeline block is bound to is never deleted.
BoundOntologyLives ==
    binding # None => ontology[binding].exists /\ ~ontology[binding].deleted

\* The parent of a branch and the source of a proposal exist.
WorkspaceClosed ==
    \A b \in Branches :
        /\ branch[b] # None /\ branch[b].parent # "main" => branch[branch[b].parent] # None
        /\ proposal[b] # None => branch[b] # None

\* What a binding, a branch or a proposal refers to is there: deletions of
\* ontologies and branches leave no such reference behind, so that none blocks
\* a later command.  (A target_origin may name a model that is deleted.)
ReferencesLive == BoundOntologyLives /\ WorkspaceClosed

\* A merge changes main only as its proposal showed it: from the main and the
\* source that were proposed, each part taken from one of them.
MergesWhatWasProposed ==
    [][\A b \in Branches :
          proposal[b] # None /\ proposal'[b] = None =>
              \A k \in {"graph", "needs"} :
                  /\ pipeline.def[k] = proposal[b].target[k]
                  /\ pipeline'.def[k] \in {proposal[b].source[k], proposal[b].target[k]}]_vars
=============================================================================
