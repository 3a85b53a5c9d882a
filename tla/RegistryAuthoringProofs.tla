---------------------- MODULE RegistryAuthoringProofs ----------------------
(***************************************************************************)
(* Proofs about RegistryAuthoring, for any graphs, branches, ontologies,   *)
(* limits and sessions.                                                    *)
(*                                                                         *)
(* What is published was either published strictly, from a pipeline that   *)
(* was not managed, or deployed from a release: the invariant adds that an *)
(* approval is of an executable definition and that a release carries its  *)
(* own approval (ReleaseWasApproved).                                      *)
(***************************************************************************)
EXTENDS RegistryAuthoring, TLAPS

\* Only an executable definition is approved, and Publish pins a revision
\* whose approval is of the definition it holds.
ReleaseWasApproved ==
    pipeline.exists =>
        /\ pipeline.approval # None => pipeline.approval.graph \in Executable
        /\ pipeline.release # None =>
              /\ pipeline.release.approval = pipeline.release.def
              /\ pipeline.release.def.graph \in Executable

IInv == /\ TypeOK
        /\ ReleaseWasApproved /\ DeployedWasApproved /\ PublishedRuns
        /\ BoundOntologyLives
        /\ WorkspaceClosed

\* What the commands on the pipeline's record keep of it.
PipelineOK == /\ pipeline \in Pipelines \cup {Absent}
              /\ ReleaseWasApproved /\ DeployedWasApproved /\ PublishedRuns

-----------------------------------------------------------------------------

\* A pipeline that is live has a record with all its fields.
LEMMA LiveIsRecord == ASSUME PipelineOK, pipeline.exists PROVE pipeline \in Pipelines
<1>1. pipeline # Absent
  BY DEF Absent
<1> QED BY <1>1 DEF PipelineOK

\* The head, seen as a pinned revision, has the type of one.
LEMMA HeadIsPin == ASSUME pipeline \in Pipelines PROVE Head \in Pins
BY DEF Head, Pins, Pipelines, Runs, InProduction

\* A merge yields a definition, each part of it from one of the sides.
LEMMA MergePicks ==
    ASSUME NEW base \in Definitions, NEW target \in Definitions,
           NEW source \in Definitions, NEW choice
    PROVE  /\ Merge3(base, target, source, choice) \in Definitions
           /\ \A k \in {"graph", "needs"} :
                Merge3(base, target, source, choice)[k] \in {source[k], target[k]}
BY DEF Merge3, Definitions

\* An edit of main keeps release and production pointer as they are.
LEMMA EditKeeps ==
    ASSUME PipelineOK, Live, NEW def \in Definitions, pipeline' = Edited(def)
    PROVE  PipelineOK'
<1>1. pipeline \in Pipelines
  BY LiveIsRecord DEF Live
<1>2. pipeline' \in Pipelines
  BY <1>1 DEF Edited, Managed, Pipelines
<1> QED BY <1>1, <1>2 DEF PipelineOK, Edited, Managed, Pipelines, ReleaseWasApproved,
                          DeployedWasApproved, PublishedRuns

\* A command that only marks the pipeline as managed keeps the rest.
LEMMA ManagedKeeps ==
    ASSUME PipelineOK, Live, pipeline' = Managed
    PROVE  PipelineOK'
<1>1. pipeline \in Pipelines
  BY LiveIsRecord DEF Live
<1> QED BY <1>1 DEF PipelineOK, Managed, Pipelines, ReleaseWasApproved,
                    DeployedWasApproved, PublishedRuns

\* Every command keeps the record of the pipeline well formed, its release
\* approved and its production pointer to a revision that runs.
LEMMA PipelineStep == ASSUME IInv, [Next]_vars PROVE PipelineOK'
<1> USE DEF IInv
<1>0. PipelineOK
  BY DEF PipelineOK, TypeOK
<1>1. ASSUME NEW def \in Definitions, PutPipeline(def) PROVE PipelineOK'
  <2>1. New(def) \in Pipelines
    BY AuthoringAssumption DEF New, Pipelines
  <2>2. CASE pipeline.exists
    BY <1>0, <1>1, <2>1, <2>2, LiveIsRecord
       DEF PutPipeline, New, Pipelines, PipelineOK, ReleaseWasApproved, DeployedWasApproved,
           PublishedRuns
  <2>3. CASE ~pipeline.exists
    BY <1>1, <2>1, <2>3 DEF PutPipeline, New, PipelineOK, ReleaseWasApproved,
                            DeployedWasApproved, PublishedRuns
  <2> QED BY <2>2, <2>3
<1>2. ASSUME NEW def \in Definitions, CreateDraft(def) PROVE PipelineOK'
  BY <1>2 DEF CreateDraft, New, Pipelines, PipelineOK, ReleaseWasApproved,
              DeployedWasApproved, PublishedRuns
<1>3. ASSUME NEW def \in Definitions, SaveMain(def) PROVE PipelineOK'
  BY <1>0, <1>3, EditKeeps DEF SaveMain
<1>4. CASE PublishPipeline
  <2>1. pipeline \in Pipelines /\ Head \in Pins
    BY <1>0, <1>4, LiveIsRecord, HeadIsPin DEF PublishPipeline, Live
  <2> QED BY <1>4, <2>1 DEF PublishPipeline, Publishable, Live, Head, Pipelines, PipelineOK,
                            ReleaseWasApproved, DeployedWasApproved, PublishedRuns
<1>5. CASE DeletePipeline
  BY <1>0, <1>5, LiveIsRecord DEF DeletePipeline, Pipelines, PipelineOK, ReleaseWasApproved,
                                  DeployedWasApproved, PublishedRuns
<1>6. CASE Approve
  <2>1. pipeline \in Pipelines
    BY <1>0, <1>6, LiveIsRecord DEF Approve, Live
  <2> QED BY <1>0, <1>6, <2>1 DEF Approve, Approvable, Live, Managed, Pipelines, PipelineOK,
                                  ReleaseWasApproved, DeployedWasApproved, PublishedRuns
<1>7. CASE Publish
  <2>1. pipeline \in Pipelines /\ Head \in Pins
    BY <1>0, <1>7, LiveIsRecord, HeadIsPin DEF Publish, Live
  <2>2. Head.approval = Head.def /\ Head.def.graph \in Executable
    <3>1. pipeline.approval # None
      BY <1>7, <2>1, AuthoringAssumption DEF Publish, Pipelines
    <3> QED BY <1>0, <1>7, <3>1 DEF Publish, Live, Head, PipelineOK, ReleaseWasApproved
  <2> QED BY <1>0, <1>7, <2>1, <2>2 DEF Publish, Live, Managed, Pipelines, PipelineOK,
             ReleaseWasApproved, DeployedWasApproved, PublishedRuns
<1>8. CASE Deploy
  <2>1. pipeline \in Pipelines /\ ~pipeline.deleted
    BY <1>0, <1>8, LiveIsRecord DEF Deploy, Live
  <2> QED BY <1>8, <2>1 DEF Deploy, Deployable, Managed, Pipelines, PipelineOK,
             ReleaseWasApproved, DeployedWasApproved, PublishedRuns
<1>9. ASSUME NEW b \in session.branches, NEW def \in Definitions, SaveBranch(b, def)
      PROVE PipelineOK'
  BY <1>0, <1>9, ManagedKeeps DEF SaveBranch
<1>10. ASSUME NEW b \in session.branches, NEW from, CreateBranch(b, from) PROVE PipelineOK'
  BY <1>0, <1>10, ManagedKeeps DEF CreateBranch
<1>11. ASSUME NEW b \in session.branches, NEW choice, Merge(b, choice) PROVE PipelineOK'
  <2>1. b \in Branches
    BY <1>11, AuthoringAssumption DEF TypeOK
  <2>2. branch[b] \in Drafts /\ pipeline \in Pipelines
    BY <1>0, <1>11, <2>1, LiveIsRecord DEF Merge, Live, TypeOK
  <2>3. Merge3(branch[b].base, pipeline.def, branch[b].def, choice) \in Definitions
    BY <2>2, MergePicks DEF Drafts, Pipelines
  <2> QED BY <1>0, <1>11, <2>3, EditKeeps DEF Merge
<1>12. ASSUME NEW b \in session.branches, DeleteBranch(b) PROVE PipelineOK'
  BY <1>0, <1>12, ManagedKeeps DEF DeleteBranch
<1>13. ASSUME NEW b \in session.branches, ProposeMerge(b) PROVE PipelineOK'
  BY <1>0, <1>13, ManagedKeeps DEF ProposeMerge
<1>14. ASSUME NEW o \in Ontologies, BindOntology(o) PROVE PipelineOK'
  <2>1. pipeline \in Pipelines
    BY <1>0, <1>14, LiveIsRecord DEF BindOntology, Live
  <2>2. [pipeline.def EXCEPT !.needs = TRUE] \in Definitions
    BY <2>1 DEF Pipelines, Definitions
  <2> QED BY <1>0, <1>14, <2>2, EditKeeps DEF BindOntology
<1>15. ASSUME UNCHANGED pipeline PROVE PipelineOK'
  BY <1>0, <1>15 DEF PipelineOK, ReleaseWasApproved, DeployedWasApproved, PublishedRuns
<1>16. session.defs \subseteq Definitions
  BY AuthoringAssumption DEF TypeOK
<1> QED BY <1>1, <1>2, <1>3, <1>4, <1>5, <1>6, <1>7, <1>8, <1>9, <1>10, <1>11, <1>12, <1>13,
           <1>14, <1>15, <1>16
        DEF Next, vars, PutBinding, PutOntology, PublishOntology, RetireOntology,
            DeleteOntology, RestoreOntology, Record

-----------------------------------------------------------------------------
(* Branches and proposals.                                                 *)

\* A branch, a proposal and the session keep their types.
WorkspaceOK == /\ branch \in [Branches -> Drafts \cup {None}]
               /\ proposal \in [Branches -> Proposals \cup {None}]
               /\ session \in Sessions
               /\ WorkspaceClosed

\* Branches lose neither a parent nor the source of a proposal: a deletion
\* asks for both, the other commands keep every branch that is there.
LEMMA WorkspaceStep == ASSUME IInv, [Next]_vars PROVE WorkspaceOK'
<1> USE DEF IInv
<1>0. WorkspaceOK /\ PipelineOK
  BY DEF WorkspaceOK, PipelineOK, TypeOK
<1>1. session.branches \subseteq Branches /\ session.defs \subseteq Definitions
  BY AuthoringAssumption DEF TypeOK
<1>2. ASSUME UNCHANGED << branch, proposal, session >> PROVE WorkspaceOK'
  BY <1>0, <1>2 DEF WorkspaceOK, WorkspaceClosed
<1>3. ASSUME NEW b \in Branches, NEW draft \in Drafts, branch[b] # None,
             draft.parent = branch[b].parent,
             branch' = [branch EXCEPT ![b] = draft],
             proposal' \in [Branches -> Proposals \cup {None}],
             \A c \in Branches : proposal'[c] # None => proposal[c] # None,
             UNCHANGED session
      PROVE WorkspaceOK'
  <2>1. draft # None
    BY <1>3, AuthoringAssumption
  <2> QED BY <1>0, <1>3, <2>1 DEF WorkspaceOK, WorkspaceClosed
<1>4. ASSUME NEW b \in Branches, NEW def \in Definitions, SaveBranch(b, def)
      PROVE WorkspaceOK'
  <2>1. branch[b] \in Drafts
    BY <1>0, <1>4 DEF SaveBranch, WorkspaceOK
  <2>2. /\ [branch[b] EXCEPT !.def = def] \in Drafts
        /\ [branch[b] EXCEPT !.def = def].parent = branch[b].parent
    BY <2>1 DEF Drafts
  <2>3. branch' = [branch EXCEPT ![b] = [branch[b] EXCEPT !.def = def]]
    BY <1>0, <1>4 DEF SaveBranch, WorkspaceOK
  <2> QED BY <1>0, <1>3, <1>4, <2>2, <2>3 DEF SaveBranch, WorkspaceOK
<1>5. ASSUME NEW b \in Branches, NEW from \in Branches \cup {"main"}, CreateBranch(b, from)
      PROVE WorkspaceOK'
  <2>1. pipeline \in Pipelines
    BY <1>0, <1>5, LiveIsRecord DEF CreateBranch, Live
  <2> DEFINE draft == IF from = "main"
            THEN [parent |-> "main", def |-> pipeline.def, base |-> pipeline.def]
            ELSE [parent |-> from, def |-> branch[from].def, base |-> branch[from].base]
  <2>2. draft \in Drafts
    <3>1. CASE from = "main"
      BY <2>1, <3>1 DEF Pipelines, Drafts
    <3>2. CASE from # "main"
      <4>1. branch[from] \in Drafts
        BY <1>0, <1>5, <3>2 DEF CreateBranch, WorkspaceOK
      <4> QED BY <3>2, <4>1 DEF Drafts
    <3> QED BY <3>1, <3>2
  <2>3. draft # None /\ draft.parent = from
    BY <2>2, AuthoringAssumption
  <2>4. branch' = [branch EXCEPT ![b] = draft] /\ branch[b] = None
        /\ (from # "main" => branch[from] # None) /\ UNCHANGED << proposal, session >>
    BY <1>5 DEF CreateBranch
  <2> HIDE DEF draft
  <2> QED BY <1>0, <1>5, <2>2, <2>3, <2>4 DEF WorkspaceOK, WorkspaceClosed
<1>6. ASSUME NEW b \in Branches, DeleteBranch(b) PROVE WorkspaceOK'
  BY <1>0, <1>6 DEF DeleteBranch, Removable, Forks, WorkspaceOK, WorkspaceClosed
<1>7. ASSUME NEW b \in Branches, ProposeMerge(b) PROVE WorkspaceOK'
  <2>1. pipeline \in Pipelines /\ branch[b] \in Drafts
    BY <1>0, <1>7, LiveIsRecord DEF ProposeMerge, Live, WorkspaceOK
  <2>2. [source |-> branch[b].def, target |-> pipeline.def] \in Proposals
    BY <2>1 DEF Pipelines, Drafts, Proposals
  <2> QED BY <1>0, <1>7, <2>2 DEF ProposeMerge, WorkspaceOK, WorkspaceClosed
<1>8. ASSUME NEW b \in Branches, NEW choice, Merge(b, choice) PROVE WorkspaceOK'
  <2>1. branch[b] \in Drafts /\ pipeline \in Pipelines
    BY <1>0, <1>8, LiveIsRecord DEF Merge, Live, WorkspaceOK
  <2> DEFINE merged == Merge3(branch[b].base, pipeline.def, branch[b].def, choice)
             draft == [branch[b] EXCEPT !.def = merged, !.base = merged]
  <2>2. merged \in Definitions
    BY <2>1, MergePicks DEF Drafts, Pipelines
  <2>3. draft \in Drafts /\ draft.parent = branch[b].parent
    BY <2>1, <2>2 DEF Drafts
  <2>4. branch' = [branch EXCEPT ![b] = draft]
    BY <1>0, <1>8 DEF Merge, WorkspaceOK
  <2>5. proposal' = [proposal EXCEPT ![b] = None] /\ UNCHANGED session /\ branch[b] # None
    BY <1>8 DEF Merge
  <2> HIDE DEF draft, merged
  <2> QED BY <1>0, <1>3, <2>3, <2>4, <2>5 DEF WorkspaceOK
<1> QED
  <2>1. CASE \E b \in session.branches :
               \/ \E def \in session.defs : SaveBranch(b, def)
               \/ \E from \in session.branches \cup {"main"} : CreateBranch(b, from)
               \/ \E choice \in {"source", "target"} : Merge(b, choice)
               \/ DeleteBranch(b)
               \/ ProposeMerge(b)
    BY <1>1, <1>4, <1>5, <1>6, <1>7, <1>8, <2>1
  <2>2. CASE UNCHANGED << branch, proposal, session >>
    BY <1>2, <2>2
  <2> QED BY <2>1, <2>2
          DEF Next, vars, PutPipeline, CreateDraft, SaveMain, PublishPipeline, DeletePipeline,
              Approve, Publish, Deploy, PutOntology, PutBinding, BindOntology,
              PublishOntology, RetireOntology, DeleteOntology, RestoreOntology, Record

-----------------------------------------------------------------------------
(* Ontologies.                                                             *)

\* The ontologies keep their types, a published one is there, and so is the
\* one a pipeline is bound to.
OntologyOK == /\ binding \in Ontologies \cup {None}
              /\ ontology \in [Ontologies -> OntologyRecords]
              /\ \A o \in Ontologies : ontology[o].publication # "none" =>
                                           ontology[o].exists /\ ~ontology[o].deleted
              /\ BoundOntologyLives

\* Binding takes an ontology in production, deletion one that is not bound.
LEMMA OntologyStep == ASSUME IInv, [Next]_vars PROVE OntologyOK'
<1> USE DEF IInv
<1>0. OntologyOK
  BY DEF OntologyOK, TypeOK
<1>1. ASSUME UNCHANGED << binding, ontology >> PROVE OntologyOK'
  BY <1>0, <1>1 DEF OntologyOK, BoundOntologyLives
<1>2. ASSUME NEW o \in Ontologies, InProduction(o), binding' = o, UNCHANGED ontology
      PROVE OntologyOK'
  BY <1>0, <1>2 DEF OntologyOK, BoundOntologyLives, InProduction
<1>3. ASSUME NEW o \in Ontologies, NEW record \in OntologyRecords, Record(o, record),
             record.publication # "none" => record.exists /\ ~record.deleted,
             binding = o => record.exists /\ ~record.deleted
      PROVE OntologyOK'
  BY <1>0, <1>3, AuthoringAssumption DEF Record, OntologyOK, BoundOntologyLives
<1>4. ASSUME NEW o \in Ontologies, NEW target \in (Ontologies \ {o}) \cup {None},
             PutOntology(o, target)
      PROVE OntologyOK'
  <2>1. [ontology[o] EXCEPT !.exists = TRUE, !.target = target] \in OntologyRecords
    BY <1>0, <1>4 DEF OntologyOK, OntologyRecords
  <2> QED BY <1>0, <1>3, <1>4, <2>1 DEF PutOntology, OntologyOK, OntologyRecords
<1>5. ASSUME NEW o \in Ontologies, PublishOntology(o) PROVE OntologyOK'
  <2>1. [ontology[o] EXCEPT !.publication = "production"] \in OntologyRecords
    BY <1>0, <1>5 DEF OntologyOK, OntologyRecords
  <2> QED BY <1>0, <1>3, <1>5, <2>1 DEF PublishOntology, OntologyOK, OntologyRecords
<1>6. ASSUME NEW o \in Ontologies, RetireOntology(o) PROVE OntologyOK'
  <2>1. [ontology[o] EXCEPT !.publication = "retired"] \in OntologyRecords
    BY <1>0, <1>6 DEF OntologyOK, OntologyRecords
  <2> QED BY <1>0, <1>3, <1>6, <2>1 DEF RetireOntology, InProduction, OntologyOK,
             OntologyRecords
<1>7. ASSUME NEW o \in Ontologies, DeleteOntology(o) PROVE OntologyOK'
  <2>1. Deleted(ontology[o]) \in OntologyRecords /\ Deleted(ontology[o]).publication = "none"
    BY <1>0, <1>7 DEF OntologyOK, OntologyRecords, Deleted
  <2> QED BY <1>0, <1>3, <1>7, <2>1 DEF DeleteOntology, Unused
<1>8. ASSUME NEW o \in Ontologies, RestoreOntology(o) PROVE OntologyOK'
  <2>1. [ontology[o] EXCEPT !.deleted = FALSE] \in OntologyRecords
    BY <1>0, <1>8 DEF OntologyOK, OntologyRecords
  <2> QED BY <1>0, <1>3, <1>8, <2>1 DEF RestoreOntology, OntologyOK, OntologyRecords
<1> QED BY <1>1, <1>2, <1>4, <1>5, <1>6, <1>7, <1>8
        DEF Next, vars, PutPipeline, CreateDraft, SaveMain, PublishPipeline, DeletePipeline,
            Approve, Publish, Deploy, SaveBranch, CreateBranch, Merge, DeleteBranch,
            ProposeMerge, PutBinding, BindOntology

-----------------------------------------------------------------------------
(* The theorems.                                                           *)

LEMMA Initially == Init => IInv
BY AuthoringAssumption
   DEF Init, IInv, TypeOK, Absent, NoOntology, OntologyRecords, ReleaseWasApproved,
       DeployedWasApproved, PublishedRuns, BoundOntologyLives, WorkspaceClosed

LEMMA Inductive == IInv /\ [Next]_vars => IInv'
BY PipelineStep, WorkspaceStep, OntologyStep
   DEF IInv, TypeOK, PipelineOK, WorkspaceOK, OntologyOK

\* Every behaviour keeps the invariant.
LEMMA Invariant == Spec => []IInv
BY Initially, Inductive, PTL DEF Spec

\* The tenant's state keeps its type, and what is in production exists.
THEOREM TypeCorrect == Spec => []TypeOK
BY Invariant, PTL DEF IInv

\* Runtime discovery never fails on what it lists and, of a managed pipeline,
\* never sees a definition that is unreviewed or not executable, in whatever
\* order put_pipeline, author_pipeline, publish_pipeline, delete_pipeline and
\* the ontologies' commands are called.
THEOREM OnlyReviewedDeployed == Spec => []ProductionIsSound
<1>1. IInv => ProductionIsSound
  BY DEF IInv, ProductionIsSound
<1> QED BY <1>1, Invariant, PTL

\* Deletions of ontologies and branches leave no binding, branch or proposal
\* that refers to them behind.
THEOREM NothingDangles == Spec => []ReferencesLive
<1>1. IInv => ReferencesLive
  BY DEF IInv, ReferencesLive
<1> QED BY <1>1, Invariant, PTL

\* A merge starts from the main and the source that were proposed, and takes
\* every part of the result from one of them.
THEOREM MergesAsProposed == Spec => MergesWhatWasProposed
<1> DEFINE Shown(b) == proposal[b] # None /\ proposal'[b] = None =>
              \A k \in {"graph", "needs"} :
                  /\ pipeline.def[k] = proposal[b].target[k]
                  /\ pipeline'.def[k] \in {proposal[b].source[k], proposal[b].target[k]}
<1>1. ASSUME IInv, Next PROVE \A b \in Branches : Shown(b)
  <2> SUFFICES ASSUME NEW b \in Branches, proposal[b] # None, proposal'[b] = None
               PROVE  Shown(b)
    OBVIOUS
  <2>1. CASE UNCHANGED proposal
    BY <2>1
  <2>2. ASSUME NEW c \in session.branches, ProposeMerge(c) PROVE FALSE
    <3>1. c \in Branches
      BY <1>1, AuthoringAssumption DEF IInv, TypeOK
    <3>2. pipeline \in Pipelines /\ branch[c] \in Drafts
      BY <1>1, <2>2, <3>1, LiveIsRecord DEF ProposeMerge, Live, IInv, TypeOK, PipelineOK
    <3>3. [source |-> branch[c].def, target |-> pipeline.def] \in Proposals
      BY <3>2 DEF Pipelines, Drafts, Proposals
    <3> QED BY <1>1, <2>2, <3>1, <3>3, AuthoringAssumption
            DEF ProposeMerge, IInv, TypeOK
  <2>3. ASSUME NEW c \in session.branches, NEW choice, Merge(c, choice) PROVE Shown(b)
    <3>1. c \in Branches
      BY <1>1, AuthoringAssumption DEF IInv, TypeOK
    <3>2. c = b
      BY <1>1, <2>3, <3>1 DEF Merge, IInv, TypeOK
    <3>3. branch[b] \in Drafts /\ pipeline \in Pipelines
      BY <1>1, <2>3, <3>2, LiveIsRecord DEF Merge, Live, IInv, TypeOK, PipelineOK
    <3> DEFINE merged == Merge3(branch[b].base, pipeline.def, branch[b].def, choice)
    <3>4. /\ merged \in Definitions
          /\ \A k \in {"graph", "needs"} : merged[k] \in {branch[b].def[k], pipeline.def[k]}
      BY <3>3, MergePicks DEF Drafts, Pipelines
    <3>5. proposal[b].source = branch[b].def /\ proposal[b].target = pipeline.def
      BY <2>3, <3>2 DEF Merge, Current
    <3>6. pipeline' = Edited(merged)
      BY <2>3, <3>2 DEF Merge
    <3>7. pipeline'.def = merged
      BY <3>3, <3>6 DEF Edited, Managed, Pipelines
    <3> HIDE DEF merged
    <3> QED BY <3>4, <3>5, <3>7
  <2> QED BY <1>1, <2>1, <2>2, <2>3
          DEF Next, PutPipeline, CreateDraft, SaveMain, PublishPipeline, DeletePipeline,
              Approve, Publish, Deploy, SaveBranch, CreateBranch, DeleteBranch, PutOntology,
              PutBinding, BindOntology, PublishOntology, RetireOntology, DeleteOntology,
              RestoreOntology, Record
<1>2. IInv /\ [Next]_vars => [\A b \in Branches : Shown(b)]_vars
  BY <1>1
<1> QED BY <1>2, Invariant, PTL DEF Spec, MergesWhatWasProposed
=============================================================================
