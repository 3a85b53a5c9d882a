------------------------ MODULE RegistryStoreProofs ------------------------
(***************************************************************************)
(* Proofs about RegistryStore, for any number of calls, revisions, writes  *)
(* and delayed requests.                                                   *)
(*                                                                         *)
(* Until a request comes late, a call that passed the comparison of heads  *)
(* keeps its head (HeadHeld), because the tenant's lock keeps everybody    *)
(* else from the branch, and at the commit both artifacts are its own      *)
(* (StagedIsOwn), whatever failed calls left staged.  Commit ids grow      *)
(* (IdsGrow) and were handed out before a write is based on them           *)
(* (BasesIssued), so a revision a write was based on does not come back.   *)
(***************************************************************************)
EXTENDS RegistryStore, TLAPS

\* The steps of commit after the comparison of heads.
Committing == {"pipelines", "ontologies", "commit"}

HeadHeld ==
    \A c \in Calls : call[c].pc \in Committing =>
        Exists /\ BranchHead = call[c].write.base

StagedIsOwn ==
    \A c \in Calls :
        /\ call[c].pc \in {"ontologies", "commit"} => tree.p = call[c].write
        /\ call[c].pc = "commit" => tree.o = call[c].write

IdsGrow ==
    /\ \A k \in 1..Len(log) : log[k].id <= issued
    /\ \A j, k \in 1..Len(log) : j < k => log[j].id < log[k].id

BasesIssued ==
    /\ \A c \in Calls : call[c].write.base <= issued
    /\ \A w \in acked : w.base <= issued

Prompt == HeadHeld /\ StagedIsOwn /\ AtomicRevision

IInv == TypeOK /\ IdsGrow /\ BasesIssued /\ (~late => Prompt) /\ AckedIsNext

-----------------------------------------------------------------------------

\* What a step does to the branch: nothing, one more revision, a staged
\* artifact, a new repository or none.
Grows == /\ Exists
         /\ issued' = issued + 1
         /\ log' = Append(log, [id |-> issued + 1, p |-> tree.p, o |-> tree.o])
         /\ issued < MaxRevisions

Created == /\ ~Exists
           /\ issued' = issued + 1
           /\ log' = << [id |-> issued + 1, p |-> Empty, o |-> Empty] >>
           /\ issued < MaxRevisions

Dropped == log' = << >> /\ UNCHANGED issued

BranchStep == Grows \/ Created \/ Dropped \/ UNCHANGED << log, issued >>

LEMMA EmptyIsWrite == Empty \in Writes
BY StoreAssumption DEF Empty, Writes

LEMMA IdleIsCall == Idle \in [pc : Steps, write : Writes, saw : BOOLEAN]
BY EmptyIsWrite DEF Idle, Steps

LEMMA IdsAreIds ==
    ASSUME log \in Seq(Commits)
    PROVE  \A k \in 1..Len(log) : log[k] \in Commits /\ log[k].id \in 1..MaxRevisions
<1>1. \A k \in 1..Len(log) : log[k] \in Commits
  OBVIOUS
<1>2. \A e \in Commits : e.id \in 1..MaxRevisions
  BY DEF Commits
<1> QED BY <1>1, <1>2

\* The branch keeps its type and its ids grow.
LEMMA BranchGrows ==
    ASSUME TypeOK, IdsGrow, BranchStep
    PROVE  log' \in Seq(Commits) /\ issued' \in 0..MaxRevisions /\ issued <= issued' /\ IdsGrow'
<1> USE StoreAssumption DEF TypeOK
<1>1. CASE Grows
  <2> DEFINE new == [id |-> issued + 1, p |-> tree.p, o |-> tree.o]
  <2>1. new \in Commits
    BY <1>1 DEF Grows, Commits, Trees
  <2>2. log' = Append(log, new)
    BY <1>1 DEF Grows
  <2>3. /\ log' \in Seq(Commits) /\ Len(log') = Len(log) + 1
        /\ \A k \in 1..Len(log) : log'[k] = log[k]
        /\ log'[Len(log) + 1].id = issued + 1
    BY <2>1, <2>2
  <2>4. \A k \in 1..Len(log) : log[k].id \in 1..MaxRevisions
    BY IdsAreIds
  <2> HIDE DEF new
  <2>5. issued' = issued + 1 /\ issued' \in 0..MaxRevisions
    BY <1>1 DEF Grows
  <2>6. \A k \in 1..Len(log') : log'[k].id <= issued'
    <3>1. ASSUME NEW k \in 1..Len(log) PROVE log'[k].id <= issued'
      BY <2>3, <2>4, <2>5 DEF IdsGrow
    <3>2. log'[Len(log) + 1].id <= issued'
      BY <2>3, <2>5
    <3> QED BY <2>3, <3>1, <3>2
  <2>7. ASSUME NEW j \in 1..Len(log'), NEW k \in 1..Len(log'), j < k
        PROVE  log'[j].id < log'[k].id
    <3>1. j \in 1..Len(log)
      BY <2>3, <2>7
    <3>2. CASE k = Len(log) + 1
      BY <2>3, <2>4, <3>1, <3>2 DEF IdsGrow
    <3>3. CASE k \in 1..Len(log)
      BY <2>3, <2>7, <3>1, <3>3 DEF IdsGrow
    <3> QED BY <2>3, <2>7, <3>2, <3>3
  <2> QED BY <2>3, <2>5, <2>6, <2>7 DEF IdsGrow
<1>2. CASE Created
  <2> DEFINE new == [id |-> issued + 1, p |-> Empty, o |-> Empty]
  <2>1. new \in Commits
    BY <1>2, EmptyIsWrite DEF Created, Commits
  <2>2. log' = << new >> /\ issued' = issued + 1 /\ issued' \in 0..MaxRevisions
    BY <1>2 DEF Created
  <2> HIDE DEF new
  <2>3. log' \in Seq(Commits) /\ Len(log') = 1
    BY <2>1, <2>2
  <2>4. log'[1].id = issued + 1
    BY <2>2 DEF new
  <2> QED BY <2>2, <2>3, <2>4 DEF IdsGrow
<1>3. CASE Dropped
  BY <1>3 DEF Dropped, IdsGrow
<1>4. CASE UNCHANGED << log, issued >>
  BY <1>4 DEF IdsGrow
<1> QED BY <1>1, <1>2, <1>3, <1>4 DEF BranchStep

-----------------------------------------------------------------------------
(* The lock and the calls.                                                 *)

CallsOK ==
    /\ lock \in Calls \cup {None}
    /\ call \in [Calls -> [pc : Steps, write : Writes, saw : BOOLEAN]]
    /\ \A c \in Calls : call[c].pc \in Locked <=> lock = c

LEMMA FinishOK ==
    ASSUME TypeOK, NEW c \in Calls, Finish(c)
    PROVE  CallsOK' /\ call' = [call EXCEPT ![c] = Idle]
<1> USE StoreAssumption DEF TypeOK
<1>1. call' = [call EXCEPT ![c] = Idle] /\ lock' = (IF lock = c THEN None ELSE lock)
  BY DEF Finish
<1>2. Idle \in [pc : Steps, write : Writes, saw : BOOLEAN] /\ Idle.pc \notin Locked
  BY IdleIsCall DEF Idle, Locked
<1>3. call' \in [Calls -> [pc : Steps, write : Writes, saw : BOOLEAN]]
  BY <1>1, <1>2
<1>4. ASSUME NEW d \in Calls PROVE call'[d].pc \in Locked <=> lock' = d
  <2>1. CASE d = c
    BY <1>1, <1>2, <2>1
  <2>2. CASE d # c
    BY <1>1, <2>2
  <2> QED BY <2>1, <2>2
<1> QED BY <1>1, <1>3, <1>4 DEF CallsOK

LEMMA GotoOK ==
    ASSUME TypeOK, NEW c \in Calls, NEW to \in Locked,
           call[c].pc \in Locked, Goto(c, to), UNCHANGED lock
    PROVE  /\ CallsOK'
           /\ \A d \in Calls \ {c} : call'[d] = call[d] /\ call'[d].pc \notin Locked
           /\ call'[c].pc = to /\ call'[c].write = call[c].write
<1> USE DEF TypeOK
<1>1. call' = [call EXCEPT ![c].pc = to] /\ to \in Steps
  BY DEF Goto, Locked
<1>2. call' \in [Calls -> [pc : Steps, write : Writes, saw : BOOLEAN]]
  BY <1>1
<1>3. call'[c].pc = to /\ call'[c].write = call[c].write
  BY <1>1
<1>4. lock = c
  OBVIOUS
<1>5. ASSUME NEW d \in Calls \ {c} PROVE call'[d] = call[d] /\ call'[d].pc \notin Locked
  BY <1>1, <1>4
<1>6. \A d \in Calls : call'[d].pc \in Locked <=> lock' = d
  BY <1>3, <1>4, <1>5
<1> QED BY <1>2, <1>3, <1>5, <1>6 DEF CallsOK

LEMMA AcquireOK ==
    ASSUME TypeOK, NEW c \in Calls, NEW to \in Locked, Acquire(c, to)
    PROVE  CallsOK' /\ call' = [call EXCEPT ![c].pc = to]
<1> USE StoreAssumption DEF TypeOK
<1>1. call' = [call EXCEPT ![c].pc = to] /\ to \in Steps /\ lock = None /\ lock' = c
  BY DEF Acquire, Goto, Locked
<1>2. call' \in [Calls -> [pc : Steps, write : Writes, saw : BOOLEAN]]
  BY <1>1
<1>3. ASSUME NEW d \in Calls PROVE call'[d].pc \in Locked <=> lock' = d
  <2>1. CASE d = c
    BY <1>1, <2>1
  <2>2. CASE d # c
    BY <1>1, <2>2
  <2> QED BY <2>1, <2>2
<1> QED BY <1>1, <1>2, <1>3 DEF CallsOK

\* A step at which a call without the lock stays without it.
LEMMA UnlockedOK ==
    ASSUME TypeOK, NEW c \in Calls, call[c].pc \notin Locked, UNCHANGED lock,
           NEW r \in [pc : Steps, write : Writes, saw : BOOLEAN], r.pc \notin Locked,
           call' = [call EXCEPT ![c] = r]
    PROVE  CallsOK'
<1> USE DEF TypeOK
<1>1. call' \in [Calls -> [pc : Steps, write : Writes, saw : BOOLEAN]]
  OBVIOUS
<1>2. ASSUME NEW d \in Calls PROVE call'[d].pc \in Locked <=> lock' = d
  <2>1. CASE d = c
    BY <2>1
  <2>2. CASE d # c
    BY <2>2
  <2> QED BY <2>1, <2>2
<1> QED BY <1>1, <1>2 DEF CallsOK

LEMMA CrashOK ==
    ASSUME TypeOK, Crash
    PROVE  CallsOK' /\ call' = [c \in Calls |-> Idle]
<1>1. Idle \in [pc : Steps, write : Writes, saw : BOOLEAN] /\ Idle.pc \notin Locked
  BY IdleIsCall DEF Idle, Locked
<1> QED BY <1>1, StoreAssumption DEF Crash, CallsOK

-----------------------------------------------------------------------------
(* The requests to lakeFS.                                                 *)

LEMMA CommitOK ==
    ASSUME TypeOK, LakeFsCommit
    PROVE  Grows /\ UNCHANGED tree
BY DEF LakeFsCommit, Changed, Grows

LEMMA StageOK ==
    ASSUME TypeOK, NEW part, NEW w \in Writes, LakeFsStage(part, w)
    PROVE  UNCHANGED << log, issued >> /\ tree' \in Trees
<1>1. tree.p \in Writes /\ tree.o \in Writes
  BY DEF TypeOK, Trees
<1> QED BY <1>1 DEF LakeFsStage, Trees

LEMMA ApplyOK ==
    ASSUME TypeOK, NEW r \in Requests, LakeFsApply(r)
    PROVE  BranchStep /\ tree' \in Trees
<1>1. CASE r.what = "commit" /\ LakeFsCommit
  BY <1>1, CommitOK DEF BranchStep, TypeOK
<1>2. CASE r.what # "commit" /\ LakeFsStage(r.what, r.write)
  <2>1. r.write \in Writes
    BY DEF Requests
  <2> QED BY <1>2, <2>1, StageOK DEF BranchStep
<1> QED BY <1>1, <1>2 DEF LakeFsApply

LEMMA HeadOK ==
    ASSUME TypeOK, Exists
    PROVE  /\ Len(log) \in Nat /\ Len(log) >= 1
           /\ BranchHead \in 1..MaxRevisions
           /\ IdsGrow => BranchHead <= issued
<1>1. Len(log) \in Nat /\ Len(log) >= 1
  BY DEF TypeOK, Exists
<1>2. log[Len(log)].id \in 1..MaxRevisions
  BY <1>1, IdsAreIds DEF TypeOK
<1> QED BY <1>1, <1>2 DEF BranchHead, IdsGrow

-----------------------------------------------------------------------------
(* Steps that leave the branch alone.                                      *)

Quiet == UNCHANGED << log, tree, issued, late, acked >>

\* Nobody comes to a step of commit, and who stays there is as he was.
NoneEnters == \A d \in Calls : call'[d].pc \in Committing => call'[d] = call[d]

\* A call that does not move forward to a step of commit.
LEMMA ReplacedOK ==
    ASSUME TypeOK, NEW c \in Calls, NEW r, r.pc \notin Committing,
           call' = [call EXCEPT ![c] = r]
    PROVE  NoneEnters
<1> SUFFICES ASSUME NEW d \in Calls, call'[d].pc \in Committing
             PROVE  call'[d] = call[d]
  BY DEF NoneEnters
<1> QED BY DEF TypeOK

LEMMA QuietKeeps ==
    ASSUME IInv, Quiet, NoneEnters, CallsOK', BasesIssued'
    PROVE  IdsGrow' /\ (~late => Prompt)' /\ AckedIsNext'
<1> USE DEF Quiet, IInv
<1>1. IdsGrow'
  BY DEF IdsGrow
<1>2. AckedIsNext'
  BY DEF AckedIsNext
<1>3. ASSUME ~late' PROVE Prompt'
  <2>1. HeadHeld /\ StagedIsOwn /\ AtomicRevision
    BY <1>3 DEF Prompt
  <2>2. AtomicRevision'
    BY <2>1 DEF AtomicRevision
  <2>3. HeadHeld'
    BY <2>1 DEF HeadHeld, NoneEnters, Exists, BranchHead
  <2>4. StagedIsOwn'
    BY <2>1 DEF StagedIsOwn, NoneEnters, Committing
  <2> QED BY <2>2, <2>3, <2>4 DEF Prompt
<1> QED BY <1>1, <1>2, <1>3

LEMMA FinishBases ==
    ASSUME TypeOK, BasesIssued, NEW c \in Calls, call' = [call EXCEPT ![c] = Idle]
    PROVE  \A d \in Calls : call'[d].write.base <= issued
<1>1. Idle.write.base = 0
  BY DEF Idle, Empty
<1>2. \A d \in Calls : call[d].write.base <= issued
  BY DEF BasesIssued
<1> QED BY <1>1, <1>2, StoreAssumption DEF TypeOK

\* The variables no property speaks of.
RestOK == /\ marker' \in BOOLEAN
          /\ cache' \in {"unknown", "present", "absent"}
          /\ writes' \in 0..MaxWrites
          /\ flying' \in SUBSET Requests

LEMMA QuietFinish ==
    ASSUME IInv, NEW c \in Calls, Finish(c), Quiet, RestOK
    PROVE  IInv'
<1>1. CallsOK' /\ call' = [call EXCEPT ![c] = Idle]
  BY FinishOK DEF IInv
<1>2. Idle.pc \notin Committing
  BY DEF Idle, Committing
<1>3. NoneEnters
  BY <1>1, <1>2, ReplacedOK DEF IInv
<1>4. BasesIssued'
  BY <1>1, FinishBases DEF IInv, BasesIssued, Quiet
<1>5. TypeOK'
  BY <1>1 DEF IInv, Quiet, RestOK, CallsOK, TypeOK
<1> QED BY <1>1, <1>3, <1>4, <1>5, QuietKeeps DEF IInv

LEMMA QuietGoto ==
    ASSUME IInv, NEW c \in Calls, NEW to \in Locked, to \notin Committing,
           call[c].pc \in Locked, Goto(c, to), UNCHANGED lock, Quiet, RestOK
    PROVE  IInv'
<1>1. /\ CallsOK'
      /\ \A d \in Calls \ {c} : call'[d] = call[d]
      /\ call'[c].pc = to /\ call'[c].write = call[c].write
  BY GotoOK DEF IInv
<1>2. NoneEnters
  BY <1>1 DEF NoneEnters
<1>3. \A d \in Calls : call'[d].write = call[d].write
  BY <1>1
<1>4. BasesIssued'
  BY <1>3 DEF IInv, BasesIssued, Quiet
<1>5. TypeOK'
  BY <1>1 DEF IInv, Quiet, RestOK, CallsOK, TypeOK
<1> QED BY <1>1, <1>2, <1>4, <1>5, QuietKeeps DEF IInv

LEMMA QuietAcquire ==
    ASSUME IInv, NEW c \in Calls, NEW to \in Locked, to \notin Committing, Acquire(c, to)
    PROVE  IInv'
<1>1. CallsOK' /\ call' = [call EXCEPT ![c].pc = to]
  BY AcquireOK DEF IInv
<1>2. Quiet /\ RestOK
  BY DEF Acquire, Quiet, RestOK, lake, IInv, TypeOK
<1>3. \A d \in Calls : call'[d].write = call[d].write
  BY <1>1 DEF IInv, TypeOK
<1>4. NoneEnters
  BY <1>1 DEF NoneEnters, IInv, TypeOK
<1>5. BasesIssued'
  BY <1>2, <1>3 DEF IInv, BasesIssued, Quiet
<1>6. TypeOK'
  BY <1>1, <1>2 DEF IInv, Quiet, RestOK, CallsOK, TypeOK
<1> QED BY <1>1, <1>2, <1>4, <1>5, <1>6, QuietKeeps DEF IInv

\* A call without the lock that goes on without it.
LEMMA QuietUnlocked ==
    ASSUME IInv, NEW c \in Calls, call[c].pc \notin Locked, UNCHANGED lock,
           NEW r \in [pc : Steps, write : Writes, saw : BOOLEAN], r.pc \notin Locked,
           r.write.base <= issued,
           call' = [call EXCEPT ![c] = r], Quiet, RestOK
    PROVE  IInv'
<1>1. CallsOK'
  BY UnlockedOK DEF IInv
<1>2. r.pc \notin Committing
  BY DEF Locked, Committing, Steps
<1>3. NoneEnters
  BY <1>2, ReplacedOK DEF IInv
<1>4. \A d \in Calls : call'[d].write.base <= issued
  BY DEF IInv, BasesIssued, TypeOK
<1>5. BasesIssued'
  BY <1>4 DEF IInv, BasesIssued, Quiet
<1>6. TypeOK'
  BY <1>1 DEF IInv, Quiet, RestOK, CallsOK, TypeOK
<1> QED BY <1>1, <1>3, <1>5, <1>6, QuietKeeps DEF IInv

LEMMA LoadKeeps == ASSUME IInv, NEW c \in Calls, Load(c) PROVE IInv'
<1> USE DEF IInv, TypeOK
<1> DEFINE r == [call[c] EXCEPT !.pc = IF cache = "unknown" THEN "fill"
                                  ELSE IF cache = "present" THEN "head" ELSE "idle",
                                !.saw = marker]
<1>1. r \in [pc : Steps, write : Writes, saw : BOOLEAN] /\ r.pc \notin Locked
  BY DEF Steps, Locked
<1>2. r.write = call[c].write
  OBVIOUS
<1>3. r.write.base <= issued
  BY <1>2 DEF BasesIssued
<1>4. call' = [call EXCEPT ![c] = r] /\ call[c].pc \notin Locked /\ UNCHANGED lock
  BY DEF Load, At, Locked
<1>5. Quiet /\ RestOK
  BY DEF Load, Quiet, RestOK, lake
<1> HIDE DEF r
<1> QED BY <1>1, <1>3, <1>4, <1>5, QuietUnlocked

LEMMA FillCacheKeeps == ASSUME IInv, NEW c \in Calls, FillCache(c) PROVE IInv'
<1> USE DEF IInv, TypeOK
<1> DEFINE r == [Idle EXCEPT !.pc = IF call[c].saw THEN "head" ELSE "idle"]
<1>1. r \in [pc : Steps, write : Writes, saw : BOOLEAN] /\ r.pc \notin Locked
  BY IdleIsCall DEF Steps, Locked
<1>2. r.write.base <= issued
  BY StoreAssumption DEF Idle, Empty
<1>3. call' = [call EXCEPT ![c] = r] /\ call[c].pc \notin Locked /\ UNCHANGED lock
  BY DEF FillCache, At, Locked
<1>4. Quiet /\ RestOK
  BY DEF FillCache, Quiet, RestOK, lake, Remember
<1> HIDE DEF r
<1> QED BY <1>1, <1>2, <1>3, <1>4, QuietUnlocked

LEMMA ReadHeadKeeps == ASSUME IInv, NEW c \in Calls, ReadHead(c) PROVE IInv'
<1> USE StoreAssumption DEF IInv, TypeOK
<1> DEFINE r == [pc |-> "loaded", saw |-> FALSE,
                 write |-> [n |-> writes + 1, base |-> BranchHead]]
<1>1. BranchHead \in 1..MaxRevisions /\ BranchHead <= issued
  BY HeadOK DEF ReadHead
<1>2. writes + 1 \in 0..MaxWrites
  BY DEF ReadHead
<1>3. r \in [pc : Steps, write : Writes, saw : BOOLEAN] /\ r.pc \notin Locked
  BY <1>1, <1>2 DEF Steps, Locked, Writes
<1>4. r.write.base <= issued
  BY <1>1
<1>5. call' = [call EXCEPT ![c] = r] /\ call[c].pc \notin Locked /\ UNCHANGED lock
  BY DEF ReadHead, At, Locked
<1>6. Quiet /\ RestOK
  BY <1>2 DEF ReadHead, Quiet, RestOK, lake
<1> HIDE DEF r
<1> QED BY <1>3, <1>4, <1>5, <1>6, QuietUnlocked

-----------------------------------------------------------------------------
(* Steps of the call that holds the lock.                                  *)

\* When the holder returns nobody is in a commit.
LEMMA HolderLeaves ==
    ASSUME IInv, NEW c \in Calls, call[c].pc \in Locked, Finish(c)
    PROVE  /\ CallsOK' /\ \A d \in Calls : call'[d].pc \notin Committing
           /\ \A d \in Calls : call'[d].write.base <= issued
<1>1. CallsOK' /\ call' = [call EXCEPT ![c] = Idle]
  BY FinishOK DEF IInv
<1>2. \A d \in Calls \ {c} : call'[d].pc \notin Locked
  BY <1>1 DEF IInv, TypeOK
<1>3. call'[c].pc \notin Committing
  BY <1>1 DEF IInv, TypeOK, Idle, Committing
<1>4. Committing \subseteq Locked
  BY DEF Committing, Locked, Steps
<1> QED BY <1>1, <1>2, <1>3, <1>4, FinishBases DEF IInv

LEMMA CheckHeadKeeps == ASSUME IInv, NEW c \in Calls, CheckHead(c) PROVE IInv'
<1>1. Quiet /\ RestOK
  BY DEF CheckHead, Quiet, RestOK, lake, Remember, IInv, TypeOK
<1>2. CASE Finish(c)
  BY <1>1, <1>2, QuietFinish
<1>3. CASE Believed /\ HeadIsExpected(c) /\ Goto(c, "pipelines") /\ UNCHANGED lock
  <2>1. "pipelines" \in Locked /\ call[c].pc \in Locked
    BY DEF CheckHead, At, Locked, Steps
  <2>2. /\ CallsOK'
        /\ \A d \in Calls \ {c} : call'[d] = call[d] /\ call'[d].pc \notin Locked
        /\ call'[c].pc = "pipelines" /\ call'[c].write = call[c].write
    BY <1>3, <2>1, GotoOK DEF IInv
  <2>3. \A d \in Calls : call'[d].write = call[d].write
    BY <2>2
  <2>4. BasesIssued'
    BY <1>1, <2>3 DEF IInv, BasesIssued, Quiet
  <2>5. TypeOK'
    BY <1>1, <2>2 DEF IInv, Quiet, RestOK, CallsOK, TypeOK
  <2>6. IdsGrow' /\ AckedIsNext'
    BY <1>1 DEF IInv, IdsGrow, AckedIsNext, Quiet
  <2>7. ASSUME ~late' PROVE Prompt'
    <3>1. AtomicRevision'
      BY <1>1, <2>7 DEF IInv, Prompt, Quiet, AtomicRevision
    <3>2. \A d \in Calls \ {c} : call'[d].pc \notin Committing
      BY <2>2 DEF Committing, Locked, Steps
    <3>3. Exists' /\ BranchHead' = call'[c].write.base
      BY <1>1, <1>3, <2>2 DEF HeadIsExpected, Exists, BranchHead, Quiet
    <3>4. HeadHeld'
      BY <3>2, <3>3 DEF HeadHeld
    <3>5. StagedIsOwn'
      BY <2>2, <3>2 DEF StagedIsOwn, Committing
    <3> QED BY <3>1, <3>4, <3>5 DEF Prompt
  <2> QED BY <2>4, <2>5, <2>6, <2>7 DEF IInv
<1> QED BY <1>2, <1>3 DEF CheckHead

LEMMA StageKeeps ==
    ASSUME IInv, NEW c \in Calls, StagePipelines(c) \/ StageOntologies(c)
    PROVE  IInv'
<1> DEFINE part == call[c].pc
           to == IF part = "pipelines" THEN "ontologies" ELSE "commit"
<1>1. /\ part \in {"pipelines", "ontologies"}
      /\ LakeFsStage(part, call[c].write) /\ Goto(c, to)
      /\ UNCHANGED << marker, cache, lock, writes, flying, late, acked >>
  BY DEF StagePipelines, StageOntologies, At
<1>2. call[c].write \in Writes
  BY DEF IInv, TypeOK
<1>3. UNCHANGED << log, issued >> /\ tree' \in Trees
  BY <1>1, <1>2, StageOK DEF IInv
<1>4. to \in Locked /\ part \in Locked
  BY <1>1 DEF Locked, Steps
<1>5. /\ CallsOK'
      /\ \A d \in Calls \ {c} : call'[d] = call[d] /\ call'[d].pc \notin Locked
      /\ call'[c].pc = to /\ call'[c].write = call[c].write
  BY <1>1, <1>4, GotoOK DEF IInv
<1>6. BasesIssued'
  <2>1. \A d \in Calls : call'[d].write = call[d].write
    BY <1>5
  <2> QED BY <1>1, <1>3, <2>1 DEF IInv, BasesIssued
<1>7. TypeOK'
  BY <1>1, <1>3, <1>5 DEF IInv, CallsOK, TypeOK
<1>8. IdsGrow' /\ AckedIsNext'
  BY <1>1, <1>3 DEF IInv, IdsGrow, AckedIsNext
<1>9. ASSUME ~late' PROVE Prompt'
  <2>1. HeadHeld /\ StagedIsOwn /\ AtomicRevision
    BY <1>1, <1>9 DEF IInv, Prompt
  <2>2. AtomicRevision'
    BY <1>3, <2>1 DEF AtomicRevision
  <2>3. \A d \in Calls \ {c} : call'[d].pc \notin Committing
    BY <1>5 DEF Committing, Locked, Steps
  <2>4. Exists' /\ BranchHead' = call'[c].write.base
    BY <1>1, <1>3, <1>5, <2>1 DEF HeadHeld, Committing, Exists, BranchHead
  <2>5. HeadHeld'
    BY <2>3, <2>4 DEF HeadHeld
  <2>6. tree'.p = call[c].write /\ (to = "commit" => tree'.o = call[c].write)
    <3>1. CASE part = "pipelines"
      BY <1>1, <3>1 DEF LakeFsStage
    <3>2. CASE part = "ontologies"
      <4>1. tree' = [p |-> tree.p, o |-> call[c].write]
        BY <1>1, <3>2 DEF LakeFsStage
      <4>2. tree.p = call[c].write
        BY <3>2, <2>1 DEF StagedIsOwn
      <4> QED BY <4>1, <4>2
    <3> QED BY <1>1, <3>1, <3>2
  <2>7. StagedIsOwn'
    BY <1>5, <2>3, <2>6 DEF StagedIsOwn, Committing
  <2> QED BY <2>2, <2>5, <2>7 DEF Prompt
<1> QED BY <1>6, <1>7, <1>8, <1>9 DEF IInv

\* One more revision, of a call that kept its head and its artifacts.
LEMMA GrowsAtomically ==
    ASSUME IInv, ~late, NEW c \in Calls, call[c].pc = "commit", Grows
    PROVE  /\ AtomicRevision'
           /\ Len(log') = Len(log) + 1 /\ Len(log) \in Nat /\ Len(log) >= 1
           /\ \A k \in 1..Len(log) : log'[k] = log[k]
           /\ log'[Len(log) + 1] = [id |-> issued + 1, p |-> call[c].write, o |-> call[c].write]
           /\ log[Len(log)].id = call[c].write.base
<1>1. Prompt
  BY DEF IInv
<1>2. tree.p = call[c].write /\ tree.o = call[c].write
  BY <1>1 DEF Prompt, StagedIsOwn
<1>3. Exists /\ log[Len(log)].id = call[c].write.base
  BY <1>1 DEF Prompt, HeadHeld, Committing, BranchHead
<1>4. Len(log) \in Nat /\ Len(log) >= 1
  BY <1>3, HeadOK DEF IInv
<1> DEFINE new == [id |-> issued + 1, p |-> call[c].write, o |-> call[c].write]
<1>5. log' = Append(log, new)
  BY <1>2 DEF Grows
<1>6. new.p = new.o /\ new.p.base = call[c].write.base
  OBVIOUS
<1> HIDE DEF new
<1>7. /\ Len(log') = Len(log) + 1
      /\ \A k \in 1..Len(log) : log'[k] = log[k]
      /\ log'[Len(log) + 1] = new
  BY <1>5 DEF IInv, TypeOK
<1>8. AtomicRevision'
  <2> SUFFICES ASSUME NEW k \in 2..Len(log')
               PROVE  log'[k].p = log'[k].o /\ log'[k].p.base = log'[k - 1].id
    BY DEF AtomicRevision
  <2>1. CASE k = Len(log) + 1
    <3>1. log'[k] = new /\ log'[k - 1] = log[Len(log)]
      BY <1>4, <1>7, <2>1
    <3> QED BY <1>3, <1>6, <3>1
  <2>2. CASE k \in 2..Len(log)
    <3>1. log'[k] = log[k] /\ log'[k - 1] = log[k - 1]
      BY <1>4, <1>7, <2>2
    <3> QED BY <1>1, <2>2, <3>1 DEF Prompt, AtomicRevision
  <2> QED BY <1>4, <1>7, <2>1, <2>2
<1> QED BY <1>3, <1>4, <1>7, <1>8 DEF new

\* No acknowledged write was based on a revision that is only made now.
LEMMA GrowsAcked ==
    ASSUME IInv, ~late, NEW c \in Calls, call[c].pc = "commit", Grows,
           acked' \subseteq acked \cup {call[c].write}
    PROVE  AckedIsNext'
<1>1. /\ Len(log') = Len(log) + 1 /\ Len(log) \in Nat /\ Len(log) >= 1
      /\ \A k \in 1..Len(log) : log'[k] = log[k]
      /\ log'[Len(log) + 1] = [id |-> issued + 1, p |-> call[c].write, o |-> call[c].write]
      /\ log[Len(log)].id = call[c].write.base
  BY GrowsAtomically
<1>2. /\ \A k \in 1..Len(log) : log[k].id \in 1..MaxRevisions
      /\ \A j, k \in 1..Len(log) : j < k => log[j].id < log[k].id
  BY IdsAreIds DEF IInv, TypeOK, IdsGrow
<1>3. SUFFICES ASSUME NEW w \in acked', NEW k \in 1..Len(log'), log'[k].id = w.base
               PROVE  k < Len(log') /\ log'[k + 1].p = w /\ log'[k + 1].o = w
  BY DEF AckedIsNext
<1>4. w \in Writes /\ w.base <= issued /\ issued \in Nat
  BY StoreAssumption DEF IInv, BasesIssued, TypeOK
<1>5. w.base \in Nat
  BY <1>4, StoreAssumption DEF Writes
<1>6. k \in 1..Len(log)
  <2>1. log'[Len(log) + 1].id = issued + 1
    BY <1>1
  <2>2. k # Len(log) + 1
    BY <1>3, <1>4, <1>5, <2>1
  <2> QED BY <1>1, <2>2
<1>7. log[k].id = w.base
  BY <1>1, <1>3, <1>6
<1>8. CASE w = call[c].write
  <2>1. k = Len(log)
    <3>1. Len(log) \in 1..Len(log) /\ log[k].id = log[Len(log)].id
      BY <1>1, <1>7, <1>8
    <3>2. ~(k < Len(log))
      <4> SUFFICES ASSUME k < Len(log) PROVE FALSE
        OBVIOUS
      <4>1. log[k].id < log[Len(log)].id
        BY <1>2, <1>6, <3>1
      <4>2. log[Len(log)].id \in Nat
        BY <1>2, <3>1, StoreAssumption
      <4> QED BY <3>1, <4>1, <4>2
    <3> QED BY <1>1, <1>6, <3>2
  <2>2. log'[k + 1].p = w /\ log'[k + 1].o = w
    BY <1>1, <1>8, <2>1
  <2> QED BY <1>1, <2>1, <2>2
<1>9. CASE w \in acked
  <2>1. k < Len(log) /\ log[k + 1].p = w /\ log[k + 1].o = w
    BY <1>6, <1>7, <1>9 DEF IInv, AckedIsNext
  <2>2. log'[k + 1] = log[k + 1]
    BY <1>1, <1>6, <2>1
  <2> QED BY <1>1, <2>1, <2>2
<1> QED BY <1>8, <1>9

LEMMA CommitBranchKeeps == ASSUME IInv, NEW c \in Calls, CommitBranch(c) PROVE IInv'
<1>1. /\ call[c].pc = "commit" /\ LakeFsCommit /\ Finish(c)
      /\ acked' = acked \cup {call[c].write}
      /\ UNCHANGED << marker, cache, writes, flying, late >>
  BY DEF CommitBranch, At
<1>2. Grows /\ UNCHANGED tree
  BY <1>1, CommitOK DEF IInv
<1>3. log' \in Seq(Commits) /\ issued' \in 0..MaxRevisions /\ issued <= issued' /\ IdsGrow'
  BY <1>2, BranchGrows DEF IInv, BranchStep
<1>4. call[c].pc \in Locked
  BY <1>1 DEF Locked, Steps
<1>5. /\ CallsOK' /\ \A d \in Calls : call'[d].pc \notin Committing
      /\ \A d \in Calls : call'[d].write.base <= issued
  BY <1>1, <1>4, HolderLeaves
<1>6. call[c].write \in Writes
  BY DEF IInv, TypeOK
<1>7. TypeOK'
  BY <1>1, <1>2, <1>3, <1>5, <1>6 DEF IInv, CallsOK, TypeOK
<1>8. BasesIssued'
  <2>1. \A d \in Calls : call'[d].write.base \in Nat
    BY <1>5, StoreAssumption DEF CallsOK, Writes
  <2>2. \A w \in acked' : w.base <= issued /\ w.base \in Nat
    BY <1>1, <1>6, StoreAssumption DEF IInv, BasesIssued, TypeOK, Writes
  <2>3. issued \in Nat /\ issued' \in Nat
    BY <1>3, StoreAssumption DEF IInv, TypeOK
  <2> QED BY <1>3, <1>5, <2>1, <2>2, <2>3 DEF BasesIssued
<1>9. ASSUME ~late' PROVE Prompt'
  <2>1. AtomicRevision'
    BY <1>1, <1>2, <1>9, GrowsAtomically
  <2> QED BY <1>5, <2>1 DEF Prompt, HeadHeld, StagedIsOwn, Committing
<1>10. AckedIsNext'
  <2>1. CASE late'
    BY <2>1 DEF AckedIsNext
  <2>2. CASE ~late'
    BY <1>1, <1>2, <2>2, GrowsAcked
  <2> QED BY <2>1, <2>2
<1> QED BY <1>3, <1>7, <1>8, <1>9, <1>10 DEF IInv

LEMMA RequestFailsKeeps == ASSUME IInv, NEW c \in Calls, RequestFails(c) PROVE IInv'
<1>1. /\ call[c].pc \in Committing /\ Finish(c)
      /\ UNCHANGED << marker, cache, writes, late, acked >>
  BY DEF RequestFails, Committing
<1>2. Request(c) \in Requests
  BY <1>1 DEF Request, Requests, Committing, IInv, TypeOK
<1>3. CASE UNCHANGED lake /\ flying' \subseteq flying \cup {Request(c)}
  <2>1. Quiet /\ RestOK
    BY <1>1, <1>2, <1>3 DEF Quiet, RestOK, lake, IInv, TypeOK
  <2> QED BY <1>1, <2>1, QuietFinish
<1>4. CASE LakeFsApply(Request(c)) /\ UNCHANGED flying
  <2>1. BranchStep /\ tree' \in Trees
    BY <1>2, <1>4, ApplyOK DEF IInv
  <2>2. log' \in Seq(Commits) /\ issued' \in 0..MaxRevisions /\ issued <= issued' /\ IdsGrow'
    BY <2>1, BranchGrows DEF IInv
  <2>3. call[c].pc \in Locked
    BY <1>1 DEF Locked, Steps, Committing
  <2>4. /\ CallsOK' /\ \A d \in Calls : call'[d].pc \notin Committing
        /\ \A d \in Calls : call'[d].write.base <= issued
    BY <1>1, <2>3, HolderLeaves
  <2>5. TypeOK'
    BY <1>1, <1>4, <2>1, <2>2, <2>4 DEF IInv, CallsOK, TypeOK
  <2>6. BasesIssued'
    <3>1. \A d \in Calls : call'[d].write.base \in Nat
      BY <2>4, StoreAssumption DEF CallsOK, Writes
    <3>2. \A w \in acked' : w.base <= issued /\ w.base \in Nat
      BY <1>1, StoreAssumption DEF IInv, BasesIssued, TypeOK, Writes
    <3>3. issued \in Nat /\ issued' \in Nat
      BY <2>2, StoreAssumption DEF IInv, TypeOK
    <3> QED BY <2>2, <2>4, <3>1, <3>2, <3>3 DEF BasesIssued
  <2>7. ASSUME ~late' PROVE AtomicRevision' /\ AckedIsNext'
    <3>1. CASE call[c].pc = "commit" /\ LakeFsCommit
      <4>1. Grows
        BY <3>1, CommitOK DEF IInv
      <4> QED BY <1>1, <2>7, <3>1, <4>1, GrowsAtomically, GrowsAcked
    <3>2. CASE UNCHANGED << log, acked, late >>
      BY <2>7, <3>2 DEF IInv, Prompt, AtomicRevision, AckedIsNext
    <3> QED BY <1>1, <1>4, <3>1, <3>2 DEF LakeFsApply, Request, LakeFsStage
  <2>8. (~late => Prompt)'
    BY <2>4, <2>7 DEF Prompt, HeadHeld, StagedIsOwn, Committing
  <2>9. AckedIsNext'
    <3>1. CASE late'
      BY <3>1 DEF AckedIsNext
    <3> QED BY <2>7, <3>1
  <2> QED BY <2>2, <2>5, <2>6, <2>8, <2>9 DEF IInv
<1> QED BY <1>1, <1>3, <1>4 DEF RequestFails

\* The repository is created or dropped by the holder of the lock.
LEMMA RepositoryKeeps ==
    ASSUME IInv, NEW c \in Calls, NEW to \in {"mark", "purge"},
           call[c].pc \in Locked, Goto(c, to), Created \/ Dropped, tree' \in Trees,
           UNCHANGED << marker, cache, lock, writes, flying, late, acked >>
    PROVE  IInv'
<1>1. log' \in Seq(Commits) /\ issued' \in 0..MaxRevisions /\ issued <= issued' /\ IdsGrow'
  BY BranchGrows DEF IInv, BranchStep
<1>2. to \in Locked /\ to \notin Committing
  BY DEF Locked, Steps, Committing
<1>3. /\ CallsOK'
      /\ \A d \in Calls \ {c} : call'[d] = call[d] /\ call'[d].pc \notin Locked
      /\ call'[c].pc = to /\ call'[c].write = call[c].write
  BY <1>2, GotoOK DEF IInv
<1>4. \A d \in Calls : call'[d].pc \notin Committing /\ call'[d].write = call[d].write
  BY <1>2, <1>3 DEF Committing, Locked, Steps
<1>5. TypeOK'
  BY <1>1, <1>3 DEF IInv, CallsOK, TypeOK
<1>6. issued \in Nat /\ issued' \in Nat
  BY <1>1, StoreAssumption DEF IInv, TypeOK
<1>7. \A w \in acked : w.base <= issued /\ w.base \in Nat
  BY StoreAssumption DEF IInv, BasesIssued, TypeOK, Writes
<1>8. BasesIssued'
  <2>1. \A d \in Calls : call[d].write.base <= issued /\ call[d].write.base \in Nat
    BY StoreAssumption DEF IInv, BasesIssued, TypeOK, Writes
  <2> QED BY <1>1, <1>4, <1>6, <1>7, <2>1 DEF BasesIssued
<1>9. /\ Len(log') \in {0, 1}
      /\ Len(log') = 1 => log'[1].id = issued + 1
  <2>1. CASE Created
    <3> DEFINE new == [id |-> issued + 1, p |-> Empty, o |-> Empty]
    <3>1. log' = << new >>
      BY <2>1 DEF Created
    <3>2. new.id = issued + 1
      OBVIOUS
    <3> HIDE DEF new
    <3> QED BY <3>1, <3>2
  <2>2. CASE Dropped
    BY <2>2 DEF Dropped
  <2> QED BY <2>1, <2>2
<1>10. AckedIsNext'
  BY <1>6, <1>7, <1>9 DEF AckedIsNext
<1>11. AtomicRevision'
  BY <1>9 DEF AtomicRevision
<1> QED BY <1>1, <1>4, <1>5, <1>8, <1>10, <1>11
        DEF IInv, Prompt, HeadHeld, StagedIsOwn, Committing

LEMMA CreateRepositoryKeeps == ASSUME IInv, NEW c \in Calls, CreateRepository(c) PROVE IInv'
<1>1. call[c].pc \in Locked /\ "mark" \in Locked /\ "mark" \notin Committing
  BY DEF CreateRepository, At, Locked, Steps, Committing
<1>2. CASE Exists
  <2>1. Quiet /\ RestOK
    BY <1>2 DEF CreateRepository, Quiet, RestOK, lake, IInv, TypeOK
  <2> QED BY <1>1, <2>1, QuietGoto DEF CreateRepository
<1>3. CASE ~Exists
  <2>1. Created /\ tree' \in Trees
    BY <1>3, EmptyIsWrite DEF CreateRepository, Created, Trees
  <2> QED BY <1>1, <2>1, RepositoryKeeps DEF CreateRepository
<1> QED BY <1>2, <1>3

LEMMA DeleteRepositoryKeeps == ASSUME IInv, NEW c \in Calls, DeleteRepository(c) PROVE IInv'
<1>1. call[c].pc \in Locked
  BY DEF DeleteRepository, At, Locked, Steps
<1>2. Dropped /\ tree' \in Trees
  BY EmptyIsWrite DEF DeleteRepository, Dropped, Trees
<1> QED BY <1>1, <1>2, RepositoryKeeps DEF DeleteRepository

LEMMA TenantKeeps ==
    ASSUME IInv, NEW c \in Calls,
           Ensure(c) \/ WriteMarker(c) \/ MarkFails(c) \/ Delete(c)
             \/ PurgePrefix(c) \/ PurgeFails(c) \/ CallFails(c)
    PROVE  IInv'
<1> USE DEF IInv, TypeOK
<1>1. Quiet /\ RestOK
  BY DEF Ensure, WriteMarker, MarkFails, Delete, PurgePrefix, PurgeFails, CallFails,
         Quiet, RestOK, lake, Remember
<1>2. CASE Finish(c)
  BY <1>1, <1>2, QuietFinish
<1>3. ASSUME NEW to \in {"create", "drop"}, call[c].pc \in {"ensure", "delete"},
             Goto(c, to), UNCHANGED lock
      PROVE  IInv'
  <2>1. to \in Locked /\ to \notin Committing /\ call[c].pc \in Locked
    BY <1>3 DEF Locked, Steps, Committing
  <2> QED BY <1>1, <1>3, <2>1, QuietGoto
<1> QED BY <1>2, <1>3 DEF Ensure, WriteMarker, MarkFails, Delete, PurgePrefix,
                         PurgeFails, CallFails, At

\* A request that comes late may do anything it likes to the branch.
LEMMA ArriveLateKeeps == ASSUME IInv, ArriveLate PROVE IInv'
<1> PICK r \in flying : LakeFsApply(r) /\ flying' = flying \ {r}
  BY DEF ArriveLate
<1>1. late' = TRUE /\ UNCHANGED << marker, cache, lock, call, writes, acked >>
  BY DEF ArriveLate
<1>2. r \in Requests
  BY DEF IInv, TypeOK
<1>3. BranchStep /\ tree' \in Trees
  BY <1>2, ApplyOK DEF IInv
<1>4. log' \in Seq(Commits) /\ issued' \in 0..MaxRevisions /\ issued <= issued' /\ IdsGrow'
  BY <1>3, BranchGrows DEF IInv
<1>5. TypeOK'
  BY <1>1, <1>3, <1>4 DEF IInv, TypeOK
<1>6. BasesIssued'
  <2>1. /\ \A d \in Calls : call[d].write.base <= issued /\ call[d].write.base \in Nat
        /\ \A w \in acked : w.base <= issued /\ w.base \in Nat
    BY StoreAssumption DEF IInv, BasesIssued, TypeOK, Writes
  <2>2. issued \in Nat /\ issued' \in Nat
    BY <1>4, StoreAssumption DEF IInv, TypeOK
  <2> QED BY <1>1, <1>4, <2>1, <2>2 DEF BasesIssued
<1> QED BY <1>1, <1>4, <1>5, <1>6 DEF IInv, AckedIsNext

LEMMA CacheExpiresKeeps == ASSUME IInv, CacheExpires PROVE IInv'
<1>1. Quiet /\ RestOK /\ UNCHANGED << lock, call >>
  BY DEF CacheExpires, Quiet, RestOK, lake, IInv, TypeOK
<1>2. CallsOK' /\ NoneEnters /\ BasesIssued'
  BY <1>1 DEF CallsOK, NoneEnters, BasesIssued, Quiet, IInv, TypeOK
<1>3. TypeOK'
  BY <1>1 DEF IInv, Quiet, RestOK, TypeOK
<1> QED BY <1>1, <1>2, <1>3, QuietKeeps DEF IInv

LEMMA CrashKeeps == ASSUME IInv, Crash PROVE IInv'
<1>1. Quiet /\ RestOK
  BY DEF Crash, Quiet, RestOK, lake, IInv, TypeOK
<1>2. CallsOK' /\ call' = [c \in Calls |-> Idle]
  BY CrashOK DEF IInv
<1>3. Idle.pc \notin Committing /\ Idle.write.base = 0
  BY DEF Idle, Empty, Committing
<1>4. NoneEnters
  BY <1>2, <1>3 DEF NoneEnters
<1>5. BasesIssued'
  BY <1>1, <1>2, <1>3, StoreAssumption DEF BasesIssued, Quiet, IInv, TypeOK
<1>6. TypeOK'
  BY <1>1, <1>2 DEF IInv, Quiet, RestOK, CallsOK, TypeOK
<1> QED BY <1>1, <1>2, <1>4, <1>5, <1>6, QuietKeeps DEF IInv

-----------------------------------------------------------------------------
(* The theorems.                                                           *)

LEMMA Start == Init => IInv
<1> SUFFICES ASSUME Init PROVE IInv
  OBVIOUS
<1> USE StoreAssumption DEF Init
<1>1. Idle.pc \notin Locked /\ Idle.pc \notin Committing /\ Idle.write.base = 0
  BY DEF Idle, Empty, Locked, Committing
<1>2. TypeOK
  <2>1. call \in [Calls -> [pc : Steps, write : Writes, saw : BOOLEAN]]
    BY IdleIsCall
  <2>2. tree \in Trees
    BY EmptyIsWrite DEF Trees
  <2>3. \A c \in Calls : call[c].pc \in Locked <=> lock = c
    BY <1>1
  <2>4. log \in Seq(Commits) /\ issued \in 0..MaxRevisions /\ writes \in 0..MaxWrites
    OBVIOUS
  <2>5. /\ marker \in BOOLEAN /\ late \in BOOLEAN /\ lock \in Calls \cup {None}
        /\ flying \in SUBSET Requests /\ acked \in SUBSET Writes
        /\ cache \in {"unknown", "present", "absent"}
    OBVIOUS
  <2> QED BY <2>1, <2>2, <2>3, <2>4, <2>5 DEF TypeOK
<1>3. IdsGrow /\ BasesIssued
  BY <1>1 DEF IdsGrow, BasesIssued
<1>4. Prompt
  BY <1>1 DEF Prompt, HeadHeld, StagedIsOwn, AtomicRevision, Committing
<1>5. AckedIsNext
  BY DEF AckedIsNext
<1> QED BY <1>2, <1>3, <1>4, <1>5 DEF IInv

LEMMA Inductive == IInv /\ [Next]_vars => IInv'
<1> SUFFICES ASSUME IInv, [Next]_vars PROVE IInv'
  OBVIOUS
<1>1. ASSUME NEW c \in Calls, Load(c) PROVE IInv'
  BY <1>1, LoadKeeps
<1>2. ASSUME NEW c \in Calls, LockForCommit(c) \/ LockForEnsure(c) \/ LockForDelete(c)
      PROVE  IInv'
  <2>1. PICK to \in {"check", "ensure", "delete"} : Acquire(c, to)
    BY <1>2 DEF LockForCommit, LockForEnsure, LockForDelete
  <2>2. to \in Locked /\ to \notin Committing
    BY DEF Locked, Steps, Committing
  <2> QED BY <2>1, <2>2, QuietAcquire
<1>3. ASSUME NEW c \in Calls, Work(c) PROVE IInv'
  BY <1>3, FillCacheKeeps, ReadHeadKeeps, CheckHeadKeeps, StageKeeps, CommitBranchKeeps,
     RequestFailsKeeps, CreateRepositoryKeeps, DeleteRepositoryKeeps, TenantKeeps DEF Work
<1>4. CASE ArriveLate
  BY <1>4, ArriveLateKeeps
<1>5. CASE CacheExpires
  BY <1>5, CacheExpiresKeeps
<1>6. CASE Crash
  BY <1>6, CrashKeeps
<1>7. CASE UNCHANGED vars
  BY <1>7 DEF vars, IInv, TypeOK, IdsGrow, BasesIssued, Prompt, HeadHeld, StagedIsOwn,
              AtomicRevision, AckedIsNext, Exists, BranchHead
<1> QED BY <1>1, <1>2, <1>3, <1>4, <1>5, <1>6, <1>7 DEF Next

LEMMA Invariance == Spec => []IInv
<1>1. Init => IInv
  BY Start
<1>2. IInv /\ [Next]_vars => IInv'
  BY Inductive
<1> QED BY <1>1, <1>2, PTL DEF Spec

\* The state of the store keeps its type, and a call is at one of the steps
\* inside tenant_lock exactly when it is the one that holds the lock.
THEOREM TypeCorrect == Spec => []TypeOK
<1>1. IInv => TypeOK
  BY DEF IInv
<1> QED BY <1>1, Invariance, PTL

\* Whatever fails between the three requests of commit, crashes and stale
\* caches included, a revision is one caller's whole state made from the
\* revision before it, as long as no request comes after its caller left.
THEOREM OnlyLateRequestsTear == Spec => []TornOnlyIfLate
<1>1. IInv => TornOnlyIfLate
  BY DEF IInv, Prompt, TornOnlyIfLate
<1> QED BY <1>1, Invariance, PTL

\* A commit that the caller was told of is never overwritten unseen: it is
\* the revision after the one it was made from.
THEOREM NoUpdateIsLost == Spec => []AckedIsNext
<1>1. IInv => AckedIsNext
  BY DEF IInv
<1> QED BY <1>1, Invariance, PTL

-----------------------------------------------------------------------------
(* The store implements RevisionLog.                                       *)

\* What a step is to the history: a commit by a call that holds the branch,
\* a creation, a deletion, a late request, or nothing.
LEMMA HistoryStep ==
    ASSUME IInv, [Next]_vars
    PROVE  \/ late'
           \/ UNCHANGED << log, late >>
           \/ UNCHANGED late /\ (Dropped \/ Created)
           \/ UNCHANGED late /\ Grows /\ \E c \in Calls : call[c].pc = "commit"
<1> DEFINE Goal == \/ late'
                   \/ UNCHANGED << log, late >>
                   \/ UNCHANGED late /\ (Dropped \/ Created)
                   \/ UNCHANGED late /\ Grows /\ \E c \in Calls : call[c].pc = "commit"
<1>1. ASSUME NEW c \in Calls,
             Load(c) \/ LockForCommit(c) \/ LockForEnsure(c) \/ LockForDelete(c)
      PROVE  Goal
  BY <1>1 DEF Load, LockForCommit, LockForEnsure, LockForDelete, Acquire, lake
<1>2. ASSUME NEW c \in Calls, Work(c) PROVE Goal
  <2>1. CASE CommitBranch(c)
    BY <2>1, CommitOK DEF CommitBranch, At, IInv
  <2>2. CASE RequestFails(c)
    <3>1. UNCHANGED late
      BY <2>2 DEF RequestFails
    <3>2. CASE UNCHANGED lake
      BY <3>1, <3>2 DEF lake
    <3>3. CASE LakeFsApply(Request(c))
      <4>1. CASE call[c].pc = "commit" /\ LakeFsCommit
        BY <3>1, <4>1, CommitOK DEF IInv
      <4>2. CASE LakeFsStage(call[c].pc, call[c].write)
        BY <3>1, <4>2 DEF LakeFsStage
      <4> QED BY <3>3, <4>1, <4>2 DEF LakeFsApply, Request
    <3> QED BY <2>2, <3>2, <3>3 DEF RequestFails
  <2>3. CASE CreateRepository(c)
    BY <2>3 DEF CreateRepository, Created, lake
  <2>4. CASE DeleteRepository(c)
    BY <2>4 DEF DeleteRepository, Dropped
  <2>5. CASE \/ FillCache(c) \/ ReadHead(c) \/ CheckHead(c) \/ StagePipelines(c)
             \/ StageOntologies(c)
    BY <2>5 DEF FillCache, ReadHead, CheckHead, StagePipelines, StageOntologies,
                LakeFsStage, lake
  <2>6. CASE \/ Ensure(c) \/ WriteMarker(c) \/ MarkFails(c) \/ Delete(c)
             \/ PurgePrefix(c) \/ PurgeFails(c) \/ CallFails(c)
    BY <2>6 DEF Ensure, WriteMarker, MarkFails, Delete, PurgePrefix, PurgeFails,
                CallFails, lake
  <2> QED BY <1>2, <2>1, <2>2, <2>3, <2>4, <2>5, <2>6 DEF Work
<1>3. CASE ArriveLate \/ CacheExpires \/ Crash \/ UNCHANGED vars
  BY <1>3 DEF ArriveLate, CacheExpires, Crash, vars, lake
<1> QED BY <1>1, <1>2, <1>3 DEF Next

\* The view of a revision.
View(commit) == [id |-> commit.id, state |-> << commit.p, commit.o >>]

LEMMA RevisionsAre ==
    ASSUME TypeOK, ~late
    PROVE  /\ Revisions = [k \in 1..Len(log) |-> View(log[k])]
           /\ Len(Revisions) = Len(log)
           /\ Revisions \in Seq({View(commit) : commit \in Commits})
<1>1. Revisions = [k \in 1..Len(log) |-> View(log[k])]
  BY DEF Revisions, View
<1>2. Len(log) \in Nat /\ \A k \in 1..Len(log) : log[k] \in Commits
  BY DEF TypeOK
<1> QED BY <1>1, <1>2

LEMMA GrowthIsAppend ==
    ASSUME IInv, ~late, UNCHANGED late, Grows, NEW c \in Calls, call[c].pc = "commit"
    PROVE  History!Append1
<1> DEFINE w == call[c].write
           new == [id |-> issued + 1, state |-> << w, w >>]
<1>1. /\ Len(log') = Len(log) + 1 /\ Len(log) \in Nat /\ Len(log) >= 1
      /\ \A k \in 1..Len(log) : log'[k] = log[k]
      /\ log'[Len(log) + 1] = [id |-> issued + 1, p |-> w, o |-> w]
      /\ log[Len(log)].id = w.base
  BY GrowsAtomically
<1>2. /\ Revisions = [k \in 1..Len(log) |-> View(log[k])]
      /\ Len(Revisions) = Len(log)
      /\ Revisions \in Seq({View(commit) : commit \in Commits})
  BY RevisionsAre DEF IInv
<1>3. w \in Writes /\ issued + 1 \in 1..MaxRevisions
  BY StoreAssumption DEF IInv, TypeOK, Grows
<1>4. Revisions' = Append(Revisions, new)
  <2>1. Revisions' = [k \in 1..(Len(log) + 1) |-> View(log'[k])]
    BY <1>1 DEF Revisions, View
  <2>2. View(log'[Len(log) + 1]) = new
    BY <1>1 DEF View
  <2>3. \A k \in 1..Len(log) : View(log'[k]) = Revisions[k]
    BY <1>1, <1>2
  <2> HIDE DEF new
  <2>4. Append(Revisions, new) =
            [k \in 1..(Len(log) + 1) |-> IF k = Len(log) + 1 THEN new ELSE Revisions[k]]
    BY <1>1, <1>2
  <2> QED BY <1>1, <2>1, <2>2, <2>3, <2>4
<1>5. Revisions # << >> /\ Revisions[Len(Revisions)].id = w.base
  BY <1>1, <1>2 DEF View
<1>6. BaseOf(<< w, w >>) = w.base
  BY DEF BaseOf
<1> QED BY <1>3, <1>4, <1>5, <1>6 DEF History!Append1, History!Latest

LEMMA CreationIsCreate ==
    ASSUME IInv, ~late, UNCHANGED late, Created
    PROVE  History!Create
<1> DEFINE new == [id |-> issued + 1, p |-> Empty, o |-> Empty]
<1>1. log = << >> /\ log' = << new >> /\ issued + 1 \in 1..MaxRevisions
  BY StoreAssumption DEF IInv, TypeOK, Created, Exists
<1>2. Revisions = << >>
  BY <1>1 DEF Revisions
<1>3. View(new) = [id |-> issued + 1, state |-> << Empty, Empty >>]
  BY DEF View
<1> HIDE DEF new
<1>4. Len(log') = 1 /\ log'[1] = new
  BY <1>1
<1>5. Revisions' = [k \in 1..1 |-> View(log'[k])]
  BY <1>4 DEF Revisions, View
<1>6. Revisions' = << View(new) >>
  BY <1>4, <1>5
<1> QED BY <1>1, <1>2, <1>3, <1>6 DEF History!Create

\* The store is a linear history of whole states: each revision is made from
\* the one before it, whatever fails between the requests of a commit, until
\* a request reaches lakeFS after its caller gave up.
THEOREM StoreImplementsRevisionLog == Spec => ImplementsRevisionLog
<1>1. Init => History!Init
  BY DEF Init, History!Init, Revisions
<1>2. ASSUME IInv, [Next]_vars
      PROVE  [History!Create \/ History!Append1 \/ History!Purge]_Revisions
  <2>1. CASE late'
    BY <2>1 DEF History!Purge, Revisions
  <2>2. CASE UNCHANGED << log, late >>
    BY <2>2 DEF Revisions
  <2>3. CASE UNCHANGED late /\ Dropped
    BY <2>3 DEF Dropped, History!Purge, Revisions
  <2>4. CASE ~late /\ UNCHANGED late /\ Created
    BY <1>2, <2>4, CreationIsCreate
  <2>5. CASE ~late /\ UNCHANGED late /\ Grows /\ \E c \in Calls : call[c].pc = "commit"
    BY <1>2, <2>5, GrowthIsAppend
  <2> QED BY <1>2, <2>1, <2>2, <2>3, <2>4, <2>5, HistoryStep
<1> QED BY <1>1, <1>2, Invariance, PTL DEF Spec, ImplementsRevisionLog, History!Spec
=============================================================================
