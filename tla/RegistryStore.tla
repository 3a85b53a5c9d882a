--------------------------- MODULE RegistryStore ---------------------------
(***************************************************************************)
(* Registry's LakeFsStore for one tenant: the compare-and-swap of a whole  *)
(* tenant state, built from three separate lakeFS requests (stage the      *)
(* pipelines, stage the ontologies, commit the branch), and the creation   *)
(* and deletion of the tenant, built from requests to lakeFS and to S3.    *)
(* Calls of one tenant are serialised by a lock of the process; a lakeFS   *)
(* commit has no precondition on the head of its branch.                   *)
(*                                                                         *)
(* lakeFS and S3 are external.  A request may fail before or after it took *)
(* effect.  Delayed is the number of requests that may in addition take    *)
(* effect after their caller gave up: the client's timeout is 30 seconds,  *)
(* and a caller that goes away drops its future and the lock with it.      *)
(***************************************************************************)
EXTENDS Naturals, Sequences, FiniteSets

CONSTANTS
    Calls,          \* handlers that may be inside the store at a time
    None,           \* nobody
    MaxRevisions,   \* bound: commit ids lakeFS hands out
    MaxWrites,      \* bound: states that callers compute
    Delayed         \* requests that may take effect after their caller left

ASSUME StoreAssumption ==
    /\ None \notin Calls
    /\ MaxRevisions \in Nat
    /\ MaxWrites \in Nat
    /\ Delayed \in Nat

VARIABLES
    log,        \* lakeFS: the commits of the branch, << >> without repository
    tree,       \* lakeFS: the branch with what is staged, uncommitted, on it
    issued,     \* lakeFS: the number of commit ids handed out
    marker,     \* S3: the tenant's marker object exists
    cache,      \* tenant_cache: what the process believes of the marker
    lock,       \* the call that holds the tenant's lock
    call,       \* where each handler is, with what it read
    writes,     \* the number of states computed so far
    flying,     \* requests whose caller has gone
    late,       \* such a request has reached lakeFS (history)
    acked       \* states whose commit was acknowledged to the caller

vars == << log, tree, issued, marker, cache, lock, call, writes, flying, late, acked >>

lake == << log, tree, issued >>

\* What a caller writes: the number of the write, and the revision that the
\* state was computed from.  Number 0 is the empty state of a new tenant.
Writes == [n : 0..MaxWrites, base : 0..MaxRevisions]

Empty == [n |-> 0, base |-> 0]

\* The two artifacts, pipeline/state.json and ontology/state.json.
Trees == [p : Writes, o : Writes]

Commits == [id : 1..MaxRevisions, p : Writes, o : Writes]

Idle == [pc |-> "idle", write |-> Empty, saw |-> FALSE]

Steps == {"idle", "fill", "head", "loaded", "check", "pipelines", "ontologies",
          "commit", "ensure", "create", "mark", "delete", "drop", "purge"}

\* The steps at which a call holds the tenant's lock.
Locked == Steps \ {"idle", "fill", "head", "loaded"}

Requests == [what : {"pipelines", "ontologies", "commit"}, write : Writes]

TypeOK ==
    /\ log \in Seq(Commits)
    /\ tree \in Trees
    /\ issued \in 0..MaxRevisions
    /\ marker \in BOOLEAN
    /\ cache \in {"unknown", "present", "absent"}
    /\ lock \in Calls \cup {None}
    /\ call \in [Calls -> [pc : Steps, write : Writes, saw : BOOLEAN]]
    /\ writes \in 0..MaxWrites
    /\ flying \in SUBSET Requests
    /\ late \in BOOLEAN
    /\ acked \in SUBSET Writes
    /\ \A c \in Calls : call[c].pc \in Locked <=> lock = c

Init ==
    /\ log = << >>
    /\ tree = [p |-> Empty, o |-> Empty]
    /\ issued = 0
    /\ marker = FALSE
    /\ cache = "unknown"
    /\ lock = None
    /\ call = [c \in Calls |-> Idle]
    /\ writes = 0
    /\ flying = {}
    /\ late = FALSE
    /\ acked = {}

-----------------------------------------------------------------------------
(* lakeFS.                                                                 *)

Exists == log # << >>

\* branch_head.
BranchHead == log[Len(log)].id

\* A commit takes the branch as it is staged; with nothing staged it fails.
Changed == Exists /\ << tree.p, tree.o >> # << log[Len(log)].p, log[Len(log)].o >>

LakeFsCommit ==
    /\ Changed
    /\ issued < MaxRevisions
    /\ issued' = issued + 1
    /\ log' = Append(log, [id |-> issued + 1, p |-> tree.p, o |-> tree.o])
    /\ UNCHANGED tree

LakeFsStage(part, write) ==
    /\ Exists
    /\ tree' = IF part = "pipelines" THEN [p |-> write, o |-> tree.o]
                                     ELSE [p |-> tree.p, o |-> write]
    /\ UNCHANGED << log, issued >>

LakeFsApply(request) ==
    \/ request.what = "commit" /\ LakeFsCommit
    \/ request.what # "commit" /\ LakeFsStage(request.what, request.write)

-----------------------------------------------------------------------------
(* Calls.                                                                  *)

At(c, pc) == call[c].pc = pc

Goto(c, pc) == call' = [call EXCEPT ![c].pc = pc]

\* The handler returns: its guard is dropped.
Finish(c) ==
    /\ call' = [call EXCEPT ![c] = Idle]
    /\ lock' = IF lock = c THEN None ELSE lock

\* marker: the cache answers if it can, otherwise S3 does.
Believed == IF cache = "unknown" THEN marker ELSE cache = "present"

Remember(exists) == cache' = IF exists THEN "present" ELSE "absent"

\* load, first await: the marker.  A miss is filled in a later step, so what
\* is filled in may be older than the cache.
Load(c) ==
    /\ At(c, "idle")
    /\ call' = [call EXCEPT ![c].pc = IF cache = "unknown" THEN "fill"
                                      ELSE IF cache = "present" THEN "head" ELSE "idle",
                            ![c].saw = marker]
    /\ UNCHANGED << lake, marker, cache, lock, writes, flying, late, acked >>

FillCache(c) ==
    /\ At(c, "fill")
    /\ Remember(call[c].saw)
    /\ call' = [call EXCEPT ![c] = [Idle EXCEPT !.pc = IF call[c].saw THEN "head" ELSE "idle"]]
    /\ UNCHANGED << lake, marker, lock, writes, flying, late, acked >>

\* load, then the command that computes a new state from what was loaded.
\* Artifacts are read at a commit, which does not change.
ReadHead(c) ==
    /\ At(c, "head")
    /\ Exists
    /\ writes < MaxWrites
    /\ writes' = writes + 1
    /\ call' = [call EXCEPT ![c] = [pc |-> "loaded", saw |-> FALSE,
                                    write |-> [n |-> writes + 1, base |-> BranchHead]]]
    /\ UNCHANGED << lake, marker, cache, lock, flying, late, acked >>

Acquire_Shared(c, pc) ==
    /\ lock' = c
    /\ Goto(c, pc)
    /\ UNCHANGED << lake, marker, cache, writes, flying, late, acked >>

\* tenant_lock.
Acquire(c, pc) ==
    /\ lock = None
    /\ lock' = c
    /\ Goto(c, pc)
    /\ UNCHANGED << lake, marker, cache, writes, flying, late, acked >>

LockForCommit(c) == At(c, "loaded") /\ Acquire(c, "check")
LockForEnsure(c) == At(c, "idle") /\ Acquire(c, "ensure")
LockForDelete(c) == At(c, "idle") /\ Acquire(c, "delete")

HeadIsAnything(c) == Exists
HeadIsExpected(c) == Exists /\ BranchHead = call[c].write.base

\* commit: require_tenant, branch_head and the comparison.
CheckHead(c) ==
    /\ At(c, "check")
    /\ Remember(Believed)
    /\ IF Believed /\ HeadIsExpected(c) THEN Goto(c, "pipelines") /\ UNCHANGED lock
                                         ELSE Finish(c)
    /\ UNCHANGED << lake, marker, writes, flying, late, acked >>

StagePipelines(c) ==
    /\ At(c, "pipelines")
    /\ LakeFsStage("pipelines", call[c].write)
    /\ Goto(c, "ontologies")
    /\ UNCHANGED << marker, cache, lock, writes, flying, late, acked >>

StageOntologies(c) ==
    /\ At(c, "ontologies")
    /\ LakeFsStage("ontologies", call[c].write)
    /\ Goto(c, "commit")
    /\ UNCHANGED << marker, cache, lock, writes, flying, late, acked >>

CommitBranch_Unanswered(c) ==
    /\ At(c, "commit")
    /\ LakeFsCommit \/ UNCHANGED lake
    /\ acked' = acked \cup {call[c].write}
    /\ Finish(c)
    /\ UNCHANGED << marker, cache, writes, flying, late >>

CommitBranch(c) ==
    /\ At(c, "commit")
    /\ LakeFsCommit
    /\ acked' = acked \cup {call[c].write}
    /\ Finish(c)
    /\ UNCHANGED << marker, cache, writes, flying, late >>

\* The request of a call at "pipelines", "ontologies" or "commit".
Request(c) == [what |-> call[c].pc, write |-> call[c].write]

\* A request fails: it is refused, or its answer is lost after it took
\* effect, or the caller goes away and the request is still on its way.
RequestFails(c) ==
    /\ call[c].pc \in {"pipelines", "ontologies", "commit"}
    /\ \/ UNCHANGED << lake, flying >>
       \/ LakeFsApply(Request(c)) /\ UNCHANGED flying
       \/ /\ Cardinality(flying) < Delayed
          /\ flying' = flying \cup {Request(c)}
          /\ UNCHANGED lake
    /\ Finish(c)
    /\ UNCHANGED << marker, cache, writes, late, acked >>

\* A request whose caller has gone reaches lakeFS.
ArriveLate ==
    /\ \E r \in flying :
          /\ LakeFsApply(r)
          /\ flying' = flying \ {r}
    /\ late' = TRUE
    /\ UNCHANGED << marker, cache, lock, call, writes, acked >>

-----------------------------------------------------------------------------
(* Tenants.                                                                *)

\* ensure_tenant: with a marker the head is read, which fails when the
\* repository is gone; without one the tenant is provisioned.
Ensure(c) ==
    /\ At(c, "ensure")
    /\ Remember(Believed)
    /\ IF Believed THEN Finish(c) ELSE Goto(c, "create") /\ UNCHANGED lock
    /\ UNCHANGED << lake, marker, writes, flying, late, acked >>

\* ensure_repository: an existing repository is kept, a conflict is success.
CreateRepository(c) ==
    /\ At(c, "create")
    /\ issued < MaxRevisions
    /\ IF Exists THEN UNCHANGED lake
       ELSE /\ issued' = issued + 1
            /\ log' = << [id |-> issued + 1, p |-> Empty, o |-> Empty] >>
            /\ tree' = [p |-> Empty, o |-> Empty]
    /\ Goto(c, "mark")
    /\ UNCHANGED << marker, cache, lock, writes, flying, late, acked >>

WriteMarker(c) ==
    /\ At(c, "mark")
    /\ marker' = TRUE
    /\ Remember(TRUE)
    /\ Finish(c)
    /\ UNCHANGED << lake, writes, flying, late, acked >>

\* delete_tenant: refused without a marker.
Delete(c) ==
    /\ At(c, "delete")
    /\ Remember(Believed)
    /\ IF Believed THEN Goto(c, "drop") /\ UNCHANGED lock ELSE Finish(c)
    /\ UNCHANGED << lake, marker, writes, flying, late, acked >>

DeleteRepository(c) ==
    /\ At(c, "drop")
    /\ log' = << >>
    /\ tree' = [p |-> Empty, o |-> Empty]
    /\ Goto(c, "purge")
    /\ UNCHANGED << issued, marker, cache, lock, writes, flying, late, acked >>

\* purge_prefix: S3 lists by key, so the marker (_registry/) goes after the
\* data (_lakefs/); the cache is invalidated once all is gone.
PurgePrefix(c) ==
    /\ At(c, "purge")
    /\ marker' = FALSE
    /\ cache' = "unknown"
    /\ Finish(c)
    /\ UNCHANGED << lake, writes, flying, late, acked >>

\* Any other call fails, or its handler is dropped, between two requests or
\* during one that did not take effect.
CallFails(c) ==
    /\ ~At(c, "idle")
    /\ Finish(c)
    /\ UNCHANGED << lake, marker, cache, writes, flying, late, acked >>

\* The purge fails after the marker went and before the cache was told.
PurgeFails(c) ==
    /\ At(c, "purge")
    /\ marker' = FALSE
    /\ Finish(c)
    /\ UNCHANGED << lake, cache, writes, flying, late, acked >>

\* The marker is written although the answer was lost.
MarkFails(c) ==
    /\ At(c, "mark")
    /\ marker' = TRUE
    /\ Finish(c)
    /\ UNCHANGED << lake, cache, writes, flying, late, acked >>

\* time_to_live of the cache, 10 seconds.
CacheExpires ==
    /\ cache # "unknown"
    /\ cache' = "unknown"
    /\ UNCHANGED << lake, marker, lock, call, writes, flying, late, acked >>

\* Registry restarts: locks, cache and handlers are gone.
Crash ==
    /\ call' = [c \in Calls |-> Idle]
    /\ lock' = None
    /\ cache' = "unknown"
    /\ UNCHANGED << lake, marker, writes, flying, late, acked >>

Work(c) ==
    \/ FillCache(c) \/ ReadHead(c) \/ CheckHead(c)
    \/ StagePipelines(c) \/ StageOntologies(c) \/ CommitBranch(c) \/ RequestFails(c)
    \/ Ensure(c) \/ CreateRepository(c) \/ WriteMarker(c) \/ MarkFails(c)
    \/ Delete(c) \/ DeleteRepository(c) \/ PurgePrefix(c) \/ PurgeFails(c)
    \/ CallFails(c)

Next ==
    \/ \E c \in Calls :
          Load(c) \/ LockForCommit(c) \/ LockForEnsure(c) \/ LockForDelete(c) \/ Work(c)
    \/ ArriveLate
    \/ CacheExpires
    \/ Crash

Spec == Init /\ [][Next]_vars

-----------------------------------------------------------------------------
(* Properties.                                                             *)

\* Every revision is one caller's whole state, computed from the revision
\* before it: pipelines and ontologies are of the same write (commit stages
\* them in two requests), and no revision was made from an older one.
AtomicRevision ==
    \A k \in 2..Len(log) :
        /\ log[k].p = log[k].o
        /\ log[k].p.base = log[k - 1].id

\* The only way to a torn revision is a request that reached lakeFS after
\* its caller had given up and released the tenant's lock: whatever else
\* fails between two requests of commit, the next commit stages over it.
TornOnlyIfLate == late \/ AtomicRevision

\* No update is lost: a write whose commit was acknowledged is the revision
\* that follows the one it was made from, unless the tenant is deleted or a
\* request came late.
AckedIsNext ==
    \A w \in acked, k \in 1..Len(log) :
        ~late /\ log[k].id = w.base =>
            k < Len(log) /\ log[k + 1].p = w /\ log[k + 1].o = w

\* The revisions as the commands above see them; a request that comes late
\* ends what the store promises.
Revisions == IF late THEN << >>
             ELSE [k \in 1..Len(log) |->
                      [id |-> log[k].id, state |-> << log[k].p, log[k].o >>]]

BaseOf(state) == state[1].base

History ==
    INSTANCE RevisionLog
        WITH history <- Revisions,
             Ids <- 1..MaxRevisions,
             States <- {<< w, w >> : w \in Writes},
             Initial <- << Empty, Empty >>,
             MadeFrom <- BaseOf

\* The store implements a linear history of whole states, until a request
\* comes late: creation, staging, commits and deletion with everything that
\* fails between them look to the commands above like one compare-and-swap.
ImplementsRevisionLog == History!Spec
=============================================================================
