------------------------- MODULE CompilationQueue -------------------------
(***************************************************************************)
(* The durable job queue of the document compiler                          *)
(* (services/document-compiler/src/adapters/queue.rs): one libSQL table    *)
(* whose every operation is one transaction (BEGIN IMMEDIATE, or a single  *)
(* UPDATE or DELETE), so every operation is one action.                    *)
(*                                                                         *)
(* The table is a function from job ids to rows; a job with no row maps to *)
(* NoRow.  A job id is the SHA-256 of (tenant, actor, generation, key), so *)
(* tenant, actor and generation are functions of the id and only the       *)
(* fingerprint can differ between two submissions of one id.  Ids are      *)
(* naturals because claim orders them.                                     *)
(*                                                                         *)
(* Callers keep copies of rows: `claims` holds the copies claim returned   *)
(* to workers, `purges` the ones expired returned to cleaners.  A caller   *)
(* uses its copy at any later time, or never (crash, abort, lost reply).   *)
(***************************************************************************)
EXTENDS Integers, FiniteSets

CONSTANTS
    Jobs,            \* job ids
    TenantOf,        \* the tenant an id was derived from
    Fingerprints,    \* digests of submissions
    NoPrint,         \* the fingerprint of no submission
    MaxAttempts,     \* 3 in the code
    MaxActive,       \* 256 in the code
    MaxTenantActive, \* 32 in the code
    PurgeLimit,      \* 32 in the code
    LeaseMs,         \* 90 s in the code
    RetentionMs,     \* 7 days in the code
    LatencyMs,       \* longest delay between reading the clock and the commit
    CapabilityMs,    \* lifetime of the capability a submission needs (15 min)
    SubmitMs,        \* longest time from authorising a submission to enqueue
    MaxClock         \* bound on the clock, for TLC

ASSUME IdsAssumption == Jobs \subseteq Nat /\ IsFiniteSet(Jobs)
ASSUME PrintsAssumption == NoPrint \notin Fingerprints
ASSUME LimitsAssumption ==
    /\ MaxAttempts \in Nat \ {0}
    /\ MaxActive \in Nat
    /\ MaxTenantActive \in Nat
    /\ PurgeLimit \in Nat
    /\ MaxClock \in Nat
ASSUME TimesAssumption ==
    /\ LeaseMs \in Nat
    /\ LatencyMs \in Nat
    /\ RetentionMs \in Nat
    /\ CapabilityMs \in Nat \ {0}
    /\ SubmitMs \in Nat
\* 15 minutes and the duration of a call against 7 days.
ASSUME WindowAssumption == CapabilityMs + SubmitMs < RetentionMs

VARIABLES
    rows,        \* compilation_jobs
    clock,       \* SystemTime::now(), milliseconds
    issued,      \* leases handed out so far; a fresh UUID is the next number
    claims,      \* copies held by workers
    purges,      \* copies held by cleaners
    capability   \* per job, when its capability expires; 0 before it is minted

vars == <<rows, clock, issued, claims, purges, capability>>

---------------------------------------------------------------------------

NoLease == 0    \* lease TEXT NOT NULL DEFAULT ''; failure defaults to '' too: "none"

ActiveStatus == {"queued", "running"}
TerminalStatus == {"completed", "failed", "cancelled"}

Row == [status : {"absent"} \cup ActiveStatus \cup TerminalStatus,
        failure : {"none", "retry_limit", "compilation_failed"},
        fingerprint : Fingerprints \cup {NoPrint},
        lease : Nat, lease_until : Nat, attempts : Nat, created_at : Nat]

NoRow == [status |-> "absent", failure |-> "none", fingerprint |-> NoPrint,
          lease |-> NoLease, lease_until |-> 0, attempts |-> 0,
          created_at |-> 0]

\* A row as enqueue inserts it: the other columns take their defaults.
NewRow(f, t) == [status |-> "queued", failure |-> "none", fingerprint |-> f,
                 lease |-> NoLease, lease_until |-> 0, attempts |-> 0,
                 created_at |-> t]

\* What a caller keeps of a returned Job.
Claim == [id : Jobs, lease : Nat, fingerprint : Fingerprints \cup {NoPrint},
          until : Nat]
Purge == [id : Jobs, lease : Nat]

Exists(j) == rows[j].status # "absent"
Active(j) == rows[j].status \in ActiveStatus
Terminal(j) == rows[j].status \in TerminalStatus

\* now() is read before the blocking task takes the mutex and the database
\* lock, so an operation may commit with a timestamp up to LatencyMs old.
Stamps == {t \in 0..clock : clock - t <= LatencyMs}

---------------------------------------------------------------------------
(* enqueue *)

ActiveJobs == {j \in Jobs : Active(j)}
ActiveOf(tenant) == {j \in Jobs : Active(j) /\ TenantOf[j] = tenant}

HasRoom_OffByOne(j) == /\ Cardinality(ActiveJobs) < MaxActive
                       /\ Cardinality(ActiveOf(TenantOf[j])) <= MaxTenantActive
HasRoom(j) == /\ Cardinality(ActiveJobs) < MaxActive
              /\ Cardinality(ActiveOf(TenantOf[j])) < MaxTenantActive

\* Gateway refuses an expired capability, so a submission is authorised
\* before it lapses and reaches the queue at most SubmitMs later.
WindowOpen_Forever(j) == capability[j] # 0
WindowOpen(j) == capability[j] # 0 /\ clock <= capability[j] + SubmitMs

\* The clock value is read after the capability was minted.
Admission(j, t) == WindowOpen(j) /\ t + CapabilityMs >= capability[j]

\* The id is free and there is room: the row is inserted.  The other outcomes
\* (a repetition, a conflict, a full queue) leave the table alone.
Insert(j, f, t) ==
    /\ Admission(j, t)
    /\ ~Exists(j)
    /\ HasRoom(j)
    /\ rows' = [rows EXCEPT ![j] = NewRow(f, t)]
    /\ UNCHANGED <<clock, issued, claims, purges, capability>>

---------------------------------------------------------------------------
(* claim *)

Eligible_AtExpiry(j, t) ==
    \/ rows[j].status = "queued"
    \/ rows[j].status = "running" /\ rows[j].lease_until <= t + 1
Eligible(j, t) ==
    \/ rows[j].status = "queued"
    \/ rows[j].status = "running" /\ rows[j].lease_until < t

Older(j, k) == \/ rows[j].created_at < rows[k].created_at
               \/ rows[j].created_at = rows[k].created_at /\ j <= k

\* ORDER BY created_at, id LIMIT 1
Candidate(j, t) == /\ Eligible(j, t)
                   /\ \A k \in Jobs : Eligible(k, t) => Older(j, k)

Spent_Never(j) == FALSE
Spent(j) == rows[j].attempts >= MaxAttempts

Leased(j, t) ==
    [status |-> "running", failure |-> rows[j].failure,
     fingerprint |-> rows[j].fingerprint, lease |-> issued + 1,
     lease_until |-> t + LeaseMs, attempts |-> rows[j].attempts + 1,
     created_at |-> rows[j].created_at]

Grant(j, t) ==
    /\ Candidate(j, t)
    /\ ~Spent(j)
    /\ rows' = [rows EXCEPT ![j] = Leased(j, t)]
    /\ issued' = issued + 1
    /\ claims' = claims \cup {[id |-> j, lease |-> issued + 1,
                               fingerprint |-> rows[j].fingerprint,
                               until |-> t + LeaseMs]}
    /\ UNCHANGED <<clock, purges, capability>>

\* The oldest candidate has used its attempts: claim fails it and returns None.
GiveUp(j, t) ==
    /\ Candidate(j, t)
    /\ Spent(j)
    /\ rows' = [rows EXCEPT ![j].status = "failed",
                            ![j].failure = "retry_limit"]
    /\ UNCHANGED <<clock, issued, claims, purges, capability>>

---------------------------------------------------------------------------
(* finish, cancel *)

\* The row finish updates: the lease is current and nothing ended it before.
Fenced_AnyStatus(c) == Exists(c.id) /\ rows[c.id].lease = c.lease
Fenced(c) == rows[c.id].lease = c.lease /\ rows[c.id].status = "running"

Outcome(ok) == IF ok THEN [status |-> "completed", failure |-> "none"]
               ELSE [status |-> "failed", failure |-> "compilation_failed"]

\* The caller drops its copy whether or not a row was updated.
Finish(c, ok) ==
    /\ c \in claims
    /\ claims' = claims \ {c}
    /\ rows' = IF Fenced(c)
                 THEN [rows EXCEPT ![c.id].status = Outcome(ok).status,
                                   ![c.id].failure = Outcome(ok).failure]
                 ELSE rows
    /\ UNCHANGED <<clock, issued, purges, capability>>

Cancel(j) ==
    /\ Active(j)
    /\ rows' = [rows EXCEPT ![j].status = "cancelled"]
    /\ UNCHANGED <<clock, issued, claims, purges, capability>>

---------------------------------------------------------------------------
(* expired, forget *)

Expired_AnyStatus(j, t) == Exists(j) /\ rows[j].created_at + RetentionMs <= t
Expired_Early(j, t) == Terminal(j) /\ rows[j].created_at <= t
Expired(j, t) == Terminal(j) /\ rows[j].created_at + RetentionMs <= t

Copy(j) == [id |-> j, lease |-> rows[j].lease]

\* LIMIT without ORDER BY: any PurgeLimit expired rows, or all of them.
PurgeBatch(t) ==
    LET due == {j \in Jobs : Expired(j, t)}
    IN  {batch \in SUBSET due :
            \/ batch = due /\ Cardinality(due) <= PurgeLimit
            \/ Cardinality(batch) = PurgeLimit}

Expire(batch) ==
    /\ purges' = purges \cup {Copy(j) : j \in batch}
    /\ UNCHANGED <<rows, clock, issued, claims, capability>>

\* Another cleaner may still hold an equal copy.
Forget(p) ==
    /\ p \in purges
    /\ purges' \in {purges, purges \ {p}}
    /\ rows' = IF rows[p.id].lease = p.lease /\ Terminal(p.id)
                 THEN [rows EXCEPT ![p.id] = NoRow] ELSE rows
    /\ UNCHANGED <<clock, issued, claims, capability>>

---------------------------------------------------------------------------
(* The callers and the clock *)

\* Workers or cleaners die, are aborted, or lose the answer of a call.
Abandon ==
    /\ claims' \in SUBSET claims
    /\ purges' \in SUBSET purges
    /\ UNCHANGED <<rows, clock, issued, capability>>

\* Gateway mints one capability per generation, never renewed.
Mint(j) ==
    /\ capability[j] = 0
    /\ capability' = [capability EXCEPT ![j] = clock + CapabilityMs]
    /\ UNCHANGED <<rows, clock, issued, claims, purges>>

Tick ==
    /\ clock < MaxClock
    /\ clock' = clock + 1
    /\ UNCHANGED <<rows, issued, claims, purges, capability>>

---------------------------------------------------------------------------

Init ==
    /\ rows = [j \in Jobs |-> NoRow]
    /\ clock = 0
    /\ issued = 0
    /\ claims = {}
    /\ purges = {}
    /\ capability = [j \in Jobs |-> 0]

Next ==
    \/ Tick
    \/ \E j \in Jobs : Mint(j) \/ Cancel(j)
    \/ \E j \in Jobs, f \in Fingerprints, t \in Stamps : Insert(j, f, t)
    \/ \E j \in Jobs, t \in Stamps : Grant(j, t) \/ GiveUp(j, t)
    \/ \E c \in claims, ok \in BOOLEAN : Finish(c, ok)
    \/ \E t \in Stamps : \E batch \in PurgeBatch(t) : Expire(batch)
    \/ \E p \in purges : Forget(p)
    \/ Abandon

Spec == Init /\ [][Next]_vars

---------------------------------------------------------------------------
(* Properties *)

TypeOK ==
    /\ rows \in [Jobs -> Row]
    /\ clock \in Nat
    /\ issued \in Nat
    /\ claims \subseteq Claim
    /\ purges \subseteq Purge
    /\ capability \in [Jobs -> Nat]

\* Two workers never hold unexpired leases on one job: a copy that is not the
\* current lease of an unfinished row has outlived its lease_until.  It covers
\* recovery by claim, and a job id coming back after its row was purged.
SupersededLapsed ==
    \A c \in claims :
        (Active(c.id) /\ rows[c.id].lease # c.lease) => c.until < clock

\* "retry_limit" is reported only when every attempt was used and no worker
\* can still be inside the lease of one of them.
GivenUpIsLapsed ==
    \A j \in Jobs : rows[j].failure = "retry_limit" =>
        /\ rows[j].status = "failed"
        /\ rows[j].attempts = MaxAttempts
        /\ \A c \in claims : c.id = j => c.until < clock

\* Admission never exceeds the queue's capacity nor a tenant's share of it.
QuotaRespected ==
    /\ Cardinality(ActiveJobs) <= MaxActive
    /\ \A j \in Jobs : Cardinality(ActiveOf(TenantOf[j])) <= MaxTenantActive

\* A terminal row is immutable until it is deleted: neither a late worker nor
\* a cancellation nor a resubmission changes an outcome clients may have seen.
TerminalIsFinal ==
    [][\A j \in Jobs : Terminal(j) => rows'[j] \in {rows[j], NoRow}]_vars

\* A row disappears only when it is terminal and its seven days are over, even
\* though cleaners work from copies that may be arbitrarily old.
PurgedOnlyWhenExpired ==
    [][\A j \in Jobs : (Exists(j) /\ rows'[j] = NoRow) =>
           Terminal(j) /\ rows[j].created_at + RetentionMs <= clock]_vars

---------------------------------------------------------------------------
(* The queue implements JobLifecycle *)

\* No submission of this job can reach the queue any more.
Closed(j) == capability[j] # 0 /\ clock > capability[j] + SubmitMs

Stage == [j \in Jobs |-> IF Exists(j) THEN rows[j].status
                         ELSE IF Closed(j) THEN "gone" ELSE "new"]
Tries == [j \in Jobs |-> rows[j].attempts]

Lifecycle == INSTANCE JobLifecycle WITH stage <- Stage, tries <- Tries

\* Every behaviour of the queue is a behaviour of JobLifecycle: a purged job
\* is gone for good and its attempts are never granted anew.
ImplementsLifecycle == Lifecycle!Spec
=============================================================================
