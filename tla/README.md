# Galadril: specifications, model checking and proofs

TLA+ specifications of the parts of Galadril whose correctness rests on leases,
retries, queues and crashes, the TLC configurations that check them on small
instances, and TLAPS proofs of their main properties for every value of the
constants.

1. [Inventory](#inventory) 2. [Modules](#modules) 3. [Runs](#runs)
4. [Fairness](#fairness) 5. [Proofs](#proofs) 6. [Observations](#observations)
7. [Not modelled](#not-modelled) 8. [Plan](#plan)

## Inventory

Galadril is a multi-tenant platform: Intake turns stored objects into Kafka
events, Vision runs pipelines over them on Ray and writes graph, relational and
authorization data, Gateway serves users and conversations (Pengolo), the
document compiler turns templates into PDFs, Registry keeps pipeline and ontology
definitions, Scribe runs the agents behind a conversation, and the mail worker
reads and answers mailboxes.

| Component | State | Operations | Interacts with | Hard behaviour | What makes it correct |
|---|---|---|---|---|---|
| **Document compiler: queue** (`services/document-compiler/src/adapters/queue.rs`, `migrations/001_queue.sql`) | one libSQL table of jobs: status, lease, lease_until, attempts, created_at, fingerprint | enqueue, get, find, claim, finish, cancel, expired, forget | called by submissions, worker tasks, the cleaner of each controller | late reports, recovery of expired leases, purging from stale copies, quotas | one live lease per job, bounded attempts, final outcomes, retention, no resurrection |
| **Document compiler: controller** (`application.rs`) | task slots, cleanup task, S3 objects `<id>.json`, `<id>.pdf` | submit, get_job/cancel, pdf, run, execute, cleanup, templates | queue, S3 (`objects.rs`), Gateway, supervisor | two stores written in separate steps, 75 s timeout against 90 s lease, crash, shutdown, several controllers | an executing worker owns its row; input, PDF and row agree; every job ends |
| **Document compiler: supervisor** (`supervisor.rs`) | two permits, a process guard per call, kernel processes | compile, probe, kill and reap | spawns the sandbox binary | futures dropped at any await, blocking cleanup, recycled pids | permits come back, no foreign process is killed, every process is reaped |
| Document compiler: sandbox policy, kernel, worker, gRPC, Gateway client | none of their own | limits, seccomp, Landlock, request mapping | - | - | - |
| Document compiler: domain (`platform/document-compiler`) | none | template validation, rendering, archives, delegation claims | used by compiler and Gateway | - | pure functions |
| **Vision: execution ledger** (`pipeline/ledger.py`) | a Postgres row per idempotency key: status, attempt, lease_expires_at, result | claim, complete, fail | command handler | leases that end under a live worker, several workers on one key | no lost command, results stored before they are announced |
| **Vision: command handler and subscriber** (`streaming/handlers.py`, `streaming/app.py`) | none beyond ledger and topics | handle, retry, dead-letter, ack, nack, reject | Kafka, ledger, Ray dispatcher | at-least-once delivery, partial publication | every message is followed up |
| **Vision: authorization outbox** (`connectors/authz/outbox.py`) | a Postgres row per grant: attempts, next_retry_at | claim due rows, flush, reschedule, dead-letter, eject poison | SpiceDB, Kafka | row leases, crash between SpiceDB write and delete | a grant is never dropped, every grant is materialised |
| Vision: Ray actors, timer, identity, causal, Postgres and query connectors | actor pools, timer offsets | dispatch, schedule, resolve, compute | ledger, Kafka, Postgres | deterministic re-publication | duplicates collapse on the idempotency key |
| Pipeline definitions and routing (`platform/pipeline`) | none | compile routes, successors, branch selection | Vision | - | each successor of a taken branch exactly once |
| Intake (`services/intake`) | none durable | parse, route, publish notifications | S3 events, Kafka | at-least-once, poison input | nothing acknowledged before it is published |
| **Registry: revision store** (`platform/registry/src/storage.rs`) | lakeFS branch, S3 marker, marker cache, tenant locks | load, commit, ensure_tenant, delete_tenant | lakeFS, S3, Registry's commands | three requests make one revision, no precondition at lakeFS, 30 s client timeout, dropped handlers | a revision is one caller's whole state, no update is lost |
| **Registry: authoring** (`authoring_service.rs`, `authoring.rs`, `ontology_authoring.rs`, `domain.rs`, `state.rs`) | the tenant's state: pipelines, branches, proposals, approvals, releases, bindings, ontologies | some twenty commands, each a compare-and-swap of the state | revision store, Gateway, Vision's discovery | long sequences of commands, edits between proposal, approval and release | production holds reviewed definitions that run, references are alive |
| **Gateway: Pengolo generations** (`services/gateway/src/application/usecases/pengolo.rs`, `adapters/outbound/database/pengolo.rs`, `chat_tools.rs`) | Postgres: chats, generations, output events, capabilities, retention rows | send, events, accept_output, cancel, update_chat, close_temporary, delete_chat, cleanup | Scribe, browsers, MCP tools | several transactions per use case, leases, late and repeated callbacks, replay | one open turn per chat, ordered and complete text, evidence covers the answer, every turn ends |
| **Scribe: background generations** (`machine-learning/scribe/python/galadril_scribe/background.py`) | a task per generation, its cursor and unflushed text | submit, execute, deliver with retries, heartbeat, cancel, shutdown | Gateway's callbacks | a callback whose answer is lost, failure while one is under way | pieces arrive once and in order |
| **Mail worker** (`plugins/src/galadril_plugins/utils`) | SQLite: accounts, cursors, boundaries, messages, drafts; IMAP folder | sync, generate, approve, send, update, pipeline decisions | IMAP, SMTP, Scribe, pipelines | crash or lost answer around SMTP, renumbered folders, a cancelled call whose thread goes on | nothing sent twice or unapproved, no mail skipped, archives not answered |
| Gateway: conversations, IAM, SSO, documents, uploads, GraphQL | Postgres rows | request-response use cases | everything | - | - |
| Scribe, inference, Eru (`machine-learning`) | caches, model pools | agent loops, inference | Gateway, models | external models | - |
| Amarth, ontology, telemetry, plugins, dashboard, infrastructure, database, schemas | - | - | - | - | libraries, presentation, deployment; `third_party` is vendored |

The hazards are listed one by one, each at its line, in `PROJECT.json`.

## Modules

    JobLifecycle          what the queue promises about one job
      ^ refined by
    CompilationQueue      the queue, every operation one transaction
      ^ extended by (queue actions are conjuncts of the compiler's actions)
    DocumentCompiler      submissions, workers, cleaners, S3, crashes
    Supervisor            permits, process guards, kernel processes
    CommandExecution      Vision: ledger, handler, subscriber, Kafka
    AuthzOutbox           Vision: relationships on their way to SpiceDB
    PengoloGenerations    Gateway's turns of one chat, and Scribe's tasks
    RevisionLog           what Registry's commands rely on: a linear history
      ^ refined by
    RegistryStore         LakeFsStore: lock, cache, lakeFS and S3 requests
    RegistryAuthoring     the commands, each one step of that history
    MailDelivery          the mail worker for one connection

`XProofs` extends `X` with its theorems (`DocumentCompilerProofs` those of the queue
too); `MCX` gives TLC its constants.

### CompilationQueue

`rows` is the table; a job without a row is `NoRow`. A job id is the SHA-256 of
tenant, actor, generation and key, so only the fingerprint may differ between
two submissions of one id. Ids are naturals because claim orders by
`created_at, id`. Every queue method is one transaction (`BEGIN IMMEDIATE` or one
statement), hence one action:

| Code | Model |
|---|---|
| `enqueue` | `Insert` under `HasRoom`; a repetition, a conflict and a full queue change nothing |
| `claim` | `Grant` or, for a candidate whose attempts are used up, `GiveUp` |
| `finish` | `Finish`, fenced by lease and status |
| `cancel` | `Cancel` |
| `expired`, `forget` | `Expire`, `Forget` |
| a caller that dies or loses an answer | `Abandon` |
| Gateway's capability, 15 minutes, minted once | `Mint`, `WindowOpen` |

Callers keep *copies* of rows in `claims` and `purges` and may use them at any
later time. The caller reads the clock before the blocking task takes the mutex
and the database lock; `Stamps` lets an operation commit with a timestamp up to
`LatencyMs` old. The UUID of a lease is the next number of `issued`: fresh UUIDs
never repeat.

Nothing in the queue itself keeps a job id from coming back after its row was
purged. What does is that a submission needs a capability of 15 minutes while
rows stay seven days. This is in the model (`capability`, `WindowOpen`,
`WindowAssumption`), and the mutant `WindowOpen_Forever` shows that lease
exclusion and retention fail without it. `LatencyMs` and `SubmitMs` are
assumptions: the code bounds neither the wait for the database beyond
`busy_timeout` nor the whole of a submission, but both are minutes at most
against days.

`JobLifecycle` is the abstract specification: admitted once, at most
`MaxAttempts` starts, one end, gone for good. `Stage` and `Tries` are the
refinement mapping; an absent row is `new` while a submission may still come and
`gone` afterwards.

### DocumentCompiler

Extends the queue; each of its actions that touches the table has the queue's
action as a conjunct, so the whole handler is one or several actions split
exactly at its awaits:

| Code | Model |
|---|---|
| `submit` | `Submit` (authorised and rendered), `PutInput`, `EnqueueInput`, `EndSubmit` for every error |
| `get_job` with cancel | `CancelJob` |
| `run` | `ClaimJob`, `PollGivesUp`, `Report`, `ReportLost` (a failed finish is only logged) |
| `execute` | `Authorize`, `ReadInput`, `Compiled` or `Interrupted` (the 500 ms poll), `Recheck`, `StorePdf`, `Fail` |
| the 75 s timeout | `deadline`; time (`Pass`) does not go past it |
| `cleanup` | `StartCleanup`, then `DeleteInput`, `DeletePdf`, `ForgetRow` per row, `EndCleanup` on an error |
| crash, shutdown, restart | `Crash`: slots, cleaner and calls of one controller vanish, table and bucket stay |

S3 and Gateway are external. `put_new` creates an object or accepts an identical
one; a call may fail after it took effect. A put that takes effect after its
future was dropped is not modelled. The engine is deterministic
(`SOURCE_DATE_EPOCH=0`), so a PDF is identified by the fingerprint of its input.

### Supervisor

`call` is where a slot of the run loop stands in `compile`, `guard` the pid its
`Running` holds, `process` what the kernel has. While the operation runs the
future owns the guard and dropping it kills and reaps (`Drop`); afterwards the
guard moves into a blocking task that survives the future (`Detach`, `Reap`).
Pids are recycled as soon as a process is reaped.

### CommandExecution

One `PipelineCommand` is known by its idempotency key, a message is a key with an
attempt. `log` holds what was published to the command topic, `inbox` what is not
committed; `Redeliver` is a duplicate upstream or a lost commit, `Nack` a crash, a
rebalance or an exception outside the handler's try block, and two workers may
hold one message. The lease is compared with `NOW()` only, so a row keeps one
bit, `live`, and `LeaseEnds` is the passing of 900 seconds; a handler carries the
same bit for the lease it was given. `Acquire`, `Replay`, `Complete`, `Fail` are
the ledger's transactions, with the very guards of their `WHERE` clauses;
`Publish`, `Retry`, `DeadLetter`, `Ack` the handler's later steps in their order.
The number of Ray attempts, the content of results and lineage events are left
out. No timeout bounds a dispatch in the code, so an execution may outlast its
lease, and does in the model.

### AuthzOutbox

`Persist` is the sink's upsert into `authz_outbox`: it inserts a row with a fresh
id, or replaces the payload of the object's row and leaves id, attempts and
schedule alone. `Claim` takes any due rows (rows locked by another transaction are
skipped) and copies them; `next_retry_at` is compared with the present only, so a
row has one bit, `due`, which `Elapse` sets. A flusher ejects what does not parse
(`Eject`, `Delete`), then for each row writes (`Write`, `Delete`) or fails, publishing
a dead letter (`Bury`) once the local retries are used up, and reschedules
(`Reschedule`). A write fails in two ways: `FailWrite` is a fault of SpiceDB or the
network, before or after the write was applied, while `Refuse` is the fate of every
attempt at a payload in `Refused`, one that `_parse_tuples` accepts and
`_validate_tuple` or SpiceDB's schema does not; such a row is never written and never
leaves. Both statements match the row by id only. `Break` is an exception, which
abandons the batch, or a crash. SpiceDB writes are TOUCH, idempotent, so its state is
the set of what was written. `Counted` is a bound of the model: the code counts
`attempts` for ever, and past the limit nothing depends on the number. `latest` and
`overtaken` are history variables; `overtaken` stays set until the object gets a new
row.

### PengoloGenerations

One chat. `chat`, `gen`, `output`, `cap` and `leaseRows` are rows of Postgres;
`sender`, `worker` and `calls` are the request that opened a turn, the Scribe
task that executes it, and the callbacks between them. Every transaction is a
step:

| Code | Model |
|---|---|
| `send` | `Prepare` (which gives the agent the completed answers of the chat, `Past`, and takes over their stored evidence, `History`), `Reserve` or `ReserveRefused`, `RecordInput`, `ReadAuthorization` and `SaveAuthorization` (a compare of revisions), `Submitted`, `Refused`, `FailSubmission`; `Abandon` when the request dies |
| `background.py` | `EmitContent`, `Flush`, `Beat`, `EmitEnd`, `StreamRaises`, `Retry`, `RetryFailure`, `WorkerStop` |
| `accept_output` | `Resolve` (the capability), then `Accept` (append in one transaction); `Lose` is a callback or an answer that is lost |
| tool calls (`chat_tools.rs`) | `ToolCall`, `ToolResolve`, then `ToolResult`, which records the source before it returns, or `UnrecordedResult` for mail, web search, templates and compiler jobs, of which nothing is recorded |
| `cancel`, `update_chat`, `delete_chat` | `Cancel`; `EditRead`, `EditSave`; `DeleteCheck`, `RemoveRows`, `RemoveChat` |
| `cleanup` | `ScanLeases`, `ExpireLease`, `Housekeeping`, `RemoveGeneration`; `CloseTemporary`, `Restart` |
| `events` | `ViewRead`, `ViewPage`: snapshot, then pages |

A piece of text carries its number and what it was computed from (attachments,
tool results, and what the answers in its history rest on: `Basis`), which is all
the properties ask of it. An earlier answer whose evidence its reader may no longer
see is left out of the history by the code; here every one is visible. Deadlines are not counted: a lease, a capability and a
temporary chat lapse in steps of their own. `rev` saturates at `RevisionCap`, past
which no sender compares it. `scanned` is the union of what sweeps have listed and
does not shrink: a sweep may act on a list of any age. `Edits` and `Faults` bound
the edits of the chat and the crashes, losses and timeouts.

### RevisionLog and RegistryStore

`RegistryStore` is one tenant: `log` and `tree` are the branch and what is staged
on it, `call` where each handler stands, `lock` the tenant's mutex. A state that a
caller computes is a number with the revision it was computed from. `Load`,
`FillCache`, `ReadHead` are `load`; `LockForCommit`, `CheckHead`, `StagePipelines`,
`StageOntologies`, `CommitBranch` are `commit`; `Ensure`, `CreateRepository`,
`WriteMarker` and `Delete`, `DeleteRepository`, `PurgePrefix` the tenant's
creation and deletion. Each request may fail before or after it took effect, and
`Delayed` of them take effect after their caller left (`ArriveLate`): the client's
30 s timeout or a dropped handler frees the lock while lakeFS still works.
`RevisionLog` is the abstract history, appended by compare-and-swap;
`ImplementsRevisionLog` is the refinement, up to the first late request.

### RegistryAuthoring

A command is one step because `RegistryStore` makes it one. A definition is a graph
from a small set and whether it needs an ontology. The code has two checks of a
graph, and so has the model: `Structured` is `validate_pipeline_structure`, all that
`put_pipeline` asks and, with the bindings and the ontology's publication (`Runs`), all
that `publish_pipeline` asks; `Executable` is `validate_executable`, which only
`approve` asks (`Approvable`). A pinned revision (`Pins`) keeps what the revision said.
Commands and definitions are grouped in `Sessions` (releases, collaboration, review)
for TLC only: the theorems hold for every set of
sessions, in particular for one with all commands.

### MailDelivery

One connection. A file lock admits one process per database and every operation
holds the connection's `asyncio.Lock`, so `task` is the one operation under way and
`Step` its next transaction or network call:

| Code | Model |
|---|---|
| `sync`, `poll` (`transport.py`, `service.py`) | `BeginSync`, `Select` (window and batch: `WindowEnd`, `BatchOf`, `AdvanceTo`), `SkipArchive`, `Collect`, `Advance`, `FetchFails`, `NextPending`, `Processed` |
| `generate`, `decide_reply`, `pipeline_reply` | `BeginCompose`, `BeginReply`, `BeginReplyDraft`, `Generate`, `GenerateFails`, `Decline` |
| the 150 s deadline of `/pipeline/decide` | `DecideTimesOut`: the caller leaves, the thread's `LateSave` commits without the lock |
| `save_draft`, `approve`, `approve_automatic` | `CreateDraft`, `EditDraft`, `ApproveDraft`, `ApproveAutomatic`, `RefuseAutomatic` |
| `send` | `BeginSend`, `ReadCredentials`, `ClaimSend` or `ClaimRefused`, `Transmit` (accepted or not, heard or not), `FinishSend` |
| settings | `Update`, `SaveProfile` |
| the world | `Arrive`, `Expunge` (another client removes a message), `Renumber` (a new UIDVALIDITY), `DayPasses`, `Fail`, `Crash` |

UIDs may be unused: `inbox.held` is what is left of `1..inbox.count`, which is
UIDNEXT - 1. A poll searches `Window` UIDs and takes `Batch` messages of them; the cursor
moves to the last one taken when some are left, and otherwise to the end of the window,
empty windows included. Two kinds of message fail at every poll: one `parse_message`
refuses (`Unreadable`) ends the collection before the cursor is past it, and one whose
sender `DraftInput` refuses as a recipient (`Unanswerable`) ends the answering before
what is pending behind it. `Fail` is every other exception.

An approval is of a draft's text under the connection's settings. The signature is not
part of it: it belongs to the response profile and is read when the draft is sent, and
saving the profile clears no approval. `SentAsApproved` is about text and settings.
`wire` is what SMTP accepted; `consent`, `first` and `skip` are history variables.
Rights, content checks, thread numbers, tracking, OAuth, ingestion, deletion of the
connection and policies that answer from another account are left out.

## Runs

Each run asks one question of one component; deadlock is checked except where a
bound on the clock, on ids or on faults ends a behaviour.

| Run | Bounds | Shows |
|---|---|---|
| `queue` | 2 jobs of one tenant that has one place, 2 attempts, stamps 1 late, purge limit 1, clock to 4 | lease fencing, retry limit, quotas, final outcomes, retention, refinement of `JobLifecycle` |
| `compiler` | 1 job, 2 controllers with a worker each, 2 clients with different inputs, 2 attempts, capability longer than the lease, clock to 7 | rows, inputs and PDFs agree; executing means owning, in a recovered second attempt too; every admitted job ends |
| `supervisor` | 2 slots, 2 permits, 4 pids | permits come back, guards are own, every process is reaped |
| `commands` | 1 key, 1 result, 1 retry, 2 workers | nothing lost, stored before announced, completion holds, every command settles |
| `outbox` | 1 object, a good payload, a poison one and one that is always refused, 2 flushers, 2 retries, 2 rows | nothing lost unless overtaken, the outbox drains but for dead-lettered rows that can never be written |
| `pengolo_turns` | 2 turns of a durable chat, 2 projects, 1 edit | chat and generations agree, one answer per turn, settled turns stay, evidence is handed on with the history |
| `pengolo_delivery` | 1 turn, durable or temporary, 2 pieces, 2 attempts, 2 faults | text is a prefix of what was produced, live leases are respected, every turn ends |
| `pengolo_replay` | 1 turn, a source that is recorded and one that is not, 1 subscriber, pages of one event | evidence covers the answer, a replay is complete |
| `registry_store` | 2 calls, 4 revisions, 2 writes, 1 late request | whole revisions unless a request was late, no lost update, refinement of `RevisionLog` |
| `registry_authoring` | 3 graphs (draft, structured, executable), 2 branches, 2 ontologies, 3 kinds of session | production is sound, references live, merges apply to what was proposed |
| `mail_sending` | 2 drafts, 1 message, 2 revisions, 2 settings, automatic mode with or without a pipeline and 1 change of it, 1 day, 1 fault | sent and answered at most once, sent as approved |
| `mail_collection` | 3 messages, one unreadable and one unanswerable, windows of two, batches of one, 2 removed messages, 2 UIDVALIDITYs, 2 settings, 1 fault | archives not answered, no message of the folder passed over, pending mail worked off but for one that cannot be answered and what is behind it |

Why the bounds suffice. The queue's rows interact only through the order of
claim, the quotas and the purge limit; two jobs, one place and a limit of one make
each matter. The durations keep the order the code gives them (execution plus
latency within the lease, a capability that outlives several leases, capability plus
submission within retention) at the
smallest values that leave each comparison a boundary on both sides, and the clock
goes far enough for a job to be admitted, to use all its attempts and to be purged,
and for its cleaner to hold a stale copy. Ledger rows are independent, so one key
shows all a key can do; two workers are two executors, and a third role (the worker
a stale one steals from) reuses the first. `EventuallySettled` with two results takes
longer than a run may; `MCCommandResults` checks the safety properties with two, so
that a second result can differ from the first, and the theorems cover any number.
Outbox rows interact only inside a batch, where the proof covers any number; two ids
let an object come back while a flusher still holds its former row. That a row which is
always refused does not hold up another is `MCOutboxObjects`, with two objects and one
flusher.

Turns of a chat interact through its record (two turns, no faults needed), a turn
and its worker through callbacks (one turn, two pieces so that one can overtake or
repeat the other, two faults so that a retry can be lost too), a turn and its
reader through pages (one event each). `EvidenceCovers` is split over two runs, because
two turns with tools are too many states: history and attachments in `pengolo_turns`,
tools in `pengolo_replay`; the theorem has both at once. Two calls of a tenant are a stale editor and
the one that overtakes it; four revisions let a tenant be created, written twice
and created again; the proofs cover any number. A branch interacts with its parent
and main, hence two; three graphs are what a three-way merge needs to conflict. A second draft for one message is what a late save produces;
a second UIDVALIDITY lists the archive again; three UIDs in windows of two and batches
of one give full, sparse and empty windows and put the cursor at every boundary.

Each property has a mutant in `PROJECT.json`: a plausible change of the code
(`HasRoom_OffByOne`, `Fenced_AnyStatus`, `Pass_NoTimeout`, `Sendable_Again`,
`Publishable_Managed` ...) under which TLC finds it violated. The type invariants are
not repeated among the runs' properties: all of them are proved.

## Fairness

* `FairSystem` (compiler): time passes, the run loop polls (every 250 ms), a task
  ends because of its timeout and reports, a call in flight ends. A unit of model
  time is longer than a poll and a report, so time waits for both
  (`PunctualNext`). Nothing is assumed of clients, cleaners or crashes: workers
  may crash as long as they like. `EventuallyEnds` exempts jobs admitted so late
  that their attempts would not fit before the bound on the clock (`Budget`).
* `FairSpec` (supervisor): the 60 s watchdog ends every operation, tokio's
  blocking pool runs its tasks, a call whose cleanup ended returns.
* `FairSpec` (commands): Kafka delivers what is not committed, awaits return,
  leases end. Faults (crashes, failed publications, duplicates) may happen any
  number of times but cease: a broker that fails for ever delivers nothing.
* `FairSpec` (outbox): leases and delays end, flushers go on, and a row that is due
  again and again is claimed (`ORDER BY next_retry_at`); SpiceDB, Kafka and the database
  may fail any number of times but come back. A refusal is no fault and does not
  cease: `EventuallyDrained` says of such a row that it ends up on the dead-letter
  topic and stays.
* `FairSpec` (Pengolo): deadlines pass, the housekeeping task runs every minute and
  a transaction that was started ends. Nothing is assumed of Scribe, the network or
  the user, so `EveryTurnEnds` holds although all of them may be silent.
* `FairSpec` (mail): the event loop runs the operation that holds the lock, threads
  end, and the poll takes the lock again and again (`SF` on `BeginSync`):
  `asyncio.Lock` serves its waiters in order and the poller repeats, so users who
  keep taking the lock cannot starve it. `PendingIsWorkedOff` says nothing of a
  connection that is disabled or set not to answer, nor of a folder stopped at a
  message that cannot be parsed, and exempts a message that cannot be answered with
  whatever is behind it (observation 11).

## Proofs

`tlapm` checks the eight proof modules completely; no fact is assumed beyond the
named `ASSUME`s, which TLC evaluates on every run. Every safety property and every
refinement that a run checks is the subject of a theorem.

**DocumentCompilerProofs**, the queue, for all sets of jobs, limits and durations with
`CapabilityMs + SubmitMs < RetentionMs`: `TypeCorrect`, `LeaseExclusion`,
`GiveUpSafe`, `QuotasHold`, `OutcomesAreFinal`, `RetentionHolds`, and
`QueueImplementsLifecycle`. The properties are not inductive on their own: that a
superseded copy has lapsed needs to know that a copy carries the `until` its row
had, that leases are numbered below `issued`, that an unfinished row without a
matching lease was granted only after expiry, and that an id cannot come back:
a copy in a cleaner's hands is of a terminal row, or of an id whose window is
closed. The inductive invariant `IInv` is the conjunction of those facts, each with
its own lemma per action.

**DocumentCompilerProofs**, the compiler, for any number of controllers, worker slots
and clients, with execution plus latency within the lease and capability, submission
and execution within retention (`ExecAssumption`): `OnlyOwnersExecute`, `InputsStay`, `PdfsStay`, `PdfsGoFirst`, `SystemTypeCorrect`.
Every step of the compiler is a step of the queue or leaves its variables alone
(`SystemStep` proves this together with the invariant, because that a cleaner may
forget a row or a worker report depends on it), so the queue's theorems hold of the
compiler (`QueueOfCompiler`, a lemma). `SInv` adds to `IInv`: a slot owns the copy it was
given (`CopiesAreOwn`), its timeout lies inside its lease (`InTime`) and before the
row of a cancelled job can be purged (`CancelledInTime`), who is about to report
success has stored the PDF (`StoredIfOk`), copies carry their row's fingerprint
(`PrintsAgree`), a submission at `enqueue` has found its own input stored and is
inside its window (`Submitting`), and a cleaner about to forget a row has deleted its
PDF (`Cleaning`). `NoOrphanPdf` needs most of them: a late `StorePdf` after
a purge is excluded only by timeout, lease, retention and capability together.

**CommandExecutionProofs**, for all sets of keys, results and workers and every
retry limit: `TypeCorrect`, `NothingIsLost`, `StoredBeforeAnnounced`,
`CompletionHolds`. The invariant adds what a handler's position means: its message
is in the log (`InHand`), at `ack` its message is followed up (`AckIsEarned`), at
`publish` or `replay` the row has a result (`PublisherIsStored`). Claim never
clears a result, which is what makes the last one stable.

**SupervisorProofs**, for all slots, permits and pids with no more slots than
permits: `TypeCorrect`, `CapacityHolds`, `GuardsAreOwn`. The invariant is a count:
permits left plus calls in progress is `Permits`; a free slot then leaves a permit.

**AuthzOutboxProofs**, for all objects, payloads, flushers and limits:
`TypeCorrect` and `NothingElseIsLost`, refused payloads included. The invariant says that a row holds what
was committed last, that a copy of a row that was not overtaken does too, that ids
of copies were handed out before, and that a flusher about to delete has delivered
its copy.

**RegistryStoreProofs**, for any number of calls, revisions, writes and late
requests: `TypeCorrect`, `OnlyLateRequestsTear`, `NoUpdateIsLost`,
`StoreImplementsRevisionLog`. None of the properties is inductive. Until a request is late, a call past the comparison keeps its head
(`HeadHeld`: the lock keeps everybody else from the branch) and what is staged at
the commit is its own (`StagedIsOwn`), whatever failed calls had staged before; a
revision made then is whole. That an acknowledged write is not overwritten needs
in addition that ids grow and that a write is based on an id handed out before it
(`IdsGrow`, `BasesIssued`), so that no later revision, not even of a tenant
created anew, has the id an acknowledged write was made from. For the refinement a
step is shown to leave the branch alone, drop it, create it or add one revision
(`HistoryStep`), and the last two to be `Create` and `Append1` of `RevisionLog` on the
revisions seen so far; a late request maps to the end of the history.

**RegistryAuthoringProofs**, for all graphs, branches, ontologies and sessions:
`TypeCorrect`, `OnlyReviewedDeployed`, `NothingDangles`, `MergesAsProposed`. The
invariant adds that an approval is of an executable definition and that a release
carries the approval of its own definition (`ReleaseWasApproved`): what is production
was deployed from a release or published before the pipeline was managed. In the latter
case only its structure and its ontologies were checked, and the theorem says no more.

**MailDeliveryProofs**, for any number of drafts, messages, edits, settings,
renumberings, removals, days and faults and every size of window and batch: `TypeCorrect`,
`NothingIsSentTwice`, `ApprovedWhenSent`, `ArchivesStayUnanswered`,
`CollectionIsComplete`. For sending, the invariant adds that a draft which left is
claimed (`GoneIsClaimed`: no operation takes a draft out of a claim), that an
approved draft has somebody's consent under the present settings, that an operation
at `transmit` claimed a draft that has not left (`OnItsWay`), and that a late save
holds an identifier nobody else has (`LateIsOwn`). For collecting, it adds that
what a batch under way has gone through, and what the folder holds up to where the
cursor will move beyond the batch, is stored, skipped on purpose or still to do
(`Collecting`; `BatchIsUpTo` says that a batch leaves nothing behind it), that the boundary of a UIDVALIDITY is not below where the folder was
first seen (`BoundaryIsLater`), and that every row, generation and late save that
can lead to an answer is of a message above it (`LiveIsNew`).

**PengoloGenerationsProofs**, for any number of turns, pieces, sources, attempts, edits
and faults and pages of any size: `TypeCorrect`, `SettledStays`, `LeasesHold`,
`TurnsAreExclusive`, `AnswersAreCovered`, `TurnsAreAnsweredOnce`, `TextIsInOrder`,
`ReplaysAreComplete`. With some forty actions on seventeen variables the proofs do not
go action by action: four lemmas first say what any step can do to one generation's
record and output (`GenStep`), to the chat (`ChatStep`), to a worker and its callbacks
(`WorkStep`) and to a request (`SendStep`), and every later lemma is a case analysis of
those few moves. The inductive invariant has four layers.

* `Core`: a record, its output, its worker and its callbacks exist only from the
  point of the request that makes them (`Lifecycle`); until the submission the
  revision of a record counts its writes, so that the copy `send` writes back cannot
  undo an ending (`Revisions`); a terminal event is the last and names the status
  (`EndsLast`); a chat id comes back only when everything of it is gone (`Rooms`); the
  copy `update_chat` saves equals the chat while the revisions agree, which makes
  `ActiveMatches` inductive (`Turns`).
* `Said`: what a request gives its agent as history is covered by the sources it
  records (`Grounded`, from `HistoryCovers`: the answers in the chat are covered); what
  text on its way is based on, unrecorded tools apart, is in the record's evidence
  before it is written (`Sourced`); the messages are of reserved turns and covered (`Messages`); each
  turn has its one question and, once settled, its one answer (`Answered`).
* `Delivered`: every callback repeats the position the task is at or one behind it
  (`Delivery`); what is stored is what was acknowledged or one event more, and
  unacknowledged pieces continue the stored text (`InOrder`, `Numbered`).
* `Watching`: a subscriber has been sent a beginning of the output (`Replayed`), and its
  snapshot of a settled generation stays true while it reads the page, or the
  generation is gone and the snapshot is complete (`Snapshot`).

What `Text` (a concatenation) is for an output that grows or is read in pages is
proved without induction over data, by taking the least length at which it would be
wrong (`LeastNumber`, `PrefixesExist`, `TextOfParts`). `TurnsAreExclusive`,
`TurnsAreAnsweredOnce` and `ReplaysAreComplete` hold under `Undisturbed`, which says that
the chat is durable, or temporary and never edited; observation 8 shows why.

Only model-checked: the six liveness properties (`EventuallyEnds`, `EventuallyReaped`,
`EventuallySettled`, `EventuallyDrained`, `EveryTurnEnds`, `PendingIsWorkedOff`), because
temporal reasoning with fairness and ENABLED is beyond the prover.

## Observations

Places where the code and a document, a comment or a test differ, or where an
expected property does not hold. The configurations named here are not runs of the
project: `tlc -config <cfg> <module>` shows the behaviour.

1. *At most two children* (`MCSupervisorChildren`, Supervisor). A future dropped
   while it awaits its blocking cleanup returns the permit before the process is
   killed. The architecture document says there are at most two children.
2. *Replays do not call a model again* (`MCCommandReplay`, MCCommandExecution).
   `claim` acquires every row whose lease has passed, completed ones included; a
   command redelivered later than 900 s after its claim is executed again and may
   take another branch.
3. *Without stealing live tasks* (`MCCommandStealing`, MCCommandExecution). `fail`
   looks at the status only: a worker that outlived its lease releases its
   successor's claim, and a third execution starts while the second is inside its
   lease.
4. *Reliably* (`MCOutboxLatest`, AuthzOutbox). The flusher deletes by id what it
   read at claim time, while the sink replaces the payload of the same row:
   relationships committed in between are deleted without being written to SpiceDB.
   `KeptUnlessOvertaken` shows that this is the only way to lose them.
5. *One atomic revision* (`MCRegistryAtomic`, MCRegistryStore).
   `authoring_service.rs:1-2` and `docs/src/architecture/mutation-consistency.md:16-19`
   describe a command as one atomic revision. A lakeFS request that is applied
   after its client gave up can put one caller's artifact beside another's.
   `TornOnlyIfLate` shows, and the proof confirms, that there is no other way.
6. *A global rolling 24-hour maximum* (`MCMailRolling`, MailDelivery). The limit
   counts drafts by creation, so automatic replies whose drafts are older than a day
   when they are approved are not counted.
7. *Scope of a moved chat* (`MCPengoloScope`, MCPengoloGenerations). `save` moves the
   generations of a chat with it, without a new revision. A `send` whose turn was
   cancelled after it read the record for its authorization, and whose chat was then
   moved, finds the revision unchanged and writes its copy back with the former
   project: the output of that generation can no longer be replayed.
8. A temporary chat that is closed and opened again under the same id starts at
   revision one, so a save that compares revisions may hit the new chat
   (`pengolo_turns` with `Kinds = {TRUE}`); the run therefore uses durable chats, and
   the theorems about turns, answers and replays carry the condition `Undisturbed`.
9. *All retrieved evidence remains recorded for authorization and replay*
   (`docs/src/architecture/pengolo.md:245`; `MCPengoloUnrecorded`,
   MCPengoloGenerations). Mail, web search, templates and compiler jobs return their
   results without recording a source, so an answer based on them carries no evidence of
   it. `EvidenceCovers` holds for everything else.
10. A tuple that the sink and `_parse_tuples` accept and `_validate_tuple` or the schema
   refuses stays in the outbox, is dead-lettered at every attempt past the limit and
   tried again every 60 s for ever; other rows are not held up (`MCOutboxObjects`
   passes).
11. A pending message whose sender `DraftInput` refuses (empty, non-ASCII, too long) fails
   at every poll. Being the oldest, it keeps everything behind it from being answered
   (`MCMailBlocked`, MailDelivery, violates `EveryPendingIsWorkedOff`), while the
   collection itself goes on. One that cannot be parsed stops the collection as well.
12. `put_pipeline` and `publish_pipeline` of a pipeline that is not managed check its
   structure and bindings; `validate_executable` is called by `approve` alone.
13. Met while modelling, without a configuration: an automatic draft a user edited is
   approved by `pipeline_reply` at its new revision and sent at the old one, which is
   refused; a crash between the boundary and the cursor of `initial_sync = "new"`
   skips what arrived in between at the next start; a signature changed between
   approval and sending is sent as it is then; `put_binding` does not clear an
   approval, and `restore` and `put_ontology` do not check that the ontology a model
   was derived from is still there.

## Not modelled

The map covers about five percent of the implementation's lines. The rest is, by size:
Gateway's GraphQL schema, IAM, SSO, conversations, uploads and pipeline use cases,
which are request-response code with one transaction each, where a model would
restate the statements; generated gRPC code; the dashboard; machine learning and
numerical code (Eru, inference, identity, causal), whose results are outside of what
TLC can explore; rendering, validation, archives and the LaTeX engine, pure functions
on text; sandbox policy and kernel limits, straight-line system calls; telemetry,
plugins other than mail, infrastructure. The modules concentrate on code with leases,
locks, retries, several stores or long command sequences.

Of the modelled components these operations are left out: template storage of the
compiler; ingress and quarantine of Vision; graph and embedding sinks; branches of
ontologies, diffs and composition of plugins in Registry; files, projects, library
search, accounts and an agent's questions in Pengolo; rights, threads, tracking,
OAuth, ingestion, contacts and deletion in the mail worker. A closed temporary
chat's idempotency keys are not sent again.

## Plan

1. Done: queue, compiler, supervisor, Vision's command execution, the authorization
   outbox, Pengolo's generations with Scribe, Registry's store and commands, the mail
   worker; proofs of all their safety properties and refinements.
2. Theorems: a weaker condition than `Undisturbed` (a temporary chat is edited but not
   closed and opened again meanwhile); the commands of `RegistryAuthoring` as steps of
   `RevisionLog`.
3. `TemplateStore`: `put_template`, `mutate_template`, delete under conditional S3
   writes. `PengoloFiles`: uploads and the document index. Branches of ontologies.
4. `Intake` and `Timer`: at-least-once publication with deterministic keys, composed
   with `CommandExecution` (a duplicate is a `Redeliver`).
5. `Routing`: successors of a taken branch, checked against a reference definition
   over small graphs.
