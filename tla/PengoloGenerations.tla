------------------------ MODULE PengoloGenerations ------------------------
(***************************************************************************)
(* One Pengolo conversation of the gateway: its chat record, the           *)
(* generations reserved in it, their ordered output and delegated          *)
(* capabilities (database/pengolo.rs), the use cases that drive them       *)
(* (usecases/pengolo.rs: send, events, accept_output, cancel, update_chat, *)
(* close_temporary, delete_chat, cleanup) and the Scribe worker that       *)
(* executes a generation and reports back (background.py).                 *)
(*                                                                         *)
(* Every database transaction is one step and a use case with several      *)
(* transactions is several steps.  Deadlines are not counted: a lease, a   *)
(* capability and a temporary chat lapse in steps of their own.            *)
(***************************************************************************)
EXTENDS Integers, Sequences, FiniteSets, SequencesExt

CONSTANTS Generations,    \* idempotency keys, each the id of a generation
          Sources,        \* what the agent can ask the gateway for
          Unrecorded,     \* of these: mail, web pages, compiler jobs and
                          \* templates, of which no tool records anything
          None,
          Projects, Home, \* scopes of the chat; every request names Home
          Pieces,         \* bound: events a worker's stream produces
          Attempts,       \* deliveries of one event before Scribe gives up
          Page,           \* events returned by one read of the replay
          Edits, Faults,  \* bounds: chat edits; crashes, losses and timeouts
          Kinds,          \* BOOLEAN: durable chats, temporary chats or both
          Watched         \* generations a subscriber may replay

ASSUME PengoloAssumption ==
    /\ None \notin Generations
    /\ Home \in Projects
    /\ Sources \cap Generations = {} /\ Unrecorded \subseteq Sources
    /\ Pieces \in Nat /\ Edits \in Nat /\ Faults \in Nat
    /\ Kinds \subseteq BOOLEAN /\ Watched \subseteq Generations
    /\ Attempts \in Nat \ {0} /\ Page \in Nat \ {0}

VARIABLES temporary,   \* whether the requests are for a temporary chat
          opened,      \* a durable chat gets its id once, from its first turn
          chat,        \* the chat record, or None
          expired,     \* the temporary chat's deadline has passed
          gen,         \* the generation records
          output,      \* the events stored for each generation
          cap,         \* generations whose capability row is there and valid
          leaseRows,   \* generations with a 'lease' row in pengolo_retention
          sender,      \* the request that reserved each generation
          worker,      \* the Scribe task of each generation
          calls,       \* callbacks on their way to, or inside, the gateway
          scanned,     \* ids some expire_leases has listed
          removing,    \* the transaction of remove(Chat), or None
          edit,        \* the copy of the chat update_chat works on, or None
          view,        \* one subscriber replaying one generation
          edits, faults

Active   == {"pending", "running"}
Terminal == {"completed", "failed", "cancelled"}
RevisionCap == 4  \* only a sender compares revisions, and it reads at most 3

\* Attachments are named after the request that brings them.
Evidence == Sources \cup Generations

\* A piece of text: its number and what the agent had seen when it wrote it.
Piece == [n : 1..Pieces, from : SUBSET Evidence]

Message == [role : {"user", "assistant"}, gen : Generations,
            status : Active \cup Terminal, text : Seq(Piece),
            evidence : SUBSET Evidence]
Chats   == [rev : Nat, active : Generations \cup {None}, project : Projects,
            messages : Seq(Message)]
Records == [status : Active \cup Terminal, evidence : SUBSET Evidence,
            leased : BOOLEAN, rev : 1..RevisionCap, project : Projects,
            authorized : BOOLEAN]
Events  == [kind : {"content", "tool"} \cup Terminal, content : Seq(Piece)]
Tools   == [source : Sources, resolved : BOOLEAN]
Outs    == {"content", "tool", "completed", "failed"}
Removals == [pc : {"checked", "rows"}, rows : SUBSET Generations]

Senders == [pc : {"idle", "prepared", "reserved", "noted", "read", "waiting",
                  "refused", "done"},
            sources : SUBSET Evidence, basis : SUBSET Evidence,
            copy : Records \cup {None},
            flying : BOOLEAN]
Tasks   == [pc : {"none", "start", "run", "closing", "failing", "done"},
            cursor : Nat, made : 0..Pieces, pending : Seq(Piece),
            out : Outs \cup {None}, tries : 0..Attempts, failAt : Nat,
            failTries : 0..Attempts, known : SUBSET Evidence,
            tool : Tools \cup {None}]
Callbacks == [gen : Generations, slot : {"out", "fail"}, seq : Nat \ {0},
              kind : Outs, content : Seq(Piece), attempt : 1..Attempts,
              stage : {"sent", "resolved"}]
Views   == [pc : {"idle", "read", "told"}, gen : Generations \cup {None},
            after : Nat, text : Seq(Piece),
            status : Active \cup Terminal \cup {None}, sequence : Nat,
            message : Message \cup {None}]

\* None is no record, no status and no kind of event.
ASSUME NoneAssumption ==
    /\ None \notin Message /\ None \notin Chats /\ None \notin Records
    /\ None \notin Tools /\ None \notin Removals
    /\ None \notin Outs /\ None \notin Active \cup Terminal

store  == <<chat, expired, gen, output, cap, leaseRows, opened>>
actors == <<sender, worker, calls, scanned, removing, edit, view>>
vars   == <<temporary, store, actors, edits, faults>>

\* Something outside the gateway's control goes wrong.
Fault == faults < Faults /\ faults' = faults + 1

Stops(kind) == kind \in Terminal
Bump(rev)   == IF rev < RevisionCap THEN rev + 1 ELSE rev

\* The text is the concatenation of the stored content events.
Text(events) == FlattenSeq([i \in DOMAIN events |-> events[i].content])

\* A Scribe task: cursor is the last acknowledged position, made what its
\* stream produced, pending the content not flushed, out the event being
\* delivered under the lock, failAt the position of its closing failure.
NoWorker == [pc |-> "none", cursor |-> 0, made |-> 0, pending |-> <<>>,
             out |-> None, tries |-> 0, failAt |-> 0, failTries |-> 0,
             known |-> {}, tool |-> None]
Ended    == [NoWorker EXCEPT !.pc = "done"]

NoSender == [pc |-> "idle", sources |-> {}, basis |-> {}, copy |-> None,
             flying |-> FALSE]

Init ==
    /\ temporary \in Kinds
    /\ opened = FALSE
    /\ chat = None
    /\ expired = FALSE
    /\ gen = [g \in Generations |-> None]
    /\ output = [g \in Generations |-> <<>>]
    /\ cap = {}
    /\ leaseRows = {}
    /\ sender = [g \in Generations |-> NoSender]
    /\ worker = [g \in Generations |-> NoWorker]
    /\ calls = {}
    /\ scanned = {}
    /\ removing = None
    /\ edit = None
    /\ view = [pc |-> "idle", gen |-> None, after |-> 0, text |-> <<>>,
               status |-> None, sequence |-> 0, message |-> None]
    /\ edits = 0
    /\ faults = 0

---------------------------------------------------------------------------
(* Reads and writes of the store.  A row past its deadline is not read,    *)
(* and a row that remove(Chat) has deleted stays locked until it commits.  *)

ChatVisible   == chat # None /\ ~expired
Visible(g)    == gen[g] # None /\ ~expired
Unlocked(g)   == removing # None => g \notin removing.rows

\* authorize_generation: the chat is there and has the generation's scope.
Authorized(g) == Visible(g) /\ ChatVisible /\ chat.project = gen[g].project

\* resolve_capability, followed by authorize_generation
ResolvedForever(g) == Authorized(g) /\ gen[g].status \in Active
Resolved(g) == g \in cap /\ Authorized(g) /\ gen[g].status \in Active

ExtendsAnywhere(g, seq) == gen[g].status \in Active
Extends(g, seq) == gen[g].status \in Active /\ seq = Len(output[g]) + 1
Replays(g, e)   == /\ e.seq \in 1..Len(output[g])
                   /\ output[g][e.seq] = [kind |-> e.kind, content |-> e.content]

\* The terminal event settles the chat: the turn is released, the user's
\* message takes the status and the answer is pushed with its evidence.
Marked(g, kind, messages) ==
    [i \in DOMAIN messages |->
        IF messages[i].role = "user" /\ messages[i].gen = g
        THEN [messages[i] EXCEPT !.status = kind] ELSE messages[i]]

Answer(g, kind) ==
    [role |-> "assistant", gen |-> g, status |-> kind,
     text |-> Text(output[g]), evidence |-> gen[g].evidence]

SettleChat(g, kind) ==
    [chat EXCEPT !.rev = @ + 1, !.active = None,
        !.messages = Append(Marked(g, kind, chat.messages), Answer(g, kind))]

\* append, once its guards have passed: a heartbeat renews the lease only,
\* every other event is stored at the next position.
Written(r, kind) ==
    [r EXCEPT !.status = IF Stops(kind) THEN kind ELSE "running",
              !.leased = TRUE, !.rev = Bump(r.rev)]

Write(g, kind, content) ==
    /\ gen' = [gen EXCEPT ![g] = Written(gen[g], kind)]
    /\ output' = IF kind = "heartbeat" THEN output
                 ELSE [output EXCEPT ![g] =
                          Append(@, [kind |-> kind, content |-> content])]
    /\ IF Stops(kind)
       THEN /\ chat' = IF ChatVisible THEN SettleChat(g, kind) ELSE chat
            /\ cap' = cap \ {g}
            /\ leaseRows' = leaseRows \ {g}
       ELSE UNCHANGED <<chat, cap, leaseRows>>
    /\ UNCHANGED <<expired, opened>>

---------------------------------------------------------------------------
(* send: the steps of one request after the idempotency lookup found none. *)

\* The history given to the agent: the completed answers of the chat, with the
\* evidence stored with them; ghost: what their text really rests on.
Past == IF ChatVisible
        THEN {m \in Range(chat.messages) : m.role = "assistant"
                                           /\ m.status = "completed"}
        ELSE {}

\* Mutant: the evidence of the earlier answers is not carried over.
History_Nothing == {}

History == UNION {m.evidence : m \in Past}

Basis == UNION {UNION {p.from : p \in Range(m.text)} : m \in Past}

\* g stands for the attachments of its own request among the evidence.
Prepare(g) ==
    /\ sender[g].pc = "idle"
    /\ gen[g] = None
    /\ ChatVisible => chat.project = Home
    /\ sender' = [sender EXCEPT ![g].pc = "prepared",
                                ![g].sources = History \cup {g},
                                ![g].basis = Basis \cup {g}]
    /\ UNCHANGED <<temporary, store, worker, calls, scanned, removing, edit,
                   view, edits, faults>>

\* reserve: one transaction opens the turn.  An expired row still holds the
\* primary key and a leftover lease row its own, so both refuse the insert.
CanReserveTwice(g) ==
    /\ gen[g] = None
    /\ g \notin leaseRows
    /\ IF chat = None THEN temporary \/ ~opened
       ELSE ~expired /\ chat.project = Home

CanReserve(g) ==
    /\ gen[g] = None
    /\ g \notin leaseRows
    /\ IF chat = None THEN temporary \/ ~opened
       ELSE ~expired /\ chat.project = Home /\ chat.active = None

\* the chat the turn is added to, and the user's message
Base == IF chat = None
        THEN [rev |-> 0, active |-> None, project |-> Home, messages |-> <<>>]
        ELSE chat

Question(g) == [role |-> "user", gen |-> g, status |-> "pending",
                text |-> <<>>, evidence |-> {}]

RegisterLease(g) == leaseRows' = leaseRows \cup {g}

Reserve(g) ==
    /\ sender[g].pc = "prepared"
    /\ CanReserve(g)
    /\ chat' = [Base EXCEPT !.rev = @ + 1, !.active = g,
                            !.messages = Append(@, Question(g))]
    /\ gen' = [gen EXCEPT ![g] =
          [status |-> "pending", evidence |-> {}, leased |-> TRUE, rev |-> 1,
           project |-> Base.project, authorized |-> FALSE]]
    /\ opened' = TRUE
    /\ cap' = cap \cup {g}
    /\ RegisterLease(g)
    /\ sender' = [sender EXCEPT ![g].pc = "reserved"]
    /\ UNCHANGED <<temporary, expired, output, worker, calls, scanned,
                   removing, edit, view, edits, faults>>

\* The request ends: an error, or the gateway that served it stopped.
Quit(g) == sender' = [sender EXCEPT ![g] =
              [NoSender EXCEPT !.pc = "done", !.flying = sender[g].flying,
                 !.sources = IF sender[g].flying
                             THEN sender[g].sources ELSE {},
                 !.basis = IF sender[g].flying THEN sender[g].basis ELSE {}]]

ReserveRefused(g) ==
    /\ sender[g].pc = "prepared"
    /\ ~CanReserve(g)
    /\ sender' = [sender EXCEPT ![g] = NoSender]
    /\ UNCHANGED <<temporary, store, worker, calls, scanned, removing, edit,
                   view, edits, faults>>

\* record_evidence adds what is not there yet, and looks at no status
OverwriteEvidence(g, sources) ==
    gen' = [gen EXCEPT ![g].evidence = sources, ![g].rev = Bump(@)]

AddEvidence(g, sources) ==
    gen' = [gen EXCEPT ![g].evidence = @ \cup sources, ![g].rev = Bump(@)]

RecordInput(g) ==
    /\ sender[g].pc = "reserved"
    /\ Unlocked(g)
    /\ IF Visible(g)
       THEN /\ AddEvidence(g, sender[g].sources)
            /\ sender' = [sender EXCEPT ![g].pc = "noted"]
       ELSE Quit(g) /\ UNCHANGED gen
    /\ UNCHANGED <<temporary, chat, expired, output, cap, leaseRows, opened,
                   worker, calls, scanned, removing, edit, view, edits, faults>>

ReadAuthorization(g) ==
    /\ sender[g].pc = "noted"
    /\ IF Visible(g)
       THEN sender' = [sender EXCEPT ![g].pc = "read", ![g].copy = gen[g]]
       ELSE Quit(g)
    /\ UNCHANGED <<temporary, store, worker, calls, scanned, removing, edit,
                   view, edits, faults>>

\* save: the whole record is written back, if its revision is unchanged;
\* the deadline of the lease is then the one it had.
UnchangedOrNot(g) == gen[g] # None
Unchanged(g) == gen[g] # None /\ gen[g].rev = sender[g].copy.rev

SaveAuthorization(g) ==
    /\ sender[g].pc = "read"
    /\ Unlocked(g)
    /\ IF Unchanged(g)
       THEN /\ gen' = [gen EXCEPT ![g] = [sender[g].copy EXCEPT
                          !.authorized = TRUE, !.rev = Bump(@),
                          !.leased = gen[g].leased]]
            /\ sender' = [sender EXCEPT ![g].pc = "waiting",
                             ![g].copy = None, ![g].flying = TRUE]
       ELSE Quit(g) /\ UNCHANGED gen
    /\ UNCHANGED <<temporary, chat, expired, output, cap, leaseRows, opened,
                   worker, calls, scanned, removing, edit, view, edits, faults>>

Started(g) == [NoWorker EXCEPT !.pc = "start", !.known = sender[g].basis]

\* Scribe takes the submission, starts the task and answers 202, which a
\* request that is no longer waiting does not see.
Submitted(g) ==
    /\ sender[g].flying
    /\ worker[g].pc = "none"
    /\ worker' = [worker EXCEPT ![g] = Started(g)]
    /\ sender' = [sender EXCEPT ![g].flying = FALSE,
                     ![g].pc = IF @ = "waiting" THEN "done" ELSE @,
                     ![g].sources = {}, ![g].basis = {}]
    /\ UNCHANGED <<temporary, store, calls, scanned, removing, edit, view,
                   edits, faults>>

\* No 202: a refusal (capacity, model, validation), or a timeout, when the
\* task may have been started or the request may still arrive.
Refused(g) ==
    /\ sender[g].pc = "waiting"
    /\ \E taken, late \in BOOLEAN :
          /\ sender' = [sender EXCEPT ![g].pc = "refused",
                                      ![g].flying = late /\ ~taken]
          /\ worker' = IF taken THEN [worker EXCEPT ![g] = Started(g)]
                       ELSE worker
    /\ UNCHANGED <<temporary, store, calls, scanned, removing, edit,
                   view, edits>> /\ Fault

\* append with sequence -1: the position is allocated under the row lock.
FailSubmission(g) ==
    /\ sender[g].pc = "refused"
    /\ Unlocked(g)
    /\ Quit(g)
    /\ IF Visible(g) /\ gen[g].status \in Active
       THEN Write(g, "failed", <<>>)
       ELSE UNCHANGED store
    /\ UNCHANGED <<temporary, worker, calls, scanned, removing, edit, view,
                   edits, faults>>

Abandon(g) ==
    /\ sender[g].pc \notin {"idle", "done"}
    /\ Quit(g)
    /\ UNCHANGED <<temporary, store, worker, calls, scanned, removing, edit,
                   view, edits>> /\ Fault

---------------------------------------------------------------------------
(* The Scribe task (background.py).                                        *)

Alive(g) == worker[g].pc \in {"start", "run", "closing", "failing"}

\* deliver posts an event up to three times.
Again(tries)         == tries < Attempts

Call(g, slot, seq, kind, content, attempt) ==
    [gen |-> g, slot |-> slot, seq |-> seq, kind |-> kind,
     content |-> content, attempt |-> attempt, stage |-> "sent"]

\* deliver, at cursor + 1, under the lock
Post(g, kind, content, pc) ==
    /\ worker' = [worker EXCEPT ![g].out = kind, ![g].tries = 1, ![g].pc = pc]
    /\ calls' = calls \cup
          {Call(g, "out", worker[g].cursor + 1, kind, content, 1)}

\* The except branch: the failure is reported at the position after the
\* cursor, whatever the flusher is delivering there.
PostFailure(g, w, others) ==
    /\ worker' = [worker EXCEPT ![g] = [w EXCEPT !.pc = "failing",
                     !.failAt = w.cursor + 1, !.failTries = 1]]
    /\ calls' = others \cup {Call(g, "fail", w.cursor + 1, "failed", <<>>, 1)}

End(g, others) ==
    worker' = [worker EXCEPT ![g] = Ended] /\ calls' = others

\* A delivery under the lock raised: in the stream's own emit the failure is
\* reported; in the flusher, and once failing, the task is cancelled.
Raise(g, others) ==
    \/ /\ worker[g].pc \in {"run", "closing"}
       /\ PostFailure(g, [worker[g] EXCEPT !.out = None, !.tries = 0], others)
    \/ End(g, others)

WorkerOnly == UNCHANGED <<temporary, store, sender, scanned, removing, edit,
                          view, edits>>

Beat(g) ==
    /\ Alive(g)
    /\ Resolved(g)
    /\ Unlocked(g)
    /\ Write(g, "heartbeat", <<>>)
    /\ worker' = [worker EXCEPT ![g].pc = IF @ = "start" THEN "run" ELSE @]
    /\ UNCHANGED <<temporary, sender, calls, scanned, removing, edit, view,
                   edits, faults>>

EmitContent(g) ==
    /\ worker[g].pc = "run"
    /\ worker[g].out = None
    /\ worker[g].made < Pieces
    /\ worker' = [worker EXCEPT ![g].made = @ + 1,
          ![g].pending = Append(@, [n |-> worker[g].made + 1,
                                    from |-> worker[g].known])]
    /\ UNCHANGED calls
    /\ WorkerOnly /\ UNCHANGED faults

Flush(g) ==
    /\ worker[g].pc \in {"run", "failing"}
    /\ worker[g].out = None
    /\ worker[g].pending # <<>>
    /\ Post(g, "content", worker[g].pending, worker[g].pc)
    /\ WorkerOnly /\ UNCHANGED faults

\* Any other event is persisted after the pending content.
EmitEnd(g) ==
    /\ worker[g].pc = "run"
    /\ worker[g].out = None
    /\ worker[g].pending = <<>>
    /\ \E kind \in {"completed", "failed"} : Post(g, kind, <<>>, "closing")
    /\ WorkerOnly /\ UNCHANGED faults

StreamRaises(g) ==
    /\ worker[g].pc \in {"start", "run"}
    /\ PostFailure(g, worker[g], calls)
    /\ WorkerOnly /\ Fault

\* No answer in time: the same event is posted again, at most Attempts times.
Retry(g) ==
    /\ worker[g].out # None
    /\ \/ /\ Again(worker[g].tries)
          /\ worker' = [worker EXCEPT ![g].tries = @ + 1]
          /\ calls' = calls \cup
                {Call(g, "out", worker[g].cursor + 1, worker[g].out,
                    IF worker[g].out = "content" THEN worker[g].pending
                    ELSE <<>>, worker[g].tries + 1)}
       \/ ~Again(worker[g].tries) /\ Raise(g, calls)
    /\ WorkerOnly /\ Fault

RetryFailure(g) ==
    /\ worker[g].pc = "failing"
    /\ IF Again(worker[g].failTries)
       THEN /\ worker' = [worker EXCEPT ![g].failTries = @ + 1]
            /\ calls' = calls \cup
                  {Call(g, "fail", worker[g].failAt, "failed", <<>>,
                        worker[g].failTries + 1)}
       ELSE End(g, calls)
    /\ WorkerOnly /\ Fault

\* A rejected heartbeat, a cancellation or the end of the Scribe process.
WorkerStop(g) ==
    /\ Alive(g)
    /\ End(g, calls)
    /\ WorkerOnly /\ Fault

\* A tool call of the agent: progress is emitted as an event and the gateway
\* resolves the scope of the call.  The graph, event, document and file tools
\* record the sources of a result before it is returned; the mail, web and
\* compiler tools return theirs without.
ToolCall(g) ==
    /\ worker[g].pc = "run"
    /\ worker[g].out = None
    /\ worker[g].pending = <<>>
    /\ worker[g].tool = None
    /\ \E s \in Sources \ worker[g].known :
          worker' = [worker EXCEPT ![g].out = "tool", ![g].tries = 1,
                        ![g].tool = [source |-> s, resolved |-> FALSE]]
    /\ calls' = calls \cup
          {Call(g, "out", worker[g].cursor + 1, "tool", <<>>, 1)}
    /\ WorkerOnly /\ UNCHANGED faults

ToolResolve(g) ==
    /\ worker[g].tool # None
    /\ ~worker[g].tool.resolved
    /\ worker' = [worker EXCEPT ![g].tool =
          IF Resolved(g) THEN [worker[g].tool EXCEPT !.resolved = TRUE]
          ELSE None]
    /\ UNCHANGED calls
    /\ WorkerOnly /\ UNCHANGED faults

ToolResult(g) ==
    /\ worker[g].tool # None
    /\ worker[g].tool.resolved
    /\ worker[g].tool.source \notin Unrecorded
    /\ Unlocked(g)
    /\ IF Visible(g)
       THEN /\ AddEvidence(g, {worker[g].tool.source})
            /\ worker' = [worker EXCEPT ![g].tool = None,
                             ![g].known = @ \cup {worker[g].tool.source}]
       ELSE /\ worker' = [worker EXCEPT ![g].tool = None]
            /\ UNCHANGED gen
    /\ UNCHANGED <<temporary, chat, expired, output, cap, leaseRows, opened,
                   sender, calls, scanned, removing, edit, view, edits, faults>>

UnrecordedResult(g) ==
    /\ worker[g].tool # None
    /\ worker[g].tool.resolved
    /\ worker[g].tool.source \in Unrecorded
    /\ worker' = [worker EXCEPT ![g].tool = None,
                     ![g].known = @ \cup {worker[g].tool.source}]
    /\ UNCHANGED calls
    /\ WorkerOnly /\ UNCHANGED faults

---------------------------------------------------------------------------
(* accept_output: a callback is authorized in one step and appended in a   *)
(* later one; the answer may be lost.                                      *)

Awaited(c) ==
    LET w == worker[c.gen]
    IN IF c.slot = "fail" THEN w.pc = "failing" /\ w.failTries = c.attempt
       ELSE w.out = c.kind /\ w.tries = c.attempt /\ w.cursor + 1 = c.seq

Acknowledged(w, c) ==
    IF c.slot = "fail" \/ w.pc = "closing" THEN Ended
    ELSE [w EXCEPT !.cursor = w.cursor + 1, !.out = None, !.tries = 0,
                   !.pending = IF c.kind = "content" THEN <<>> ELSE w.pending]

Acknowledge(c) ==
    worker' = [worker EXCEPT ![c.gen] = Acknowledged(worker[c.gen], c)]

Reply(c, accepted) ==
    \/ /\ Awaited(c)
       /\ UNCHANGED faults
       /\ CASE accepted -> Acknowledge(c) /\ calls' = calls \ {c}
            [] ~accepted /\ c.slot = "fail" -> End(c.gen, calls \ {c})
            [] OTHER -> Raise(c.gen, calls \ {c})
    \/ /\ IF Awaited(c) THEN Fault ELSE UNCHANGED faults
       /\ UNCHANGED worker /\ calls' = calls \ {c}

Resolve(c) ==
    /\ c.stage = "sent"
    /\ IF Resolved(c.gen)
       THEN /\ calls' = (calls \ {c}) \cup {[c EXCEPT !.stage = "resolved"]}
            /\ UNCHANGED <<worker, faults>>
       ELSE Reply(c, FALSE)
    /\ WorkerOnly

Accept(c) ==
    /\ c.stage = "resolved"
    /\ Unlocked(c.gen)
    /\ IF Visible(c.gen) /\ Extends(c.gen, c.seq)
       THEN Write(c.gen, c.kind, c.content) /\ Reply(c, TRUE)
       ELSE /\ UNCHANGED store
            /\ Reply(c, Visible(c.gen) /\ Replays(c.gen, c))
    /\ UNCHANGED <<temporary, sender, scanned, removing, edit, view, edits>>

\* The request never arrives, or a transient error answers it with a 5xx.
Lose(c) ==
    /\ calls' = calls \ {c}
    /\ UNCHANGED worker
    /\ WorkerOnly /\ Fault

---------------------------------------------------------------------------
(* Cancellation, deadlines and the sweeps.                                 *)

Outside == UNCHANGED <<temporary, sender, calls, edit, view, edits, faults>>

\* cancel: the row is settled first; the request to Scribe may be lost.
Cancel(g) ==
    /\ Authorized(g)
    /\ gen[g].status \in Active
    /\ Unlocked(g)
    /\ Write(g, "cancelled", <<>>)
    /\ \E reached \in BOOLEAN :
          worker' = IF reached /\ Alive(g)
                    THEN [worker EXCEPT ![g] = Ended] ELSE worker
    /\ UNCHANGED <<scanned, removing>> /\ Outside

LeaseLapses(g) ==
    /\ gen[g] # None
    /\ gen[g].status \in Active
    /\ gen[g].leased
    /\ gen' = [gen EXCEPT ![g].leased = FALSE]
    /\ UNCHANGED <<chat, expired, output, cap, leaseRows, opened, worker,
                   scanned, removing>> /\ Outside

CapabilityLapses(g) ==
    /\ g \in cap
    /\ cap' = cap \ {g}
    /\ UNCHANGED <<chat, expired, gen, output, leaseRows, opened, worker,
                   scanned, removing>> /\ Outside

Lapsed == {g \in Generations : gen[g] # None /\ gen[g].status \in Active
                               /\ ~gen[g].leased}

\* expire_leases, called by send and events
ScanLeases ==
    /\ ~(Lapsed \subseteq scanned)
    /\ scanned' = scanned \cup Lapsed
    /\ UNCHANGED <<store, worker, removing>> /\ Outside

\* cleanup visits only tenants with a lapsed row in pengolo_retention
Housekeeping ==
    /\ \E g \in leaseRows : gen[g] # None => ~gen[g].leased
    /\ ScanLeases

\* append with sequence -2: the lease is looked at again under the row lock.
LeaseOnceLapsed(g)  == TRUE
LeaseStillLapsed(g) == ~gen[g].leased

ExpireLease(g) ==
    /\ g \in scanned
    /\ Visible(g)
    /\ Unlocked(g)
    /\ LeaseStillLapsed(g)
    /\ gen[g].status \in Active
    /\ Write(g, "failed", <<>>)
    /\ UNCHANGED <<worker, scanned, removing>> /\ Outside

\* The TTL of a temporary chat, or close_temporary, which also deletes the
\* capabilities; the rows stay until the cleanup.
CloseTemporary ==
    /\ temporary /\ chat # None /\ ~expired
    /\ expired' = TRUE
    /\ \E closed \in BOOLEAN : cap' = IF closed THEN {} ELSE cap
    /\ UNCHANGED <<chat, gen, output, leaseRows, opened, worker, scanned,
                   removing>> /\ Outside

\* PostgreSQL restarts: UNLOGGED tables are empty, open transactions gone.
Restart ==
    /\ Fault
    /\ cap' = {}
    /\ removing' = None
    /\ IF temporary
       THEN /\ chat' = None
            /\ gen' = [g \in Generations |-> None]
            /\ output' = [g \in Generations |-> <<>>]
            /\ expired' = FALSE
       ELSE UNCHANGED <<chat, gen, output, expired>>
    /\ UNCHANGED <<leaseRows, opened, worker, scanned, temporary, sender,
                   calls, edit, view, edits>>

---------------------------------------------------------------------------
(* update_chat, delete_chat and the removal of expired records.            *)

\* update_chat reads the chat and edits its copy; p is where the chat goes.
EditRead ==
    /\ edits < Edits
    /\ edit = None
    /\ ChatVisible
    /\ \E p \in Projects :
          /\ p # chat.project => ~temporary /\ chat.active = None
          /\ edit' = [chat EXCEPT !.project = p]
    /\ edits' = edits + 1
    /\ UNCHANGED <<temporary, store, sender, worker, calls, scanned, removing,
                   view, faults>>

\* save: the copy replaces the chat if the revision is the one read, and the
\* generations of the chat follow it into its project.
SomeRevision == chat # None
SameRevision == chat # None /\ chat.rev = edit.rev

EditSave ==
    /\ edit # None
    /\ edit' = None
    /\ IF SameRevision
       THEN /\ \A g \in Generations : gen[g] # None =>
                  Unlocked(g) \/ gen[g].project = edit.project
            /\ chat' = [edit EXCEPT !.rev = @ + 1]
            /\ gen' = [g \in Generations |-> IF gen[g] = None THEN None
                         ELSE [gen[g] EXCEPT !.project = edit.project]]
       ELSE UNCHANGED <<chat, gen>>
    /\ UNCHANGED <<temporary, expired, output, cap, leaseRows, opened, sender,
                   worker, calls, scanned, removing, view, edits, faults>>

\* delete_chat: the checks are made on a copy read before the transaction.
DeleteCheck ==
    /\ ~temporary
    /\ removing = None
    /\ chat # None
    /\ chat.active = None
    /\ removing' = [pc |-> "checked", rows |-> {}]
    /\ UNCHANGED <<store, worker, scanned>> /\ Outside

\* remove(Chat), first statement: the generations its snapshot holds.  The
\* cleanup gets here when it has listed a chat past its deadline.
RemoveRows ==
    /\ chat # None
    /\ IF temporary THEN removing = None /\ expired
       ELSE removing # None /\ removing.pc = "checked"
    /\ removing' = [pc |-> "rows",
                    rows |-> {g \in Generations : gen[g] # None}]
    /\ UNCHANGED <<store, worker, scanned>> /\ Outside

\* its last statements and the commit
RemoveChat ==
    /\ removing # None
    /\ removing.pc = "rows"
    /\ LET gone == removing.rows
       IN /\ gen' = [g \in Generations |-> IF g \in gone THEN None ELSE gen[g]]
          /\ output' = [g \in Generations |->
                           IF g \in gone THEN <<>> ELSE output[g]]
          /\ cap' = cap \ gone
          /\ leaseRows' = leaseRows \ gone
    /\ chat' = None
    /\ expired' = FALSE
    /\ removing' = None
    /\ UNCHANGED <<opened, worker, scanned>> /\ Outside

\* the cleanup's remove(Generation) of a listed, expired generation
RemoveGeneration(g) ==
    /\ temporary /\ expired
    /\ gen[g] # None
    /\ Unlocked(g)
    /\ gen' = [gen EXCEPT ![g] = None]
    /\ output' = [output EXCEPT ![g] = <<>>]
    /\ cap' = cap \ {g}
    /\ leaseRows' = leaseRows \ {g}
    /\ UNCHANGED <<chat, expired, opened, worker, scanned, removing>> /\ Outside

---------------------------------------------------------------------------
(* events: a subscriber pages through the output of one generation.        *)

AnswerOf(g) ==
    LET found == {m \in Range(chat.messages) :
                     m.role = "assistant" /\ m.gen = g}
    IN IF found = {} THEN None ELSE CHOOSE m \in found : TRUE

\* the generation is read and authorized, which reads the chat
ViewRead(g) ==
    /\ g \in Watched
    /\ view.pc \in {"idle", "told"}
    /\ view.gen \in {None, g}
    /\ view.status \notin Terminal
    /\ Authorized(g)
    /\ view' = [view EXCEPT !.pc = "read", !.gen = g, !.status = gen[g].status,
                    !.sequence = Len(output[g]), !.message = AnswerOf(g)]
    /\ UNCHANGED <<temporary, store, sender, worker, calls, scanned, removing,
                   edit, edits, faults>>

\* A status is reported once every event it covers has been sent.
CoversAnyway(sent) == TRUE
Covers(sent) == sent >= view.sequence

\* The page is read later; if it ends the generation the chat is read again.
ViewPage ==
    /\ view.pc = "read"
    /\ LET g      == view.gen
           events == SubSeq(output[g], view.after + 1,
                           Min({view.after + Page, Len(output[g])}))
           sent   == view.after + Len(events)
           ends   == events # <<>> /\ Stops(Last(events).kind)
           told   == CASE ends -> Last(events).kind
                       [] ~ends /\ Covers(sent) -> view.status
                       [] OTHER -> "running"
       IN IF ends /\ ~ChatVisible
          THEN view' = [view EXCEPT !.pc = "told", !.status = None]
          ELSE view' = [view EXCEPT !.pc = "told", !.after = sent,
                 !.text = @ \o Text(events), !.status = told, !.sequence = 0,
                 !.message = CASE told \notin Terminal -> None
                               [] told \in Terminal /\ ends -> AnswerOf(g)
                               [] OTHER -> @]
    /\ UNCHANGED <<temporary, store, sender, worker, calls, scanned, removing,
                   edit, edits, faults>>

---------------------------------------------------------------------------
Sending(g) ==
    \/ Prepare(g) \/ Reserve(g) \/ ReserveRefused(g) \/ RecordInput(g)
    \/ ReadAuthorization(g) \/ SaveAuthorization(g) \/ Refused(g)
    \/ FailSubmission(g) \/ Abandon(g)

Working(g) ==
    \/ Submitted(g) \/ Beat(g) \/ EmitContent(g) \/ Flush(g) \/ EmitEnd(g)
    \/ StreamRaises(g) \/ Retry(g) \/ RetryFailure(g) \/ WorkerStop(g)
    \/ ToolCall(g) \/ ToolResolve(g) \/ ToolResult(g)
    \/ UnrecordedResult(g)

Sweeping(g) ==
    \/ LeaseLapses(g) \/ CapabilityLapses(g) \/ ExpireLease(g)
    \/ RemoveGeneration(g)

Next ==
    \/ \E g \in Generations :
          Sending(g) \/ Working(g) \/ Sweeping(g) \/ Cancel(g) \/ ViewRead(g)
    \/ \E c \in calls : Resolve(c) \/ Accept(c) \/ Lose(c)
    \/ ScanLeases \/ Housekeeping \/ CloseTemporary \/ Restart
    \/ EditRead \/ EditSave \/ DeleteCheck \/ RemoveRows \/ RemoveChat
    \/ ViewPage

Spec == Init /\ [][Next]_vars

\* Deadlines pass, the housekeeping task runs every minute, and a started
\* transaction ends.  Nothing is assumed of Scribe, the network or the user.
Fairness ==
    /\ WF_vars(Housekeeping)
    /\ WF_vars(RemoveRows)
    /\ WF_vars(RemoveChat)
    /\ \A g \in Generations : /\ WF_vars(LeaseLapses(g))
                               /\ WF_vars(CapabilityLapses(g))
                               /\ WF_vars(ExpireLease(g))

FairSpec == Spec /\ Fairness

---------------------------------------------------------------------------
\* Every record of the store and every actor has the shape the code gives it.
TypeOK ==
    /\ temporary \in BOOLEAN /\ opened \in BOOLEAN /\ expired \in BOOLEAN
    /\ chat \in Chats \cup {None}
    /\ gen \in [Generations -> Records \cup {None}]
    /\ output \in [Generations -> Seq(Events)]
    /\ cap \subseteq Generations /\ leaseRows \subseteq Generations
    /\ scanned \subseteq Generations
    /\ sender \in [Generations -> Senders]
    /\ worker \in [Generations -> Tasks]
    /\ calls \subseteq Callbacks
    /\ removing \in Removals \cup {None}
    /\ edit \in Chats \cup {None}
    /\ view \in Views
    /\ edits \in 0..Edits /\ faults \in 0..Faults

\* reserve and append agree on whose turn it is: the chat names exactly the
\* one generation that is not settled, so a finished turn never holds the
\* chat and two turns never run in it.
ActiveMatches ==
    ChatVisible => \A g \in Generations :
        (chat.active = g) <=> (gen[g] # None /\ gen[g].status \in Active)

\* However deliveries are retried, duplicated, reordered or lost, the text
\* of an answer is what the agent produced, from its start, with no piece
\* missing, repeated or out of order.
TextIsPrefix ==
    \A g \in Generations :
        LET text == Text(output[g])
        IN \A i \in DOMAIN text : text[i].n = i

\* A settled generation has one answer in the chat, with its status and its
\* text, and one question with the same status; an open one has no answer.
OneAnswer ==
    ChatVisible => \A g \in Generations :
        LET said(role) == {i \in DOMAIN chat.messages :
                              chat.messages[i].role = role
                              /\ chat.messages[i].gen = g}
        IN gen[g] # None =>
             /\ Cardinality(said("user")) = 1
             /\ \A i \in said("user") : chat.messages[i].status =
                    IF gen[g].status \in Active THEN "pending"
                    ELSE gen[g].status
             /\ Cardinality(said("assistant")) =
                    IF gen[g].status \in Active THEN 0 ELSE 1
             /\ \A i \in said("assistant") :
                    /\ chat.messages[i].status = gen[g].status
                    /\ chat.messages[i].text = Text(output[g])

\* What an answer rests on (its attachments, the results of the tools that
\* record, and what the earlier answers it was given rest on in turn) is in the
\* evidence stored with it, which is what later readers are authorized against
\* (record_evidence, send, append).  Mail, web pages and compiler jobs are not:
\* no tool records them.
EvidenceCovers ==
    chat # None => \A i \in DOMAIN chat.messages :
        LET m == chat.messages[i]
        IN \A j \in DOMAIN m.text : m.text[j].from \ Unrecorded \subseteq m.evidence

\* Without the exception: all that was retrieved is recorded.
AllEvidenceCovers ==
    chat # None => \A i \in DOMAIN chat.messages :
        LET m == chat.messages[i]
        IN \A j \in DOMAIN m.text : m.text[j].from \subseteq m.evidence

\* Moving a chat moves its generations, settled ones included, so that their
\* output can still be replayed to the readers of the chat.
SameScope ==
    ChatVisible => \A g \in Generations :
        gen[g] # None => gen[g].project = chat.project

\* A subscriber told that a generation ended has received its whole text and
\* the message that carries it.
ReplayIsComplete ==
    view.pc = "told" /\ view.status \in Terminal =>
        /\ view.message # None
        /\ view.message.status = view.status
        /\ view.message.text = view.text

\* A settled generation stays as it is: no late callback, sweep, cancel or
\* stale save reopens it or adds to its output.
SettledIsFinal ==
    [][\A g \in Generations :
          gen[g] # None /\ gen[g].status \in Terminal /\ gen'[g] # None =>
             gen'[g].status = gen[g].status /\ output'[g] = output[g]]_vars

\* While its lease is live a generation fails only because its submission was
\* refused or its worker says so, never because a sweep listed it earlier.
LeaseRespected ==
    [][\A g \in Generations :
          /\ gen[g] # None /\ gen[g].status \in Active /\ gen[g].leased
          /\ gen'[g] # None /\ gen'[g].status = "failed"
          => \/ sender[g].pc = "refused"
             \/ \E c \in calls : c.gen = g /\ c.kind = "failed"]_vars

\* Every turn ends: a generation that was opened is settled or removed, even
\* if its request died, its submission was lost or its worker hangs.
EveryTurnEnds ==
    \A g \in Generations :
        (gen[g] # None /\ gen[g].status \in Active)
            ~> (gen[g] = None \/ gen[g].status \in Terminal)

===========================================================================
