------------------------- MODULE CommandExecution -------------------------
(***************************************************************************)
(* Vision's at-least-once execution of pipeline commands: the Postgres     *)
(* ledger (platform/vision/.../pipeline/ledger.py), the command handler    *)
(* (streaming/handlers.py) and the Kafka subscriber that acknowledges what *)
(* it handled (streaming/app.py).                                          *)
(*                                                                         *)
(* A command is known by its idempotency key; a message is a key with an   *)
(* attempt number.  Kafka keeps every message (`log`) and redelivers the   *)
(* ones whose offset is not committed (`inbox`); after a rebalance, a lost *)
(* commit or a replay upstream, two workers may hold the same message and  *)
(* a committed one may come back.  Every ledger operation is one           *)
(* transaction and so one action.                                          *)
(*                                                                         *)
(* lease_expires_at is compared with NOW() only, so a row keeps one bit:   *)
(* whether its lease is still live.  LeaseEnds is the passing of 900 s.    *)
(***************************************************************************)
EXTENDS Naturals, FiniteSets

CONSTANTS
    Keys,        \* idempotency keys
    Results,     \* outputs a step may produce; a model need not repeat itself
    NoResult,    \* result IS NULL
    MaxRetries,  \* route.max_retries
    Workers      \* handlers running at one time

ASSUME ResultsAssumption == NoResult \notin Results
ASSUME RetriesAssumption == MaxRetries \in Nat

VARIABLES
    ledger,     \* pipeline_executions
    log,        \* messages ever published to the command topic
    inbox,      \* messages whose offset is not committed
    worker,     \* what each handler is doing
    begun,      \* <<key, result>> whose publication downstream has started
    sent,       \* <<key, result>> whose successors were all published
    dead,       \* messages published to the dead-letter topic
    rejected    \* messages dropped by the subscriber

vars == <<ledger, log, inbox, worker, begun, sent, dead, rejected>>
topics == <<log, inbox, begun, sent, dead, rejected>>

---------------------------------------------------------------------------

Attempts == 0..MaxRetries
Message == [key : Keys, attempt : Attempts]

Status == {"absent", "running", "completed", "failed"}
Row == [status : Status, live : BOOLEAN, result : Results \cup {NoResult}]
NoRow == [status |-> "absent", live |-> FALSE, result |-> NoResult]

\* Where a handler stands.  "replay" publishes a stored result, "publish" a
\* fresh one: only the latter is inside the try block.
Steps == {"idle", "claimed", "complete", "publish", "replay", "fail", "recover", "ack"}
Executing == {"claimed", "complete"}

Handler == [pc : Steps, msg : Message, result : Results \cup {NoResult}, live : BOOLEAN]
Idle == [pc |-> "idle"]

Key(w) == worker[w].msg.key

\* The handler goes on to a step, with result r.
With(w, step, r) ==
    worker' = [worker EXCEPT ![w] = [pc |-> step, msg |-> worker[w].msg, result |-> r,
                                     live |-> worker[w].live]]
Goto(w, step) == With(w, step, worker[w].result)
Free(w) == worker' = [worker EXCEPT ![w] = Idle]

---------------------------------------------------------------------------
(* claim *)

Claimable_NoExpiry(k) == ledger[k].status \in {"absent", "failed"}
\* INSERT ... ON CONFLICT DO NOTHING, or UPDATE ... WHERE failed or expired
Claimable(k) == \/ ledger[k].status \in {"absent", "failed"}
                \/ ~ledger[k].live

\* result is not cleared: the row keeps an older one.
Acquire(w, m) ==
    /\ worker[w].pc = "idle"
    /\ m \in inbox
    /\ Claimable(m.key)
    /\ ledger' = [ledger EXCEPT ![m.key] = [status |-> "running", live |-> TRUE,
                                            result |-> ledger[m.key].result]]
    /\ worker' = [worker EXCEPT ![w] = [pc |-> "claimed", msg |-> m,
                                        result |-> NoResult, live |-> TRUE]]
    /\ UNCHANGED topics

\* COMPLETED: the stored result is published again.
Replay(w, m) ==
    /\ worker[w].pc = "idle"
    /\ m \in inbox
    /\ ~Claimable(m.key)
    /\ ledger[m.key].status = "completed"
    /\ worker' = [worker EXCEPT ![w] = [pc |-> "replay", msg |-> m,
                                        result |-> ledger[m.key].result,
                                        live |-> FALSE]]
    /\ UNCHANGED <<ledger, topics>>

\* IN_PROGRESS: CommandInProgress, nack.  Nothing changes.

---------------------------------------------------------------------------
(* dispatch, complete *)

Dispatched_PublishFirst(w, r) ==
    /\ worker[w].pc = "claimed"
    /\ With(w, "publish", r)
    /\ UNCHANGED <<ledger, topics>>
Dispatched(w, r) ==
    /\ worker[w].pc = "claimed"
    /\ With(w, "complete", r)
    /\ UNCHANGED <<ledger, topics>>

\* The actor fails, or its output names no declared branch.
DispatchFailed(w) ==
    /\ worker[w].pc = "claimed"
    /\ Goto(w, "fail")
    /\ UNCHANGED <<ledger, topics>>

Completable(k) == ledger[k].status = "running"

Complete(w) ==
    /\ worker[w].pc = "complete"
    /\ Completable(Key(w))
    /\ ledger' = [ledger EXCEPT ![Key(w)] =
                     [status |-> "completed", live |-> ledger[Key(w)].live,
                      result |-> worker[w].result]]
    /\ \/ Goto(w, "publish")
       \/ Goto(w, "fail")       \* committed, but the answer was lost
    /\ UNCHANGED topics

\* "Execution lease was lost before completion", or the database failed.
CompleteFailed(w) ==
    /\ worker[w].pc = "complete"
    /\ Goto(w, "fail")
    /\ UNCHANGED <<ledger, topics>>

---------------------------------------------------------------------------
(* _publish_successors *)

Announced(w) == <<Key(w), worker[w].result>>

Publish(w) ==
    /\ worker[w].pc \in {"publish", "replay"}
    /\ begun' = begun \cup {Announced(w)}
    /\ sent' = sent \cup {Announced(w)}
    /\ Goto(w, "ack")
    /\ UNCHANGED <<ledger, log, inbox, dead, rejected>>

\* Some of it was published.  Outside the try block the message is nacked.
PublishFailed(w) ==
    /\ worker[w].pc \in {"publish", "replay"}
    /\ begun' = begun \cup {Announced(w)}
    /\ IF worker[w].pc = "publish" THEN Goto(w, "fail")
       ELSE Free(w)
    /\ UNCHANGED <<ledger, log, inbox, sent, dead, rejected>>

---------------------------------------------------------------------------
(* fail, _handle_failure *)

Releasable_Always(k) == TRUE
Releasable(k) == ledger[k].status = "running"

Fail(w) ==
    /\ worker[w].pc = "fail"
    /\ ledger' = IF Releasable(Key(w))
                   THEN [ledger EXCEPT ![Key(w)] =
                            [status |-> "failed", live |-> ledger[Key(w)].live,
                             result |-> ledger[Key(w)].result]]
                   ELSE ledger
    /\ Goto(w, "recover")
    /\ UNCHANGED topics

Retry(w) ==
    LET m == worker[w].msg
        next == [key |-> m.key, attempt |-> m.attempt + 1] IN
    /\ worker[w].pc = "recover"
    /\ m.attempt < MaxRetries
    /\ log' = log \cup {next}
    /\ inbox' = inbox \cup {next}
    /\ Goto(w, "ack")
    /\ UNCHANGED <<ledger, begun, sent, dead, rejected>>

DeadLetter(w) ==
    /\ worker[w].pc = "recover"
    /\ worker[w].msg.attempt >= MaxRetries
    /\ dead' = dead \cup {worker[w].msg}
    /\ Goto(w, "ack")
    /\ UNCHANGED <<ledger, log, inbox, begun, sent, rejected>>

---------------------------------------------------------------------------
(* The subscriber *)

Ack(w) ==
    /\ worker[w].pc = "ack"
    /\ inbox' = inbox \ {worker[w].msg}
    /\ Free(w)
    /\ UNCHANGED <<ledger, log, begun, sent, dead, rejected>>

\* The process dies, the partition is revoked and the handler cancelled, or an
\* exception leaves handle outside its try block (the RUNNING lineage event,
\* ledger.fail, the retry): the message is not acknowledged and the row stays.
Nack_ButAck(w) ==
    /\ worker[w].pc # "idle"
    /\ inbox' = inbox \ {worker[w].msg}
    /\ Free(w)
    /\ UNCHANGED <<ledger, log, begun, sent, dead, rejected>>
Nack(w) ==
    /\ worker[w].pc # "idle"
    /\ Free(w)
    /\ UNCHANGED <<ledger, topics>>

\* The command names a revision that is not loaded, or another resource class.
Reject(m) ==
    /\ m \in inbox
    /\ inbox' = inbox \ {m}
    /\ rejected' = rejected \cup {m}
    /\ UNCHANGED <<ledger, log, worker, begun, sent, dead>>

---------------------------------------------------------------------------
(* The environment *)

\* Ingress, the timer or an upstream step publishes the command.
Accept(k) ==
    LET m == [key |-> k, attempt |-> 0] IN
    /\ m \notin log
    /\ log' = log \cup {m}
    /\ inbox' = inbox \cup {m}
    /\ UNCHANGED <<ledger, worker, begun, sent, dead, rejected>>

\* A duplicate publication upstream, or an offset commit that was lost.
Redeliver(m) ==
    /\ m \in log \ inbox
    /\ inbox' = inbox \cup {m}
    /\ UNCHANGED <<ledger, log, worker, begun, sent, dead, rejected>>

\* The lease of a row ends, and with it every claim made before.
LeaseEnds(k) ==
    /\ ledger[k].live
    /\ ledger' = [ledger EXCEPT ![k] = [status |-> ledger[k].status, live |-> FALSE,
                                        result |-> ledger[k].result]]
    /\ worker' = [w \in Workers |->
                     IF worker[w].pc # "idle" /\ Key(w) = k
                       THEN [pc |-> worker[w].pc, msg |-> worker[w].msg,
                             result |-> worker[w].result, live |-> FALSE]
                       ELSE worker[w]]
    /\ UNCHANGED topics

---------------------------------------------------------------------------

Init ==
    /\ ledger = [k \in Keys |-> NoRow]
    /\ log = {} /\ inbox = {}
    /\ worker = [w \in Workers |-> Idle]
    /\ begun = {} /\ sent = {} /\ dead = {} /\ rejected = {}

Handle(w) ==
    \/ \E m \in inbox : Acquire(w, m) \/ Replay(w, m)
    \/ \E r \in Results : Dispatched(w, r)
    \/ DispatchFailed(w)
    \/ Complete(w)
    \/ CompleteFailed(w)
    \/ Publish(w)
    \/ PublishFailed(w)
    \/ Fail(w)
    \/ Retry(w)
    \/ DeadLetter(w)
    \/ Ack(w)
    \/ Nack(w)

Next ==
    \/ \E w \in Workers : Handle(w)
    \/ \E k \in Keys : Accept(k) \/ LeaseEnds(k)
    \/ \E m \in log : Redeliver(m) \/ Reject(m)

Spec == Init /\ [][Next]_vars

\* A handler that is neither killed nor refused goes on: its awaits return.
Proceed(w) == Handle(w) /\ ~Nack(w)

\* Crashes, rebalances, broker failures and duplicates.
Fault == \/ \E w \in Workers : Nack(w) \/ PublishFailed(w)
         \/ \E m \in log : Redeliver(m)

\* Kafka delivers what is not committed, handlers go on and leases end; any
\* number of faults may happen, but they cease.
FairSpec ==
    /\ Spec
    /\ \A k \in Keys : WF_vars(LeaseEnds(k))
    /\ \A w \in Workers : WF_vars(Proceed(w))
    /\ <>[][~Fault]_vars

---------------------------------------------------------------------------
(* Properties *)

TypeOK ==
    /\ ledger \in [Keys -> Row]
    /\ log \subseteq Message
    /\ inbox \subseteq log
    /\ DOMAIN worker = Workers
    /\ \A w \in Workers : worker[w] = Idle \/ worker[w] \in Handler
    /\ begun \subseteq Keys \X Results
    /\ sent \subseteq begun
    /\ dead \subseteq Message
    /\ rejected \subseteq Message

Published(k) == \E r \in Results : <<k, r>> \in sent

\* What became of a message that will not be delivered again.
FollowedUp(m) ==
    \/ Published(m.key)
    \/ m \in dead
    \/ m \in rejected
    \/ [key |-> m.key, attempt |-> m.attempt + 1] \in log

\* No command is lost: a message is acknowledged only after its successors,
\* its retry or its dead letter were published, whatever crashed in between.
NoSilentLoss == \A m \in log : m \in inbox \/ FollowedUp(m)

\* "Persists a successful result before downstream publication": nothing is
\* announced downstream for a command whose row holds no result.
AnnouncedIsStored == \A p \in begun : ledger[p[1]].result # NoResult

\* While its lease lives, a completed row is immutable: of two executors of one
\* command the first to complete wins, and a late failure does not undo it.
CompletedHolds ==
    [][\A k \in Keys : (ledger[k].status = "completed" /\ ledger[k].live) =>
           ledger'[k].status = "completed" /\ ledger'[k].result = ledger[k].result]_vars

\* Every command accepted ends announced, dead-lettered or rejected.
Settled(k) == Published(k) \/ \E m \in dead \cup rejected : m.key = k
EventuallySettled ==
    \A k \in Keys : (\E m \in log : m.key = k) ~> Settled(k)

\* "completed replays use the stored branch and do not call a model again": all
\* that is announced downstream for one command is one result.
OneDecision == \A p, q \in begun : p[1] = q[1] => p[2] = q[2]

\* "Acquires new, failed, or expired work without stealing live tasks": two
\* executors of one command are never both inside their leases.
NoStealing ==
    \A v, w \in Workers :
        (/\ v # w
         /\ worker[v].pc \in Executing /\ worker[w].pc \in Executing
         /\ Key(v) = Key(w))
        => ~(worker[v].live /\ worker[w].live)
=============================================================================
