---------------------------- MODULE AuthzOutbox ----------------------------
(***************************************************************************)
(* Vision's authorization outbox: sink_to_db_batch (compute/tasks.py) commits    *)
(* the relationships of an object to authz_outbox, flushers                *)
(* (connectors/authz/outbox.py) claim due rows for 30 s, write them to     *)
(* SpiceDB and delete them.                                                *)
(*                                                                         *)
(* A payload is the tuples_json of a row.  next_retry_at is compared with  *)
(* the present only, so a row keeps one bit, `due`; Elapse is the passing  *)
(* of its lease or delay.  A row's id comes from a sequence and is never   *)
(* used again.  Each statement on the table is one transaction and one     *)
(* action; a flusher works on copies of the rows it claimed.               *)
(***************************************************************************)
EXTENDS Naturals, FiniteSets

CONSTANTS
    Objects,          \* (tenant, object) pairs, unique in the table
    Payloads,         \* relationships an object may be given
    Poison,           \* the payloads _parse_tuples refuses
    Refused,          \* parsed payloads that are never written: _validate_tuple
                      \* or SpiceDB's schema refuses one of their tuples
    NoPayload,        \* the payload of no row
    MaxLocalRetries,  \* spicedb.max_local_retries, 20 in the code
    BatchSize,        \* 50 in the code
    Flushers,         \* one per CPU instance of Vision
    MaxSerial         \* bound on the sequence, for TLC

ASSUME PayloadsAssumption ==
    /\ Poison \subseteq Payloads /\ Refused \subseteq Payloads \ Poison
    /\ NoPayload \notin Payloads
ASSUME BoundsAssumption ==
    MaxLocalRetries \in Nat \ {0} /\ BatchSize \in Nat /\ MaxSerial \in Nat

VARIABLES
    outbox,     \* authz_outbox
    serial,     \* last id handed out
    pc,         \* where each flusher stands
    batch,      \* copies each flusher has still to treat
    current,    \* the copy in its hands
    spicedb,    \* <<object, payload>> written
    dead,       \* <<object, payload>> published to the dead-letter topic
    latest,     \* history: the payload committed last for an object
    overtaken   \* history: it replaced one that a flusher had a copy of

vars == <<outbox, serial, pc, batch, current, spicedb, dead, latest, overtaken>>
history == <<latest, overtaken>>

---------------------------------------------------------------------------

Given == Payloads \cup {NoPayload}
Attempts == 0..MaxLocalRetries
Row == [id : Nat \ {0}, payload : Payloads, attempts : Attempts, due : BOOLEAN]
NoRow == [id |-> 0, payload |-> NoPayload, attempts |-> 0, due |-> FALSE]

OutboxRow == [id : Nat \ {0}, object : Objects, payload : Payloads,
              attempts : Attempts]
Copy(o) == [id |-> outbox[o].id, object |-> o, payload |-> outbox[o].payload,
            attempts |-> outbox[o].attempts]
NoCopy == [id |-> 0]

Steps == {"idle", "next", "delete", "bury", "reschedule"}

Pending(o) == outbox[o].id # 0
Held(o) == \E f \in Flushers : \E c \in batch[f] :
               c.object = o /\ c.id = outbox[o].id

\* A bound of the model: attempts grows for ever in the code; past the limit
\* nothing depends on it.
Counted(n) == IF n < MaxLocalRetries THEN n ELSE MaxLocalRetries

---------------------------------------------------------------------------
(* sink_to_db_batch: INSERT ... ON CONFLICT DO UPDATE SET tuples_json *)

Persist(o, p) ==
    /\ IF Pending(o)
         THEN /\ outbox' = [outbox EXCEPT ![o] =
                               [id |-> outbox[o].id, payload |-> p,
                                attempts |-> outbox[o].attempts, due |-> outbox[o].due]]
              /\ overtaken' = [overtaken EXCEPT ![o] =
                                  overtaken[o] \/ (p # outbox[o].payload /\ Held(o))]
              /\ UNCHANGED serial
         ELSE /\ serial < MaxSerial
              /\ outbox' = [outbox EXCEPT ![o] =
                               [id |-> serial + 1, payload |-> p,
                                attempts |-> 0, due |-> TRUE]]
              /\ overtaken' = [overtaken EXCEPT ![o] = FALSE]
              /\ serial' = serial + 1
    /\ latest' = [latest EXCEPT ![o] = p]
    /\ UNCHANGED <<pc, batch, current, spicedb, dead>>

---------------------------------------------------------------------------
(* _claim_due_rows *)

Leased(o) == [id |-> outbox[o].id, payload |-> outbox[o].payload,
              attempts |-> outbox[o].attempts, due |-> FALSE]

\* Rows that another transaction has locked are skipped: any due rows.
Claimable_BelowLimit == {o \in Objects : Pending(o) /\ outbox[o].due
                                         /\ outbox[o].attempts < MaxLocalRetries}
Claimable == {o \in Objects : Pending(o) /\ outbox[o].due}

Claim(f, taken) ==
    /\ pc[f] = "idle"
    /\ taken \subseteq Claimable
    /\ taken # {} /\ Cardinality(taken) <= BatchSize
    /\ outbox' = [o \in Objects |-> IF o \in taken THEN Leased(o) ELSE outbox[o]]
    /\ batch' = [batch EXCEPT ![f] = {Copy(o) : o \in taken}]
    /\ pc' = [pc EXCEPT ![f] = "next"]
    /\ UNCHANGED <<serial, current, spicedb, dead, history>>

\* _parse_tuples raises: a tuple is malformed or not scoped to the tenant.
Unparseable(c) == c.payload \in Poison

\* The rows come in any order; those that do not parse are ejected first.
Turn(f, c) ==
    /\ pc[f] = "next"
    /\ c \in batch[f]
    /\ Unparseable(c) \/ \A d \in batch[f] : ~Unparseable(d)

Take(f, c, step) == /\ current' = [current EXCEPT ![f] = c]
                    /\ pc' = [pc EXCEPT ![f] = step]

Delivery(c) == <<c.object, c.payload>>

\* _dlq_poison_pill publishes, and then deletes.
Eject(f, c) ==
    /\ Turn(f, c)
    /\ Unparseable(c)
    /\ dead' = dead \cup {Delivery(c)}
    /\ Take(f, c, "delete")
    /\ UNCHANGED <<outbox, serial, batch, spicedb, history>>

---------------------------------------------------------------------------
(* _flush_one *)

\* write_relationships raises before it writes, or SpiceDB refuses the request as
\* a whole, whenever this payload is tried.
Invalid(c) == c.payload \in Refused

Write(f, c) ==
    /\ Turn(f, c)
    /\ ~Unparseable(c) /\ ~Invalid(c)
    /\ spicedb' = spicedb \cup {Delivery(c)}
    /\ Take(f, c, "delete")
    /\ UNCHANGED <<outbox, serial, batch, dead, history>>

\* Where a failed write leads.
Escalation_Deletes(c) == IF c.attempts + 1 >= MaxLocalRetries THEN "delete" ELSE "reschedule"
Escalation(c) == IF c.attempts + 1 >= MaxLocalRetries THEN "bury" ELSE "reschedule"

Refuse(f, c) ==
    /\ Turn(f, c)
    /\ Invalid(c)
    /\ Take(f, c, Escalation(c))
    /\ UNCHANGED <<outbox, serial, batch, spicedb, dead, history>>

\* The call fails, before or after SpiceDB applied it.
FailWrite(f, c) ==
    /\ Turn(f, c)
    /\ ~Unparseable(c) /\ ~Invalid(c)
    /\ spicedb' \in {spicedb, spicedb \cup {Delivery(c)}}
    /\ Take(f, c, Escalation(c))
    /\ UNCHANGED <<outbox, serial, batch, dead, history>>

\* _send_to_dlq_and_reschedule: the row stays and is tried again in 60 s.
Bury(f) ==
    /\ pc[f] = "bury"
    /\ dead' = dead \cup {Delivery(current[f])}
    /\ pc' = [pc EXCEPT ![f] = "reschedule"]
    /\ UNCHANGED <<outbox, serial, batch, current, spicedb, history>>

\* The flusher turns to the next row of its batch.
Treated(f) ==
    LET left == batch[f] \ {current[f]} IN
    /\ batch' = [batch EXCEPT ![f] = left]
    /\ pc' = [pc EXCEPT ![f] = IF left = {} THEN "idle" ELSE "next"]
    /\ current' = [current EXCEPT ![f] = NoCopy]
    /\ UNCHANGED <<serial, spicedb, dead, history>>

\* WHERE id = ... AND tenant_id = ...
Matches(c) == outbox[c.object].id = c.id

\* A backoff may be zero.
Reschedule(f) ==
    /\ pc[f] = "reschedule"
    /\ LET c == current[f] IN
        \E due \in BOOLEAN :
          outbox' = IF Matches(c)
                      THEN [outbox EXCEPT ![c.object] =
                               [id |-> c.id, payload |-> outbox[c.object].payload,
                                attempts |-> Counted(c.attempts + 1), due |-> due]]
                      ELSE outbox
    /\ Treated(f)

Delete(f) ==
    /\ pc[f] = "delete"
    /\ LET c == current[f] IN
          outbox' = IF Matches(c) THEN [outbox EXCEPT ![c.object] = NoRow] ELSE outbox
    /\ Treated(f)

\* An exception ends the batch, or the process dies; rows keep their lease.
Break(f) ==
    /\ pc[f] # "idle"
    /\ pc' = [pc EXCEPT ![f] = "idle"]
    /\ batch' = [batch EXCEPT ![f] = {}]
    /\ current' = [current EXCEPT ![f] = NoCopy]
    /\ UNCHANGED <<outbox, serial, spicedb, dead, history>>

\* A lease or a delay is over.
Elapse(o) ==
    /\ Pending(o) /\ ~outbox[o].due
    /\ outbox' = [outbox EXCEPT ![o] =
                     [id |-> outbox[o].id, payload |-> outbox[o].payload,
                      attempts |-> outbox[o].attempts, due |-> TRUE]]
    /\ UNCHANGED <<serial, pc, batch, current, spicedb, dead, history>>

---------------------------------------------------------------------------

Init ==
    /\ outbox = [o \in Objects |-> NoRow]
    /\ serial = 0
    /\ pc = [f \in Flushers |-> "idle"]
    /\ batch = [f \in Flushers |-> {}]
    /\ current = [f \in Flushers |-> NoCopy]
    /\ spicedb = {} /\ dead = {}
    /\ latest = [o \in Objects |-> NoPayload]
    /\ overtaken = [o \in Objects |-> FALSE]

\* What a flusher does while its services work.
Proceed(f) ==
    \/ \E taken \in SUBSET Objects : Claim(f, taken)
    \/ \E c \in batch[f] : Eject(f, c) \/ Write(f, c) \/ Refuse(f, c)
    \/ Bury(f) \/ Reschedule(f) \/ Delete(f)

Fault(f) == Break(f) \/ \E c \in batch[f] : FailWrite(f, c)

Next ==
    \/ \E o \in Objects, p \in Payloads : Persist(o, p)
    \/ \E o \in Objects : Elapse(o)
    \/ \E f \in Flushers : Proceed(f) \/ Fault(f)

Spec == Init /\ [][Next]_vars

\* Leases and delays end, flushers go on, and a row that is due again and again
\* is claimed: ORDER BY next_retry_at.  Faults may happen any number of times but
\* cease: SpiceDB and the database come back.  Refusals do not cease.
FairSpec ==
    /\ Spec
    /\ \A o \in Objects : WF_vars(Elapse(o))
    /\ \A f \in Flushers : WF_vars(Proceed(f))
    /\ \A o \in Objects :
          SF_vars(\E f \in Flushers, taken \in SUBSET Objects :
                      o \in taken /\ Claim(f, taken))
    /\ <>[][~\E f \in Flushers : Fault(f)]_vars

---------------------------------------------------------------------------
(* Properties *)

TypeOK ==
    /\ outbox \in [Objects -> Row \cup {NoRow}]
    /\ serial \in Nat
    /\ pc \in [Flushers -> Steps]
    /\ batch \in [Flushers -> SUBSET OutboxRow]
    /\ DOMAIN current = Flushers
    /\ \A f \in Flushers : IF pc[f] \in {"idle", "next"} THEN current[f] = NoCopy
                           ELSE current[f] \in batch[f]
    /\ spicedb \subseteq Objects \X Payloads
    /\ dead \subseteq Objects \X Payloads
    /\ latest \in [Objects -> Given]
    /\ overtaken \in [Objects -> BOOLEAN]

\* What was committed last for an object is still in its row, or in SpiceDB, or
\* was ejected because it does not parse.
Kept(o) == \/ Pending(o) /\ outbox[o].payload = latest[o]
           \/ <<o, latest[o]>> \in spicedb
           \/ latest[o] \in Poison /\ <<o, latest[o]>> \in dead

\* Through crashes, double claims, lost answers, refusals and dead letters, what
\* was committed last for an object is kept, unless some payload of its present
\* row was replaced while a flusher had a copy of it (overtaken is set from then
\* until a new row is inserted).
KeptUnlessOvertaken ==
    \A o \in Objects : latest[o] # NoPayload => Kept(o) \/ overtaken[o]

\* A "persistent transactional queue" whose updates reach SpiceDB "reliably":
\* the relationships committed last for an object are never lost.
LatestIsKept == \A o \in Objects : latest[o] # NoPayload => Kept(o)

\* The row can never be written, and its payload is on the dead-letter topic.
Parked(o) == outbox[o].payload \in Refused /\ <<o, outbox[o].payload>> \in dead

\* Once SpiceDB is back every row leaves the outbox, dead-lettered ones included,
\* but for the rows SpiceDB will never take: those are dead-lettered, and stay,
\* tried again every 60 s, without holding up the others.
EventuallyDrained == \A o \in Objects : Pending(o) ~> (~Pending(o) \/ Parked(o))
=============================================================================
