------------------------- MODULE DocumentCompiler -------------------------
(***************************************************************************)
(* The document compiler around its queue                                  *)
(* (services/document-compiler/src/application.rs): submissions that write *)
(* their input to S3 and then enqueue, worker tasks that claim, execute    *)
(* under a 75 s timeout, store the PDF and report, a cleaner per           *)
(* controller, and controllers that crash and restart.  The queue is       *)
(* CompilationQueue, whose actions appear as conjuncts.                    *)
(*                                                                         *)
(* S3 (objects.rs) is external: put_new creates an object or accepts an    *)
(* identical one, and a failed call may or may not have taken effect.  The *)
(* engine is deterministic (SOURCE_DATE_EPOCH=0), so a PDF is identified   *)
(* by the fingerprint of the input it was made from.  Gateway's answers    *)
(* are external too: it may refuse at any time and it always refuses an    *)
(* expired capability.                                                     *)
(***************************************************************************)
EXTENDS CompilationQueue

CONSTANTS
    Controllers,   \* running instances of the service (one as deployed)
    Workers,       \* task slots, two per controller in the code
    HostOf,        \* the controller of a slot
    Clients,       \* concurrent submissions
    ClientHost,    \* the controller that serves a client
    ExecMs         \* the 75 s timeout around execute

ASSUME HostsAssumption == /\ HostOf \in [Workers -> Controllers]
                          /\ ClientHost \in [Clients -> Controllers]
\* 75 s and the latency of a claim against the 90 s lease.
ASSUME ExecAssumption == /\ ExecMs \in Nat
                         /\ ExecMs + LatencyMs <= LeaseMs
                         /\ CapabilityMs + SubmitMs + ExecMs < RetentionMs

VARIABLES
    json,      \* the stored input of a job: its fingerprint, or NoPrint
    pdf,       \* the stored output of a job
    task,      \* what each slot is doing
    cleaner,   \* what each controller's cleanup task is doing
    sub        \* what each submission in flight is doing

queueVars == vars
objects == <<json, pdf>>
system == <<rows, clock, issued, claims, purges, capability,
            json, pdf, task, cleaner, sub>>

Prints == Fingerprints \cup {NoPrint}

Idle == [pc |-> "idle"]
Executing == {"authorize", "read", "compile", "recheck", "store"}
Busy(w) == task[w].pc # "idle"
Runs(w) == task[w].pc \in Executing
Job(w) == task[w].claim.id

\* The capability is accepted until it expires.
Live(j) == capability[j] # 0 /\ clock < capability[j]

\* put_new: If-None-Match, and on 412 the stored bytes must be the same.
CanPut(store, j, f) == store[j] \in {NoPrint, f}

---------------------------------------------------------------------------
(* submit *)

\* resolve, template checks and render succeed, or the call ends here.
Submit(s, j, f) ==
    /\ sub[s] = Idle
    /\ Live(j)
    /\ sub' = [sub EXCEPT ![s] = [pc |-> "put", id |-> j, print |-> f,
                                  until |-> clock + SubmitMs]]
    /\ UNCHANGED <<queueVars, objects, task, cleaner>>

PutInput(s) ==
    /\ sub[s].pc = "put"
    /\ CanPut(json, sub[s].id, sub[s].print)
    /\ json' = [json EXCEPT ![sub[s].id] = sub[s].print]
    /\ sub' = [sub EXCEPT ![s].pc = "enqueue"]
    /\ UNCHANGED <<queueVars, pdf, task, cleaner>>

\* The call ends with an error: a conflict, a storage or queue failure, a full
\* queue, or a repeated submission that finds its row.
EndSubmit(s) ==
    /\ sub[s].pc \in {"put", "enqueue"}
    /\ sub' = [sub EXCEPT ![s] = Idle]
    /\ UNCHANGED <<queueVars, objects, task, cleaner>>

EnqueueInput(s, t) ==
    /\ sub[s].pc = "enqueue"
    /\ Insert(sub[s].id, sub[s].print, t)
    /\ sub' = [sub EXCEPT ![s] = Idle]
    /\ UNCHANGED <<objects, task, cleaner>>

\* get_job with cancel: the caller resolved a live capability first.
CancelJob(j) ==
    /\ WindowOpen(j)
    /\ Cancel(j)
    /\ UNCHANGED <<objects, task, cleaner, sub>>

---------------------------------------------------------------------------
(* run and execute *)

\* A free slot polls the queue; the timeout runs from the moment claim returns.
ClaimJob(w, j, t) ==
    /\ ~Busy(w)
    /\ Grant(j, t)
    /\ task' = [task EXCEPT ![w] =
                   [pc |-> "authorize", ok |-> FALSE,
                    claim |-> CHOOSE c \in claims' \ claims : TRUE,
                    deadline |-> clock + ExecMs]]
    /\ UNCHANGED <<objects, cleaner, sub>>

PollGivesUp(w, j, t) ==
    /\ ~Busy(w)
    /\ GiveUp(j, t)
    /\ UNCHANGED <<objects, task, cleaner, sub>>

Goto(w, from, to) == /\ task[w].pc = from
                     /\ task' = [task EXCEPT ![w].pc = to]
                     /\ UNCHANGED <<queueVars, cleaner, sub>>

\* resolve and template(Use)
Authorize(w) ==
    /\ Goto(w, "authorize", "read")
    /\ Live(Job(w))
    /\ UNCHANGED objects

\* get the input, compare its digest, resolve again and compare the grant.
ReadInput(w) ==
    /\ Goto(w, "read", "compile")
    /\ json[Job(w)] = task[w].claim.fingerprint
    /\ Live(Job(w))
    /\ UNCHANGED objects

\* The compile future wins the select.
Compiled(w) ==
    /\ Goto(w, "compile", "recheck")
    /\ UNCHANGED objects

\* The 500 ms poll sees another status or another lease.
Interrupted(w) ==
    /\ task[w].pc = "compile"
    /\ ~Fenced(task[w].claim)
    /\ task' = [task EXCEPT ![w].pc = "ended"]
    /\ UNCHANGED <<queueVars, objects, cleaner, sub>>

\* template(Use) before storing
Recheck(w) ==
    /\ Goto(w, "recheck", "store")
    /\ Live(Job(w))
    /\ UNCHANGED objects

\* put_new of the PDF; ok is FALSE when the call fails after taking effect.
StorePdf(w, ok) ==
    /\ task[w].pc = "store"
    /\ CanPut(pdf, Job(w), task[w].claim.fingerprint)
    /\ pdf' = [pdf EXCEPT ![Job(w)] = task[w].claim.fingerprint]
    /\ task' = [task EXCEPT ![w].pc = "ended", ![w].ok = ok]
    /\ UNCHANGED <<queueVars, json, cleaner, sub>>

\* Any step may return an error, and the timeout drops the whole future.
Fail(w) ==
    /\ Runs(w)
    /\ task' = [task EXCEPT ![w].pc = "ended"]
    /\ UNCHANGED <<queueVars, objects, cleaner, sub>>

Report(w) ==
    /\ task[w].pc = "ended"
    /\ Finish(task[w].claim, task[w].ok)
    /\ task' = [task EXCEPT ![w] = Idle]
    /\ UNCHANGED <<objects, cleaner, sub>>

\* finish returns an error, which is only logged.
ReportLost(w) ==
    /\ task[w].pc = "ended"
    /\ claims' = claims \ {task[w].claim}
    /\ task' = [task EXCEPT ![w] = Idle]
    /\ UNCHANGED <<rows, clock, issued, purges, capability, objects, cleaner, sub>>

---------------------------------------------------------------------------
(* cleanup *)

Resting == [pc |-> "idle", todo |-> {}]

HeldCopies(c) == UNION {c[k].todo : k \in Controllers}

StartCleanup(k, t) ==
    /\ cleaner[k].pc = "idle"
    /\ \E batch \in PurgeBatch(t) :
        /\ batch # {}
        /\ Expire(batch)
        /\ cleaner' = [cleaner EXCEPT ![k] =
                          [pc |-> "json", todo |-> {Copy(j) : j \in batch}]]
    /\ UNCHANGED <<objects, task, sub>>

\* The rows are treated one after the other, in the order they came.
Current(k) == CHOOSE p \in cleaner[k].todo : TRUE

DeleteInput(k) ==
    /\ cleaner[k].pc = "json"
    /\ json' = [json EXCEPT ![Current(k).id] = NoPrint]
    /\ cleaner' = [cleaner EXCEPT ![k].pc = "pdf"]
    /\ UNCHANGED <<queueVars, pdf, task, sub>>

DeletePdf(k) ==
    /\ cleaner[k].pc = "pdf"
    /\ pdf' = [pdf EXCEPT ![Current(k).id] = NoPrint]
    /\ cleaner' = [cleaner EXCEPT ![k].pc = "forget"]
    /\ UNCHANGED <<queueVars, json, task, sub>>

ForgetRow(k) ==
    /\ cleaner[k].pc = "forget"
    /\ LET left == cleaner[k].todo \ {Current(k)} IN
        cleaner' = [cleaner EXCEPT ![k] = IF left = {} THEN Resting
                                          ELSE [pc |-> "json", todo |-> left]]
    /\ Forget(Current(k))
    /\ purges' = HeldCopies(cleaner')
    /\ UNCHANGED <<objects, task, sub>>

\* An error of any call ends the cycle.
EndCleanup(k) ==
    /\ cleaner[k].pc # "idle"
    /\ cleaner' = [cleaner EXCEPT ![k] = Resting]
    /\ purges' = HeldCopies(cleaner')
    /\ UNCHANGED <<rows, clock, issued, claims, capability, objects, task, sub>>

---------------------------------------------------------------------------
(* Failure, time and authority *)

\* The process dies, or shuts down and aborts its tasks; a new one starts with
\* free slots.  Only the queue and the bucket survive.
Crash(k) ==
    LET dead == {w \in Workers : HostOf[w] = k} IN
    /\ \/ \E w \in dead : Busy(w)
       \/ cleaner[k].pc # "idle"
       \/ \E s \in Clients : ClientHost[s] = k /\ sub[s] # Idle
    /\ task' = [w \in Workers |-> IF w \in dead THEN Idle ELSE task[w]]
    /\ claims' = claims \ {task[w].claim : w \in {v \in dead : Busy(v)}}
    /\ cleaner' = [cleaner EXCEPT ![k] = Resting]
    /\ purges' = HeldCopies(cleaner')
    /\ sub' = [s \in Clients |-> IF ClientHost[s] = k THEN Idle ELSE sub[s]]
    /\ UNCHANGED <<rows, clock, issued, capability, objects>>

\* Time does not pass a deadline that ends a task or a call.
Pass_NoTimeout ==
    /\ \A s \in Clients : sub[s] # Idle => clock < sub[s].until
    /\ Tick
    /\ UNCHANGED <<objects, task, cleaner, sub>>
Pass ==
    /\ \A w \in Workers : Runs(w) => clock < task[w].deadline
    /\ \A s \in Clients : sub[s] # Idle => clock < sub[s].until
    /\ Tick
    /\ UNCHANGED <<objects, task, cleaner, sub>>

MintCapability(j) ==
    /\ Mint(j)
    /\ UNCHANGED <<objects, task, cleaner, sub>>

---------------------------------------------------------------------------

SystemInit ==
    /\ Init
    /\ json = [j \in Jobs |-> NoPrint]
    /\ pdf = [j \in Jobs |-> NoPrint]
    /\ task = [w \in Workers |-> Idle]
    /\ cleaner = [k \in Controllers |-> Resting]
    /\ sub = [s \in Clients |-> Idle]

Execute(w) == \/ Authorize(w) \/ ReadInput(w) \/ Compiled(w) \/ Interrupted(w)
              \/ Recheck(w) \/ Fail(w)
              \/ \E ok \in BOOLEAN : StorePdf(w, ok)

Call(s) == \/ PutInput(s) \/ EndSubmit(s)
           \/ \E t \in Stamps : EnqueueInput(s, t)

Cleanup(k) == DeleteInput(k) \/ DeletePdf(k) \/ ForgetRow(k) \/ EndCleanup(k)

Poll(w) == \E j \in Jobs, t \in Stamps : ClaimJob(w, j, t) \/ PollGivesUp(w, j, t)

SystemNext ==
    \/ Pass
    \/ \E j \in Jobs : MintCapability(j) \/ CancelJob(j)
    \/ \E s \in Clients, j \in Jobs, f \in Fingerprints : Submit(s, j, f)
    \/ \E s \in Clients : Call(s)
    \/ \E w \in Workers : Poll(w) \/ Execute(w) \/ Report(w) \/ ReportLost(w)
    \/ \E k \in Controllers, t \in Stamps : StartCleanup(k, t)
    \/ \E k \in Controllers : Cleanup(k) \/ Crash(k)

System == SystemInit /\ [][SystemNext]_system
\* The run loop polls every 250 ms and a finished task reports at once: both
\* are far shorter than a unit of time, so time waits for them.
PollDue == /\ \E w \in Workers : ~Busy(w)
           /\ \E j \in Jobs : Eligible(j, clock)
ReportDue == \E w \in Workers : task[w].pc = "ended"

PunctualNext == /\ SystemNext
                /\ clock' # clock => ~PollDue /\ ~ReportDue

\* Time passes however often clients call, the loop polls, a task reaches its
\* end (the timeout sees to it) and reports, a call in flight ends.  Nothing
\* is assumed of new submissions, cleaners and crashes.
FairSystem ==
    /\ SystemInit /\ [][PunctualNext]_system
    /\ SF_system(Pass /\ ~PollDue /\ ~ReportDue)
    /\ WF_system(\E w \in Workers : Poll(w))
    /\ \A w \in Workers : WF_system(Execute(w))
                          /\ WF_system(Report(w) \/ ReportLost(w))
    /\ \A s \in Clients : WF_system(Call(s))

---------------------------------------------------------------------------
(* Properties *)

Tasks == [pc : Executing \cup {"ended"}, ok : BOOLEAN, claim : Claim,
          deadline : Nat]
Submissions == [pc : {"put", "enqueue"}, id : Jobs, print : Fingerprints,
                until : Nat]
Cleanings == [pc : {"idle", "json", "pdf", "forget"}, todo : SUBSET Purge]

SystemTypeOK ==
    /\ TypeOK
    /\ json \in [Jobs -> Prints]
    /\ pdf \in [Jobs -> Prints]
    /\ task \in [Workers -> Tasks \cup {Idle}]
    /\ cleaner \in [Controllers -> Cleanings]
    /\ sub \in [Clients -> Submissions \cup {Idle}]

\* Whoever executes a job owns its row: the row exists with that worker's
\* lease and is running, or was cancelled under it.  So no two workers ever
\* execute one job, no outcome is published while its worker runs, and no
\* retry limit strikes a live worker.
ExecutingOwnsRow ==
    \A w \in Workers : Runs(w) =>
        /\ rows[Job(w)].lease = task[w].claim.lease
        /\ rows[Job(w)].status \in {"running", "cancelled"}

\* A job that may still be executed has its input in the bucket, although the
\* two are written in separate steps and a cleaner deletes by job id.
ActiveHasInput ==
    \A j \in Jobs : Active(j) => json[j] = rows[j].fingerprint

\* A completed job's PDF, made from that job's input, stays for seven days.
CompletedHasPdf ==
    \A j \in Jobs :
        (rows[j].status = "completed" /\ clock < rows[j].created_at + RetentionMs)
            => pdf[j] = rows[j].fingerprint

\* No PDF outlives its row: nothing is stored for a job that was purged, so the
\* seven-day deletion of outputs is complete without the bucket's lifecycle rule.
NoOrphanPdf == \A j \in Jobs : pdf[j] # NoPrint => Exists(j)

\* The longest an admitted job may take when every attempt dies: the leases of
\* all attempts run out one after the other.
Budget == MaxAttempts * (LeaseMs + 1) + LatencyMs

\* Every admitted job ends, through crashes, lost reports and lost authority.
\* (Jobs admitted too close to the end of modelled time are exempt.)
EventuallyEnds ==
    \A j \in Jobs :
        (Active(j) /\ rows[j].created_at + Budget <= MaxClock) ~> Terminal(j)
=============================================================================
