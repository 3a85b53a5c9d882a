---------------------------- MODULE Supervisor ----------------------------
(***************************************************************************)
(* The sandbox supervisor of the document compiler                         *)
(* (services/document-compiler/src/supervisor.rs): it spawns one engine    *)
(* process per compilation under a semaphore, and kills and reaps it.      *)
(*                                                                         *)
(* A call of compile belongs to a task slot of the run loop.  The future   *)
(* may be dropped at any await: the 500 ms poll saw a cancellation, the    *)
(* 75 s timeout fired, or the controller shuts down.  While the operation  *)
(* runs, the future owns the process guard (Running) and dropping it kills *)
(* and reaps at once.  Afterwards the guard is moved into a blocking task, *)
(* which survives the future: the process is then nobody's in `guard`.     *)
(***************************************************************************)
EXTENDS Naturals, FiniteSets

CONSTANTS
    Slots,      \* the run loop's tasks, two in the code
    Permits,    \* Semaphore::new(2)
    Pids,       \* process ids the kernel hands out
    NoPid       \* Running.pid = None

ASSUME PermitsAssumption == Permits \in Nat
ASSUME PidsAssumption == NoPid \notin Pids
\* run keeps no more tasks than the supervisor has permits.
ASSUME RunLoopAssumption == IsFiniteSet(Slots) /\ Cardinality(Slots) <= Permits

VARIABLES
    call,      \* per slot: no call, the operation runs, or cleanup is awaited
    guard,     \* per slot: the pid its call answers for
    process,   \* per pid: what the kernel has
    permits    \* permits left in the semaphore

vars == <<call, guard, process, permits>>

Phase == {"none", "operation", "cleanup"}
Unreaped == {"alive", "zombie"}
Process == {"gone"} \cup Unreaped

To(s, phase) == call' = [call EXCEPT ![s] = phase]
Release(s) == guard' = [guard EXCEPT ![s] = NoPid]
Becomes(p, state) == process' = [process EXCEPT ![p] = state]

---------------------------------------------------------------------------

\* try_acquire, the workspace, posix_spawn.  A failed spawn releases the permit
\* and the workspace on return, and changes nothing.
Start(s, p) ==
    /\ call[s] = "none"
    /\ permits > 0
    /\ process[p] = "gone"
    /\ permits' = permits - 1
    /\ To(s, "operation")
    /\ guard' = [guard EXCEPT ![s] = p]
    /\ Becomes(p, "alive")

\* try_acquire fails, and the job with it.
CapacityExhausted(s) == call[s] = "none" /\ permits = 0

\* The engine exits, or dies of its limits; nobody waited for it yet.
Exit(p) ==
    /\ process[p] = "alive"
    /\ Becomes(p, "zombie")
    /\ UNCHANGED <<call, guard, permits>>

\* The operation ends well: completed() reaped the process and forgot its pid.
Completed_KeepsPid(s) ==
    /\ call[s] = "operation"
    /\ process[guard[s]] = "zombie"
    /\ To(s, "cleanup")
    /\ Becomes(guard[s], "gone")
    /\ UNCHANGED <<guard, permits>>
Completed(s) ==
    /\ call[s] = "operation"
    /\ process[guard[s]] = "zombie"
    /\ To(s, "cleanup")
    /\ Becomes(guard[s], "gone")
    /\ Release(s)
    /\ UNCHANGED permits

\* The output is not a PDF or too long, a pipe breaks, or 60 s are over.
Broken(s) ==
    /\ call[s] = "operation"
    /\ To(s, "cleanup")
    /\ UNCHANGED <<guard, process, permits>>

\* A blocking task kills and reaps what it guards.
Reap_Awaited(p) ==
    /\ process[p] \in Unreaped
    /\ \E s \in Slots : guard[s] = p /\ call[s] = "cleanup"
    /\ Becomes(p, "gone")
    /\ guard' = [s \in Slots |-> IF guard[s] = p THEN NoPid ELSE guard[s]]
    /\ UNCHANGED <<call, permits>>
Reap(p) ==
    /\ process[p] \in Unreaped
    /\ \A s \in Slots : guard[s] = p => call[s] = "cleanup"
    /\ Becomes(p, "gone")
    /\ guard' = [s \in Slots |-> IF guard[s] = p THEN NoPid ELSE guard[s]]
    /\ UNCHANGED <<call, permits>>

\* compile returns after the blocking task, and the permit goes back.
Return(s) ==
    /\ call[s] = "cleanup"
    /\ guard[s] = NoPid
    /\ To(s, "none")
    /\ permits' = permits + 1
    /\ UNCHANGED <<guard, process>>

\* The future is dropped while it owns the guard.
Drop_KeepsPermit(s) ==
    /\ call[s] = "operation"
    /\ To(s, "none")
    /\ Becomes(guard[s], "gone")
    /\ Release(s)
    /\ UNCHANGED permits
Drop(s) ==
    /\ call[s] = "operation"
    /\ To(s, "none")
    /\ Becomes(guard[s], "gone")
    /\ Release(s)
    /\ permits' = permits + 1

\* The future is dropped while it awaits the blocking task: the permit goes
\* back, the process stays until the task gets to it.
Detach(s) ==
    /\ call[s] = "cleanup"
    /\ To(s, "none")
    /\ Release(s)
    /\ permits' = permits + 1
    /\ UNCHANGED process

---------------------------------------------------------------------------

Init ==
    /\ call = [s \in Slots |-> "none"]
    /\ guard = [s \in Slots |-> NoPid]
    /\ process = [p \in Pids |-> "gone"]
    /\ permits = Permits

Next ==
    \/ \E s \in Slots, p \in Pids : Start(s, p)
    \/ \E s \in Slots :
        \/ Completed(s) \/ Broken(s) \/ Return(s) \/ Drop(s) \/ Detach(s)
    \/ \E p \in Pids : Exit(p) \/ Reap(p)

Spec == Init /\ [][Next]_vars

\* The watchdog ends every operation and the blocking pool runs its tasks.
FairSpec ==
    /\ Spec
    /\ \A s \in Slots : WF_vars(Broken(s)) /\ WF_vars(Return(s))
    /\ \A p \in Pids : WF_vars(Reap(p))

---------------------------------------------------------------------------
(* Properties *)

TypeOK ==
    /\ call \in [Slots -> Phase]
    /\ guard \in [Slots -> Pids \cup {NoPid}]
    /\ process \in [Pids -> Process]
    /\ permits \in 0..Permits

\* Every call gives its permit back, however it ends: a free slot of the run
\* loop never fails a job for lack of capacity.
NeverRefused == \A s \in Slots : ~CapacityExhausted(s)

\* A guard names a process of its own that is not reaped yet, so killing it
\* never hits a process that was given a recycled pid.
GuardIsOwn ==
    \A s \in Slots : guard[s] # NoPid =>
        /\ process[guard[s]] \in Unreaped
        /\ \A t \in Slots : guard[t] = guard[s] => t = s

\* Every engine process is killed and reaped in the end, also when its call was
\* dropped before the blocking task ran.
EventuallyReaped == \A p \in Pids : (process[p] = "alive") ~> (process[p] = "gone")

\* "There are at most two children": as many as there are permits.
AtMostTwoChildren == Cardinality({p \in Pids : process[p] \in Unreaped}) <= Permits
=============================================================================
