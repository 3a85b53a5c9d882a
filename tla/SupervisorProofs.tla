------------------------- MODULE SupervisorProofs -------------------------
(***************************************************************************)
(* Proofs about Supervisor, for any number of slots, permits and pids.     *)
(*                                                                         *)
(* The permits taken are the calls in progress (Balance): with no more     *)
(* slots than permits, a free slot finds one.  GuardIsOwn needs that a     *)
(* free slot guards nothing and a running operation guards something.      *)
(***************************************************************************)
EXTENDS Supervisor, FiniteSetTheorems, TLAPS

\* The slots whose call is in progress.
Calling == {s \in Slots : call[s] # "none"}

Balance == /\ permits \in Nat
           /\ permits + Cardinality(Calling) = Permits
Guarded == \A s \in Slots : /\ call[s] = "none" => guard[s] = NoPid
                            /\ call[s] = "operation" => guard[s] # NoPid

Typed == /\ call \in [Slots -> Phase]
         /\ guard \in [Slots -> Pids \cup {NoPid}]
         /\ process \in [Pids -> Process]

IInv == Typed /\ Balance /\ Guarded /\ GuardIsOwn

---------------------------------------------------------------------------

\* The calls in progress are finitely many.
LEMMA CallingFinite ==
    /\ IsFiniteSet(Calling) /\ Cardinality(Calling) \in Nat
    /\ Cardinality(Calling) <= Cardinality(Slots)
BY RunLoopAssumption, FS_Subset, FS_CardinalityType DEF Calling

\* try_acquire: one call more, one permit less.
LEMMA Taken ==
    ASSUME IInv, NEW s \in Slots, call[s] = "none", permits > 0,
           permits' = permits - 1, To(s, "operation")
    PROVE  Balance'
<1>1. Calling' = Calling \cup {s} /\ s \notin Calling
  BY DEF Calling, To, IInv, Typed
<1>2. Cardinality(Calling') = Cardinality(Calling) + 1
  BY <1>1, CallingFinite, FS_AddElement
<1> QED BY <1>2, CallingFinite, PermitsAssumption DEF IInv, Balance

\* The permit is dropped with the call: one call less, one permit more.
LEMMA GivenBack ==
    ASSUME IInv, NEW s \in Slots, call[s] # "none",
           permits' = permits + 1, To(s, "none")
    PROVE  Balance'
<1>1. Calling' = Calling \ {s} /\ s \in Calling
  BY DEF Calling, To, IInv, Typed
<1>2. Cardinality(Calling') = Cardinality(Calling) - 1
  BY <1>1, CallingFinite, FS_RemoveElement
<1> QED BY <1>2, CallingFinite, PermitsAssumption DEF IInv, Balance

\* The same calls hold the same permits.
LEMMA StillHeld ==
    ASSUME IInv, UNCHANGED permits,
           \A s \in Slots : (call'[s] = "none") <=> (call[s] = "none")
    PROVE  Balance'
<1>1. Calling' = Calling
  BY DEF Calling
<1> QED BY <1>1 DEF IInv, Balance

\* Nothing runs at the start.
LEMMA InitEstablishes == Init => IInv
<1> SUFFICES ASSUME Init PROVE IInv
  OBVIOUS
<1>1. Calling = {}
  BY DEF Init, Calling
<1>2. Balance
  BY <1>1, FS_EmptySet, PermitsAssumption DEF Init, Balance
<1>3. Typed /\ Guarded /\ GuardIsOwn
  BY DEF Init, Typed, Phase, Process, Guarded, GuardIsOwn
<1> QED BY <1>2, <1>3 DEF IInv

\* Every step of a call, of the kernel and of the blocking pool keeps it.
LEMMA NextPreserves == IInv /\ [Next]_vars => IInv'
<1> SUFFICES ASSUME IInv, [Next]_vars PROVE IInv'
  OBVIOUS
<1> USE PidsAssumption
<1>1. ASSUME NEW s \in Slots, NEW p \in Pids, Start(s, p)
      PROVE  IInv'
  <2>1. Balance'
    BY <1>1, Taken DEF Start
  <2>2. Typed'
    BY <1>1 DEF Start, To, Becomes, IInv, Typed, Phase, Process, Unreaped
  <2>3. Guarded'
    BY <1>1 DEF Start, To, IInv, Typed, Guarded
  <2>4. \A t \in Slots : guard[t] # p
    BY <1>1 DEF Start, IInv, GuardIsOwn, Unreaped
  <2>5. GuardIsOwn'
    BY <1>1, <2>4 DEF Start, Becomes, IInv, Typed, GuardIsOwn, Unreaped
  <2> QED BY <2>1, <2>2, <2>3, <2>5 DEF IInv
<1>2. ASSUME NEW s \in Slots, Completed(s)
      PROVE  IInv'
  <2>1. guard[s] \in Pids
    BY <1>2 DEF Completed, IInv, Typed, Guarded
  <2>2. Balance'
    BY <1>2, StillHeld DEF Completed, To, IInv, Typed
  <2>3. Typed'
    BY <1>2, <2>1 DEF Completed, To, Release, Becomes, IInv, Typed, Phase, Process
  <2>4. Guarded'
    BY <1>2 DEF Completed, To, Release, IInv, Typed, Guarded
  <2>5. GuardIsOwn'
    BY <1>2, <2>1 DEF Completed, Release, Becomes, IInv, Typed, GuardIsOwn
  <2> QED BY <2>2, <2>3, <2>4, <2>5 DEF IInv
<1>3. ASSUME NEW s \in Slots, Broken(s)
      PROVE  IInv'
  <2>1. Balance'
    BY <1>3, StillHeld DEF Broken, To, IInv, Typed
  <2> QED
    BY <1>3, <2>1 DEF Broken, To, IInv, Typed, Phase, Guarded, GuardIsOwn
<1>4. ASSUME NEW s \in Slots, Return(s) \/ Detach(s)
      PROVE  IInv'
  <2>1. /\ call[s] = "cleanup" /\ To(s, "none") /\ permits' = permits + 1
        /\ UNCHANGED process
        /\ guard' = [guard EXCEPT ![s] = NoPid]
    BY <1>4 DEF Return, Detach, Release, IInv, Typed
  <2>2. Balance'
    BY <2>1, GivenBack
  <2>3. Typed' /\ Guarded'
    BY <2>1 DEF To, IInv, Typed, Phase, Guarded
  <2>4. GuardIsOwn'
    BY <2>1 DEF IInv, Typed, GuardIsOwn
  <2> QED BY <2>2, <2>3, <2>4 DEF IInv
<1>5. ASSUME NEW s \in Slots, Drop(s)
      PROVE  IInv'
  <2>1. guard[s] \in Pids
    BY <1>5 DEF Drop, IInv, Typed, Guarded
  <2>2. Balance'
    BY <1>5, GivenBack DEF Drop
  <2>3. Typed' /\ Guarded'
    BY <1>5, <2>1 DEF Drop, To, Release, Becomes, IInv, Typed, Phase, Process, Guarded
  <2>4. GuardIsOwn'
    BY <1>5, <2>1 DEF Drop, Release, Becomes, IInv, Typed, GuardIsOwn
  <2> QED BY <2>2, <2>3, <2>4 DEF IInv
<1>6. ASSUME NEW p \in Pids, Exit(p)
      PROVE  IInv'
  <2>1. Balance'
    BY <1>6, StillHeld DEF Exit
  <2> QED
    BY <1>6, <2>1 DEF Exit, Becomes, IInv, Typed, Process, Unreaped, Guarded, GuardIsOwn
<1>7. ASSUME NEW p \in Pids, Reap(p)
      PROVE  IInv'
  <2>1. Balance'
    BY <1>7, StillHeld DEF Reap
  <2>2. Typed' /\ Guarded'
    BY <1>7 DEF Reap, Becomes, IInv, Typed, Process, Guarded
  <2>3. GuardIsOwn'
    BY <1>7 DEF Reap, Becomes, IInv, Typed, GuardIsOwn
  <2> QED BY <2>1, <2>2, <2>3 DEF IInv
<1>8. CASE UNCHANGED vars
  <2>1. Balance'
    BY <1>8, StillHeld DEF vars
  <2> QED BY <1>8, <2>1 DEF vars, IInv, Typed, Guarded, GuardIsOwn
<1> QED BY <1>1, <1>2, <1>3, <1>4, <1>5, <1>6, <1>7, <1>8 DEF Next

\* The inductive invariant holds in every reachable state.
THEOREM Inductive == Spec => []IInv
BY InitEstablishes, NextPreserves, PTL DEF Spec

\* Calls, guards, processes and permits keep their types; the semaphore never
\* holds more permits than it was made with.
THEOREM TypeCorrect == Spec => []TypeOK
<1>1. IInv => TypeOK
  BY CallingFinite, PermitsAssumption DEF IInv, Typed, Balance, TypeOK
<1> QED BY <1>1, Inductive, PTL

\* Capacity: a free slot is never refused, however earlier calls ended.
THEOREM CapacityHolds == Spec => []NeverRefused
<1>1. IInv => NeverRefused
  <2> SUFFICES ASSUME IInv, NEW s \in Slots, call[s] = "none", permits = 0
               PROVE  FALSE
    BY DEF NeverRefused, CapacityExhausted
  <2>1. s \notin Calling /\ Calling \subseteq Slots
    BY DEF Calling
  <2>2. Cardinality(Calling) < Cardinality(Slots)
    <3>1. /\ Cardinality(Calling \cup {s}) = Cardinality(Calling) + 1
          /\ Calling \cup {s} \subseteq Slots
      BY <2>1, CallingFinite, FS_AddElement
    <3>2. Cardinality(Calling \cup {s}) <= Cardinality(Slots)
      BY <3>1, RunLoopAssumption, FS_Subset
    <3>3. Cardinality(Slots) \in Nat
      BY RunLoopAssumption, FS_CardinalityType
    <3> QED BY <3>1, <3>2, <3>3, CallingFinite
  <2>3. Cardinality(Slots) \in Nat
    BY RunLoopAssumption, FS_CardinalityType
  <2> QED
    BY <2>2, <2>3, CallingFinite, RunLoopAssumption, PermitsAssumption
       DEF IInv, Balance
<1> QED BY <1>1, Inductive, PTL

\* A kill never hits a process the guard does not own.
THEOREM GuardsAreOwn == Spec => []GuardIsOwn
<1>1. IInv => GuardIsOwn
  BY DEF IInv
<1> QED BY <1>1, Inductive, PTL
=============================================================================
