---------------------- MODULE CommandExecutionProofs ----------------------
(***************************************************************************)
(* Proofs about CommandExecution, for any number of commands, workers,     *)
(* results and retries.                                                    *)
(*                                                                         *)
(* NoSilentLoss is not inductive: it says nothing of a handler that stands *)
(* between publishing and acknowledging.  AckIsEarned supplies that a      *)
(* handler about to acknowledge has left its trace.  AnnouncedIsStored     *)
(* needs PublisherIsStored: whoever is about to publish a result, or to    *)
(* republish one, works on a command whose row holds a result.             *)
(***************************************************************************)
EXTENDS CommandExecution, TLAPS

\* A handler about to acknowledge has published what follows its message.
AckIsEarned == \A w \in Workers : worker[w].pc = "ack" => FollowedUp(worker[w].msg)

\* A handler about to publish works on a command whose result is stored, and a
\* completed row has one.
PublisherIsStored ==
    /\ \A w \in Workers : worker[w].pc \in {"publish", "replay"} =>
          /\ ledger[Key(w)].result # NoResult
          /\ worker[w].result \in Results
    /\ \A k \in Keys : ledger[k].status = "completed" => ledger[k].result # NoResult
    /\ \A w \in Workers : worker[w].pc = "complete" => worker[w].result \in Results

\* A message in hand was published, and is not acknowledged behind its back
\* unless it was followed up.
InHand == \A w \in Workers : worker[w].pc # "idle" => worker[w].msg \in log

IInv == /\ TypeOK
        /\ InHand
        /\ AckIsEarned
        /\ NoSilentLoss
        /\ PublisherIsStored
        /\ AnnouncedIsStored

---------------------------------------------------------------------------

\* A handler that is not idle has a message, a result and a lease flag.
LEMMA HandlerShape ==
    ASSUME TypeOK, NEW w \in Workers, worker[w].pc # "idle"
    PROVE  /\ worker[w] \in Handler
           /\ worker[w].msg \in Message
           /\ Key(w) \in Keys
           /\ worker[w].result \in Results \cup {NoResult}
BY DEF TypeOK, Handler, Idle, Key, Message

\* Moving a handler to another step keeps its message and the other handlers.
LEMMA Moved ==
    ASSUME TypeOK, NEW w \in Workers, worker[w].pc # "idle",
           NEW step \in Steps, NEW r \in Results \cup {NoResult}, With(w, step, r)
    PROVE  /\ DOMAIN worker' = Workers
           /\ \A v \in Workers : worker'[v] = Idle \/ worker'[v] \in Handler
           /\ \A v \in Workers \ {w} : worker'[v] = worker[v]
           /\ worker'[w].pc = step
           /\ worker'[w].msg = worker[w].msg
           /\ worker'[w].result = r
BY HandlerShape DEF TypeOK, With, Handler

\* What was followed up stays so: the topics only grow.
LEMMA FollowUpIsStable ==
    ASSUME NEW m, FollowedUp(m), log \subseteq log', sent \subseteq sent',
           dead \subseteq dead', rejected \subseteq rejected'
    PROVE  FollowedUp(m)'
BY DEF FollowedUp, Published

\* What a step must respect so that the inductive invariant survives it.
TopicsGrow == /\ log \subseteq log' /\ sent \subseteq sent'
              /\ dead \subseteq dead' /\ rejected \subseteq rejected'
AcksAreEarned == /\ \A m \in log : m \in inbox => m \in inbox' \/ FollowedUp(m)'
                 /\ \A m \in log' \ log : m \in inbox'
RowsKeepResults ==
    \A k \in Keys : /\ ledger[k].result # NoResult => ledger'[k].result # NoResult
                    /\ ledger'[k].status = "completed" => ledger'[k].result # NoResult
NewsIsStored == \A p \in begun' \ begun : ledger'[p[1]].result # NoResult

\* A handler as it was, or in a state the invariant allows.
Sound(w) ==
    \/ worker'[w].pc = "idle"
    \/ /\ worker'[w].pc = worker[w].pc
       /\ worker'[w].msg = worker[w].msg
       /\ worker'[w].result = worker[w].result
    \/ /\ worker'[w].msg \in log'
       /\ worker'[w].pc = "ack" => FollowedUp(worker[w].msg)'
       /\ worker'[w].pc = "complete" => worker'[w].result \in Results
       /\ worker'[w].pc \in {"publish", "replay"} =>
             /\ ledger'[worker'[w].msg.key].result # NoResult
             /\ worker'[w].result \in Results

\* A step that respects all of it preserves the invariant.
LEMMA Frame ==
    ASSUME IInv, TypeOK', TopicsGrow, AcksAreEarned, RowsKeepResults, NewsIsStored,
           \A w \in Workers : Sound(w)
    PROVE  IInv'
<1>1. InHand'
  BY DEF IInv, InHand, Sound, TopicsGrow
<1>2. AckIsEarned'
  <2> SUFFICES ASSUME NEW w \in Workers, worker'[w].pc = "ack",
                      NEW m, m = worker'[w].msg
               PROVE  FollowedUp(m)'
    BY DEF AckIsEarned, FollowedUp
  <2>1. CASE worker'[w].pc = worker[w].pc /\ worker'[w].msg = worker[w].msg
    <3>1. FollowedUp(m)
      BY <2>1 DEF IInv, AckIsEarned, FollowedUp
    <3> QED BY <3>1, FollowUpIsStable DEF TopicsGrow
  <2> QED BY <2>1 DEF Sound, FollowedUp
<1>3. NoSilentLoss'
  <2> SUFFICES ASSUME NEW m \in log', m \notin inbox'
               PROVE  FollowedUp(m)'
    BY DEF NoSilentLoss
  <2>1. m \in log /\ (m \in inbox => FollowedUp(m)')
    BY DEF AcksAreEarned
  <2>2. CASE m \notin inbox
    <3>1. FollowedUp(m)
      BY <2>1, <2>2 DEF IInv, NoSilentLoss
    <3> QED BY <3>1, FollowUpIsStable DEF TopicsGrow
  <2> QED BY <2>1, <2>2
<1>4. PublisherIsStored'
  <2>1. ASSUME NEW w \in Workers, worker'[w].pc \in {"publish", "replay"}
        PROVE  ledger'[worker'[w].msg.key].result # NoResult /\ worker'[w].result \in Results
    <3>1. CASE /\ worker'[w].pc = worker[w].pc
               /\ worker'[w].msg = worker[w].msg
               /\ worker'[w].result = worker[w].result
      <4>1. Key(w) \in Keys
        BY <2>1, <3>1, HandlerShape DEF IInv
      <4> QED
        BY <2>1, <3>1, <4>1 DEF IInv, PublisherIsStored, RowsKeepResults, Key
    <3> QED BY <2>1, <3>1 DEF Sound
  <2>2. ASSUME NEW w \in Workers, worker'[w].pc = "complete"
        PROVE  worker'[w].result \in Results
    BY <2>2 DEF Sound, IInv, PublisherIsStored
  <2> QED BY <2>1, <2>2 DEF PublisherIsStored, RowsKeepResults, Key
<1>5. AnnouncedIsStored'
  <2> SUFFICES ASSUME NEW p \in begun'
               PROVE  ledger'[p[1]].result # NoResult
    BY DEF AnnouncedIsStored
  <2>1. CASE p \in begun
    BY <2>1 DEF IInv, AnnouncedIsStored, TypeOK, RowsKeepResults
  <2> QED BY <2>1 DEF NewsIsStored
<1> QED BY <1>1, <1>2, <1>3, <1>4, <1>5 DEF IInv

---------------------------------------------------------------------------
(* The actions *)

\* The workers' part of the type invariant.
WorkersTyped == /\ DOMAIN worker = Workers
                /\ \A w \in Workers : worker[w] = Idle \/ worker[w] \in Handler

\* A step that touches neither the topics nor the results of the ledger.
LEMMA WorkerStep ==
    ASSUME IInv, UNCHANGED topics, ledger' \in [Keys -> Row], RowsKeepResults,
           WorkersTyped', \A w \in Workers : Sound(w)
    PROVE  IInv'
<1>1. TypeOK' /\ TopicsGrow /\ AcksAreEarned /\ NewsIsStored
  BY DEF IInv, TypeOK, WorkersTyped, topics, TopicsGrow, AcksAreEarned, NewsIsStored
<1> QED BY <1>1, Frame

\* A ledger that did not change keeps its results.
LEMMA SameLedger ==
    ASSUME IInv, UNCHANGED ledger
    PROVE  ledger' \in [Keys -> Row] /\ RowsKeepResults
BY DEF IInv, TypeOK, RowsKeepResults, PublisherIsStored

\* A handler that moves on alone: the others stay as they were.
LEMMA OneMoves ==
    ASSUME IInv, NEW w \in Workers, worker[w].pc # "idle",
           NEW step \in Steps, NEW r \in Results \cup {NoResult}, With(w, step, r)
    PROVE  /\ WorkersTyped'
           /\ \A v \in Workers \ {w} : Sound(v)
           /\ worker'[w].pc = step
           /\ worker'[w].msg = worker[w].msg
           /\ worker'[w].result = r
           /\ worker[w].msg \in log
BY Moved DEF IInv, WorkersTyped, Sound, InHand

\* A handler that goes free, however it came to.
LEMMA OneFrees ==
    ASSUME IInv, NEW w \in Workers, Free(w)
    PROVE  WorkersTyped' /\ \A v \in Workers : Sound(v)
BY DEF IInv, TypeOK, Free, Idle, WorkersTyped, Sound

\* claim grants: the row keeps an older result.
LEMMA AcquirePreserves ==
    ASSUME IInv, NEW w \in Workers, NEW m \in inbox, Acquire(w, m)
    PROVE  IInv'
<1>1. m \in Message /\ m.key \in Keys /\ m \in log
  BY DEF IInv, TypeOK, Message
<1>2. ledger' \in [Keys -> Row] /\ RowsKeepResults
  BY <1>1 DEF IInv, TypeOK, Acquire, Row, Status, RowsKeepResults, PublisherIsStored
<1>3. WorkersTyped' /\ \A v \in Workers : Sound(v)
  BY <1>1 DEF IInv, TypeOK, Acquire, Handler, Steps, WorkersTyped, Sound, topics
<1> QED BY <1>2, <1>3, WorkerStep DEF Acquire

\* claim finds a result: a completed row always has one.
LEMMA ReplayPreserves ==
    ASSUME IInv, NEW w \in Workers, NEW m \in inbox, Replay(w, m)
    PROVE  IInv'
<1>1. m \in Message /\ m.key \in Keys /\ m \in log
  BY DEF IInv, TypeOK, Message
<1>2. ledger[m.key].result \in Results
  BY <1>1 DEF IInv, TypeOK, Row, Replay, PublisherIsStored
<1>3. WorkersTyped' /\ \A v \in Workers : Sound(v)
  <2>1. WorkersTyped'
    BY <1>1, <1>2 DEF IInv, TypeOK, Replay, Handler, Steps, WorkersTyped
  <2>2. \A v \in Workers \ {w} : Sound(v)
    BY DEF IInv, TypeOK, Replay, Sound
  <2>3. Sound(w)
    BY <1>1, <1>2, ResultsAssumption DEF IInv, TypeOK, Replay, Sound, topics
  <2> QED BY <2>1, <2>2, <2>3
<1> QED BY <1>3, SameLedger, WorkerStep DEF Replay

\* The actor answers or fails, or the result cannot be stored.
LEMMA DispatchPreserves ==
    ASSUME IInv, NEW w \in Workers,
           \/ \E r \in Results : Dispatched(w, r)
           \/ DispatchFailed(w)
           \/ CompleteFailed(w)
    PROVE  IInv'
<1>1. worker[w].pc # "idle" /\ worker[w].result \in Results \cup {NoResult}
  BY HandlerShape DEF IInv, Dispatched, DispatchFailed, CompleteFailed
<1>2. PICK step \in {"complete", "fail"}, r \in Results \cup {NoResult} :
         With(w, step, r) /\ (step = "complete" => r \in Results)
  BY <1>1 DEF Dispatched, DispatchFailed, CompleteFailed, Goto
<1>3. UNCHANGED <<ledger, topics>>
  BY DEF Dispatched, DispatchFailed, CompleteFailed
<1>4. WorkersTyped' /\ \A v \in Workers : Sound(v)
  <2>1. step \in Steps
    BY DEF Steps
  <2>2. /\ WorkersTyped'
        /\ \A v \in Workers \ {w} : Sound(v)
        /\ worker'[w].pc = step
        /\ worker'[w].msg = worker[w].msg
        /\ worker'[w].result = r
        /\ worker[w].msg \in log
    BY <1>1, <1>2, <2>1, OneMoves
  <2>3. Sound(w)
    BY <1>2, <1>3, <2>2 DEF Sound, topics
  <2> QED BY <2>2, <2>3
<1> QED BY <1>3, <1>4, SameLedger, WorkerStep

\* complete stores the result before anything is published.
LEMMA CompletePreserves ==
    ASSUME IInv, NEW w \in Workers, Complete(w)
    PROVE  IInv'
<1>1. /\ worker[w].pc # "idle" /\ Key(w) \in Keys
      /\ worker[w].result \in Results
  BY HandlerShape DEF IInv, Complete, PublisherIsStored
<1>2. /\ ledger' \in [Keys -> Row] /\ RowsKeepResults
      /\ ledger'[Key(w)].result = worker[w].result
  BY <1>1, ResultsAssumption
     DEF IInv, TypeOK, Complete, Row, Status, RowsKeepResults, PublisherIsStored
<1>3. PICK step \in {"publish", "fail"} : With(w, step, worker[w].result)
  BY DEF Complete, Goto
<1>4. /\ WorkersTyped'
      /\ \A v \in Workers \ {w} : Sound(v)
      /\ worker'[w].pc = step
      /\ worker'[w].msg = worker[w].msg
      /\ worker'[w].result = worker[w].result
      /\ worker[w].msg \in log
  <2>1. step \in Steps
    BY DEF Steps
  <2> QED BY <1>1, <1>3, <2>1, OneMoves
<1>5. Sound(w)
  BY <1>1, <1>2, <1>4, ResultsAssumption DEF Sound, Key, Complete, topics
<1> QED BY <1>2, <1>4, <1>5, WorkerStep DEF Complete

\* _publish_successors: what is announced is stored.
LEMMA PublishPreserves ==
    ASSUME IInv, NEW w \in Workers, Publish(w)
    PROVE  IInv'
<1>1. /\ worker[w].pc # "idle" /\ Key(w) \in Keys
      /\ worker[w].result \in Results /\ ledger[Key(w)].result # NoResult
  BY HandlerShape DEF IInv, Publish, PublisherIsStored
<1>2. /\ WorkersTyped'
      /\ \A v \in Workers \ {w} : Sound(v)
      /\ worker'[w].pc = "ack"
      /\ worker'[w].msg = worker[w].msg
      /\ worker[w].msg \in log
  <2>1. "ack" \in Steps /\ With(w, "ack", worker[w].result)
    BY DEF Steps, Publish, Goto
  <2> QED BY <1>1, <2>1, OneMoves
<1>3. TypeOK'
  BY <1>1, <1>2 DEF IInv, TypeOK, WorkersTyped, Publish, Announced
<1>4. <<Key(w), worker[w].result>> \in sent'
  BY DEF Publish, Announced
<1>5. FollowedUp(worker[w].msg)'
  BY <1>1, <1>2, <1>4 DEF FollowedUp, Published, Key
<1>6. Sound(w)
  BY <1>2, <1>5 DEF Sound, Publish
<1>7. TopicsGrow /\ AcksAreEarned
  BY DEF Publish, TopicsGrow, AcksAreEarned
<1>8. NewsIsStored
  BY <1>1 DEF Publish, Announced, NewsIsStored
<1> QED BY <1>2, <1>3, <1>6, <1>7, <1>8, SameLedger, Frame DEF Publish

\* Publication breaks off: part of it may be out, and it is stored.
LEMMA PublishFailedPreserves ==
    ASSUME IInv, NEW w \in Workers, PublishFailed(w)
    PROVE  IInv'
<1>1. /\ worker[w].pc # "idle" /\ Key(w) \in Keys
      /\ worker[w].result \in Results /\ ledger[Key(w)].result # NoResult
  BY HandlerShape DEF IInv, PublishFailed, PublisherIsStored
<1>2. WorkersTyped' /\ \A v \in Workers : Sound(v)
  <2>1. CASE With(w, "fail", worker[w].result)
    <3>1. /\ WorkersTyped'
          /\ \A v \in Workers \ {w} : Sound(v)
          /\ worker'[w].pc = "fail"
          /\ worker'[w].msg = worker[w].msg
          /\ worker[w].msg \in log
      <4>1. "fail" \in Steps
        BY DEF Steps
      <4> QED BY <1>1, <2>1, <4>1, OneMoves
    <3>2. Sound(w)
      BY <3>1 DEF Sound, PublishFailed
    <3> QED BY <3>1, <3>2
  <2>2. CASE Free(w)
    BY <2>2, OneFrees
  <2> QED BY <2>1, <2>2 DEF PublishFailed, Goto
<1>3. TypeOK'
  BY <1>1, <1>2 DEF IInv, TypeOK, WorkersTyped, PublishFailed, Announced
<1>4. TopicsGrow /\ AcksAreEarned
  BY DEF PublishFailed, TopicsGrow, AcksAreEarned
<1>5. NewsIsStored
  BY <1>1 DEF PublishFailed, Announced, NewsIsStored
<1> QED BY <1>2, <1>3, <1>4, <1>5, SameLedger, Frame DEF PublishFailed

\* fail releases a running row and touches no other.
LEMMA FailPreserves ==
    ASSUME IInv, NEW w \in Workers, Fail(w)
    PROVE  IInv'
<1>1. /\ worker[w].pc # "idle" /\ Key(w) \in Keys
      /\ worker[w].result \in Results \cup {NoResult}
  BY HandlerShape DEF IInv, Fail
<1>2. ledger' \in [Keys -> Row] /\ RowsKeepResults
  BY <1>1 DEF IInv, TypeOK, Fail, Row, Status, RowsKeepResults, PublisherIsStored
<1>3. /\ WorkersTyped'
      /\ \A v \in Workers \ {w} : Sound(v)
      /\ worker'[w].pc = "recover"
      /\ worker'[w].msg = worker[w].msg
      /\ worker[w].msg \in log
  <2>1. "recover" \in Steps /\ With(w, "recover", worker[w].result)
    BY DEF Steps, Fail, Goto
  <2> QED BY <1>1, <2>1, OneMoves
<1>4. Sound(w)
  BY <1>3 DEF Sound, Fail, topics
<1> QED BY <1>2, <1>3, <1>4, WorkerStep DEF Fail

\* _handle_failure leaves a retry or a dead letter before the handler may
\* acknowledge.
LEMMA RecoverPreserves ==
    ASSUME IInv, NEW w \in Workers, Retry(w) \/ DeadLetter(w)
    PROVE  IInv'
<1> DEFINE m == worker[w].msg
           next == [key |-> m.key, attempt |-> m.attempt + 1]
<1>1. /\ worker[w].pc # "idle" /\ m \in Message
      /\ worker[w].result \in Results \cup {NoResult}
  BY HandlerShape DEF IInv, Retry, DeadLetter
<1>2. /\ WorkersTyped'
      /\ \A v \in Workers \ {w} : Sound(v)
      /\ worker'[w].pc = "ack"
      /\ worker'[w].msg = worker[w].msg
      /\ worker[w].msg \in log
  <2>1. "ack" \in Steps /\ With(w, "ack", worker[w].result)
    BY DEF Steps, Retry, DeadLetter, Goto
  <2> QED BY <1>1, <2>1, OneMoves
<1>3. CASE Retry(w)
  <2>1. /\ log' = log \cup {next} /\ inbox' = inbox \cup {next}
        /\ m.attempt < MaxRetries
        /\ UNCHANGED <<ledger, begun, sent, dead, rejected>>
    BY <1>3 DEF Retry
  <2>2. next \in Message
    BY <1>1, <2>1, RetriesAssumption DEF Message, Attempts
  <2>3. TypeOK'
    BY <1>2, <2>1, <2>2 DEF IInv, TypeOK, WorkersTyped
  <2>4. FollowedUp(worker[w].msg)'
    BY <1>2, <2>1 DEF FollowedUp
  <2>5. Sound(w)
    BY <1>2, <2>1, <2>4 DEF Sound
  <2>6. TopicsGrow /\ AcksAreEarned /\ NewsIsStored
    BY <2>1 DEF TopicsGrow, AcksAreEarned, NewsIsStored
  <2> QED BY <1>2, <2>1, <2>3, <2>5, <2>6, SameLedger, Frame
<1>4. CASE DeadLetter(w)
  <2>1. /\ dead' = dead \cup {m}
        /\ UNCHANGED <<ledger, log, inbox, begun, sent, rejected>>
    BY <1>4 DEF DeadLetter
  <2>2. TypeOK'
    BY <1>1, <1>2, <2>1 DEF IInv, TypeOK, WorkersTyped
  <2>3. FollowedUp(worker[w].msg)'
    BY <1>2, <2>1 DEF FollowedUp
  <2>4. Sound(w)
    BY <1>2, <2>1, <2>3 DEF Sound
  <2>5. TopicsGrow /\ AcksAreEarned /\ NewsIsStored
    BY <2>1 DEF TopicsGrow, AcksAreEarned, NewsIsStored
  <2> QED BY <1>2, <2>1, <2>2, <2>4, <2>5, SameLedger, Frame
<1> QED BY <1>3, <1>4

\* ack: the handler earned it.
LEMMA AckPreserves ==
    ASSUME IInv, NEW w \in Workers, Ack(w)
    PROVE  IInv'
<1>1. WorkersTyped' /\ \A v \in Workers : Sound(v)
  BY OneFrees DEF Ack
<1>2. TypeOK'
  BY <1>1 DEF IInv, TypeOK, WorkersTyped, Ack
<1>3. AcksAreEarned
  <2>1. FollowedUp(worker[w].msg)
    BY DEF IInv, AckIsEarned, Ack
  <2>2. \A x \in log : x = worker[w].msg => FollowedUp(x)'
    BY <2>1 DEF FollowedUp, Published, Ack
  <2> QED BY <2>2 DEF AcksAreEarned, Ack
<1>4. TopicsGrow /\ NewsIsStored
  BY DEF TopicsGrow, NewsIsStored, Ack
<1> QED BY <1>1, <1>2, <1>3, <1>4, SameLedger, Frame DEF Ack

\* nack or death: only the handler goes.
LEMMA NackPreserves ==
    ASSUME IInv, NEW w \in Workers, Nack(w)
    PROVE  IInv'
BY OneFrees, SameLedger, WorkerStep DEF Nack

\* Workers that no step touches.
LEMMA WorkersRest ==
    ASSUME IInv, UNCHANGED worker
    PROVE  WorkersTyped' /\ \A v \in Workers : Sound(v)
BY DEF IInv, TypeOK, WorkersTyped, Sound

\* The subscriber drops a message, or Kafka brings one in.
LEMMA TopicPreserves ==
    ASSUME IInv, \/ \E k \in Keys : Accept(k)
                 \/ \E m \in log : Redeliver(m) \/ Reject(m)
    PROVE  IInv'
<1>1. UNCHANGED <<ledger, worker, begun, sent, dead>>
  BY DEF Accept, Redeliver, Reject
<1>2. TypeOK' /\ TopicsGrow /\ AcksAreEarned
  <2>1. CASE \E k \in Keys : Accept(k)
    BY <2>1, <1>1, RetriesAssumption
       DEF Accept, IInv, TypeOK, Message, Attempts, TopicsGrow, AcksAreEarned
  <2>2. CASE \E m \in log : Redeliver(m)
    BY <2>2, <1>1 DEF Redeliver, IInv, TypeOK, TopicsGrow, AcksAreEarned
  <2>3. ASSUME NEW m \in log, Reject(m)
        PROVE  TypeOK' /\ TopicsGrow /\ AcksAreEarned
    <3>1. TypeOK' /\ TopicsGrow
      BY <2>3, <1>1 DEF Reject, IInv, TypeOK, TopicsGrow
    <3>2. AcksAreEarned
      BY <2>3 DEF Reject, AcksAreEarned, FollowedUp
    <3> QED BY <3>1, <3>2
  <2> QED BY <2>1, <2>2, <2>3
<1>3. NewsIsStored
  BY <1>1 DEF NewsIsStored
<1> QED BY <1>1, <1>2, <1>3, WorkersRest, SameLedger, Frame

\* 900 s pass: rows and handlers only lose their leases.
LEMMA LeaseEndsPreserves ==
    ASSUME IInv, NEW k \in Keys, LeaseEnds(k)
    PROVE  IInv'
<1>1. ledger' \in [Keys -> Row] /\ RowsKeepResults
  BY DEF IInv, TypeOK, LeaseEnds, Row, RowsKeepResults, PublisherIsStored
<1>2. WorkersTyped'
  <2> SUFFICES ASSUME NEW v \in Workers
               PROVE  worker'[v] = Idle \/ worker'[v] \in Handler
    BY DEF WorkersTyped, LeaseEnds
  <2> QED BY HandlerShape DEF IInv, TypeOK, LeaseEnds, Handler, Idle
<1>3. \A v \in Workers : Sound(v)
  BY DEF LeaseEnds, Sound
<1> QED BY <1>1, <1>2, <1>3, WorkerStep DEF LeaseEnds

---------------------------------------------------------------------------
(* The theorems *)

\* An empty ledger and empty topics.
LEMMA InitEstablishes == Init => IInv
<1> SUFFICES ASSUME Init PROVE IInv
  OBVIOUS
<1>1. TypeOK
  BY DEF Init, TypeOK, Row, Status, NoRow
<1>2. \A w \in Workers : worker[w].pc = "idle"
  BY DEF Init, Idle
<1>3. InHand /\ AckIsEarned /\ NoSilentLoss /\ AnnouncedIsStored
  BY <1>2 DEF Init, InHand, AckIsEarned, NoSilentLoss, AnnouncedIsStored
<1>4. PublisherIsStored
  BY <1>2 DEF Init, PublisherIsStored, NoRow
<1> QED BY <1>1, <1>3, <1>4 DEF IInv

\* Every step of every handler, and of the environment, keeps the invariant.
LEMMA NextPreserves == IInv /\ [Next]_vars => IInv'
<1> SUFFICES ASSUME IInv, [Next]_vars PROVE IInv'
  OBVIOUS
<1>1. ASSUME NEW w \in Workers, Handle(w)
      PROVE  IInv'
  BY <1>1, AcquirePreserves, ReplayPreserves, DispatchPreserves, CompletePreserves,
     PublishPreserves, PublishFailedPreserves, FailPreserves, RecoverPreserves,
     AckPreserves, NackPreserves DEF Handle
<1>2. CASE UNCHANGED vars
  BY <1>2, WorkersRest, SameLedger, WorkerStep DEF vars, topics
<1> QED BY <1>1, <1>2, TopicPreserves, LeaseEndsPreserves DEF Next

\* The inductive invariant holds in every reachable state.
THEOREM Inductive == Spec => []IInv
BY InitEstablishes, NextPreserves, PTL DEF Spec

\* The types of ledger, topics and handlers, retries within their bound.
THEOREM TypeCorrect == Spec => []TypeOK
<1>1. IInv => TypeOK
  BY DEF IInv
<1> QED BY <1>1, Inductive, PTL

\* No acknowledgement loses a command, for any number of workers, crashes,
\* duplicates and retries: it was announced, dead-lettered, rejected, or its
\* next attempt was published.
THEOREM NothingIsLost == Spec => []NoSilentLoss
<1>1. IInv => NoSilentLoss
  BY DEF IInv
<1> QED BY <1>1, Inductive, PTL

\* A result is in the ledger before anything of it is published downstream.
THEOREM StoredBeforeAnnounced == Spec => []AnnouncedIsStored
<1>1. IInv => AnnouncedIsStored
  BY DEF IInv
<1> QED BY <1>1, Inductive, PTL

\* First completion wins: as long as the lease lives, no second executor, late
\* failure or duplicate delivery changes a completed row.
THEOREM CompletionHolds == Spec => CompletedHolds
<1> DEFINE Holds(k) == (ledger[k].status = "completed" /\ ledger[k].live) =>
             ledger'[k].status = "completed" /\ ledger'[k].result = ledger[k].result
<1>1. ASSUME IInv, Next, NEW k \in Keys
      PROVE  Holds(k)
  <2>1. ASSUME NEW w \in Workers, Handle(w)
        PROVE  Holds(k)
    <3>1. ASSUME NEW m \in inbox, Acquire(w, m)
          PROVE  Holds(k)
      BY <1>1, <3>1 DEF Acquire, Claimable, IInv, TypeOK
    <3>2. CASE Complete(w)
      BY <1>1, <3>2 DEF Complete, Completable, IInv, TypeOK
    <3>3. CASE Fail(w)
      BY <1>1, <3>3 DEF Fail, Releasable, IInv, TypeOK
    <3>4. \/ \E m \in inbox : Acquire(w, m)
          \/ Complete(w) \/ Fail(w) \/ UNCHANGED ledger
      BY <2>1 DEF Handle, Replay, Dispatched, DispatchFailed, CompleteFailed, Publish,
                  PublishFailed, Retry, DeadLetter, Ack, Nack
    <3>5. CASE UNCHANGED ledger
      BY <3>5
    <3> QED BY <3>1, <3>2, <3>3, <3>4, <3>5
  <2>2. ASSUME NEW j \in Keys, LeaseEnds(j)
        PROVE  Holds(k)
    BY <1>1, <2>2 DEF LeaseEnds, IInv, TypeOK
  <2>3. CASE UNCHANGED ledger
    BY <2>3
  <2> QED BY <1>1, <2>1, <2>2, <2>3 DEF Next, Accept, Redeliver, Reject
<1>2. IInv /\ [Next]_vars => [\A k \in Keys : Holds(k)]_vars
  BY <1>1
<1> QED BY <1>2, Inductive, PTL DEF Spec, CompletedHolds
=============================================================================
