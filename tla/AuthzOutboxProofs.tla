------------------------- MODULE AuthzOutboxProofs -------------------------
(***************************************************************************)
(* Proofs about AuthzOutbox, for any objects, payloads, flushers and       *)
(* limits: nothing is lost that was committed while no flusher had a copy  *)
(* of the row.                                                             *)
(***************************************************************************)
EXTENDS AuthzOutbox, TLAPS

\* Ids come from the sequence: a new row has an id no copy has.
Numbered == /\ \A o \in Objects : outbox[o].id <= serial
            /\ \A f \in Flushers : \A c \in batch[f] : c.id <= serial

\* A row holds what was committed last for its object.
RowIsLatest == \A o \in Objects : Pending(o) => outbox[o].payload = latest[o]

\* A copy of a row that was not overtaken holds it too.
CopyIsLatest ==
    \A f \in Flushers : \A c \in batch[f] :
        (c.id = outbox[c.object].id /\ ~overtaken[c.object])
            => c.payload = latest[c.object]

\* A flusher deletes what it delivered.
DeleteIsEarned ==
    \A f \in Flushers : pc[f] = "delete" =>
        \/ Delivery(current[f]) \in spicedb
        \/ current[f].payload \in Poison /\ Delivery(current[f]) \in dead

IInv == /\ TypeOK
        /\ Numbered
        /\ RowIsLatest
        /\ CopyIsLatest
        /\ DeleteIsEarned
        /\ KeptUnlessOvertaken

\* Initially every part of the invariant holds: the table is empty.
LEMMA InitIInv == Init => IInv
<1> SUFFICES ASSUME Init PROVE IInv
  OBVIOUS
<1>1. TypeOK
  BY BoundsAssumption DEF Init, TypeOK, NoRow, Steps, Given
<1> QED
  BY <1>1 DEF Init, IInv, Numbered, RowIsLatest, CopyIsLatest, DeleteIsEarned,
              KeptUnlessOvertaken, Pending, NoRow

\* An upsert keeps the row's id, so it may change what a copy is a copy of; an
\* insertion takes an id that no copy has.
LEMMA PersistStep ==
    ASSUME IInv, NEW o \in Objects, NEW p \in Payloads, Persist(o, p)
    PROVE  IInv'
<1> USE DEF IInv
<1>1. TypeOK'
  <2>1. outbox' \in [Objects -> Row \cup {NoRow}] /\ serial' \in Nat
    <3>1. CASE Pending(o)
      BY <3>1 DEF Persist, TypeOK, Row, NoRow, Pending
    <3>2. CASE ~Pending(o)
      <4>1. serial + 1 \in Nat \ {0} /\ 0 \in Attempts
        BY BoundsAssumption DEF TypeOK, Attempts
      <4>2. [id |-> serial + 1, payload |-> p, attempts |-> 0, due |-> TRUE] \in Row
        BY <4>1 DEF Row
      <4> QED BY <3>2, <4>1, <4>2 DEF Persist, TypeOK
    <3> QED BY <3>1, <3>2
  <2>2. overtaken' \in [Objects -> BOOLEAN]
    BY DEF Persist, TypeOK
  <2> QED BY <2>1, <2>2 DEF Persist, TypeOK, Given
<1>2. Numbered'
  <2>1. CASE Pending(o)
    BY <2>1 DEF Persist, Numbered, TypeOK
  <2>2. CASE ~Pending(o)
    <3>1. \A q \in Objects : outbox[q].id \in Nat
      BY DEF TypeOK, Row, NoRow
    <3>2. \A f \in Flushers : \A c \in batch[f] : c.id \in Nat
      BY DEF TypeOK, OutboxRow
    <3> QED BY <2>2, <3>1, <3>2 DEF Persist, Numbered, TypeOK
  <2> QED BY <2>1, <2>2
<1>3. RowIsLatest'
  BY DEF Persist, RowIsLatest, Pending, TypeOK
<1>4. CopyIsLatest'
  <2> SUFFICES ASSUME NEW f \in Flushers, NEW c \in batch[f],
                      c.id = outbox'[c.object].id, ~overtaken'[c.object]
               PROVE  c.payload = latest'[c.object]
    BY DEF CopyIsLatest, Persist
  <2>0. c.object \in Objects /\ c.id \in Nat /\ c.id <= serial /\ serial \in Nat
    BY DEF TypeOK, OutboxRow, Numbered
  <2>1. CASE c.object # o
    BY <2>0, <2>1 DEF Persist, CopyIsLatest, TypeOK
  <2>2. CASE c.object = o /\ ~Pending(o)
    BY <2>0, <2>2 DEF Persist, TypeOK
  <2>3. CASE c.object = o /\ Pending(o)
    <3>1. c.id = outbox[o].id /\ Held(o)
      BY <2>3 DEF Persist, TypeOK, Held
    <3>2. ~overtaken[o] /\ p = outbox[o].payload
      BY <2>3, <3>1 DEF Persist, TypeOK
    <3>3. latest'[o] = p /\ outbox[o].payload = latest[o]
      BY <2>3 DEF Persist, TypeOK, RowIsLatest
    <3> QED BY <2>3, <3>1, <3>2, <3>3 DEF CopyIsLatest
  <2> QED BY <2>1, <2>2, <2>3
<1>5. DeleteIsEarned'
  BY DEF Persist, DeleteIsEarned, Delivery
<1>6. KeptUnlessOvertaken'
  <2> SUFFICES ASSUME NEW q \in Objects, latest'[q] # NoPayload, ~overtaken'[q]
               PROVE  Kept(q)'
    BY DEF KeptUnlessOvertaken
  <2>1. CASE q = o
    <3>1. outbox'[o].id # 0 /\ outbox'[o].payload = p
      BY DEF Persist, TypeOK, Pending
    <3> QED BY <2>1, <3>1 DEF Persist, TypeOK, Kept, Pending
  <2>2. CASE q # o
    BY <2>2 DEF Persist, TypeOK, KeptUnlessOvertaken, Kept, Pending
  <2> QED BY <2>1, <2>2
<1> QED BY <1>1, <1>2, <1>3, <1>4, <1>5, <1>6

\* A claim copies rows as they are.
LEMMA ClaimStep ==
    ASSUME IInv, NEW f \in Flushers, NEW taken \in SUBSET Objects, Claim(f, taken)
    PROVE  IInv'
<1> USE DEF IInv
<1>1. \A o \in taken : outbox[o] \in Row
  BY DEF Claim, Claimable, Pending, TypeOK, NoRow
<1>2. \A o \in Objects : /\ outbox'[o].id = outbox[o].id
                         /\ outbox'[o].payload = outbox[o].payload
  BY DEF Claim, Leased
<1>3. TypeOK'
  <2>1. outbox' \in [Objects -> Row \cup {NoRow}]
    BY <1>1 DEF Claim, TypeOK, Leased, Row
  <2>2. \A o \in taken : Copy(o) \in OutboxRow
    BY <1>1 DEF Copy, OutboxRow, Row
  <2>3. batch' \in [Flushers -> SUBSET OutboxRow]
    BY <2>2 DEF Claim, TypeOK
  <2>4. pc' \in [Flushers -> Steps]
    BY DEF Claim, TypeOK, Steps
  <2>5. \A g \in Flushers : IF pc'[g] \in {"idle", "next"} THEN current'[g] = NoCopy
                            ELSE current'[g] \in batch'[g]
    BY DEF Claim, TypeOK
  <2> QED BY <2>1, <2>3, <2>4, <2>5 DEF Claim, TypeOK, history
<1>4. \A g \in Flushers : \A c \in batch'[g] :
         c \in batch[g] \/ \E o \in taken : c = Copy(o)
  BY DEF Claim, TypeOK
<1>5. Numbered'
  BY <1>2, <1>4 DEF Claim, Numbered, Copy
<1>6. RowIsLatest'
  BY <1>2 DEF Claim, RowIsLatest, Pending, history
<1>7. CopyIsLatest'
  <2> SUFFICES ASSUME NEW g \in Flushers, NEW c \in batch'[g],
                      c.id = outbox'[c.object].id, ~overtaken'[c.object]
               PROVE  c.payload = latest'[c.object]
    BY DEF CopyIsLatest
  <2>1. CASE c \in batch[g]
    BY <1>2, <2>1 DEF Claim, CopyIsLatest, TypeOK, OutboxRow, history
  <2>2. CASE \E o \in taken : c = Copy(o)
    BY <2>2 DEF Claim, Claimable, Copy, RowIsLatest, history
  <2> QED BY <1>4, <2>1, <2>2
<1>8. DeleteIsEarned'
  BY DEF Claim, DeleteIsEarned, TypeOK, Delivery
<1>9. KeptUnlessOvertaken'
  BY <1>2 DEF Claim, KeptUnlessOvertaken, Kept, Pending, history
<1> QED BY <1>3, <1>5, <1>6, <1>7, <1>8, <1>9

\* Steps that touch neither the table nor the copies: what was delivered stays so.
LEMMA DeliveryStep ==
    ASSUME IInv, NEW f \in Flushers,
           \/ \E c \in batch[f] : Eject(f, c) \/ Write(f, c) \/ Refuse(f, c) \/ FailWrite(f, c)
           \/ Bury(f)
    PROVE  IInv'
<1> USE DEF IInv
<1>1. UNCHANGED <<outbox, serial, batch, latest, overtaken>>
      /\ spicedb \subseteq spicedb' /\ dead \subseteq dead'
  BY DEF Eject, Write, Refuse, FailWrite, Bury, history
<1>2. TypeOK'
  <2>1. spicedb' \subseteq Objects \X Payloads /\ dead' \subseteq Objects \X Payloads
    <3>1. \A c \in batch[f] : Delivery(c) \in Objects \X Payloads
      BY DEF TypeOK, OutboxRow, Delivery
    <3>2. CASE Bury(f)
      BY <3>1, <3>2 DEF Bury, TypeOK
    <3>3. ASSUME NEW c \in batch[f], Eject(f, c) \/ Write(f, c) \/ Refuse(f, c) \/ FailWrite(f, c)
          PROVE  spicedb' \subseteq Objects \X Payloads /\ dead' \subseteq Objects \X Payloads
      BY <3>1, <3>3 DEF Eject, Write, Refuse, FailWrite, TypeOK
    <3> QED BY <3>2, <3>3
  <2>2. /\ pc' \in [Flushers -> Steps]
        /\ \A g \in Flushers : IF pc'[g] \in {"idle", "next"} THEN current'[g] = NoCopy
                               ELSE current'[g] \in batch'[g]
    <3>1. CASE Bury(f)
      BY <3>1 DEF Bury, TypeOK, Steps
    <3>2. ASSUME NEW c \in batch[f], NEW step \in {"delete", "bury", "reschedule"},
                 Take(f, c, step)
          PROVE  /\ pc' \in [Flushers -> Steps]
                 /\ \A g \in Flushers : IF pc'[g] \in {"idle", "next"} THEN current'[g] = NoCopy
                                        ELSE current'[g] \in batch'[g]
      BY <1>1, <3>2 DEF Take, TypeOK, Steps
    <3>3. \A c : Escalation(c) \in {"delete", "bury", "reschedule"}
      BY DEF Escalation
    <3> QED BY <3>1, <3>2, <3>3 DEF Eject, Write, Refuse, FailWrite
  <2>3. DOMAIN current' = Flushers
    BY DEF Eject, Write, Refuse, FailWrite, Take, Bury, TypeOK
  <2> QED BY <1>1, <2>1, <2>2, <2>3 DEF TypeOK
<1>3. Numbered' /\ RowIsLatest' /\ CopyIsLatest'
  BY <1>1 DEF Numbered, RowIsLatest, CopyIsLatest, Pending
<1>4. DeleteIsEarned'
  <2>1. CASE Bury(f)
    BY <1>1, <2>1 DEF Bury, DeleteIsEarned, TypeOK, Delivery
  <2>2. ASSUME NEW c \in batch[f], Eject(f, c) \/ Write(f, c) \/ Refuse(f, c) \/ FailWrite(f, c)
        PROVE  DeleteIsEarned'
    BY <1>1, <2>2 DEF Eject, Write, Refuse, FailWrite, Take, Unparseable, Escalation,
                          DeleteIsEarned, TypeOK, Delivery
  <2> QED BY <2>1, <2>2
<1>5. KeptUnlessOvertaken'
  BY <1>1 DEF KeptUnlessOvertaken, Kept, Pending
<1> QED BY <1>2, <1>3, <1>4, <1>5

\* A flusher that is done with a row, or breaks off, holds fewer copies; a
\* deletion hits the row it has delivered, or one that overtook its copy.
LEMMA TreatStep ==
    ASSUME IInv, NEW f \in Flushers, Reschedule(f) \/ Delete(f)
    PROVE  IInv'
<1> USE DEF IInv
<1> DEFINE c == current[f]
<1>1. c \in batch[f] /\ c \in OutboxRow
  BY DEF TypeOK, Reschedule, Delete
<1>2. /\ \A g \in Flushers : batch'[g] \subseteq batch[g]
      /\ UNCHANGED <<serial, spicedb, dead, latest, overtaken>>
  BY DEF Reschedule, Delete, Treated, TypeOK, history
<1>3. \A o \in Objects :
         \/ outbox'[o].id = outbox[o].id /\ outbox'[o].payload = outbox[o].payload
         \/ Delete(f) /\ o = c.object /\ c.id = outbox[o].id /\ outbox'[o] = NoRow
  <2>1. CASE Reschedule(f)
    BY <1>1, <2>1 DEF Reschedule, Matches, TypeOK
  <2>2. CASE Delete(f)
    BY <1>1, <2>2 DEF Delete, Matches, TypeOK
  <2> QED BY <2>1, <2>2
<1>4. TypeOK'
  <2>1. outbox' \in [Objects -> Row \cup {NoRow}]
    <3>1. CASE Delete(f)
      BY <3>1 DEF Delete, TypeOK
    <3>2. CASE Reschedule(f) /\ ~Matches(c)
      BY <3>2 DEF Reschedule, TypeOK
    <3>3. CASE Reschedule(f) /\ Matches(c)
      <4>1. c.object \in Objects /\ outbox[c.object] \in Row
        BY <1>1, <3>3 DEF Matches, TypeOK, OutboxRow, NoRow
      <4>2. Counted(c.attempts + 1) \in Attempts
        BY <1>1, BoundsAssumption DEF Counted, Attempts, OutboxRow
      <4>3. \A due \in BOOLEAN :
               [id |-> c.id, payload |-> outbox[c.object].payload,
                attempts |-> Counted(c.attempts + 1), due |-> due] \in Row
        BY <1>1, <4>1, <4>2 DEF Row, OutboxRow
      <4> QED BY <3>3, <4>1, <4>3 DEF Reschedule, TypeOK
    <3> QED BY <3>1, <3>2, <3>3
  <2>2. /\ batch' \in [Flushers -> SUBSET OutboxRow]
        /\ DOMAIN current' = Flushers
        /\ pc' \in [Flushers -> Steps]
        /\ \A g \in Flushers : IF pc'[g] \in {"idle", "next"} THEN current'[g] = NoCopy
                               ELSE current'[g] \in batch'[g]
    BY DEF Reschedule, Delete, Treated, TypeOK, Steps
  <2> QED BY <1>2, <2>1, <2>2 DEF TypeOK
<1>5. Numbered'
  BY <1>2, <1>3 DEF Numbered, NoRow, TypeOK
<1>6. RowIsLatest'
  BY <1>2, <1>3 DEF RowIsLatest, Pending, NoRow
<1>7. CopyIsLatest'
  <2> SUFFICES ASSUME NEW g \in Flushers, NEW d \in batch'[g],
                      d.id = outbox'[d.object].id, ~overtaken'[d.object]
               PROVE  d.payload = latest'[d.object]
    BY DEF CopyIsLatest
  <2>1. d \in batch[g] /\ d.object \in Objects /\ d.id # 0
    BY <1>2 DEF TypeOK, OutboxRow
  <2>2. d.id = outbox[d.object].id
    BY <1>3, <2>1 DEF NoRow
  <2> QED BY <1>2, <2>1, <2>2 DEF CopyIsLatest
<1>8. DeleteIsEarned'
  BY <1>2 DEF Reschedule, Delete, Treated, DeleteIsEarned, TypeOK, Delivery
<1>9. KeptUnlessOvertaken'
  <2> SUFFICES ASSUME NEW o \in Objects, latest'[o] # NoPayload, ~overtaken'[o]
               PROVE  Kept(o)'
    BY DEF KeptUnlessOvertaken
  <2>1. CASE outbox'[o].id = outbox[o].id /\ outbox'[o].payload = outbox[o].payload
    BY <1>2, <2>1 DEF KeptUnlessOvertaken, Kept, Pending
  <2>2. CASE Delete(f) /\ o = c.object /\ c.id = outbox[o].id
    <3>1. c.payload = latest[o]
      BY <1>1, <1>2, <2>2 DEF CopyIsLatest
    <3> QED BY <1>2, <2>2, <3>1 DEF Delete, DeleteIsEarned, Delivery, Kept
  <2> QED BY <1>3, <2>1, <2>2
<1> QED BY <1>4, <1>5, <1>6, <1>7, <1>8, <1>9

\* A broken batch forgets copies; time changes only when a row is due.
LEMMA OtherStep ==
    ASSUME IInv, \/ \E f \in Flushers : Break(f)
                 \/ \E o \in Objects : Elapse(o)
    PROVE  IInv'
<1> USE DEF IInv
<1>1. ASSUME NEW f \in Flushers, Break(f) PROVE IInv'
  <2>1. TypeOK'
    BY <1>1 DEF Break, TypeOK, Steps, history
  <2>2. \A g \in Flushers : batch'[g] \subseteq batch[g]
    BY <1>1 DEF Break, TypeOK
  <2>3. Numbered' /\ RowIsLatest' /\ CopyIsLatest' /\ KeptUnlessOvertaken'
    BY <1>1, <2>2 DEF Break, history, Numbered, RowIsLatest, CopyIsLatest,
                      KeptUnlessOvertaken, Kept, Pending
  <2>4. DeleteIsEarned'
    BY <1>1 DEF Break, TypeOK, DeleteIsEarned, Delivery
  <2> QED BY <2>1, <2>3, <2>4
<1>2. ASSUME NEW o \in Objects, Elapse(o) PROVE IInv'
  <2>1. \A q \in Objects : /\ outbox'[q].id = outbox[q].id
                           /\ outbox'[q].payload = outbox[q].payload
    BY <1>2 DEF Elapse, TypeOK
  <2>2. TypeOK'
    <3>1. outbox' \in [Objects -> Row \cup {NoRow}]
      BY <1>2 DEF Elapse, TypeOK, Pending, Row, NoRow
    <3> QED BY <1>2, <3>1 DEF Elapse, TypeOK, history
  <2>3. Numbered' /\ RowIsLatest' /\ KeptUnlessOvertaken'
    BY <1>2, <2>1 DEF Elapse, history, Numbered, RowIsLatest,
                      KeptUnlessOvertaken, Kept, Pending
  <2>4. CopyIsLatest'
    BY <1>2, <2>1 DEF Elapse, history, CopyIsLatest, TypeOK, OutboxRow
  <2>5. DeleteIsEarned'
    BY <1>2 DEF Elapse, DeleteIsEarned, Delivery
  <2> QED BY <2>2, <2>3, <2>4, <2>5
<1> QED BY <1>1, <1>2

\* IInv is an inductive invariant of the outbox.
THEOREM Inductive == Spec => []IInv
<1>1. Init => IInv
  BY InitIInv
<1>2. IInv /\ [Next]_vars => IInv'
  <2> SUFFICES ASSUME IInv, [Next]_vars PROVE IInv'
    OBVIOUS
  <2>1. CASE UNCHANGED vars
    BY <2>1 DEF vars, history, IInv, TypeOK, Numbered, RowIsLatest, CopyIsLatest,
                DeleteIsEarned, KeptUnlessOvertaken, Kept, Pending, Delivery
  <2>2. ASSUME NEW o \in Objects, NEW p \in Payloads, Persist(o, p) PROVE IInv'
    BY <2>2, PersistStep
  <2>3. ASSUME NEW f \in Flushers, Proceed(f) \/ Fault(f) PROVE IInv'
    BY <2>3, ClaimStep, DeliveryStep, TreatStep, OtherStep DEF Proceed, Fault
  <2>4. ASSUME NEW o \in Objects, Elapse(o) PROVE IInv'
    BY <2>4, OtherStep
  <2> QED BY <2>1, <2>2, <2>3, <2>4 DEF Next
<1> QED BY <1>1, <1>2, PTL DEF Spec

\* Rows, copies and deliveries keep their types: no statement of a flusher
\* brings a deleted row back.
THEOREM TypeCorrect == Spec => []TypeOK
<1>1. IInv => TypeOK
  BY DEF IInv
<1> QED BY <1>1, Inductive, PTL

\* What was committed last for an object is in its row, in SpiceDB or ejected as
\* poison, unless it replaced the payload of a row some flusher had a copy of.
THEOREM NothingElseIsLost == Spec => []KeptUnlessOvertaken
<1>1. IInv => KeptUnlessOvertaken
  BY DEF IInv
<1> QED BY <1>1, Inductive, PTL
=============================================================================
