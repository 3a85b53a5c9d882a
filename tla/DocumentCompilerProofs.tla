---------------------- MODULE DocumentCompilerProofs ----------------------
(***************************************************************************)
(* Proofs about CompilationQueue and, above it, DocumentCompiler: for      *)
(* every set of jobs, workers, controllers and clients, every limit and    *)
(* every duration that the assumptions of the two modules allow.           *)
(*                                                                         *)
(* The queue.  SupersededLapsed is not inductive: it needs to know where   *)
(* leases come from (FreshLeases), that the current lease and its copy     *)
(* agree on the deadline (CurrentCopy), that a row is as old as its        *)
(* capability (RowAge) and, above all, that a copy never outlives its row  *)
(* into a new admission (CopiesKeepTheirRow, PurgesAreDue).                *)
(*                                                                         *)
(* The compiler.  Each of its steps is a step of the queue or leaves the   *)
(* queue alone, which carries the queue's invariant over; SInv adds what   *)
(* ties the tasks, the cleaners and the submissions to the rows and to the *)
(* stored objects.                                                         *)
(***************************************************************************)
EXTENDS DocumentCompiler, FiniteSetTheorems, TLAPS

(* CompilationQueue: the parts of its inductive invariant IInv *)


RowShape ==
    \A j \in Jobs :
        /\ ~Terminal(j) => rows[j].failure = "none"
        /\ rows[j].status # "running" /\ ~Terminal(j) =>
               rows[j].lease = 0 /\ rows[j].attempts = 0
        /\ rows[j].attempts <= MaxAttempts

FreshLeases ==
    /\ \A j \in Jobs : rows[j].lease <= issued
    /\ \A c \in claims : 0 < c.lease /\ c.lease <= issued

\* A lease names one job, and the worker's copy has the row's deadline.
CurrentCopy ==
    \A c \in claims, j \in Jobs :
        rows[j].lease = c.lease => c.id = j /\ c.until = rows[j].lease_until

OthersLapsed ==
    \A c \in claims :
        (Exists(c.id) /\ rows[c.id].lease # c.lease) => c.until < clock

RowAge ==
    \A j \in Jobs : Exists(j) =>
        /\ capability[j] # 0
        /\ rows[j].created_at + CapabilityMs >= capability[j]

CopiesKeepTheirRow == \A c \in claims : Exists(c.id) \/ Closed(c.id)

PurgesAreDue ==
    \A p \in purges : IF Exists(p.id) THEN Expired(p.id, clock)
                                      ELSE Closed(p.id)

IInv == /\ TypeOK /\ RowShape /\ FreshLeases /\ CurrentCopy /\ OthersLapsed
        /\ RowAge /\ CopiesKeepTheirRow /\ PurgesAreDue /\ GivenUpIsLapsed

USE DEF ActiveStatus, TerminalStatus, Exists, Active, Terminal, Closed, NoLease

---------------------------------------------------------------------------

\* The columns of a row have their types.
LEMMA Columns ==
    ASSUME TypeOK
    PROVE  \A j \in Jobs :
               /\ rows[j].lease \in Nat
               /\ rows[j].lease_until \in Nat
               /\ rows[j].attempts \in Nat
               /\ rows[j].created_at \in Nat
BY DEF TypeOK, Row

\* So do its texts: status, failure and fingerprint.
LEMMA Labels ==
    ASSUME TypeOK
    PROVE  \A j \in Jobs :
               /\ rows[j].status \in {"absent", "queued", "running",
                                     "completed", "failed", "cancelled"}
               /\ rows[j].failure \in {"none", "retry_limit", "compilation_failed"}
               /\ rows[j].fingerprint \in Fingerprints \cup {NoPrint}
BY DEF TypeOK, Row

\* So do the fields of a copy.
LEMMA Copies ==
    ASSUME TypeOK
    PROVE  /\ \A c \in claims : c.id \in Jobs /\ c.lease \in Nat /\ c.until \in Nat
           /\ \A p \in purges : p.id \in Jobs /\ p.lease \in Nat
BY DEF TypeOK, Claim, Purge

\* claim: the other rows are untouched, the granted one was lapsed or queued.
LEMMA GrantPreserves ==
    ASSUME IInv, NEW j \in Jobs, NEW t \in Stamps, Grant(j, t)
    PROVE  IInv'
<1> USE LimitsAssumption, TimesAssumption, WindowAssumption
<1>1. /\ t \in Nat /\ t <= clock /\ clock \in Nat /\ issued \in Nat
      /\ t + LeaseMs \in Nat /\ issued + 1 \in Nat
  BY DEF IInv, TypeOK, Stamps
<1>2. rows[j] \in Row /\ rows \in [Jobs -> Row]
  BY DEF IInv, TypeOK
<1>3. rows' = [rows EXCEPT ![j] = Leased(j, t)]
  BY DEF Grant
<1>4. Leased(j, t) \in Row
  <2>1. rows[j].attempts + 1 \in Nat
    BY Columns DEF IInv
  <2> QED BY <1>1, <2>1, Columns, Labels DEF IInv, Leased, Row
<1>5. rows' \in [Jobs -> Row] /\ rows'[j] = Leased(j, t)
      /\ \A k \in Jobs \ {j} : rows'[k] = rows[k]
  BY <1>2, <1>3, <1>4
<1>6. /\ rows'[j].status = "running" /\ rows'[j].failure = rows[j].failure
      /\ rows'[j].lease = issued + 1 /\ rows'[j].lease_until = t + LeaseMs
      /\ rows'[j].attempts = rows[j].attempts + 1
      /\ rows'[j].created_at = rows[j].created_at
  BY <1>5 DEF Leased
<1>7. /\ rows[j].status = "queued" \/ (rows[j].status = "running" /\ rows[j].lease_until < t)
      /\ rows[j].attempts < MaxAttempts
  <2>1. Eligible(j, t) /\ ~Spent(j)
    BY DEF Grant, Candidate
  <2>2. rows[j].attempts \in Nat
    BY Columns DEF IInv
  <2> QED BY <2>1, <2>2 DEF Eligible, Spent
<1>8. PICK d : d = [id |-> j, lease |-> issued + 1, fingerprint |-> rows[j].fingerprint,
                    until |-> t + LeaseMs]
  OBVIOUS
<1>9. /\ claims' = claims \cup {d} /\ d \in Claim /\ d.id = j
      /\ d.lease = issued + 1 /\ d.until = t + LeaseMs
  BY <1>1, <1>2, <1>8 DEF Grant, Claim, Row
<1>10. issued' = issued + 1 /\ UNCHANGED <<clock, purges, capability>>
  BY DEF Grant
<1>11. TypeOK'
  BY <1>1, <1>5, <1>9, <1>10 DEF IInv, TypeOK
<1>12. RowShape'
  <2> SUFFICES ASSUME NEW k \in Jobs
               PROVE  /\ ~Terminal(k)' => rows'[k].failure = "none"
                      /\ rows'[k].status # "running" /\ ~Terminal(k)' =>
                             rows'[k].lease = 0 /\ rows'[k].attempts = 0
                      /\ rows'[k].attempts <= MaxAttempts
    BY DEF RowShape
  <2>1. CASE k = j
    <3>1. rows'[j].failure = "none"
      BY <1>6, <1>7 DEF IInv, RowShape
    <3>2. rows'[j].attempts <= MaxAttempts
      BY <1>6, <1>7, Columns DEF IInv
    <3>3. rows'[j].status = "running"
      BY <1>6
    <3> QED BY <2>1, <3>1, <3>2, <3>3
  <2>2. CASE k # j
    BY <1>5, <2>2 DEF IInv, RowShape
  <2> QED BY <2>1, <2>2
<1>13. FreshLeases'
  BY <1>1, <1>5, <1>6, <1>9, <1>10, Columns, Copies DEF IInv, FreshLeases
<1>14. CurrentCopy'
  BY <1>1, <1>5, <1>6, <1>9, <1>10, Columns, Copies DEF IInv, FreshLeases, CurrentCopy
<1>15. OthersLapsed'
  <2> SUFFICES ASSUME NEW c \in claims', Exists(c.id)', rows'[c.id].lease # c.lease
               PROVE  c.until < clock
    BY <1>10 DEF OthersLapsed
  <2>1. c # d
    BY <1>6, <1>9
  <2>2. c \in claims
    BY <2>1, <1>9
  <2>3. CASE c.id # j
    BY <1>5, <2>2, <2>3, Copies DEF IInv, OthersLapsed
  <2>4. CASE c.id = j /\ rows[j].lease = c.lease
    <3>1. c.lease > 0 /\ c.until = rows[j].lease_until
      BY <2>2, <2>4 DEF IInv, FreshLeases, CurrentCopy
    <3>2. rows[j].lease # 0
      BY <2>2, <2>4, <3>1, Copies DEF IInv
    <3>3. rows[j].status # "queued"
      BY <3>2 DEF IInv, RowShape
    <3> QED BY <1>1, <1>7, <3>1, <3>3, Columns DEF IInv
  <2>5. CASE c.id = j /\ rows[j].lease # c.lease
    BY <1>7, <2>2, <2>5 DEF IInv, OthersLapsed
  <2> QED BY <2>3, <2>4, <2>5
<1>16. RowAge'
  BY <1>5, <1>6, <1>7, <1>10 DEF IInv, RowAge
<1>17. CopiesKeepTheirRow'
  BY <1>5, <1>6, <1>7, <1>9, <1>10, Copies DEF IInv, CopiesKeepTheirRow
<1>18. PurgesAreDue'
  BY <1>5, <1>6, <1>7, <1>10, Copies DEF IInv, PurgesAreDue, Expired
<1>19. GivenUpIsLapsed'
  <2> SUFFICES ASSUME NEW k \in Jobs, rows'[k].failure = "retry_limit"
               PROVE  /\ rows'[k].status = "failed"
                      /\ rows'[k].attempts = MaxAttempts
                      /\ \A c \in claims' : c.id = k => c.until < clock
    BY <1>10 DEF GivenUpIsLapsed
  <2>1. rows[j].failure = "none"
    BY <1>7 DEF IInv, RowShape
  <2>2. k # j /\ rows'[k] = rows[k]
    BY <1>5, <1>6, <2>1
  <2> QED
    BY <1>9, <2>2 DEF IInv, GivenUpIsLapsed
<1> QED
  BY <1>11, <1>12, <1>13, <1>14, <1>15, <1>16, <1>17, <1>18, <1>19 DEF IInv

\* A worker or cleaner drops its copy, time passes, a capability is minted:
\* the table is untouched and nothing that was closed or lapsed reopens.
LEMMA QuietPreserves ==
    ASSUME IInv, UNCHANGED <<rows, issued>>,
           claims' \subseteq claims, purges' \subseteq purges,
           clock' \in Nat, clock' >= clock,
           capability' \in [Jobs -> Nat],
           \A j \in Jobs : capability[j] # 0 => capability'[j] = capability[j]
    PROVE  IInv'
<1> USE LimitsAssumption, TimesAssumption, WindowAssumption
<1>1. clock \in Nat /\ capability \in [Jobs -> Nat]
  BY DEF IInv, TypeOK
<1>2. TypeOK'
  BY DEF IInv, TypeOK
<1>3. RowShape' /\ FreshLeases' /\ CurrentCopy'
  <2>1. RowShape'
    BY DEF IInv, RowShape
  <2>2. FreshLeases'
    BY DEF IInv, FreshLeases
  <2>3. CurrentCopy'
    BY DEF IInv, CurrentCopy
  <2> QED BY <2>1, <2>2, <2>3
<1>4. OthersLapsed'
  BY <1>1, Copies DEF IInv, OthersLapsed
<1>5. RowAge'
  BY DEF IInv, RowAge
<1>6. \A j \in Jobs : Closed(j) => Closed(j)'
  BY <1>1
<1>7. CopiesKeepTheirRow'
  BY <1>6, Copies DEF IInv, CopiesKeepTheirRow
<1>8. \A j \in Jobs : Expired(j, clock) => Expired(j, clock)'
  BY <1>1, Columns DEF IInv, Expired
<1>9. PurgesAreDue'
  BY <1>6, <1>8, Copies DEF IInv, PurgesAreDue
<1>10. GivenUpIsLapsed'
  BY <1>1, Copies DEF IInv, GivenUpIsLapsed
<1> QED
  BY <1>2, <1>3, <1>4, <1>5, <1>7, <1>9, <1>10 DEF IInv

\* finish, cancel and the retry limit: an active row ends, the columns that
\* fence it stay.
LEMMA EndPreserves ==
    ASSUME IInv, NEW j \in Jobs, Active(j),
           rows' \in [Jobs -> Row], \A k \in Jobs \ {j} : rows'[k] = rows[k],
           rows'[j].status \in TerminalStatus,
           rows'[j].lease = rows[j].lease,
           rows'[j].lease_until = rows[j].lease_until,
           rows'[j].attempts = rows[j].attempts,
           rows'[j].created_at = rows[j].created_at,
           claims' \subseteq claims, UNCHANGED <<clock, issued, purges, capability>>,
           rows'[j].failure = "retry_limit" =>
               /\ rows'[j].status = "failed"
               /\ rows[j].attempts = MaxAttempts
               /\ \A c \in claims : c.id = j => c.until < clock
    PROVE  IInv'
<1>1. TypeOK'
  BY DEF IInv, TypeOK
<1>2. RowShape'
  BY DEF IInv, RowShape
<1>3. FreshLeases'
  BY DEF IInv, FreshLeases
<1>4. CurrentCopy'
  BY DEF IInv, CurrentCopy
<1>5. \A k \in Jobs : Exists(k)' = Exists(k)
  OBVIOUS
<1>6. OthersLapsed'
  BY <1>5, Copies DEF IInv, OthersLapsed
<1>7. RowAge'
  BY <1>5 DEF IInv, RowAge
<1>8. CopiesKeepTheirRow'
  BY <1>5, Copies DEF IInv, CopiesKeepTheirRow
<1>9. PurgesAreDue'
  BY <1>5, Copies DEF IInv, PurgesAreDue, Expired
<1>10. GivenUpIsLapsed'
  BY DEF IInv, GivenUpIsLapsed
<1> QED
  BY <1>1, <1>2, <1>3, <1>4, <1>6, <1>7, <1>8, <1>9, <1>10 DEF IInv

\* enqueue: the window is open, so no copy of an earlier row of this id exists.
LEMMA InsertPreserves ==
    ASSUME IInv, NEW j \in Jobs, NEW f \in Fingerprints, NEW t \in Stamps,
           Insert(j, f, t)
    PROVE  IInv'
<1> USE LimitsAssumption, TimesAssumption, WindowAssumption
<1>1. /\ t \in Nat /\ t <= clock /\ clock \in Nat /\ rows \in [Jobs -> Row]
      /\ capability \in [Jobs -> Nat]
  BY DEF IInv, TypeOK, Stamps
<1>2. /\ ~Exists(j) /\ ~Closed(j) /\ capability[j] # 0
      /\ t + CapabilityMs >= capability[j]
  BY <1>1 DEF Insert, Admission, WindowOpen
<1>3. issued \in Nat /\ MaxAttempts \in Nat
  BY DEF IInv, TypeOK
<1>4. NewRow(f, t) \in Row
  BY <1>1 DEF Row, NewRow
<1>5. /\ rows' \in [Jobs -> Row] /\ rows'[j] = NewRow(f, t)
      /\ \A k \in Jobs \ {j} : rows'[k] = rows[k]
  BY <1>1, <1>4 DEF Insert
<1>6. /\ rows'[j].status = "queued" /\ rows'[j].failure = "none"
      /\ rows'[j].lease = 0 /\ rows'[j].attempts = 0 /\ rows'[j].created_at = t
  BY <1>5 DEF NewRow
<1>7. UNCHANGED <<clock, issued, claims, purges, capability>>
  BY DEF Insert
<1>8. \A c \in claims : c.id # j
  BY <1>2 DEF IInv, CopiesKeepTheirRow
<1>9. \A p \in purges : p.id # j
  BY <1>2 DEF IInv, PurgesAreDue
<1>10. TypeOK'
  BY <1>5, <1>7 DEF IInv, TypeOK
<1>11. RowShape'
  BY <1>3, <1>5, <1>6 DEF IInv, RowShape
<1>12. FreshLeases'
  BY <1>3, <1>5, <1>6, <1>7 DEF IInv, FreshLeases
<1>13. CurrentCopy'
  BY <1>5, <1>6, <1>7, Copies DEF IInv, FreshLeases, CurrentCopy
<1>14. OthersLapsed' /\ CopiesKeepTheirRow'
  BY <1>5, <1>7, <1>8, Copies DEF IInv, OthersLapsed, CopiesKeepTheirRow
<1>15. RowAge'
  BY <1>2, <1>5, <1>6, <1>7 DEF IInv, RowAge
<1>16. PurgesAreDue'
  BY <1>5, <1>7, <1>9, Copies DEF IInv, PurgesAreDue, Expired
<1>17. GivenUpIsLapsed'
  BY <1>5, <1>6, <1>7 DEF IInv, GivenUpIsLapsed
<1> QED
  BY <1>10, <1>11, <1>12, <1>13, <1>14, <1>15, <1>16, <1>17 DEF IInv

\* forget: the row was due, so the submission window closed long ago.
LEMMA ForgetPreserves ==
    ASSUME IInv, NEW p \in purges, Forget(p), NEW j \in Jobs, p.id = j,
           rows[j].lease = p.lease, Terminal(j)
    PROVE  IInv'
<1> USE LimitsAssumption, TimesAssumption, WindowAssumption
<1>1. /\ rows \in [Jobs -> Row] /\ clock \in Nat /\ issued \in Nat
      /\ capability \in [Jobs -> Nat] /\ MaxAttempts \in Nat
  BY DEF IInv, TypeOK
<1>2. NoRow \in Row
  BY DEF NoRow, Row
<1>3. /\ rows' \in [Jobs -> Row] /\ rows'[j] = NoRow
      /\ \A k \in Jobs \ {j} : rows'[k] = rows[k]
  BY <1>1, <1>2 DEF Forget
<1>4. /\ rows'[j].status = "absent" /\ rows'[j].failure = "none"
      /\ rows'[j].lease = 0 /\ rows'[j].attempts = 0
  BY <1>3 DEF NoRow
<1>5. /\ UNCHANGED <<clock, issued, claims, capability>>
      /\ purges' \subseteq purges
  BY DEF Forget
<1>6. Closed(j)
  <2>1. Exists(j) /\ Expired(j, clock)
    BY DEF IInv, PurgesAreDue
  <2>2. capability[j] # 0 /\ rows[j].created_at + CapabilityMs >= capability[j]
    BY <1>1, <2>1 DEF IInv, RowAge
  <2>3. rows[j].created_at + RetentionMs <= clock
    BY <2>1 DEF Expired
  <2> QED BY <1>1, <2>2, <2>3, Columns DEF IInv
<1>7. TypeOK'
  BY <1>3, <1>5 DEF IInv, TypeOK
<1>8. RowShape'
  BY <1>1, <1>3, <1>4 DEF IInv, RowShape
<1>9. FreshLeases'
  BY <1>1, <1>3, <1>4, <1>5 DEF IInv, FreshLeases
<1>10. CurrentCopy'
  BY <1>3, <1>4, <1>5, Copies DEF IInv, FreshLeases, CurrentCopy
<1>11. OthersLapsed'
  BY <1>3, <1>4, <1>5, Copies DEF IInv, OthersLapsed
<1>12. RowAge'
  BY <1>3, <1>4, <1>5 DEF IInv, RowAge
<1>13. CopiesKeepTheirRow'
  BY <1>3, <1>4, <1>5, <1>6, Copies DEF IInv, CopiesKeepTheirRow
<1>14. PurgesAreDue'
  BY <1>3, <1>4, <1>5, <1>6, Copies DEF IInv, PurgesAreDue, Expired
<1>15. GivenUpIsLapsed'
  BY <1>3, <1>4, <1>5 DEF IInv, GivenUpIsLapsed
<1> QED
  BY <1>7, <1>8, <1>9, <1>10, <1>11, <1>12, <1>13, <1>14, <1>15 DEF IInv

\* expired: the copies handed to a cleaner are due.
LEMMA ExpirePreserves ==
    ASSUME IInv, NEW t \in Stamps, NEW batch \in PurgeBatch(t), Expire(batch)
    PROVE  IInv'
<1> USE LimitsAssumption, TimesAssumption
<1>1. /\ t \in Nat /\ t <= clock /\ clock \in Nat
      /\ UNCHANGED <<rows, clock, issued, claims, capability>>
  BY DEF IInv, TypeOK, Stamps, Expire
<1>2. \A j \in batch : j \in Jobs /\ Expired(j, t)
  BY DEF PurgeBatch
<1>3. \A j \in batch : j \in Jobs /\ Exists(j) /\ Expired(j, clock)
  BY <1>1, <1>2, Columns DEF IInv, Expired
<1>4. \A p \in purges' : p \in purges \/ \E j \in batch : p = [id |-> j, lease |-> rows[j].lease]
  BY DEF Expire, Copy
<1>5. TypeOK'
  <2>1. \A j \in batch : [id |-> j, lease |-> rows[j].lease] \in Purge
    BY <1>3, Columns DEF IInv, Purge
  <2> QED BY <1>1, <1>4, <2>1 DEF IInv, TypeOK
<1>6. PurgesAreDue'
  <2> SUFFICES ASSUME NEW p \in purges', p \notin purges
               PROVE  Exists(p.id) /\ Expired(p.id, clock)
    BY <1>1 DEF IInv, PurgesAreDue, Expired
  <2> QED BY <1>3, <1>4
<1> QED
  BY <1>1, <1>5, <1>6 DEF IInv, RowShape, FreshLeases, CurrentCopy, OthersLapsed,
                          RowAge, CopiesKeepTheirRow, GivenUpIsLapsed

\* Changing status and failure keeps a table a table.
LEMMA EndedRow ==
    ASSUME NEW table \in [Jobs -> Row], NEW j \in Jobs,
           NEW s \in {"completed", "failed", "cancelled"},
           NEW f \in {"none", "retry_limit", "compilation_failed"}
    PROVE  [table EXCEPT ![j].status = s, ![j].failure = f] \in [Jobs -> Row]
<1>1. PICK once : once = [table EXCEPT ![j].status = s]
  OBVIOUS
<1>2. once \in [Jobs -> Row]
  BY <1>1 DEF Row
<1>3. [once EXCEPT ![j].failure = f] \in [Jobs -> Row]
  BY <1>2 DEF Row
<1> QED BY <1>1, <1>3

\* claim on a job whose attempts are used up.
LEMMA GiveUpPreserves ==
    ASSUME IInv, NEW j \in Jobs, NEW t \in Stamps, GiveUp(j, t)
    PROVE  IInv'
<1> USE LimitsAssumption
<1>1. rows \in [Jobs -> Row] /\ t \in Nat /\ clock \in Nat /\ t <= clock
  BY DEF IInv, TypeOK, Stamps
<1>2. /\ rows[j].attempts >= MaxAttempts /\ rows[j].attempts # 0
      /\ Eligible(j, t)
  BY Columns DEF IInv, GiveUp, Candidate, Spent
<1>3. /\ rows[j].attempts = MaxAttempts /\ rows[j].status = "running"
      /\ rows[j].lease_until < clock
  BY <1>1, <1>2, Columns DEF IInv, RowShape, Eligible
<1>4. \A c \in claims : c.id = j => c.until < clock
  BY <1>3 DEF IInv, CurrentCopy, OthersLapsed
<1>5. rows' = [rows EXCEPT ![j].status = "failed", ![j].failure = "retry_limit"]
  BY DEF GiveUp
<1>6. rows' \in [Jobs -> Row]
  BY <1>1, <1>5, EndedRow
<1>7. /\ \A k \in Jobs \ {j} : rows'[k] = rows[k]
      /\ rows'[j].status = "failed" /\ rows'[j].lease = rows[j].lease
      /\ rows'[j].lease_until = rows[j].lease_until
      /\ rows'[j].attempts = rows[j].attempts
      /\ rows'[j].created_at = rows[j].created_at
  BY <1>1, <1>5 DEF Row
<1> QED
  BY <1>3, <1>4, <1>6, <1>7, EndPreserves DEF GiveUp

\* cancel: a queued or running row ends, its lease and its attempts stay.
LEMMA CancelPreserves ==
    ASSUME IInv, NEW j \in Jobs, Cancel(j)
    PROVE  IInv'
<1>1. rows \in [Jobs -> Row]
  BY DEF IInv, TypeOK
<1>2. rows' = [rows EXCEPT ![j].status = "cancelled"] /\ Active(j)
  BY DEF Cancel
<1>3. rows' \in [Jobs -> Row]
  BY <1>1, <1>2 DEF Row
<1>4. /\ \A k \in Jobs \ {j} : rows'[k] = rows[k]
      /\ rows'[j].status = "cancelled" /\ rows'[j].failure = rows[j].failure
      /\ rows'[j].lease = rows[j].lease
      /\ rows'[j].lease_until = rows[j].lease_until
      /\ rows'[j].attempts = rows[j].attempts
      /\ rows'[j].created_at = rows[j].created_at
  BY <1>1, <1>2 DEF Row
<1>5. rows'[j].failure = "none"
  BY <1>2, <1>4 DEF IInv, RowShape
<1> QED
  BY <1>2, <1>3, <1>4, <1>5, EndPreserves DEF Cancel

\* finish: a copy whose lease is not current changes nothing.
LEMMA FinishPreserves ==
    ASSUME IInv, NEW c \in claims, NEW ok \in BOOLEAN, Finish(c, ok)
    PROVE  IInv'
<1>1. rows \in [Jobs -> Row] /\ c.id \in Jobs
  BY Copies DEF IInv, TypeOK
<1>2. claims' \subseteq claims /\ UNCHANGED <<clock, issued, purges, capability>>
  BY DEF Finish
<1>3. CASE ~Fenced(c)
  <2>1. UNCHANGED rows
    BY <1>3 DEF Finish
  <2> QED BY <1>2, <2>1, QuietPreserves DEF IInv, TypeOK
<1>4. CASE Fenced(c)
  <2>1. PICK j \in Jobs : j = c.id
    BY <1>1
  <2>2. PICK o : o = Outcome(ok)
    OBVIOUS
  <2>3. rows' = [rows EXCEPT ![j].status = o.status, ![j].failure = o.failure]
    BY <1>4, <2>1, <2>2 DEF Finish
  <2>4. /\ o.status \in {"completed", "failed"}
        /\ o.failure \in {"none", "compilation_failed"}
    BY <2>2 DEF Outcome
  <2>5. rows' \in [Jobs -> Row]
    BY <1>1, <2>3, <2>4, EndedRow
  <2>6. /\ \A k \in Jobs \ {j} : rows'[k] = rows[k]
        /\ rows'[j].status = o.status /\ rows'[j].failure = o.failure
        /\ rows'[j].lease = rows[j].lease
        /\ rows'[j].lease_until = rows[j].lease_until
        /\ rows'[j].attempts = rows[j].attempts
        /\ rows'[j].created_at = rows[j].created_at
    BY <1>1, <2>3 DEF Row
  <2>7. Active(j)
    BY <1>4, <2>1 DEF Fenced
  <2>8. rows'[j].failure # "retry_limit" /\ rows'[j].status \in TerminalStatus
    BY <2>4, <2>6
  <2> QED
    BY <1>2, <2>5, <2>6, <2>7, <2>8, EndPreserves
<1> QED BY <1>3, <1>4

---------------------------------------------------------------------------
(* The theorems *)

\* The table 001_queue.sql creates is empty and satisfies the invariant.
LEMMA InitEstablishes == Init => IInv
<1> SUFFICES ASSUME Init PROVE IInv
  OBVIOUS
<1> USE LimitsAssumption
<1>1. NoRow \in Row
  BY DEF NoRow, Row
<1>2. /\ rows \in [Jobs -> Row] /\ clock = 0 /\ issued = 0 /\ claims = {} /\ purges = {}
      /\ capability \in [Jobs -> Nat]
  BY <1>1 DEF Init
<1>3. \A j \in Jobs : /\ rows[j].status = "absent" /\ rows[j].failure = "none"
                      /\ rows[j].lease = 0 /\ rows[j].attempts = 0
  BY DEF Init, NoRow
<1>4. TypeOK
  BY <1>2 DEF TypeOK
<1>5. RowShape /\ FreshLeases /\ RowAge
  BY <1>2, <1>3 DEF RowShape, FreshLeases, RowAge
<1>6. /\ CurrentCopy /\ OthersLapsed /\ CopiesKeepTheirRow /\ PurgesAreDue
      /\ GivenUpIsLapsed
  BY <1>2, <1>3 DEF CurrentCopy, OthersLapsed, CopiesKeepTheirRow, PurgesAreDue,
                    GivenUpIsLapsed
<1> QED BY <1>4, <1>5, <1>6 DEF IInv

\* Every operation of queue.rs, and every way a caller can fail, keeps the
\* inductive invariant.
LEMMA NextPreserves == IInv /\ [Next]_vars => IInv'
<1> SUFFICES ASSUME IInv, [Next]_vars PROVE IInv'
  OBVIOUS
<1>0. clock \in Nat /\ capability \in [Jobs -> Nat]
  BY DEF IInv, TypeOK
<1>1. CASE Tick
  BY <1>0, <1>1, QuietPreserves DEF Tick
<1>2. ASSUME NEW j \in Jobs, Mint(j) PROVE IInv'
  <2>1. capability' = [capability EXCEPT ![j] = clock + CapabilityMs] /\ capability[j] = 0
    BY <1>2 DEF Mint
  <2>2. /\ capability' \in [Jobs -> Nat]
        /\ \A k \in Jobs : capability[k] # 0 => capability'[k] = capability[k]
    BY <1>0, <2>1, TimesAssumption
  <2> QED BY <1>0, <1>2, <2>2, QuietPreserves DEF Mint
<1>3. CASE Abandon
  BY <1>0, <1>3, QuietPreserves DEF Abandon
<1>4. ASSUME NEW p \in purges, Forget(p) PROVE IInv'
  <2>1. CASE rows[p.id].lease = p.lease /\ Terminal(p.id)
    BY <1>4, <2>1, ForgetPreserves, Copies DEF IInv
  <2>2. CASE ~(rows[p.id].lease = p.lease /\ Terminal(p.id))
    BY <1>0, <1>4, <2>2, QuietPreserves DEF Forget
  <2> QED BY <2>1, <2>2
<1>5. CASE UNCHANGED vars
  BY <1>0, <1>5, QuietPreserves DEF vars
<1> QED
  BY <1>1, <1>2, <1>3, <1>4, <1>5, CancelPreserves, InsertPreserves,
     GrantPreserves, GiveUpPreserves, FinishPreserves, ExpirePreserves DEF Next

\* The inductive invariant, which the theorems below read their facts from.
THEOREM Inductive == Spec => []IInv
BY InitEstablishes, NextPreserves, PTL DEF Spec

\* Every variable keeps its type, for every instance of the queue.
THEOREM TypeCorrect == Spec => []TypeOK
<1>1. IInv => TypeOK
  BY DEF IInv
<1> QED BY <1>1, Inductive, PTL

\* Lease exclusion: whoever holds a superseded claim of an unfinished job is
\* past its deadline, whatever the interleaving of recovery, cancellation,
\* purge and resubmission.
THEOREM LeaseExclusion == Spec => []SupersededLapsed
<1>1. IInv => SupersededLapsed
  BY DEF IInv, OthersLapsed, SupersededLapsed
<1> QED BY <1>1, Inductive, PTL

\* The retry limit is reported only for jobs nobody can still be working on.
THEOREM GiveUpSafe == Spec => []GivenUpIsLapsed
<1>1. IInv => GivenUpIsLapsed
  BY DEF IInv
<1> QED BY <1>1, Inductive, PTL

---------------------------------------------------------------------------
(* What one step may do to a row *)

\* Besides inserting, a step leaves a row alone, moves an active row on, or
\* deletes a row that is due.
Moves(k) == \/ rows'[k] = rows[k]
            \/ Active(k) /\ rows'[k].status # "absent"
            \/ Expired(k, clock) /\ rows'[k] = NoRow

\* What one step of queue.rs can do to a row: keep it, insert it where there
\* was none, move an active one, or delete one that is due.
LEMMA RowMoves ==
    ASSUME IInv, [Next]_vars
    PROVE  \/ \E j \in Jobs, f \in Fingerprints, t \in Stamps : Insert(j, f, t)
           \/ \A k \in Jobs : Moves(k)
<1>0. rows \in [Jobs -> Row]
  BY DEF IInv, TypeOK
<1>1. ASSUME UNCHANGED rows PROVE \A k \in Jobs : Moves(k)
  BY <1>1 DEF Moves
<1>2. ASSUME NEW j \in Jobs, NEW t \in Stamps, Grant(j, t)
      PROVE  \A k \in Jobs : Moves(k)
  <2>1. Active(j)
    BY <1>2 DEF Grant, Candidate, Eligible
  <2>2. rows' = [rows EXCEPT ![j] = Leased(j, t)] /\ Leased(j, t).status = "running"
    BY <1>2 DEF Grant, Leased
  <2> QED BY <1>0, <2>1, <2>2 DEF Moves
<1>3. ASSUME NEW j \in Jobs, NEW t \in Stamps, GiveUp(j, t)
      PROVE  \A k \in Jobs : Moves(k)
  <2>1. Active(j)
    BY <1>3 DEF GiveUp, Candidate, Eligible
  <2>2. rows' = [rows EXCEPT ![j].status = "failed", ![j].failure = "retry_limit"]
    BY <1>3 DEF GiveUp
  <2>3. rows'[j].status = "failed" /\ \A k \in Jobs \ {j} : rows'[k] = rows[k]
    BY <1>0, <2>2 DEF Row
  <2> QED BY <2>1, <2>3 DEF Moves
<1>4. ASSUME NEW j \in Jobs, Cancel(j) PROVE \A k \in Jobs : Moves(k)
  <2>1. Active(j) /\ rows' = [rows EXCEPT ![j].status = "cancelled"]
    BY <1>4 DEF Cancel
  <2>2. rows'[j].status = "cancelled" /\ \A k \in Jobs \ {j} : rows'[k] = rows[k]
    BY <1>0, <2>1 DEF Row
  <2> QED BY <2>1, <2>2 DEF Moves
<1>5. ASSUME NEW c \in claims, NEW ok \in BOOLEAN, Finish(c, ok), Fenced(c)
      PROVE  \A k \in Jobs : Moves(k)
  <2>1. PICK j \in Jobs : j = c.id
    BY Copies DEF IInv
  <2>2. PICK o : o = Outcome(ok)
    OBVIOUS
  <2>3. /\ rows' = [rows EXCEPT ![j].status = o.status, ![j].failure = o.failure]
        /\ Active(j)
    BY <1>5, <2>1, <2>2 DEF Finish, Fenced
  <2>4. o.status # "absent"
    BY <2>2 DEF Outcome
  <2>5. rows'[j].status = o.status /\ \A k \in Jobs \ {j} : rows'[k] = rows[k]
    BY <1>0, <2>3 DEF Row
  <2> QED BY <2>3, <2>4, <2>5 DEF Moves
<1>6. ASSUME NEW p \in purges, Forget(p), rows[p.id].lease = p.lease, Terminal(p.id)
      PROVE  \A k \in Jobs : Moves(k)
  <2>1. PICK j \in Jobs : j = p.id
    BY Copies DEF IInv
  <2>2. Expired(j, clock)
    BY <1>6, <2>1 DEF IInv, PurgesAreDue
  <2>3. rows' = [rows EXCEPT ![j] = NoRow]
    BY <1>6, <2>1 DEF Forget
  <2> QED BY <1>0, <2>2, <2>3 DEF Moves
<1>7. ASSUME Next, ~UNCHANGED rows
      PROVE  \/ \E j \in Jobs, t \in Stamps : Grant(j, t) \/ GiveUp(j, t)
             \/ \E j \in Jobs : Cancel(j)
             \/ \E c \in claims, ok \in BOOLEAN : Finish(c, ok) /\ Fenced(c)
             \/ \E p \in purges : Forget(p) /\ rows[p.id].lease = p.lease /\ Terminal(p.id)
             \/ \E j \in Jobs, f \in Fingerprints, t \in Stamps : Insert(j, f, t)
  BY <1>7 DEF Next, Tick, Mint, Abandon, Expire, Finish, Forget
<1> QED
  BY <1>1, <1>2, <1>3, <1>4, <1>5, <1>6, <1>7 DEF vars

\* The row enqueue inserts was absent before.
LEMMA InsertedRow ==
    ASSUME IInv, NEW j \in Jobs, NEW f \in Fingerprints, NEW t \in Stamps,
           Insert(j, f, t)
    PROVE  /\ ~Exists(j) /\ rows'[j].status = "queued" /\ rows'[j] # NoRow
           /\ \A k \in Jobs \ {j} : rows'[k] = rows[k]
<1>1. rows \in [Jobs -> Row] /\ ~Exists(j) /\ rows' = [rows EXCEPT ![j] = NewRow(f, t)]
  BY DEF IInv, TypeOK, Insert
<1>2. NewRow(f, t).status = "queued" /\ NoRow.status = "absent"
  BY DEF NewRow, NoRow
<1> QED BY <1>1, <1>2

\* Outcomes are final: no late worker, cancellation or resubmission rewrites a
\* terminal row.
THEOREM OutcomesAreFinal == Spec => TerminalIsFinal
<1>1. ASSUME IInv, [Next]_vars
      PROVE  \A j \in Jobs : Terminal(j) => rows'[j] \in {rows[j], NoRow}
  BY <1>1, RowMoves, InsertedRow DEF Moves
<1> QED BY <1>1, Inductive, PTL DEF Spec, TerminalIsFinal

\* Retention: only terminal rows whose seven days are over are deleted, however
\* old the copy a cleaner works from.
THEOREM RetentionHolds == Spec => PurgedOnlyWhenExpired
<1>1. NoRow.status = "absent"
  BY DEF NoRow
<1>2. ASSUME IInv, [Next]_vars
      PROVE  \A j \in Jobs : (Exists(j) /\ rows'[j] = NoRow) =>
                 Terminal(j) /\ rows[j].created_at + RetentionMs <= clock
  BY <1>1, <1>2, RowMoves, InsertedRow DEF Moves, Expired
<1> QED BY <1>2, Inductive, PTL DEF Spec, PurgedOnlyWhenExpired

---------------------------------------------------------------------------
(* Quotas *)

\* Admission control is exact: no interleaving of admissions, recoveries and
\* endings exceeds the capacity of the queue or of a tenant.
THEOREM QuotasHold == Spec => []QuotaRespected
<1> USE LimitsAssumption
<1>1. \A S \in SUBSET Jobs : IsFiniteSet(S) /\ Cardinality(S) \in Nat
  BY IdsAssumption, FS_Subset, FS_CardinalityType
<1>2. ActiveJobs \in SUBSET Jobs /\ \A x : ActiveOf(x) \in SUBSET Jobs
  BY DEF ActiveJobs, ActiveOf
<1>3. ActiveJobs' \in SUBSET Jobs /\ \A x : ActiveOf(x)' \in SUBSET Jobs
  BY DEF ActiveJobs, ActiveOf
<1>4. Init => QuotaRespected
  <2> SUFFICES ASSUME Init PROVE QuotaRespected
    OBVIOUS
  <2>1. \A j \in Jobs : rows[j].status = "absent"
    BY DEF Init, NoRow
  <2>2. ActiveJobs = {} /\ \A x : ActiveOf(x) = {}
    BY <2>1 DEF ActiveJobs, ActiveOf
  <2> QED BY <2>2, FS_EmptySet DEF QuotaRespected
<1>5. ASSUME IInv, QuotaRespected, [Next]_vars PROVE QuotaRespected'
  <2>1. ASSUME \A k \in Jobs : Moves(k) PROVE QuotaRespected'
    <3>0. NoRow.status = "absent"
      BY DEF NoRow
    <3>1. \A k \in Jobs : Active(k)' => Active(k)
      BY <2>1, <3>0 DEF Moves
    <3>2. ActiveJobs' \in SUBSET ActiveJobs /\ \A x : ActiveOf(x)' \in SUBSET ActiveOf(x)
      BY <3>1 DEF ActiveJobs, ActiveOf
    <3>3. /\ Cardinality(ActiveJobs') <= Cardinality(ActiveJobs)
          /\ \A x : Cardinality(ActiveOf(x)') <= Cardinality(ActiveOf(x))
      BY <1>1, <1>2, <3>2, FS_Subset
    <3>4. /\ Cardinality(ActiveJobs) \in Nat /\ Cardinality(ActiveJobs') \in Nat
          /\ \A x : Cardinality(ActiveOf(x)) \in Nat /\ Cardinality(ActiveOf(x)') \in Nat
      BY <1>1, <1>2, <1>3
    <3> QED BY <1>5, <3>3, <3>4 DEF QuotaRespected
  <2>2. ASSUME NEW j \in Jobs, NEW f \in Fingerprints, NEW t \in Stamps, Insert(j, f, t)
        PROVE  QuotaRespected'
    <3>1. /\ ~Active(j) /\ Active(j)'
          /\ \A k \in Jobs \ {j} : Active(k)' = Active(k)
      BY <1>5, <2>2, InsertedRow
    <3>2. /\ Cardinality(ActiveJobs) < MaxActive
          /\ Cardinality(ActiveOf(TenantOf[j])) < MaxTenantActive
      BY <2>2 DEF Insert, HasRoom
    <3>3. /\ ActiveJobs' = ActiveJobs \cup {j} /\ j \notin ActiveJobs
          /\ \A x : /\ j \notin ActiveOf(x)
                   /\ ActiveOf(x)' = IF TenantOf[j] = x THEN ActiveOf(x) \cup {j}
                                                        ELSE ActiveOf(x)
      BY <3>1 DEF ActiveJobs, ActiveOf
    <3>4. Cardinality(ActiveJobs') = Cardinality(ActiveJobs) + 1
      BY <1>1, <1>2, <3>3, FS_AddElement
    <3>5. \A x : Cardinality(ActiveOf(x)') = IF TenantOf[j] = x
                     THEN Cardinality(ActiveOf(x)) + 1 ELSE Cardinality(ActiveOf(x))
      BY <1>1, <1>2, <3>3, FS_AddElement
    <3>6. Cardinality(ActiveJobs) \in Nat /\ \A x : Cardinality(ActiveOf(x)) \in Nat
      BY <1>1, <1>2
    <3>7. Cardinality(ActiveJobs') <= MaxActive
      BY <3>2, <3>4, <3>6
    <3>8. ASSUME NEW k \in Jobs PROVE Cardinality(ActiveOf(TenantOf[k])') <= MaxTenantActive
      <4>1. CASE TenantOf[j] = TenantOf[k]
        BY <3>2, <3>5, <3>6, <4>1
      <4>2. CASE TenantOf[j] # TenantOf[k]
        BY <1>5, <3>5, <4>2 DEF QuotaRespected
      <4> QED BY <4>1, <4>2
    <3> QED BY <3>7, <3>8 DEF QuotaRespected
  <2> QED BY <1>5, <2>1, <2>2, RowMoves
<1> QED BY <1>4, <1>5, Inductive, PTL DEF Spec

---------------------------------------------------------------------------
(* Refinement *)

\* Stages and attempts of a table, job by job.
LEMMA StageOf ==
    \A j \in Jobs :
        /\ Stage[j] = IF Exists(j) THEN rows[j].status
                      ELSE IF Closed(j) THEN "gone" ELSE "new"
        /\ Tries[j] = rows[j].attempts
BY DEF Stage, Tries

\* A step that changes the stage or the attempts of job j only.
LEMMA OneJobMoves ==
    ASSUME NEW j \in Jobs, \A k \in Jobs \ {j} : rows'[k] = rows[k],
           UNCHANGED <<clock, capability>>
    PROVE  /\ Stage' = [Stage EXCEPT ![j] = Stage'[j]]
           /\ Tries' = [Tries EXCEPT ![j] = Tries'[j]]
BY DEF Stage, Tries

\* A forgotten job's window is closed.
LEMMA ForgottenIsClosed ==
    ASSUME IInv, NEW j \in Jobs, Exists(j), Expired(j, clock)
    PROVE  Closed(j)
<1> USE TimesAssumption, WindowAssumption
<1>1. clock \in Nat /\ capability[j] \in Nat /\ rows[j].created_at \in Nat
  BY Columns DEF IInv, TypeOK
<1>2. capability[j] # 0 /\ rows[j].created_at + CapabilityMs >= capability[j]
  BY DEF IInv, RowAge
<1>3. rows[j].created_at + RetentionMs <= clock
  BY DEF Expired
<1> QED BY <1>1, <1>2, <1>3

\* Time, minting and dropped copies only close windows of jobs with no row.
LEMMA QuietCloses ==
    ASSUME IInv, UNCHANGED rows, clock' \in Nat, clock' >= clock,
           capability' \in [Jobs -> Nat],
           \A j \in Jobs : capability'[j] # capability[j] =>
               capability[j] = 0 /\ capability'[j] > clock'
    PROVE  Lifecycle!Close
<1> USE TimesAssumption
<1> DEFINE S == {j \in Jobs : Stage[j] = "new" /\ Stage'[j] = "gone"}
<1>1. clock \in Nat /\ capability \in [Jobs -> Nat]
  BY DEF IInv, TypeOK
<1>2. ASSUME NEW j \in Jobs
      PROVE  Stage'[j] = IF j \in S THEN "gone" ELSE Stage[j]
  <2>1. Closed(j) => Closed(j)'
    BY <1>1
  <2>2. /\ Stage[j] = IF Exists(j) THEN rows[j].status
                      ELSE IF Closed(j) THEN "gone" ELSE "new"
        /\ Stage'[j] = IF Exists(j) THEN rows[j].status
                       ELSE IF Closed(j)' THEN "gone" ELSE "new"
    BY DEF Stage
  <2> QED BY <2>1, <2>2
<1>3. Stage' = [j \in Jobs |-> IF j \in S THEN "gone" ELSE Stage[j]]
  BY <1>2 DEF Stage
<1>4. S \in SUBSET {j \in Jobs : Stage[j] = "new"}
  OBVIOUS
<1>5. Tries' = Tries
  BY DEF Tries
<1> QED BY <1>3, <1>4, <1>5 DEF Lifecycle!Close

\* The empty table is the initial state of JobLifecycle.
LEMMA RefineInit == Init => Lifecycle!Init
<1> SUFFICES ASSUME Init PROVE Lifecycle!Init
  OBVIOUS
<1>1. \A j \in Jobs : rows[j].status = "absent" /\ rows[j].attempts = 0 /\ capability[j] = 0
  BY DEF Init, NoRow
<1>2. Stage = [j \in Jobs |-> "new"] /\ Tries = [j \in Jobs |-> 0]
  BY <1>1 DEF Stage, Tries
<1> QED BY <1>2 DEF Lifecycle!Init

\* Every operation of queue.rs is one step of JobLifecycle, or none.
LEMMA RefineNext ==
    ASSUME IInv, [Next]_vars
    PROVE  [Lifecycle!Next]_<<Stage, Tries>>
<1> USE LimitsAssumption, TimesAssumption
<1>0. /\ rows \in [Jobs -> Row] /\ clock \in Nat /\ capability \in [Jobs -> Nat]
      /\ \A j \in Jobs : rows[j].attempts \in Nat
  BY Columns DEF IInv, TypeOK
<1>1. ASSUME UNCHANGED <<rows, clock, capability>> PROVE UNCHANGED <<Stage, Tries>>
  BY <1>1 DEF Stage, Tries
<1>2. CASE Tick
  <2>1. /\ UNCHANGED <<rows, capability>> /\ clock' \in Nat /\ clock' >= clock
        /\ capability' \in [Jobs -> Nat]
    BY <1>0, <1>2 DEF Tick
  <2>2. Lifecycle!Close
    <3>1. \A j \in Jobs : capability'[j] # capability[j] =>
               capability[j] = 0 /\ capability'[j] > clock'
      BY <2>1
    <3> QED BY <2>1, <3>1, QuietCloses
  <2> QED BY <2>2 DEF Lifecycle!Next
<1>3. ASSUME NEW j \in Jobs, Mint(j) PROVE Lifecycle!Next
  <2>1. capability' = [capability EXCEPT ![j] = clock + CapabilityMs] /\ capability[j] = 0
        /\ UNCHANGED <<rows, clock>>
    BY <1>3 DEF Mint
  <2>2. /\ capability' \in [Jobs -> Nat]
        /\ \A k \in Jobs : capability'[k] # capability[k] =>
               capability[k] = 0 /\ capability'[k] > clock'
    <3>1. clock + CapabilityMs \in Nat /\ clock + CapabilityMs > clock
      BY <1>0
    <3>2. capability' \in [Jobs -> Nat] /\ capability'[j] = clock + CapabilityMs
          /\ \A k \in Jobs \ {j} : capability'[k] = capability[k]
      BY <1>0, <2>1, <3>1
    <3>3. capability'[j] > clock'
      BY <2>1, <3>1, <3>2
    <3> QED BY <2>1, <3>2, <3>3
  <2> QED BY <1>0, <2>1, <2>2, QuietCloses DEF Lifecycle!Next
<1>4. ASSUME NEW j \in Jobs, NEW f \in Fingerprints, NEW t \in Stamps, Insert(j, f, t)
      PROVE  Lifecycle!Next
  <2>1. /\ UNCHANGED <<clock, capability>> /\ ~Closed(j)
    BY <1>0, <1>4 DEF Insert, Admission, WindowOpen
  <2>2. rows' = [rows EXCEPT ![j] = NewRow(f, t)] /\ NewRow(f, t).attempts = 0
    BY <1>4 DEF Insert, NewRow
  <2>3. rows'[j].attempts = 0 /\ rows[j].attempts = 0
    BY <1>0, <1>4, <2>2, InsertedRow DEF IInv, RowShape
  <2>4. Stage[j] = "new" /\ Stage'[j] = "queued" /\ Tries'[j] = Tries[j]
    BY <1>4, <2>1, <2>3, InsertedRow, StageOf DEF Stage, Tries
  <2>5. Stage' = [Stage EXCEPT ![j] = "queued"] /\ Tries' = Tries
    BY <1>4, <2>1, <2>4, InsertedRow, OneJobMoves DEF Tries
  <2> QED BY <2>4, <2>5 DEF Lifecycle!Next, Lifecycle!Admit, Lifecycle!Move
<1>5. ASSUME NEW j \in Jobs, NEW t \in Stamps, Grant(j, t) PROVE Lifecycle!Next
  <2>1. /\ rows[j].status \in {"queued", "running"} /\ rows[j].attempts < MaxAttempts
        /\ rows' = [rows EXCEPT ![j] = Leased(j, t)] /\ UNCHANGED <<clock, capability>>
    BY <1>0, <1>5 DEF Grant, Candidate, Eligible, Spent
  <2>2. Leased(j, t).status = "running" /\ Leased(j, t).attempts = rows[j].attempts + 1
    BY DEF Leased
  <2>3. /\ rows'[j].status = "running" /\ rows'[j].attempts = rows[j].attempts + 1
        /\ \A k \in Jobs \ {j} : rows'[k] = rows[k]
    BY <1>0, <2>1, <2>2
  <2>4. /\ Stage[j] \in {"queued", "running"} /\ Stage'[j] = "running"
        /\ Tries[j] < MaxAttempts /\ Tries'[j] = Tries[j] + 1
    BY <2>1, <2>3 DEF Stage, Tries
  <2>5. /\ Stage' = [Stage EXCEPT ![j] = "running"]
        /\ Tries' = [Tries EXCEPT ![j] = Tries[j] + 1]
    BY <2>1, <2>3, <2>4, OneJobMoves
  <2> QED BY <2>4, <2>5 DEF Lifecycle!Next, Lifecycle!Start, Lifecycle!Move
<1>6. ASSUME NEW j \in Jobs, NEW s \in {"completed", "failed", "cancelled"},
             rows[j].status = "running" \/ (rows[j].status = "queued" /\ s = "cancelled"),
             rows'[j].status = s, rows'[j].attempts = rows[j].attempts,
             \A k \in Jobs \ {j} : rows'[k] = rows[k], UNCHANGED <<clock, capability>>
      PROVE  Lifecycle!Next
  <2>1. /\ Stage[j] = rows[j].status /\ Stage'[j] = s /\ Tries'[j] = Tries[j]
    BY <1>6 DEF Stage, Tries
  <2>2. Stage' = [Stage EXCEPT ![j] = s] /\ Tries' = Tries
    BY <1>6, <2>1, OneJobMoves DEF Tries
  <2> QED BY <1>6, <2>1, <2>2 DEF Lifecycle!Next, Lifecycle!End, Lifecycle!Move, Lifecycle!Ended
<1>7. ASSUME NEW j \in Jobs, NEW t \in Stamps, GiveUp(j, t) PROVE Lifecycle!Next
  <2>1. /\ Eligible(j, t) /\ rows[j].attempts >= MaxAttempts
        /\ rows' = [rows EXCEPT ![j].status = "failed", ![j].failure = "retry_limit"]
        /\ UNCHANGED <<clock, capability>>
    BY <1>7 DEF GiveUp, Candidate, Spent
  <2>2. rows[j].attempts # 0
    BY <1>0, <2>1
  <2>3. rows[j].status = "running"
    BY <2>1, <2>2 DEF IInv, RowShape, Eligible
  <2>4. /\ rows'[j].status = "failed" /\ rows'[j].attempts = rows[j].attempts
        /\ \A k \in Jobs \ {j} : rows'[k] = rows[k]
    BY <1>0, <2>1 DEF Row
  <2> QED BY <1>6, <2>1, <2>3, <2>4
<1>8. ASSUME NEW j \in Jobs, Cancel(j) PROVE Lifecycle!Next
  <2>1. Active(j) /\ rows' = [rows EXCEPT ![j].status = "cancelled"]
        /\ UNCHANGED <<clock, capability>>
    BY <1>8 DEF Cancel
  <2>2. /\ rows'[j].status = "cancelled" /\ rows'[j].attempts = rows[j].attempts
        /\ \A k \in Jobs \ {j} : rows'[k] = rows[k]
    BY <1>0, <2>1 DEF Row
  <2> QED BY <1>6, <2>1, <2>2
<1>9. ASSUME NEW c \in claims, NEW ok \in BOOLEAN, Finish(c, ok), Fenced(c)
      PROVE  Lifecycle!Next
  <2>1. PICK j \in Jobs : j = c.id
    BY Copies DEF IInv
  <2>2. PICK o : o = Outcome(ok)
    OBVIOUS
  <2>3. /\ rows' = [rows EXCEPT ![j].status = o.status, ![j].failure = o.failure]
        /\ rows[j].status = "running" /\ UNCHANGED <<clock, capability>>
    BY <1>9, <2>1, <2>2 DEF Finish, Fenced
  <2>4. o.status \in {"completed", "failed"}
    BY <2>2 DEF Outcome
  <2>5. /\ rows'[j].status = o.status /\ rows'[j].attempts = rows[j].attempts
        /\ \A k \in Jobs \ {j} : rows'[k] = rows[k]
    BY <1>0, <2>3 DEF Row
  <2> QED BY <1>6, <2>3, <2>4, <2>5
<1>10. ASSUME NEW p \in purges, Forget(p), rows[p.id].lease = p.lease, Terminal(p.id)
       PROVE  Lifecycle!Next
  <2>1. PICK j \in Jobs : j = p.id
    BY Copies DEF IInv
  <2>2. Expired(j, clock) /\ Closed(j) /\ Terminal(j)
    BY <1>10, <2>1, ForgottenIsClosed DEF IInv, PurgesAreDue
  <2>3. rows' = [rows EXCEPT ![j] = NoRow] /\ UNCHANGED <<clock, capability>>
        /\ NoRow.status = "absent" /\ NoRow.attempts = 0
    BY <1>10, <2>1 DEF Forget, NoRow
  <2>4. /\ rows'[j].status = "absent" /\ rows'[j].attempts = 0
        /\ \A k \in Jobs \ {j} : rows'[k] = rows[k]
    BY <1>0, <2>3
  <2>5. Stage[j] = rows[j].status /\ Stage'[j] = "gone" /\ Tries'[j] = 0
    BY <2>2, <2>3, <2>4 DEF Stage, Tries
  <2>6. Stage' = [Stage EXCEPT ![j] = "gone"] /\ Tries' = [Tries EXCEPT ![j] = 0]
    BY <2>3, <2>4, <2>5, OneJobMoves
  <2> QED
    BY <2>2, <2>5, <2>6 DEF Lifecycle!Next, Lifecycle!Drop, Lifecycle!Move, Lifecycle!Ended
<1>11. ASSUME NEW c \in claims, NEW ok \in BOOLEAN, Finish(c, ok), ~Fenced(c)
       PROVE  UNCHANGED <<Stage, Tries>>
  BY <1>1, <1>11 DEF Finish
<1>12. ASSUME NEW p \in purges, Forget(p), ~(rows[p.id].lease = p.lease /\ Terminal(p.id))
       PROVE  UNCHANGED <<Stage, Tries>>
  BY <1>1, <1>12 DEF Forget
<1>13. ASSUME \/ Abandon
              \/ \E t \in Stamps : \E batch \in PurgeBatch(t) : Expire(batch)
              \/ UNCHANGED vars
       PROVE  UNCHANGED <<Stage, Tries>>
  BY <1>1, <1>13 DEF Abandon, Expire, vars
<1> QED
  BY <1>2, <1>3, <1>4, <1>5, <1>7, <1>8, <1>9, <1>10, <1>11, <1>12, <1>13 DEF Next

\* Every behaviour of the queue, with its leases, stale copies, cleaners and
\* clock, is a behaviour of JobLifecycle.
THEOREM QueueImplementsLifecycle == Spec => ImplementsLifecycle
<1>1. ASSUME IInv, [Next]_vars PROVE [Lifecycle!Next]_(Lifecycle!lifecycle)
  BY <1>1, RefineNext DEF Lifecycle!lifecycle
<1> QED BY <1>1, RefineInit, Inductive, PTL DEF Spec, ImplementsLifecycle, Lifecycle!Spec

---------------------------------------------------------------------------
(* DocumentCompiler: what its inductive invariant SInv consists of *)


\* A busy slot holds the copy claim gave it, and no other slot holds it.
CopiesAreOwn ==
    /\ \A w \in Workers : Busy(w) => task[w].claim \in claims
    /\ \A v, w \in Workers :
           Busy(v) /\ Busy(w) /\ task[v].claim.lease = task[w].claim.lease => v = w

\* The timeout ends a task inside its lease.
InTime ==
    \A w \in Workers : Runs(w) =>
        /\ task[w].ok = FALSE
        /\ clock <= task[w].deadline
        /\ task[w].deadline <= task[w].claim.until
        /\ task[w].deadline <= clock + ExecMs

\* A cancelled job is executed no longer when its row may be purged.
CancelledInTime ==
    \A w \in Workers : Runs(w) /\ rows[Job(w)].status = "cancelled" =>
        task[w].deadline < rows[Job(w)].created_at + RetentionMs

\* A task about to report success under its lease has stored its PDF.
StoredIfOk ==
    \A w \in Workers :
        Busy(w) /\ ~Runs(w) /\ task[w].ok /\ Fenced(task[w].claim) =>
            pdf[Job(w)] = task[w].claim.fingerprint

PrintsAgree ==
    /\ \A j \in Jobs : Exists(j) => rows[j].fingerprint \in Fingerprints
    /\ \A c \in claims : rows[c.id].lease = c.lease =>
           c.fingerprint = rows[c.id].fingerprint

\* A submission in flight is inside its window, and found its input stored.
Submitting ==
    \A s \in Clients : sub[s] # Idle =>
        /\ capability[sub[s].id] # 0
        /\ clock <= sub[s].until
        /\ sub[s].until <= capability[sub[s].id] + SubmitMs
        /\ sub[s].pc = "enqueue" => json[sub[s].id] = sub[s].print

\* The copies under way are the cleaners', and the PDF goes before the row.
Cleaning ==
    /\ purges = HeldCopies(cleaner)
    /\ \A k \in Controllers :
           /\ cleaner[k].pc = "idle" <=> cleaner[k].todo = {}
           /\ cleaner[k].pc = "forget" => pdf[Current(k).id] = NoPrint

SInv == /\ IInv /\ SystemTypeOK /\ CopiesAreOwn /\ InTime
        /\ ExecutingOwnsRow /\ CancelledInTime /\ StoredIfOk /\ PrintsAgree
        /\ Submitting /\ Cleaning
        /\ ActiveHasInput /\ CompletedHasPdf /\ NoOrphanPdf


---------------------------------------------------------------------------
(* Shapes *)

LEMMA TaskShape ==
    ASSUME SystemTypeOK, NEW w \in Workers
    PROVE  /\ Busy(w) => /\ task[w] \in Tasks /\ task[w].pc \in Executing \cup {"ended"}
                         /\ task[w].ok \in BOOLEAN /\ task[w].claim \in Claim
                         /\ Job(w) \in Jobs /\ task[w].deadline \in Nat
           /\ Runs(w) => Busy(w)
           /\ ~Busy(w) => task[w] = Idle
<1>1. task[w] \in Tasks \cup {Idle} /\ Idle.pc = "idle"
  BY DEF SystemTypeOK, Idle
<1>2. \A t \in Tasks : /\ t.pc \in Executing \cup {"ended"} /\ t.pc # "idle"
                       /\ t.ok \in BOOLEAN /\ t.claim \in Claim /\ t.deadline \in Nat
  BY DEF Tasks, Executing
<1>3. \A c \in Claim : c.id \in Jobs
  BY DEF Claim
<1>4. Busy(w) => task[w] \in Tasks
  BY <1>1 DEF Busy
<1>5. Runs(w) => Busy(w)
  BY DEF Runs, Busy, Executing
<1>6. ~Busy(w) => task[w] = Idle
  BY <1>1, <1>2 DEF Busy
<1> QED BY <1>2, <1>3, <1>4, <1>5, <1>6 DEF Job

LEMMA CallShape ==
    ASSUME SystemTypeOK, NEW s \in Clients
    PROVE  /\ sub[s] # Idle => /\ sub[s] \in Submissions
                               /\ sub[s].pc \in {"put", "enqueue"} /\ sub[s].id \in Jobs
                               /\ sub[s].print \in Fingerprints /\ sub[s].until \in Nat
           /\ sub[s].pc \in {"put", "enqueue"} => sub[s] # Idle
<1>1. sub[s] \in Submissions \cup {Idle} /\ Idle.pc = "idle"
  BY DEF SystemTypeOK, Idle
<1>2. \A t \in Submissions : /\ t.pc \in {"put", "enqueue"} /\ t.id \in Jobs
                             /\ t.print \in Fingerprints /\ t.until \in Nat
  BY DEF Submissions
<1> QED BY <1>1, <1>2

LEMMA CleanerShape ==
    ASSUME SystemTypeOK, Cleaning, NEW k \in Controllers
    PROVE  /\ cleaner[k] \in Cleanings /\ cleaner[k].todo \subseteq purges
           /\ cleaner[k].pc \in {"idle", "json", "pdf", "forget"}
           /\ cleaner[k].pc # "idle" =>
                  /\ Current(k) \in cleaner[k].todo /\ Current(k) \in purges
                  /\ Current(k) \in Purge /\ Current(k).id \in Jobs
<1>1. cleaner[k] \in Cleanings
  BY DEF SystemTypeOK
<1>2. cleaner[k].todo \subseteq Purge /\ cleaner[k].pc \in {"idle", "json", "pdf", "forget"}
  BY <1>1 DEF Cleanings
<1>3. cleaner[k].todo \subseteq purges
  BY DEF Cleaning, HeldCopies
<1>4. cleaner[k].pc # "idle" => Current(k) \in cleaner[k].todo
  BY DEF Cleaning, Current
<1>5. \A p \in Purge : p.id \in Jobs
  BY DEF Purge
<1> QED BY <1>1, <1>2, <1>3, <1>4, <1>5

\* Numbers of the state.
LEMMA Numbers ==
    ASSUME SystemTypeOK
    PROVE  /\ clock \in Nat /\ issued \in Nat /\ capability \in [Jobs -> Nat]
           /\ rows \in [Jobs -> Row]
           /\ \A j \in Jobs : /\ rows[j].created_at \in Nat /\ rows[j].lease \in Nat
                              /\ rows[j].lease_until \in Nat /\ capability[j] \in Nat
           /\ \A c \in claims : c.until \in Nat /\ c.lease \in Nat /\ c.id \in Jobs
BY Columns, Copies DEF SystemTypeOK, TypeOK

---------------------------------------------------------------------------
(* Why the actors do not disturb each other *)

\* A job in a cleaner's hands is closed, and its row, if any, is due.
LEMMA PurgedIsClosed ==
    ASSUME IInv, NEW p \in purges
    PROVE  p.id \in Jobs /\ Closed(p.id) /\ (Exists(p.id) => Expired(p.id, clock))
<1>1. p.id \in Jobs
  BY Copies DEF IInv
<1>2. CASE Exists(p.id)
  <2>1. Expired(p.id, clock)
    BY <1>2 DEF IInv, PurgesAreDue
  <2> QED BY <1>1, <1>2, <2>1, ForgottenIsClosed
<1>3. CASE ~Exists(p.id)
  BY <1>1, <1>3 DEF IInv, PurgesAreDue
<1> QED BY <1>1, <1>2, <1>3

\* Nobody submits a job that a cleaner is removing.
LEMMA SubmittedIsNotPurged ==
    ASSUME SInv, NEW s \in Clients, sub[s] # Idle
    PROVE  /\ ~Closed(sub[s].id)
           /\ \A p \in purges : p.id # sub[s].id
<1>1. ~Closed(sub[s].id)
  <2>1. /\ sub[s].id \in Jobs /\ sub[s].until \in Nat
    BY CallShape DEF SInv
  <2>2. clock <= sub[s].until /\ sub[s].until <= capability[sub[s].id] + SubmitMs
    BY DEF SInv, Submitting
  <2>3. clock \in Nat /\ capability[sub[s].id] \in Nat
    BY <2>1, Numbers DEF SInv
  <2> QED BY <2>1, <2>2, <2>3, TimesAssumption
<1> QED BY <1>1, PurgedIsClosed DEF SInv

\* What a worker executes is inside its lease and its row is there.
LEMMA RunningIsCurrent ==
    ASSUME SInv, NEW w \in Workers, Runs(w)
    PROVE  /\ Busy(w) /\ Job(w) \in Jobs /\ Exists(Job(w))
           /\ task[w].claim \in claims
           /\ clock <= task[w].claim.until
           /\ task[w].claim.until = rows[Job(w)].lease_until
           /\ task[w].claim.fingerprint = rows[Job(w)].fingerprint
           /\ rows[Job(w)].fingerprint \in Fingerprints
<1>1. Busy(w) /\ Job(w) \in Jobs /\ task[w].deadline \in Nat
  BY TaskShape DEF SInv
<1>2. task[w].claim \in claims
  BY <1>1 DEF SInv, CopiesAreOwn
<1>3. rows[Job(w)].lease = task[w].claim.lease /\ Exists(Job(w))
  BY DEF SInv, ExecutingOwnsRow
<1>4. task[w].claim.until = rows[Job(w)].lease_until
  BY <1>1, <1>2, <1>3 DEF SInv, IInv, CurrentCopy
<1>5. clock <= task[w].claim.until
  <2>1. clock <= task[w].deadline /\ task[w].deadline <= task[w].claim.until
    BY DEF SInv, InTime
  <2>2. clock \in Nat /\ task[w].claim.until \in Nat
    BY <1>2, Numbers DEF SInv
  <2> QED BY <1>1, <2>1, <2>2
<1>6. task[w].claim.fingerprint = rows[Job(w)].fingerprint
  BY <1>2, <1>3 DEF SInv, PrintsAgree, Job
<1> QED BY <1>1, <1>2, <1>3, <1>4, <1>5, <1>6 DEF SInv, PrintsAgree

\* No cleaner removes what a worker executes.
LEMMA RunningIsNotPurged ==
    ASSUME SInv, NEW w \in Workers, Runs(w)
    PROVE  \A p \in purges : p.id # Job(w)
<1> SUFFICES ASSUME NEW p \in purges, p.id = Job(w) PROVE FALSE
  OBVIOUS
<1>1. Job(w) \in Jobs /\ Exists(Job(w)) /\ task[w].deadline \in Nat
  BY RunningIsCurrent, TaskShape DEF SInv
<1>2. Expired(Job(w), clock)
  BY <1>1, PurgedIsClosed DEF SInv
<1>3. rows[Job(w)].status = "cancelled" /\ rows[Job(w)].created_at + RetentionMs <= clock
  BY <1>2 DEF Expired, SInv, ExecutingOwnsRow
<1>4. task[w].deadline < rows[Job(w)].created_at + RetentionMs /\ clock <= task[w].deadline
  BY <1>3 DEF SInv, CancelledInTime, InTime
<1> QED BY <1>1, <1>3, <1>4, Numbers, TimesAssumption DEF SInv

---------------------------------------------------------------------------
(* What a step keeps because it leaves the variables alone *)

LEMMA Untouched ==
    ASSUME SInv
    PROVE  /\ UNCHANGED <<task, claims>> => CopiesAreOwn'
           /\ UNCHANGED <<task, clock>> => InTime'
           /\ UNCHANGED <<task, rows>> => ExecutingOwnsRow' /\ CancelledInTime'
           /\ UNCHANGED <<task, rows, pdf>> => StoredIfOk'
           /\ UNCHANGED <<claims, rows>> => PrintsAgree'
           /\ UNCHANGED <<sub, clock, capability, json>> => Submitting'
           /\ UNCHANGED <<cleaner, purges, pdf>> => Cleaning'
           /\ UNCHANGED <<rows, json>> => ActiveHasInput'
           /\ UNCHANGED <<rows, pdf, clock>> => CompletedHasPdf'
           /\ UNCHANGED <<rows, pdf>> => NoOrphanPdf'
<1> USE DEF SInv
<1>1. UNCHANGED <<task, claims>> => CopiesAreOwn'
  BY DEF CopiesAreOwn, Busy
<1>2. UNCHANGED <<task, clock>> => InTime'
  BY DEF InTime, Runs
<1>3. UNCHANGED <<task, rows>> => ExecutingOwnsRow' /\ CancelledInTime'
  BY DEF ExecutingOwnsRow, CancelledInTime, Runs, Job
<1>4. UNCHANGED <<task, rows, pdf>> => StoredIfOk'
  BY DEF StoredIfOk, Busy, Runs, Job, Fenced
<1>5. UNCHANGED <<claims, rows>> => PrintsAgree'
  BY DEF PrintsAgree
<1>6. UNCHANGED <<sub, clock, capability, json>> => Submitting'
  BY DEF Submitting
<1>7. UNCHANGED <<cleaner, purges, pdf>> => Cleaning'
  BY DEF Cleaning, HeldCopies, Current
<1>8. UNCHANGED <<rows, json>> => ActiveHasInput'
  BY DEF ActiveHasInput
<1>9. UNCHANGED <<rows, pdf, clock>> => CompletedHasPdf'
  BY DEF CompletedHasPdf
<1>10. UNCHANGED <<rows, pdf>> => NoOrphanPdf'
  BY DEF NoOrphanPdf
<1> QED BY <1>1, <1>2, <1>3, <1>4, <1>5, <1>6, <1>7, <1>8, <1>9, <1>10

---------------------------------------------------------------------------
(* submit *)

\* Another stage of a submission changes nothing else.
LEMMA SubmissionOK ==
    ASSUME SystemTypeOK, NEW s \in Clients, NEW r \in Submissions \cup {Idle},
           sub' = [sub EXCEPT ![s] = r]
    PROVE  /\ sub' \in [Clients -> Submissions \cup {Idle}] /\ sub'[s] = r
           /\ \A q \in Clients \ {s} : sub'[q] = sub[q]
BY DEF SystemTypeOK

LEMMA SubmitKeeps ==
    ASSUME SInv, NEW s \in Clients, NEW j \in Jobs, NEW f \in Fingerprints, Submit(s, j, f)
    PROVE  SInv' /\ [Next]_vars
<1> DEFINE r == [pc |-> "put", id |-> j, print |-> f, until |-> clock + SubmitMs]
<1>1. UNCHANGED <<rows, clock, issued, claims, purges, capability, json, pdf, task, cleaner>>
      /\ UNCHANGED vars
  BY DEF Submit, queueVars, vars, objects
<1>2. IInv'
  BY <1>1, NextPreserves DEF SInv
<1>3. clock \in Nat /\ capability[j] \in Nat /\ clock + SubmitMs \in Nat
  BY Numbers, TimesAssumption DEF SInv
<1>4. r \in Submissions
  BY <1>3 DEF Submissions
<1>5. r.pc = "put" /\ r.id = j /\ r.until = clock + SubmitMs
  OBVIOUS
<1> HIDE DEF r
<1>6. /\ sub' \in [Clients -> Submissions \cup {Idle}] /\ sub'[s] = r
      /\ \A q \in Clients \ {s} : sub'[q] = sub[q]
  <2>1. sub' = [sub EXCEPT ![s] = r]
    BY DEF Submit, r
  <2> QED BY <1>4, <2>1, SubmissionOK DEF SInv
<1>7. SystemTypeOK'
  BY <1>1, <1>2, <1>6 DEF SInv, SystemTypeOK, IInv
<1>8. Submitting'
  <2> SUFFICES ASSUME NEW q \in Clients, sub'[q] # Idle
               PROVE  /\ capability[sub'[q].id] # 0 /\ clock <= sub'[q].until
                      /\ sub'[q].until <= capability[sub'[q].id] + SubmitMs
                      /\ sub'[q].pc = "enqueue" => json[sub'[q].id] = sub'[q].print
    BY <1>1 DEF Submitting
  <2>1. CASE q = s
    <3>1. capability[j] # 0 /\ clock < capability[j]
      BY DEF Submit, Live
    <3>2. clock <= clock + SubmitMs /\ clock + SubmitMs <= capability[j] + SubmitMs
      BY <1>3, <3>1, TimesAssumption
    <3> QED BY <1>5, <1>6, <2>1, <3>1, <3>2
  <2>2. CASE q # s
    BY <1>6, <2>2 DEF SInv, Submitting
  <2> QED BY <2>1, <2>2
<1> QED BY <1>1, <1>2, <1>7, <1>8, Untouched DEF SInv

LEMMA EndSubmitKeeps ==
    ASSUME SInv, NEW s \in Clients, EndSubmit(s)
    PROVE  SInv' /\ [Next]_vars
<1>1. UNCHANGED <<rows, clock, issued, claims, purges, capability, json, pdf, task, cleaner>>
      /\ UNCHANGED vars
  BY DEF EndSubmit, queueVars, vars, objects
<1>2. IInv'
  BY <1>1, NextPreserves DEF SInv
<1>3. /\ sub' \in [Clients -> Submissions \cup {Idle}] /\ sub'[s] = Idle
      /\ \A q \in Clients \ {s} : sub'[q] = sub[q]
  BY SubmissionOK DEF EndSubmit, SInv
<1>4. SystemTypeOK'
  BY <1>1, <1>2, <1>3 DEF SInv, SystemTypeOK, IInv
<1>5. Submitting'
  BY <1>1, <1>3 DEF SInv, Submitting
<1> QED BY <1>1, <1>2, <1>4, <1>5, Untouched DEF SInv

\* put_new does not change an input somebody relies on.
LEMMA PutInputKeeps ==
    ASSUME SInv, NEW s \in Clients, PutInput(s)
    PROVE  SInv' /\ [Next]_vars
<1>1. UNCHANGED <<rows, clock, issued, claims, purges, capability, pdf, task, cleaner>>
      /\ UNCHANGED vars
  BY DEF PutInput, queueVars, vars
<1>2. IInv'
  BY <1>1, NextPreserves DEF SInv
<1>3. /\ sub[s] # Idle /\ sub[s] \in Submissions /\ sub[s].id \in Jobs
      /\ sub[s].print \in Fingerprints
  BY CallShape DEF PutInput, SInv
<1> DEFINE r == [sub[s] EXCEPT !.pc = "enqueue"]
<1>4. /\ r \in Submissions /\ r.pc = "enqueue" /\ r.id = sub[s].id /\ r.print = sub[s].print
      /\ r.until = sub[s].until
  BY <1>3 DEF Submissions
<1>5. sub' = [sub EXCEPT ![s] = r]
  BY DEF PutInput
<1> HIDE DEF r
<1>6. /\ sub' \in [Clients -> Submissions \cup {Idle}] /\ sub'[s] = r
      /\ \A q \in Clients \ {s} : sub'[q] = sub[q]
  BY <1>4, <1>5, SubmissionOK DEF SInv
<1>7. /\ json' = [json EXCEPT ![sub[s].id] = sub[s].print]
      /\ json[sub[s].id] \in {NoPrint, sub[s].print}
  BY DEF PutInput, CanPut
<1>8. /\ json' \in [Jobs -> Prints] /\ json'[sub[s].id] = sub[s].print
      /\ \A j \in Jobs \ {sub[s].id} : json'[j] = json[j]
  BY <1>3, <1>7 DEF SInv, SystemTypeOK, Prints
<1>9. SystemTypeOK'
  BY <1>1, <1>2, <1>6, <1>8 DEF SInv, SystemTypeOK, IInv
<1>10. \A j \in Jobs : json[j] \in Fingerprints => json'[j] = json[j]
  BY <1>3, <1>7, <1>8, PrintsAssumption
<1>11. Submitting'
  <2> SUFFICES ASSUME NEW q \in Clients, sub'[q] # Idle
               PROVE  /\ capability[sub'[q].id] # 0 /\ clock <= sub'[q].until
                      /\ sub'[q].until <= capability[sub'[q].id] + SubmitMs
                      /\ sub'[q].pc = "enqueue" => json'[sub'[q].id] = sub'[q].print
    BY <1>1 DEF Submitting
  <2>1. CASE q = s
    BY <1>3, <1>4, <1>6, <1>8, <2>1 DEF SInv, Submitting
  <2>2. CASE q # s
    <3>1. sub'[q] = sub[q] /\ sub[q].id \in Jobs /\ sub[q].print \in Fingerprints
      BY <1>6, <2>2, CallShape DEF SInv
    <3> QED BY <1>10, <3>1 DEF SInv, Submitting
  <2> QED BY <2>1, <2>2
<1>12. ActiveHasInput'
  BY <1>1, <1>10 DEF SInv, ActiveHasInput, PrintsAgree
<1> QED BY <1>1, <1>2, <1>9, <1>11, <1>12, Untouched DEF SInv

\* One row changes under the tasks: who executes it must not notice, and no
\* lease comes back.
LEMMA TasksKeep ==
    ASSUME SInv, NEW j \in Jobs, \A k \in Jobs \ {j} : rows'[k] = rows[k],
           UNCHANGED <<task, pdf>>,
           \A w \in Workers : Runs(w) /\ Job(w) = j =>
               /\ rows'[j].lease = rows[j].lease
               /\ rows'[j].status \in {"running", "cancelled"}
               /\ rows'[j].status = "cancelled" =>
                      task[w].deadline < rows'[j].created_at + RetentionMs,
           \A c \in claims : c.id = j /\ rows'[j].lease = c.lease /\ rows'[j].status = "running"
               => Fenced(c)
    PROVE  ExecutingOwnsRow' /\ CancelledInTime' /\ StoredIfOk'
<1>1. \A w \in Workers : /\ Busy(w)' = Busy(w) /\ Runs(w)' = Runs(w) /\ Job(w)' = Job(w)
                         /\ Runs(w) => Busy(w)
                         /\ Busy(w) => task[w].claim \in claims /\ Job(w) \in Jobs
                                       /\ Job(w) = task[w].claim.id
  BY TaskShape DEF Busy, Runs, Job, SInv, CopiesAreOwn
<1>2. ExecutingOwnsRow'
  <2> SUFFICES ASSUME NEW w \in Workers, Runs(w)
               PROVE  /\ rows'[Job(w)].lease = task[w].claim.lease
                      /\ rows'[Job(w)].status \in {"running", "cancelled"}
    BY <1>1 DEF ExecutingOwnsRow
  <2>1. /\ rows[Job(w)].lease = task[w].claim.lease
        /\ rows[Job(w)].status \in {"running", "cancelled"}
    BY DEF SInv, ExecutingOwnsRow
  <2> QED BY <1>1, <2>1
<1>3. CancelledInTime'
  <2> SUFFICES ASSUME NEW w \in Workers, Runs(w), rows'[Job(w)].status = "cancelled"
               PROVE  task[w].deadline < rows'[Job(w)].created_at + RetentionMs
    BY <1>1 DEF CancelledInTime
  <2> QED BY <1>1 DEF SInv, CancelledInTime
<1>4. StoredIfOk'
  <2> SUFFICES ASSUME NEW w \in Workers, Busy(w), ~Runs(w), task[w].ok,
                      rows'[Job(w)].lease = task[w].claim.lease,
                      rows'[Job(w)].status = "running"
               PROVE  pdf[Job(w)] = task[w].claim.fingerprint
    BY <1>1 DEF StoredIfOk, Fenced, Job
  <2>1. Fenced(task[w].claim)
    BY <1>1 DEF Fenced
  <2> QED BY <2>1 DEF SInv, StoredIfOk
<1> QED BY <1>2, <1>3, <1>4

LEMMA EnqueueInputKeeps ==
    ASSUME SInv, NEW s \in Clients, NEW t \in Stamps, EnqueueInput(s, t)
    PROVE  SInv' /\ [Next]_vars
<1> DEFINE j == sub[s].id
           f == sub[s].print
<1>1. /\ sub[s] # Idle /\ j \in Jobs /\ f \in Fingerprints /\ json[j] = f
  BY CallShape DEF EnqueueInput, SInv, Submitting
<1>2. Insert(j, f, t)
  BY DEF EnqueueInput
<1>3. Next
  BY <1>1, <1>2 DEF Next
<1>4. IInv'
  BY <1>3, NextPreserves DEF SInv
<1>5. UNCHANGED <<clock, issued, claims, purges, capability, json, pdf, task, cleaner>>
  BY <1>2 DEF Insert, EnqueueInput, objects
<1>6. /\ ~Exists(j) /\ rows' = [rows EXCEPT ![j] = NewRow(f, t)]
  BY <1>2 DEF Insert
<1> HIDE DEF j, f
<1>7. /\ \A k \in Jobs \ {j} : rows'[k] = rows[k] /\ rows'[j] = NewRow(f, t)
      /\ rows'[j].status = "queued" /\ rows'[j].lease = 0 /\ rows'[j].fingerprint = f
  BY <1>1, <1>6, Numbers DEF NewRow, SInv
<1>8. /\ sub' \in [Clients -> Submissions \cup {Idle}] /\ sub'[s] = Idle
      /\ \A q \in Clients \ {s} : sub'[q] = sub[q]
  BY SubmissionOK DEF EnqueueInput, SInv
<1>9. SystemTypeOK'
  BY <1>4, <1>5, <1>8 DEF SInv, SystemTypeOK, IInv
<1>10. Submitting'
  BY <1>5, <1>8 DEF SInv, Submitting
<1>11. ExecutingOwnsRow' /\ CancelledInTime' /\ StoredIfOk'
  <2>1. \A w \in Workers : Runs(w) => Job(w) # j
    BY <1>6, RunningIsCurrent
  <2> QED BY <1>1, <1>5, <1>7, <2>1, TasksKeep
<1>12. PrintsAgree'
  <2>1. \A c \in claims : c.lease > 0 /\ c.id \in Jobs /\ c.lease \in Nat
    BY Numbers DEF SInv, IInv, FreshLeases
  <2> QED BY <1>1, <1>5, <1>7, <2>1 DEF SInv, PrintsAgree
<1>13. ActiveHasInput' /\ CompletedHasPdf' /\ NoOrphanPdf'
  BY <1>1, <1>5, <1>7 DEF SInv, ActiveHasInput, CompletedHasPdf, NoOrphanPdf
<1> QED BY <1>3, <1>4, <1>5, <1>9, <1>10, <1>11, <1>12, <1>13, Untouched DEF SInv

\* cancel: whoever executes the job ends before the row can be purged.
LEMMA CancelJobKeeps ==
    ASSUME SInv, NEW j \in Jobs, CancelJob(j)
    PROVE  SInv' /\ [Next]_vars
<1>1. Next
  BY DEF CancelJob, Next
<1>2. IInv'
  BY <1>1, NextPreserves DEF SInv
<1>3. UNCHANGED <<clock, issued, claims, purges, capability, json, pdf, task, cleaner, sub>>
  BY DEF CancelJob, Cancel, objects
<1>4. Active(j) /\ rows' = [rows EXCEPT ![j].status = "cancelled"] /\ WindowOpen(j)
  BY DEF CancelJob, Cancel
<1>5. /\ \A k \in Jobs \ {j} : rows'[k] = rows[k]
      /\ rows'[j].status = "cancelled" /\ rows'[j].lease = rows[j].lease
      /\ rows'[j].created_at = rows[j].created_at
      /\ rows'[j].fingerprint = rows[j].fingerprint
  BY <1>4, Numbers DEF Row, SInv
<1>6. SystemTypeOK'
  BY <1>2, <1>3 DEF SInv, SystemTypeOK, IInv
<1>7. ASSUME NEW w \in Workers, Runs(w), Job(w) = j
      PROVE  task[w].deadline < rows[j].created_at + RetentionMs
  <2>1. clock <= capability[j] + SubmitMs
    BY <1>4 DEF WindowOpen
  <2>2. rows[j].created_at + CapabilityMs >= capability[j]
    BY <1>4 DEF SInv, IInv, RowAge
  <2>3. task[w].deadline <= clock + ExecMs
    BY <1>7 DEF SInv, InTime
  <2>4. task[w].deadline \in Nat
    BY <1>7, TaskShape DEF SInv
  <2> QED BY <2>1, <2>2, <2>3, <2>4, Numbers, TimesAssumption, ExecAssumption DEF SInv
<1>8. ExecutingOwnsRow' /\ CancelledInTime' /\ StoredIfOk'
  BY <1>3, <1>5, <1>7, TasksKeep
<1>9. PrintsAgree'
  BY <1>3, <1>4, <1>5, Numbers DEF SInv, PrintsAgree
<1>10. ActiveHasInput' /\ CompletedHasPdf' /\ NoOrphanPdf'
  BY <1>3, <1>4, <1>5 DEF SInv, ActiveHasInput, CompletedHasPdf, NoOrphanPdf
<1> QED BY <1>1, <1>2, <1>3, <1>6, <1>8, <1>9, <1>10, Untouched DEF SInv

---------------------------------------------------------------------------
(* run and execute *)

\* The retry limit strikes no job that is executed: its lease has not lapsed.
LEMMA PollGivesUpKeeps ==
    ASSUME SInv, NEW w \in Workers, NEW j \in Jobs, NEW t \in Stamps, PollGivesUp(w, j, t)
    PROVE  SInv' /\ [Next]_vars
<1>1. Next
  BY DEF PollGivesUp, Next
<1>2. IInv'
  BY <1>1, NextPreserves DEF SInv
<1>3. UNCHANGED <<clock, issued, claims, purges, capability, json, pdf, task, cleaner, sub>>
  BY DEF PollGivesUp, GiveUp, objects
<1>4. /\ Eligible(j, t)
      /\ rows' = [rows EXCEPT ![j].status = "failed", ![j].failure = "retry_limit"]
  BY DEF PollGivesUp, GiveUp, Candidate
<1>5. /\ \A k \in Jobs \ {j} : rows'[k] = rows[k]
      /\ rows'[j].status = "failed" /\ rows'[j].lease = rows[j].lease
      /\ rows'[j].fingerprint = rows[j].fingerprint
  BY <1>4, Numbers DEF Row, SInv
<1>6. SystemTypeOK'
  BY <1>2, <1>3 DEF SInv, SystemTypeOK, IInv
<1>7. ASSUME NEW v \in Workers, Runs(v) PROVE Job(v) # j
  <2>1. t \in Nat /\ t <= clock /\ clock \in Nat
    BY Numbers DEF SInv, Stamps
  <2>2. clock <= rows[Job(v)].lease_until /\ rows[Job(v)].status \in {"running", "cancelled"}
    BY <1>7, RunningIsCurrent DEF SInv, ExecutingOwnsRow
  <2> QED BY <1>4, <2>1, <2>2, Numbers DEF SInv, Eligible
<1>8. ExecutingOwnsRow' /\ CancelledInTime' /\ StoredIfOk'
  BY <1>3, <1>5, <1>7, TasksKeep
<1>9. Exists(j)
  BY <1>4 DEF Eligible
<1>10. PrintsAgree'
  BY <1>3, <1>5, <1>9, Numbers DEF SInv, PrintsAgree
<1>11. ActiveHasInput' /\ CompletedHasPdf' /\ NoOrphanPdf'
  BY <1>3, <1>5, <1>9 DEF SInv, ActiveHasInput, CompletedHasPdf, NoOrphanPdf
<1> QED BY <1>1, <1>2, <1>3, <1>6, <1>8, <1>10, <1>11, Untouched DEF SInv

\* claim: a free slot gets a lease nobody had, inside which its timeout ends.
LEMMA ClaimJobKeeps ==
    ASSUME SInv, NEW w \in Workers, NEW j \in Jobs, NEW t \in Stamps, ClaimJob(w, j, t)
    PROVE  SInv' /\ [Next]_vars
<1>1. Grant(j, t) /\ Next /\ ~Busy(w)
  BY DEF ClaimJob, Next
<1>2. IInv'
  BY <1>1, NextPreserves DEF SInv
<1>3. UNCHANGED <<clock, purges, capability, json, pdf, cleaner, sub>>
  BY <1>1 DEF ClaimJob, Grant, objects
<1>4. t \in Nat /\ t <= clock /\ clock \in Nat /\ clock - t <= LatencyMs /\ issued \in Nat
  BY Numbers DEF SInv, Stamps
<1>5. PICK d : d = [id |-> j, lease |-> issued + 1, fingerprint |-> rows[j].fingerprint,
                    until |-> t + LeaseMs]
  OBVIOUS
<1>6. /\ d.id = j /\ d.lease = issued + 1 /\ d.fingerprint = rows[j].fingerprint
      /\ d.until = t + LeaseMs /\ claims' = claims \cup {d}
  BY <1>1, <1>5 DEF Grant
<1>7. \A c \in claims : c.lease <= issued /\ c.lease \in Nat /\ c.id \in Jobs
  BY Numbers DEF SInv, IInv, FreshLeases
<1>8. d \notin claims /\ d \in claims' /\ d \in Claim
  <2>1. d \notin claims
    BY <1>4, <1>6, <1>7
  <2>2. claims' \subseteq Claim
    BY <1>2 DEF IInv, TypeOK
  <2> QED BY <1>6, <2>1, <2>2
<1>9. (CHOOSE c \in claims' \ claims : TRUE) = d
  BY <1>6, <1>8
<1> DEFINE r == [pc |-> "authorize", ok |-> FALSE, claim |-> d, deadline |-> clock + ExecMs]
<1>10. task' = [task EXCEPT ![w] = r]
  BY <1>9 DEF ClaimJob
<1>11. clock + ExecMs \in Nat /\ clock + ExecMs <= t + LeaseMs
  BY <1>4, TimesAssumption, ExecAssumption
<1>12. r \in Tasks /\ r.pc = "authorize" /\ r.ok = FALSE /\ r.claim = d /\ r.deadline = clock + ExecMs
  BY <1>8, <1>11 DEF Tasks, Executing
<1> HIDE DEF r
<1>13. /\ task' \in [Workers -> Tasks \cup {Idle}] /\ task'[w] = r
       /\ \A v \in Workers \ {w} : task'[v] = task[v]
  BY <1>10, <1>12 DEF SInv, SystemTypeOK
<1>14. SystemTypeOK'
  BY <1>2, <1>3, <1>13 DEF SInv, SystemTypeOK, IInv
<1>15. /\ Runs(w)' /\ Busy(w)' /\ Job(w)' = j
       /\ \A v \in Workers \ {w} : Runs(v)' = Runs(v) /\ Busy(v)' = Busy(v) /\ Job(v)' = Job(v)
  BY <1>6, <1>12, <1>13 DEF Runs, Busy, Job, Executing
<1>16. /\ \A k \in Jobs \ {j} : rows'[k] = rows[k]
       /\ rows'[j].status = "running" /\ rows'[j].lease = issued + 1
       /\ rows'[j].fingerprint = rows[j].fingerprint
  <2>1. rows' = [rows EXCEPT ![j] = Leased(j, t)]
    BY <1>1 DEF Grant
  <2>2. rows'[j] = Leased(j, t) /\ \A k \in Jobs \ {j} : rows'[k] = rows[k]
    BY <2>1, Numbers DEF SInv
  <2> QED BY <2>2 DEF Leased
<1>17. Active(j) /\ Eligible(j, t)
  BY <1>1 DEF Grant, Candidate, Eligible
<1>18. ASSUME NEW v \in Workers \ {w}, Runs(v) PROVE Job(v) # j
  <2>1. clock <= rows[Job(v)].lease_until /\ rows[Job(v)].status \in {"running", "cancelled"}
    BY <1>18, RunningIsCurrent DEF SInv, ExecutingOwnsRow
  <2> QED BY <1>4, <1>17, <2>1, Numbers DEF SInv, Eligible
<1>19. ASSUME NEW v \in Workers \ {w}, Busy(v)
       PROVE  /\ task'[v].claim \in claims /\ task'[v].claim.lease # issued + 1
              /\ Job(v) \in Jobs /\ Job(v) = task[v].claim.id /\ task'[v] = task[v]
  <2>1. task[v].claim \in claims
    BY <1>19 DEF SInv, CopiesAreOwn
  <2> QED BY <1>4, <1>7, <1>13, <2>1 DEF Job
<1>20. CopiesAreOwn'
  <2>1. \A v \in Workers : Busy(v)' => task'[v].claim \in claims'
    BY <1>6, <1>12, <1>13, <1>15, <1>19
  <2>2. ASSUME NEW u \in Workers, NEW v \in Workers, Busy(u)', Busy(v)',
               task'[u].claim.lease = task'[v].claim.lease
        PROVE  u = v
    <3>1. CASE u # w /\ v # w
      BY <1>13, <1>15, <2>2, <3>1 DEF SInv, CopiesAreOwn
    <3>2. CASE u = w \/ v = w
      BY <1>6, <1>12, <1>13, <1>15, <1>19, <2>2, <3>2
    <3> QED BY <3>1, <3>2
  <2> QED BY <2>1, <2>2 DEF CopiesAreOwn
<1>21. InTime'
  <2> SUFFICES ASSUME NEW v \in Workers, Runs(v)'
               PROVE  /\ task'[v].ok = FALSE /\ clock <= task'[v].deadline
                      /\ task'[v].deadline <= task'[v].claim.until
                      /\ task'[v].deadline <= clock + ExecMs
    BY <1>3 DEF InTime
  <2>1. CASE v = w
    BY <1>4, <1>6, <1>11, <1>12, <1>13, <2>1, ExecAssumption
  <2>2. CASE v # w
    BY <1>13, <1>15, <2>2 DEF SInv, InTime
  <2> QED BY <2>1, <2>2
<1>22. ExecutingOwnsRow' /\ CancelledInTime'
  <2>1. ASSUME NEW v \in Workers, Runs(v)'
        PROVE  /\ rows'[Job(v)'].lease = task'[v].claim.lease
               /\ rows'[Job(v)'].status \in {"running", "cancelled"}
               /\ rows'[Job(v)'].status = "cancelled" =>
                     task'[v].deadline < rows'[Job(v)'].created_at + RetentionMs
    <3>1. CASE v = w
      BY <1>6, <1>12, <1>13, <1>15, <1>16, <3>1
    <3>2. CASE v # w
      <4>1. Runs(v) /\ Job(v)' = Job(v) /\ Job(v) # j /\ Job(v) \in Jobs /\ task'[v] = task[v]
        BY <1>13, <1>15, <1>18, <2>1, <3>2, RunningIsCurrent
      <4>2. rows'[Job(v)] = rows[Job(v)]
        BY <1>16, <4>1
      <4> QED BY <4>1, <4>2 DEF SInv, ExecutingOwnsRow, CancelledInTime
    <3> QED BY <3>1, <3>2
  <2> QED BY <2>1 DEF ExecutingOwnsRow, CancelledInTime
<1>23. StoredIfOk'
  <2> SUFFICES ASSUME NEW v \in Workers, Busy(v)', ~Runs(v)', task'[v].ok,
                      Fenced(task[v].claim)', task'[v] = task[v]
               PROVE  pdf[Job(v)'] = task'[v].claim.fingerprint
    BY <1>3, <1>13, <1>15 DEF StoredIfOk
  <2>1. v # w /\ Busy(v) /\ ~Runs(v) /\ Job(v)' = Job(v)
    BY <1>15
  <2>2. rows'[Job(v)].lease = task[v].claim.lease /\ rows'[Job(v)].status = "running"
    BY <1>19, <2>1 DEF Fenced
  <2>3. Job(v) # j
    BY <1>16, <1>19, <2>1, <2>2
  <2>4. Fenced(task[v].claim)
    BY <1>16, <1>19, <2>1, <2>2, <2>3 DEF Fenced
  <2> QED BY <2>1, <2>4 DEF SInv, StoredIfOk
<1>24. PrintsAgree'
  <2>1. \A k \in Jobs : Exists(k)' => rows'[k].fingerprint \in Fingerprints
    BY <1>16, <1>17 DEF SInv, PrintsAgree
  <2>2. ASSUME NEW c \in claims', rows'[c.id].lease = c.lease
        PROVE  c.fingerprint = rows'[c.id].fingerprint
    <3>1. CASE c = d
      BY <1>6, <1>16, <3>1
    <3>2. CASE c # d
      <4>1. c \in claims /\ c.id \in Jobs /\ c.lease # issued + 1
        BY <1>4, <1>6, <1>7, <3>2
      <4>2. c.id # j
        BY <1>16, <2>2, <4>1
      <4> QED BY <1>16, <2>2, <4>1, <4>2 DEF SInv, PrintsAgree
    <3> QED BY <3>1, <3>2
  <2> QED BY <2>1, <2>2 DEF PrintsAgree
<1>25. ActiveHasInput' /\ CompletedHasPdf' /\ NoOrphanPdf'
  BY <1>3, <1>16, <1>17 DEF SInv, ActiveHasInput, CompletedHasPdf, NoOrphanPdf
<1> QED BY <1>1, <1>2, <1>3, <1>14, <1>20, <1>21, <1>22, <1>23, <1>24, <1>25, Untouched DEF SInv

\* A task goes on or ends, with its copy and its deadline.
LEMMA TaskMoves ==
    ASSUME SInv, NEW w \in Workers, Busy(w), NEW r \in Tasks,
           task' = [task EXCEPT ![w] = r],
           r.claim = task[w].claim, r.deadline = task[w].deadline,
           r.pc \in Executing => Runs(w) /\ r.ok = task[w].ok,
           r.pc \notin Executing /\ r.ok => pdf'[Job(w)] = task[w].claim.fingerprint,
           UNCHANGED <<rows, clock, claims>>,
           \A v \in Workers : Busy(v) /\ v # w /\ Fenced(task[v].claim) => pdf'[Job(v)] = pdf[Job(v)]
    PROVE  /\ task' \in [Workers -> Tasks \cup {Idle}]
           /\ CopiesAreOwn' /\ InTime' /\ ExecutingOwnsRow' /\ CancelledInTime' /\ StoredIfOk'
<1>1. /\ task' \in [Workers -> Tasks \cup {Idle}] /\ task'[w] = r
      /\ \A v \in Workers \ {w} : task'[v] = task[v]
  BY DEF SInv, SystemTypeOK
<1>2. r.pc # "idle"
  BY DEF Tasks, Executing
<1>3. /\ \A v \in Workers : Busy(v)' = Busy(v) /\ Job(v)' = Job(v) /\ (Runs(v)' => Runs(v))
      /\ \A v \in Workers : task'[v].claim = task[v].claim /\ task'[v].deadline = task[v].deadline
      /\ \A v \in Workers : Runs(v)' => task'[v].ok = task[v].ok
  BY <1>1, <1>2 DEF Busy, Job, Runs
<1>4. CopiesAreOwn'
  BY <1>3 DEF SInv, CopiesAreOwn
<1>5. InTime'
  BY <1>3 DEF SInv, InTime
<1>6. ExecutingOwnsRow' /\ CancelledInTime'
  BY <1>3 DEF SInv, ExecutingOwnsRow, CancelledInTime
<1>7. StoredIfOk'
  <2> SUFFICES ASSUME NEW v \in Workers, Busy(v), ~Runs(v)', task'[v].ok, Fenced(task[v].claim)
               PROVE  pdf'[Job(v)] = task[v].claim.fingerprint
    BY <1>3 DEF StoredIfOk, Fenced
  <2>1. CASE v = w
    BY <1>1, <2>1 DEF Runs
  <2>2. CASE v # w
    BY <1>1, <2>2 DEF SInv, StoredIfOk, Runs
  <2> QED BY <2>1, <2>2
<1> QED BY <1>1, <1>4, <1>5, <1>6, <1>7

\* The steps of execute that write nothing.
LEMMA AdvanceKeeps ==
    ASSUME SInv, NEW w \in Workers, Runs(w), NEW p \in Executing \cup {"ended"},
           task' = [task EXCEPT ![w].pc = p],
           UNCHANGED <<queueVars, objects, cleaner, sub>>
    PROVE  SInv' /\ [Next]_vars
<1>1. UNCHANGED <<rows, clock, issued, claims, purges, capability, json, pdf, cleaner, sub>>
      /\ UNCHANGED vars
  BY DEF queueVars, vars, objects
<1>2. IInv'
  BY <1>1, NextPreserves DEF SInv
<1>3. Busy(w) /\ task[w] \in Tasks /\ task[w].ok = FALSE
  BY TaskShape DEF SInv, InTime
<1> DEFINE r == [task[w] EXCEPT !.pc = p]
<1>4. /\ r \in Tasks /\ r.pc = p /\ r.ok = FALSE /\ r.claim = task[w].claim
      /\ r.deadline = task[w].deadline
  BY <1>3 DEF Tasks
<1>5. task' = [task EXCEPT ![w] = r]
  OBVIOUS
<1> HIDE DEF r
<1>6. /\ task' \in [Workers -> Tasks \cup {Idle}]
      /\ CopiesAreOwn' /\ InTime' /\ ExecutingOwnsRow' /\ CancelledInTime' /\ StoredIfOk'
  BY <1>1, <1>3, <1>4, <1>5, TaskMoves
<1>7. SystemTypeOK'
  BY <1>1, <1>2, <1>6 DEF SInv, SystemTypeOK, IInv
<1> QED BY <1>1, <1>2, <1>6, <1>7, Untouched DEF SInv

\* put_new of the PDF: the row is there, no cleaner is at it, and a PDF that
\* somebody relies on is the same.
LEMMA StorePdfKeeps ==
    ASSUME SInv, NEW w \in Workers, NEW ok \in BOOLEAN, StorePdf(w, ok)
    PROVE  SInv' /\ [Next]_vars
<1>1. UNCHANGED <<rows, clock, issued, claims, purges, capability, json, cleaner, sub>>
      /\ UNCHANGED vars
  BY DEF StorePdf, queueVars, vars
<1>2. IInv'
  BY <1>1, NextPreserves DEF SInv
<1>3. Runs(w)
  BY DEF StorePdf, Runs, Executing
<1>4. /\ Busy(w) /\ task[w] \in Tasks /\ Job(w) \in Jobs /\ Exists(Job(w))
      /\ task[w].claim.fingerprint \in Fingerprints
  BY <1>3, TaskShape, RunningIsCurrent DEF SInv
<1> DEFINE r == [task[w] EXCEPT !.pc = "ended", !.ok = ok]
           f == task[w].claim.fingerprint
<1>5. /\ r \in Tasks /\ r.pc = "ended" /\ r.claim = task[w].claim
      /\ r.deadline = task[w].deadline
  BY <1>4 DEF Tasks
<1>6. task' = [task EXCEPT ![w] = r]
  BY DEF StorePdf
<1> HIDE DEF r
<1>7. pdf' = [pdf EXCEPT ![Job(w)] = f] /\ pdf[Job(w)] \in {NoPrint, f}
  BY DEF StorePdf, CanPut
<1>8. /\ pdf' \in [Jobs -> Prints] /\ pdf'[Job(w)] = f
      /\ \A j \in Jobs \ {Job(w)} : pdf'[j] = pdf[j]
  BY <1>4, <1>7 DEF SInv, SystemTypeOK, Prints
<1>9. \A j \in Jobs : pdf[j] # NoPrint => pdf'[j] = pdf[j]
  BY <1>7, <1>8
<1>10. ASSUME NEW v \in Workers, Busy(v), v # w, Fenced(task[v].claim)
       PROVE  pdf'[Job(v)] = pdf[Job(v)]
  <2>1. /\ task[v].claim \in claims /\ task[w].claim \in claims /\ Job(v) \in Jobs
        /\ task[v].claim.lease # task[w].claim.lease
    BY <1>4, <1>10, TaskShape DEF SInv, CopiesAreOwn
  <2>2. rows[Job(w)].lease = task[w].claim.lease
    BY <1>3 DEF SInv, ExecutingOwnsRow
  <2>3. rows[Job(v)].lease = task[v].claim.lease
    BY <1>10 DEF Fenced, Job
  <2> QED BY <1>8, <2>1, <2>2, <2>3
<1>11. /\ task' \in [Workers -> Tasks \cup {Idle}]
       /\ CopiesAreOwn' /\ InTime' /\ ExecutingOwnsRow' /\ CancelledInTime' /\ StoredIfOk'
  <2>1. "ended" \notin Executing
    BY DEF Executing
  <2> QED BY <1>1, <1>4, <1>5, <1>6, <1>8, <1>10, <2>1, TaskMoves
<1>12. SystemTypeOK'
  BY <1>1, <1>2, <1>8, <1>11 DEF SInv, SystemTypeOK, IInv
<1>13. Cleaning'
  <2> SUFFICES ASSUME NEW k \in Controllers, cleaner[k].pc = "forget"
               PROVE  pdf'[Current(k).id] = NoPrint
    BY <1>1 DEF SInv, Cleaning, HeldCopies, Current
  <2>1. Current(k) \in purges /\ Current(k).id \in Jobs
    BY CleanerShape DEF SInv
  <2>2. Current(k).id # Job(w)
    BY <1>3, <2>1, RunningIsNotPurged
  <2> QED BY <1>8, <2>1, <2>2 DEF SInv, Cleaning
<1>14. CompletedHasPdf'
  BY <1>1, <1>9, PrintsAssumption DEF SInv, CompletedHasPdf, PrintsAgree
<1>15. NoOrphanPdf'
  BY <1>1, <1>4, <1>8 DEF SInv, NoOrphanPdf
<1> QED BY <1>1, <1>2, <1>11, <1>12, <1>13, <1>14, <1>15, Untouched DEF SInv

LEMMA ExecuteKeeps ==
    ASSUME SInv, NEW w \in Workers, Execute(w)
    PROVE  SInv' /\ [Next]_vars
<1> USE DEF Goto, Runs, Executing
<1>1. CASE Authorize(w)
  BY <1>1, AdvanceKeeps DEF Authorize
<1>2. CASE ReadInput(w)
  BY <1>2, AdvanceKeeps DEF ReadInput
<1>3. CASE Compiled(w)
  BY <1>3, AdvanceKeeps DEF Compiled
<1>4. CASE Interrupted(w)
  BY <1>4, AdvanceKeeps DEF Interrupted
<1>5. CASE Recheck(w)
  BY <1>5, AdvanceKeeps DEF Recheck
<1>6. CASE Fail(w)
  BY <1>6, AdvanceKeeps DEF Fail
<1> QED BY <1>1, <1>2, <1>3, <1>4, <1>5, <1>6, StorePdfKeeps DEF Execute

\* Slots that become free give up nothing another slot relies on.
LEMMA SlotsFreed ==
    ASSUME SInv, NEW S \in SUBSET Workers,
           task' = [w \in Workers |-> IF w \in S THEN Idle ELSE task[w]],
           \A w \in Workers \ S : Busy(w) => task[w].claim \in claims',
           UNCHANGED clock
    PROVE  /\ task' \in [Workers -> Tasks \cup {Idle}]
           /\ \A w \in Workers : /\ Busy(w)' => w \notin S /\ task'[w] = task[w] /\ Busy(w)
                                 /\ Runs(w)' => w \notin S /\ task'[w] = task[w] /\ Runs(w)
           /\ CopiesAreOwn' /\ InTime'
<1>1. task' \in [Workers -> Tasks \cup {Idle}]
  BY DEF SInv, SystemTypeOK
<1>2. /\ \A w \in S : task'[w] = Idle
      /\ \A w \in Workers \ S : task'[w] = task[w]
  OBVIOUS
<1>3. Idle.pc = "idle" /\ "idle" \notin Executing
  BY DEF Idle, Executing
<1>4. \A w \in Workers : /\ Busy(w)' => w \notin S /\ task'[w] = task[w] /\ Busy(w)
                         /\ Runs(w)' => w \notin S /\ task'[w] = task[w] /\ Runs(w)
  BY <1>2, <1>3 DEF Busy, Runs
<1>5. CopiesAreOwn'
  BY <1>4 DEF SInv, CopiesAreOwn
<1>6. InTime'
  BY <1>4 DEF SInv, InTime
<1> QED BY <1>1, <1>4, <1>5, <1>6

LEMMA OneSlotFreed ==
    ASSUME SInv, NEW w \in Workers, Busy(w), task' = [task EXCEPT ![w] = Idle],
           claims' = claims \ {task[w].claim}
    PROVE  /\ task' = [v \in Workers |-> IF v \in {w} THEN Idle ELSE task[v]]
           /\ \A v \in Workers \ {w} : Busy(v) => task[v].claim \in claims'
BY DEF SInv, SystemTypeOK, CopiesAreOwn

\* A report that is lost, or that comes after the lease was taken over.
LEMMA CopyDropped ==
    ASSUME SInv, NEW w \in Workers, Busy(w), task' = [task EXCEPT ![w] = Idle],
           claims' = claims \ {task[w].claim}, [Next]_vars,
           UNCHANGED <<rows, clock, issued, purges, capability, json, pdf, cleaner, sub>>
    PROVE  SInv'
<1>1. IInv'
  BY NextPreserves DEF SInv
<1>2. /\ task' \in [Workers -> Tasks \cup {Idle}]
      /\ \A v \in Workers : /\ Busy(v)' => v \notin {w} /\ task'[v] = task[v] /\ Busy(v)
                            /\ Runs(v)' => v \notin {w} /\ task'[v] = task[v] /\ Runs(v)
      /\ CopiesAreOwn' /\ InTime'
  BY OneSlotFreed, SlotsFreed
<1>3. SystemTypeOK'
  BY <1>1, <1>2 DEF SInv, SystemTypeOK, IInv
<1>4. ExecutingOwnsRow' /\ CancelledInTime'
  BY <1>2 DEF SInv, ExecutingOwnsRow, CancelledInTime, Job
<1>5. StoredIfOk'
  BY <1>2 DEF SInv, StoredIfOk, Job, Fenced, Runs
<1>6. PrintsAgree'
  BY DEF SInv, PrintsAgree
<1> QED BY <1>1, <1>2, <1>3, <1>4, <1>5, <1>6, Untouched DEF SInv

LEMMA ReportLostKeeps ==
    ASSUME SInv, NEW w \in Workers, ReportLost(w)
    PROVE  SInv' /\ [Next]_vars
<1>1. Busy(w)
  BY DEF ReportLost, Busy
<1>2. Next
  <2>1. Abandon
    BY DEF ReportLost, Abandon
  <2> QED BY <2>1 DEF Next
<1> QED BY <1>1, <1>2, CopyDropped DEF ReportLost, objects

\* finish: no other slot executes under this lease, and success has its PDF.
LEMMA ReportKeeps ==
    ASSUME SInv, NEW w \in Workers, Report(w)
    PROVE  SInv' /\ [Next]_vars
<1>1. Busy(w) /\ ~Runs(w) /\ Finish(task[w].claim, task[w].ok)
  BY DEF Report, Busy, Runs, Executing
<1>2. task[w].claim \in claims /\ task[w].ok \in BOOLEAN /\ Job(w) \in Jobs
  BY <1>1, TaskShape DEF SInv, CopiesAreOwn
<1>3. Next
  BY <1>1, <1>2 DEF Next
<1>4. IInv'
  BY <1>3, NextPreserves DEF SInv
<1>5. /\ task' = [task EXCEPT ![w] = Idle] /\ claims' = claims \ {task[w].claim}
      /\ UNCHANGED <<clock, issued, purges, capability, json, pdf, cleaner, sub>>
  BY <1>1 DEF Report, Finish, objects
<1>6. CASE ~Fenced(task[w].claim)
  <2>1. UNCHANGED rows
    BY <1>1, <1>6 DEF Finish
  <2> QED BY <1>1, <1>3, <1>5, <2>1, CopyDropped
<1>7. CASE Fenced(task[w].claim)
  <2>1. PICK j \in Jobs : j = Job(w)
    BY <1>2
  <2>2. PICK o : o = Outcome(task[w].ok)
    OBVIOUS
  <2>3. /\ o.status \in {"completed", "failed"}
        /\ o.status = "completed" => task[w].ok
    BY <2>2 DEF Outcome
  <2>4. rows' = [rows EXCEPT ![j].status = o.status, ![j].failure = o.failure]
    BY <1>1, <1>7, <2>1, <2>2 DEF Finish, Job
  <2>5. /\ \A k \in Jobs \ {j} : rows'[k] = rows[k]
        /\ rows'[j].status = o.status /\ rows'[j].lease = rows[j].lease
        /\ rows'[j].fingerprint = rows[j].fingerprint
        /\ rows'[j].created_at = rows[j].created_at
    BY <2>4, Numbers DEF Row, SInv
  <2>6. /\ rows[j].status = "running" /\ rows[j].lease = task[w].claim.lease
        /\ task[w].claim.fingerprint = rows[j].fingerprint
    BY <1>2, <1>7, <2>1 DEF Fenced, Job, SInv, PrintsAgree
  <2>7. /\ task' \in [Workers -> Tasks \cup {Idle}]
        /\ \A v \in Workers : /\ Busy(v)' => v \notin {w} /\ task'[v] = task[v] /\ Busy(v)
                              /\ Runs(v)' => v \notin {w} /\ task'[v] = task[v] /\ Runs(v)
        /\ CopiesAreOwn' /\ InTime'
    BY <1>1, <1>5, OneSlotFreed, SlotsFreed
  <2>8. SystemTypeOK'
    BY <1>4, <1>5, <2>7 DEF SInv, SystemTypeOK, IInv
  <2>9. ASSUME NEW v \in Workers, v # w, Busy(v)
        PROVE  /\ task[v].claim.lease # rows[j].lease
               /\ Job(v) \in Jobs /\ Job(v) = task[v].claim.id
    BY <1>1, <2>6, <2>9, TaskShape DEF SInv, CopiesAreOwn, Job
  <2>10. ExecutingOwnsRow' /\ CancelledInTime'
    <3>1. ASSUME NEW v \in Workers, Runs(v)'
          PROVE  /\ v # w /\ Runs(v) /\ task'[v] = task[v] /\ Job(v)' = Job(v)
                 /\ rows'[Job(v)] = rows[Job(v)]
      <4>1. v # w /\ Runs(v) /\ task'[v] = task[v] /\ Busy(v)
        BY <2>7, <3>1, TaskShape DEF SInv
      <4>2. Job(v) # j
        BY <2>9, <4>1 DEF SInv, ExecutingOwnsRow
      <4> QED BY <2>5, <2>9, <4>1, <4>2 DEF Job
    <3> QED BY <3>1 DEF SInv, ExecutingOwnsRow, CancelledInTime
  <2>11. StoredIfOk'
    <3> SUFFICES ASSUME NEW v \in Workers, Busy(v)', ~Runs(v)', task'[v].ok,
                        Fenced(task[v].claim)', task'[v] = task[v]
                 PROVE  pdf[Job(v)] = task[v].claim.fingerprint
      BY <1>5, <2>7 DEF StoredIfOk, Job
    <3>1. v # w /\ Busy(v) /\ ~Runs(v)
      BY <2>7 DEF Runs
    <3>2. rows'[Job(v)].lease = task[v].claim.lease /\ rows'[Job(v)].status = "running"
      BY <2>9, <3>1 DEF Fenced
    <3>3. Fenced(task[v].claim)
      BY <2>3, <2>5, <2>9, <3>1, <3>2 DEF Fenced
    <3> QED BY <3>1, <3>3 DEF SInv, StoredIfOk
  <2>12. PrintsAgree'
    BY <1>5, <2>5, <2>6, Numbers DEF SInv, PrintsAgree
  <2>13. ActiveHasInput' /\ NoOrphanPdf'
    BY <1>5, <2>3, <2>5, <2>6 DEF SInv, ActiveHasInput, NoOrphanPdf
  <2>14. CompletedHasPdf'
    <3>1. o.status = "completed" => pdf[j] = rows[j].fingerprint
      BY <1>1, <1>7, <2>1, <2>3, <2>6 DEF SInv, StoredIfOk
    <3> QED BY <1>5, <2>5, <3>1 DEF SInv, CompletedHasPdf
  <2> QED BY <1>3, <1>4, <1>5, <2>7, <2>8, <2>10, <2>11, <2>12, <2>13, <2>14, Untouched DEF SInv
<1> QED BY <1>3, <1>6, <1>7

---------------------------------------------------------------------------
(* cleanup *)

LEMMA CleanerMoves ==
    ASSUME SystemTypeOK, NEW k \in Controllers, NEW r \in Cleanings,
           cleaner' = [cleaner EXCEPT ![k] = r]
    PROVE  /\ cleaner' \in [Controllers -> Cleanings] /\ cleaner'[k] = r
           /\ \A i \in Controllers \ {k} : cleaner'[i] = cleaner[i]
           /\ \A p : p \in HeldCopies(cleaner') <=>
                        p \in r.todo \/ \E i \in Controllers \ {k} : p \in cleaner[i].todo
<1>1. /\ cleaner' \in [Controllers -> Cleanings] /\ cleaner'[k] = r
      /\ \A i \in Controllers \ {k} : cleaner'[i] = cleaner[i]
  BY DEF SystemTypeOK
<1>2. \A p : p \in HeldCopies(cleaner') <=> \E i \in Controllers : p \in cleaner'[i].todo
  BY DEF HeldCopies
<1> QED BY <1>1, <1>2

LEMMA HeldOnes ==
    ASSUME Cleaning, NEW k \in Controllers
    PROVE  \A p : p \in purges <=>
               p \in cleaner[k].todo \/ \E i \in Controllers \ {k} : p \in cleaner[i].todo
BY DEF Cleaning, HeldCopies

LEMMA RestingIsCleaning == Resting \in Cleanings /\ Resting.pc = "idle" /\ Resting.todo = {}
BY DEF Resting, Cleanings

LEMMA StartCleanupKeeps ==
    ASSUME SInv, NEW k \in Controllers, NEW t \in Stamps, StartCleanup(k, t)
    PROVE  SInv' /\ [Next]_vars
<1>1. PICK batch \in PurgeBatch(t) :
          /\ batch # {}
          /\ Expire(batch)
          /\ cleaner' = [cleaner EXCEPT ![k] =
                            [pc |-> "json", todo |-> {Copy(j) : j \in batch}]]
  BY DEF StartCleanup
<1>2. cleaner[k].pc = "idle" /\ UNCHANGED <<json, pdf, task, sub>>
  BY DEF StartCleanup, objects
<1>3. Next
  BY <1>1 DEF Next
<1>4. IInv'
  BY <1>3, NextPreserves DEF SInv
<1> DEFINE new == {Copy(j) : j \in batch}
           r == [pc |-> "json", todo |-> new]
<1>5. /\ purges' = purges \cup new /\ new # {}
      /\ UNCHANGED <<rows, clock, issued, claims, capability>>
  BY <1>1 DEF Expire
<1>6. new \subseteq Purge
  BY <1>4, <1>5 DEF IInv, TypeOK
<1> HIDE DEF new
<1>7. r \in Cleanings /\ r.todo = new /\ r.pc = "json"
  BY <1>6 DEF Cleanings
<1>8. cleaner' = [cleaner EXCEPT ![k] = r]
  BY <1>1 DEF new
<1> HIDE DEF r
<1>9. /\ cleaner' \in [Controllers -> Cleanings] /\ cleaner'[k] = r
      /\ \A i \in Controllers \ {k} : cleaner'[i] = cleaner[i]
      /\ \A p : p \in HeldCopies(cleaner') <=>
                   p \in r.todo \/ \E i \in Controllers \ {k} : p \in cleaner[i].todo
  BY <1>7, <1>8, CleanerMoves DEF SInv
<1>10. SystemTypeOK'
  BY <1>2, <1>4, <1>5, <1>9 DEF SInv, SystemTypeOK, IInv
<1>11. Cleaning'
  <2>1. cleaner[k].todo = {}
    BY <1>2 DEF SInv, Cleaning
  <2>2. purges' = HeldCopies(cleaner')
    BY <1>5, <1>7, <1>9, <2>1, HeldOnes DEF SInv
  <2>3. ASSUME NEW i \in Controllers
        PROVE  /\ cleaner'[i].pc = "idle" <=> cleaner'[i].todo = {}
               /\ cleaner'[i].pc = "forget" => pdf[Current(i)'.id] = NoPrint
    <3>1. CASE i = k
      BY <1>5, <1>7, <1>9, <3>1
    <3>2. CASE i # k
      BY <1>9, <3>2 DEF SInv, Cleaning, Current
    <3> QED BY <3>1, <3>2
  <2> QED BY <1>2, <2>2, <2>3 DEF Cleaning
<1> QED BY <1>2, <1>3, <1>4, <1>5, <1>10, <1>11, Untouched DEF SInv

\* A cleaner goes from one of its three calls to the next.
LEMMA CleanerAdvances ==
    ASSUME SInv, NEW k \in Controllers, cleaner[k].pc # "idle", NEW p \in {"pdf", "forget"},
           cleaner' = [cleaner EXCEPT ![k].pc = p], UNCHANGED purges,
           \A j \in Jobs : pdf[j] = NoPrint => pdf'[j] = NoPrint,
           p = "forget" => pdf'[Current(k).id] = NoPrint
    PROVE  cleaner' \in [Controllers -> Cleanings] /\ Cleaning'
<1> DEFINE r == [cleaner[k] EXCEPT !.pc = p]
<1>1. cleaner[k] \in Cleanings
  BY DEF SInv, SystemTypeOK
<1>2. r \in Cleanings /\ r.pc = p /\ r.todo = cleaner[k].todo
  BY <1>1 DEF Cleanings
<1>3. cleaner' = [cleaner EXCEPT ![k] = r]
  OBVIOUS
<1> HIDE DEF r
<1>4. /\ cleaner' \in [Controllers -> Cleanings] /\ cleaner'[k] = r
      /\ \A i \in Controllers \ {k} : cleaner'[i] = cleaner[i]
      /\ \A q : q \in HeldCopies(cleaner') <=>
                   q \in r.todo \/ \E i \in Controllers \ {k} : q \in cleaner[i].todo
  BY <1>2, <1>3, CleanerMoves DEF SInv
<1>5. purges' = HeldCopies(cleaner')
  BY <1>2, <1>4, HeldOnes DEF SInv
<1>6. \A i \in Controllers : Current(i)' = Current(i)
  BY <1>2, <1>4 DEF Current
<1>7. ASSUME NEW i \in Controllers
      PROVE  /\ cleaner'[i].pc = "idle" <=> cleaner'[i].todo = {}
             /\ cleaner'[i].pc = "forget" => pdf'[Current(i)'.id] = NoPrint
  <2>1. CASE i = k
    BY <1>2, <1>4, <1>6, <2>1 DEF SInv, Cleaning
  <2>2. CASE i # k
    <3>1. cleaner[i].pc = "forget" => Current(i).id \in Jobs
      BY CleanerShape DEF SInv
    <3> QED BY <1>4, <1>6, <2>2, <3>1 DEF SInv, Cleaning
  <2> QED BY <2>1, <2>2
<1> QED BY <1>4, <1>5, <1>7 DEF Cleaning

\* What a cleaner deletes belongs to no job that is submitted, executed,
\* reported or within its seven days.
LEMMA DeleteInputKeeps ==
    ASSUME SInv, NEW k \in Controllers, DeleteInput(k)
    PROVE  SInv' /\ [Next]_vars
<1>1. UNCHANGED <<rows, clock, issued, claims, purges, capability, pdf, task, sub>>
      /\ UNCHANGED vars
  BY DEF DeleteInput, queueVars, vars
<1>2. IInv'
  BY <1>1, NextPreserves DEF SInv
<1>3. PICK j \in Jobs : j = Current(k).id /\ Current(k) \in purges
  BY CleanerShape DEF SInv, DeleteInput
<1>4. json' = [json EXCEPT ![j] = NoPrint]
  BY <1>3 DEF DeleteInput
<1>5. json' \in [Jobs -> Prints] /\ \A i \in Jobs \ {j} : json'[i] = json[i]
  BY <1>4 DEF SInv, SystemTypeOK, Prints
<1>6. cleaner' \in [Controllers -> Cleanings] /\ Cleaning'
  BY <1>1, CleanerAdvances DEF DeleteInput
<1>7. SystemTypeOK'
  BY <1>1, <1>2, <1>5, <1>6 DEF SInv, SystemTypeOK, IInv
<1>8. Submitting'
  <2> SUFFICES ASSUME NEW s \in Clients, sub[s] # Idle
               PROVE  sub[s].pc = "enqueue" => json'[sub[s].id] = sub[s].print
    BY <1>1 DEF SInv, Submitting
  <2>1. sub[s].id # j /\ sub[s].id \in Jobs
    BY <1>3, SubmittedIsNotPurged, CallShape DEF SInv
  <2> QED BY <1>5, <2>1 DEF SInv, Submitting
<1>9. ActiveHasInput'
  <2>1. ~Active(j)
    BY <1>3, PurgedIsClosed DEF SInv, Expired
  <2> QED BY <1>1, <1>5, <2>1 DEF SInv, ActiveHasInput
<1> QED BY <1>1, <1>2, <1>6, <1>7, <1>8, <1>9, Untouched DEF SInv

LEMMA DeletePdfKeeps ==
    ASSUME SInv, NEW k \in Controllers, DeletePdf(k)
    PROVE  SInv' /\ [Next]_vars
<1>1. UNCHANGED <<rows, clock, issued, claims, purges, capability, json, task, sub>>
      /\ UNCHANGED vars
  BY DEF DeletePdf, queueVars, vars
<1>2. IInv'
  BY <1>1, NextPreserves DEF SInv
<1>3. PICK j \in Jobs : j = Current(k).id /\ Current(k) \in purges
  BY CleanerShape DEF SInv, DeletePdf
<1>4. pdf' = [pdf EXCEPT ![j] = NoPrint]
  BY <1>3 DEF DeletePdf
<1>5. /\ pdf' \in [Jobs -> Prints] /\ pdf'[j] = NoPrint
      /\ \A i \in Jobs \ {j} : pdf'[i] = pdf[i]
  BY <1>4 DEF SInv, SystemTypeOK, Prints
<1>6. cleaner' \in [Controllers -> Cleanings] /\ Cleaning'
  BY <1>1, <1>3, <1>5, CleanerAdvances DEF DeletePdf
<1>7. SystemTypeOK'
  BY <1>1, <1>2, <1>5, <1>6 DEF SInv, SystemTypeOK, IInv
<1>8. Exists(j) => Terminal(j) /\ rows[j].created_at + RetentionMs <= clock
  BY <1>3, PurgedIsClosed DEF SInv, Expired
<1>9. StoredIfOk'
  <2> SUFFICES ASSUME NEW w \in Workers, Busy(w), Fenced(task[w].claim)
               PROVE  pdf'[Job(w)] = pdf[Job(w)]
    BY <1>1 DEF SInv, StoredIfOk, Busy, Runs, Job, Fenced
  <2>1. Job(w) \in Jobs /\ rows[Job(w)].status = "running"
    BY TaskShape DEF SInv, Fenced, Job
  <2> QED BY <1>5, <1>8, <2>1
<1>10. CompletedHasPdf'
  <2> SUFFICES ASSUME NEW i \in Jobs, rows[i].status = "completed",
                      clock < rows[i].created_at + RetentionMs
               PROVE  pdf'[i] = rows[i].fingerprint
    BY <1>1 DEF CompletedHasPdf
  <2>1. i # j
    BY <1>8, Numbers, TimesAssumption DEF SInv
  <2> QED BY <1>5, <2>1 DEF SInv, CompletedHasPdf
<1>11. NoOrphanPdf'
  BY <1>1, <1>5 DEF SInv, NoOrphanPdf
<1> QED BY <1>1, <1>2, <1>6, <1>7, <1>9, <1>10, <1>11, Untouched DEF SInv

\* A cleaner that ends its cycle, or goes to its next copy, holds fewer.
LEMMA CleanerLeaves ==
    ASSUME SInv, NEW k \in Controllers, NEW r \in Cleanings, cleaner[k].pc # "idle",
           r.todo \subseteq cleaner[k].todo, r.pc = "idle" <=> r.todo = {}, r.pc # "forget",
           cleaner' = [cleaner EXCEPT ![k] = r], purges' = HeldCopies(cleaner'),
           UNCHANGED pdf
    PROVE  /\ cleaner' \in [Controllers -> Cleanings] /\ Cleaning'
           /\ purges' \subseteq purges
           /\ purges \subseteq purges' \cup (cleaner[k].todo \ r.todo)
<1>1. /\ cleaner' \in [Controllers -> Cleanings] /\ cleaner'[k] = r
      /\ \A i \in Controllers \ {k} : cleaner'[i] = cleaner[i]
      /\ \A q : q \in HeldCopies(cleaner') <=>
                   q \in r.todo \/ \E i \in Controllers \ {k} : q \in cleaner[i].todo
  BY CleanerMoves DEF SInv
<1>2. purges' \subseteq purges /\ purges \subseteq purges' \cup (cleaner[k].todo \ r.todo)
  BY <1>1, HeldOnes DEF SInv
<1>3. ASSUME NEW i \in Controllers
      PROVE  /\ cleaner'[i].pc = "idle" <=> cleaner'[i].todo = {}
             /\ cleaner'[i].pc = "forget" => pdf[Current(i)'.id] = NoPrint
  <2>1. CASE i = k
    BY <1>1, <2>1
  <2>2. CASE i # k
    BY <1>1, <2>2 DEF SInv, Cleaning, Current
  <2> QED BY <2>1, <2>2
<1> QED BY <1>1, <1>2, <1>3 DEF Cleaning

LEMMA EndCleanupKeeps ==
    ASSUME SInv, NEW k \in Controllers, EndCleanup(k)
    PROVE  SInv' /\ [Next]_vars
<1>1. UNCHANGED <<rows, clock, issued, claims, capability, json, pdf, task, sub>>
  BY DEF EndCleanup, objects
<1>2. /\ cleaner' \in [Controllers -> Cleanings] /\ Cleaning' /\ purges' \subseteq purges
  BY <1>1, RestingIsCleaning, CleanerLeaves DEF EndCleanup
<1>3. Next
  BY <1>1, <1>2 DEF Next, Abandon
<1>4. IInv'
  BY <1>3, NextPreserves DEF SInv
<1>5. SystemTypeOK'
  BY <1>1, <1>2, <1>4 DEF SInv, SystemTypeOK, IInv
<1> QED BY <1>1, <1>2, <1>3, <1>4, <1>5, Untouched DEF SInv

\* forget: the PDF went before the row, and nobody executes the job.
LEMMA ForgetRowKeeps ==
    ASSUME SInv, NEW k \in Controllers, ForgetRow(k)
    PROVE  SInv' /\ [Next]_vars
<1> DEFINE left == cleaner[k].todo \ {Current(k)}
           r == IF left = {} THEN Resting ELSE [pc |-> "json", todo |-> left]
<1>1. /\ cleaner[k].pc = "forget" /\ Forget(Current(k)) /\ purges' = HeldCopies(cleaner')
      /\ cleaner' = [cleaner EXCEPT ![k] = r] /\ UNCHANGED <<json, pdf, task, sub>>
  BY DEF ForgetRow, objects
<1>2. /\ Current(k) \in purges /\ Current(k).id \in Jobs /\ cleaner[k] \in Cleanings
  BY <1>1, CleanerShape DEF SInv
<1>3. /\ r \in Cleanings /\ r.todo = left
      /\ (r.pc = "idle" <=> r.todo = {})
      /\ r.pc # "forget"
  <2>1. left \subseteq Purge
    BY <1>2 DEF Cleanings
  <2>2. CASE left = {}
    BY <2>2, RestingIsCleaning
  <2>3. CASE left # {}
    BY <2>1, <2>3 DEF Cleanings
  <2> QED BY <2>2, <2>3
<1>a. r.todo \subseteq cleaner[k].todo
  BY <1>3
<1>b. cleaner[k].pc # "idle" /\ UNCHANGED pdf
  BY <1>1
<1> HIDE DEF r
<1>4. /\ cleaner' \in [Controllers -> Cleanings] /\ Cleaning'
  BY <1>1, <1>3, <1>a, <1>b, CleanerLeaves
<1>5. Next
  BY <1>1, <1>2 DEF Next
<1>6. IInv'
  BY <1>5, NextPreserves DEF SInv
<1>7. UNCHANGED <<clock, issued, claims, capability>>
  BY <1>1 DEF Forget
<1>8. SystemTypeOK'
  BY <1>1, <1>4, <1>6 DEF SInv, SystemTypeOK, IInv
<1>9. PICK j \in Jobs : j = Current(k).id
  BY <1>2
<1>10. CASE rows' = rows
  BY <1>1, <1>4, <1>5, <1>6, <1>7, <1>8, <1>10, Untouched DEF SInv
<1>11. CASE rows' = [rows EXCEPT ![j] = NoRow]
  <2>1. /\ \A i \in Jobs \ {j} : rows'[i] = rows[i]
        /\ rows'[j].status = "absent" /\ rows'[j].lease = 0
    BY <1>11, Numbers DEF SInv, NoRow
  <2>2. pdf[j] = NoPrint
    BY <1>1, <1>9 DEF SInv, Cleaning
  <2>3. \A w \in Workers : Runs(w) => Job(w) # j
    BY <1>2, <1>9, RunningIsNotPurged
  <2>4. ExecutingOwnsRow' /\ CancelledInTime' /\ StoredIfOk'
    BY <1>1, <2>1, <2>3, TasksKeep
  <2>5. PrintsAgree'
    <3>1. \A c \in claims : c.lease > 0 /\ c.id \in Jobs /\ c.lease \in Nat
      BY Numbers DEF SInv, IInv, FreshLeases
    <3> QED BY <1>7, <2>1, <3>1 DEF SInv, PrintsAgree
  <2>6. ActiveHasInput' /\ CompletedHasPdf' /\ NoOrphanPdf'
    BY <1>1, <1>7, <2>1, <2>2 DEF SInv, ActiveHasInput, CompletedHasPdf, NoOrphanPdf
  <2> QED BY <1>1, <1>4, <1>5, <1>6, <1>7, <1>8, <2>4, <2>5, <2>6, Untouched DEF SInv
<1> QED BY <1>1, <1>9, <1>10, <1>11 DEF Forget

---------------------------------------------------------------------------
(* Failure, time and authority *)

LEMMA CrashKeeps ==
    ASSUME SInv, NEW k \in Controllers, Crash(k)
    PROVE  SInv' /\ [Next]_vars
<1> DEFINE dead == {w \in Workers : HostOf[w] = k}
<1>1. /\ task' = [w \in Workers |-> IF w \in dead THEN Idle ELSE task[w]]
      /\ claims' = claims \ {task[w].claim : w \in {v \in dead : Busy(v)}}
      /\ cleaner' = [cleaner EXCEPT ![k] = Resting] /\ purges' = HeldCopies(cleaner')
      /\ sub' = [s \in Clients |-> IF ClientHost[s] = k THEN Idle ELSE sub[s]]
      /\ UNCHANGED <<rows, clock, issued, capability, json, pdf>>
  BY DEF Crash, objects
<1>2. claims' \subseteq claims
  BY <1>1
<1>3. /\ cleaner' \in [Controllers -> Cleanings] /\ cleaner'[k] = Resting
      /\ \A i \in Controllers \ {k} : cleaner'[i] = cleaner[i]
      /\ \A p : p \in HeldCopies(cleaner') <=>
                   p \in {} \/ \E i \in Controllers \ {k} : p \in cleaner[i].todo
  BY <1>1, RestingIsCleaning, CleanerMoves DEF SInv
<1>4. purges' \subseteq purges
  BY <1>1, <1>3, HeldOnes DEF SInv
<1>5. Cleaning'
  <2>1. ASSUME NEW i \in Controllers
        PROVE  /\ cleaner'[i].pc = "idle" <=> cleaner'[i].todo = {}
               /\ cleaner'[i].pc = "forget" => pdf[Current(i)'.id] = NoPrint
    <3>1. CASE i = k
      BY <1>3, <3>1, RestingIsCleaning
    <3>2. CASE i # k
      BY <1>3, <3>2 DEF SInv, Cleaning, Current
    <3> QED BY <3>1, <3>2
  <2> QED BY <1>1, <2>1 DEF Cleaning
<1>6. Next
  BY <1>1, <1>2, <1>4 DEF Next, Abandon
<1>7. IInv'
  BY <1>6, NextPreserves DEF SInv
<1>8. \A w \in Workers \ dead : Busy(w) => task[w].claim \in claims'
  <2> SUFFICES ASSUME NEW w \in Workers \ dead, Busy(w) PROVE task[w].claim \in claims'
    OBVIOUS
  <2>1. \A v \in dead : Busy(v) => task[v].claim # task[w].claim
    BY DEF SInv, CopiesAreOwn
  <2> QED BY <1>1, <2>1 DEF SInv, CopiesAreOwn
<1>9. /\ task' \in [Workers -> Tasks \cup {Idle}]
      /\ \A w \in Workers : /\ Busy(w)' => w \notin dead /\ task'[w] = task[w] /\ Busy(w)
                            /\ Runs(w)' => w \notin dead /\ task'[w] = task[w] /\ Runs(w)
      /\ CopiesAreOwn' /\ InTime'
  <2>1. dead \in SUBSET Workers
    OBVIOUS
  <2> HIDE DEF dead
  <2> QED BY <1>1, <1>8, <2>1, SlotsFreed
<1> HIDE DEF dead
<1>10. sub' \in [Clients -> Submissions \cup {Idle}] /\ Submitting'
  BY <1>1 DEF SInv, SystemTypeOK, Submitting
<1>11. SystemTypeOK'
  BY <1>1, <1>3, <1>7, <1>9, <1>10 DEF SInv, SystemTypeOK, IInv
<1>12. ExecutingOwnsRow' /\ CancelledInTime'
  BY <1>1, <1>9 DEF SInv, ExecutingOwnsRow, CancelledInTime, Job
<1>13. StoredIfOk'
  BY <1>1, <1>9 DEF SInv, StoredIfOk, Job, Fenced, Runs
<1>14. PrintsAgree'
  BY <1>1, <1>2 DEF SInv, PrintsAgree
<1> QED BY <1>1, <1>5, <1>6, <1>7, <1>9, <1>10, <1>11, <1>12, <1>13, <1>14, Untouched DEF SInv

\* Time stops at the deadline of a task and of a submission.
LEMMA PassKeeps == ASSUME SInv, Pass PROVE SInv' /\ [Next]_vars
<1>1. /\ clock' = clock + 1 /\ clock \in Nat
      /\ UNCHANGED <<rows, issued, claims, purges, capability, json, pdf, task, cleaner, sub>>
  BY Numbers DEF Pass, Tick, objects, SInv
<1>2. Next
  BY DEF Pass, Next
<1>3. IInv'
  BY <1>2, NextPreserves DEF SInv
<1>4. SystemTypeOK'
  BY <1>1, <1>3 DEF SInv, SystemTypeOK, IInv
<1>5. InTime'
  <2> SUFFICES ASSUME NEW w \in Workers, Runs(w)
               PROVE  /\ task[w].ok = FALSE /\ clock' <= task[w].deadline
                      /\ task[w].deadline <= task[w].claim.until
                      /\ task[w].deadline <= clock' + ExecMs
    BY <1>1 DEF InTime, Runs
  <2>1. task[w].deadline \in Nat /\ clock < task[w].deadline
    BY TaskShape DEF SInv, Pass
  <2>2. task[w].deadline <= clock + ExecMs
    BY DEF SInv, InTime
  <2>3. clock' <= task[w].deadline /\ task[w].deadline <= clock' + ExecMs
    BY <1>1, <2>1, <2>2, ExecAssumption
  <2> QED BY <2>3 DEF SInv, InTime
<1>6. Submitting'
  <2> SUFFICES ASSUME NEW s \in Clients, sub[s] # Idle PROVE clock' <= sub[s].until
    BY <1>1 DEF SInv, Submitting
  <2>1. sub[s].until \in Nat /\ clock < sub[s].until
    BY CallShape DEF SInv, Pass
  <2> QED BY <1>1, <2>1
<1>7. CompletedHasPdf'
  <2> SUFFICES ASSUME NEW j \in Jobs, rows[j].status = "completed",
                      clock' < rows[j].created_at + RetentionMs
               PROVE  pdf[j] = rows[j].fingerprint
    BY <1>1 DEF CompletedHasPdf
  <2>1. clock < rows[j].created_at + RetentionMs
    BY <1>1, Numbers, TimesAssumption DEF SInv
  <2> QED BY <2>1 DEF SInv, CompletedHasPdf
<1> QED BY <1>1, <1>2, <1>3, <1>4, <1>5, <1>6, <1>7, Untouched DEF SInv

LEMMA MintCapabilityKeeps ==
    ASSUME SInv, NEW j \in Jobs, MintCapability(j)
    PROVE  SInv' /\ [Next]_vars
<1>1. /\ capability[j] = 0 /\ capability' = [capability EXCEPT ![j] = clock + CapabilityMs]
      /\ UNCHANGED <<rows, clock, issued, claims, purges, json, pdf, task, cleaner, sub>>
  BY DEF MintCapability, Mint, objects
<1>2. Next
  BY DEF MintCapability, Next
<1>3. IInv'
  BY <1>2, NextPreserves DEF SInv
<1>4. SystemTypeOK'
  BY <1>1, <1>3 DEF SInv, SystemTypeOK, IInv
<1>5. Submitting'
  <2> SUFFICES ASSUME NEW s \in Clients, sub[s] # Idle
               PROVE  capability'[sub[s].id] = capability[sub[s].id]
    BY <1>1 DEF SInv, Submitting
  <2>1. sub[s].id \in Jobs /\ sub[s].id # j
    BY <1>1, CallShape DEF SInv, Submitting
  <2> QED BY <1>1, <2>1, Numbers DEF SInv
<1> QED BY <1>1, <1>2, <1>3, <1>4, <1>5, Untouched DEF SInv

---------------------------------------------------------------------------
(* The theorems *)

LEMMA SystemStart == SystemInit => SInv
<1> SUFFICES ASSUME SystemInit PROVE SInv
  OBVIOUS
<1>1. IInv
  BY InitEstablishes DEF SystemInit
<1>2. /\ \A w \in Workers : task[w] = Idle /\ ~Busy(w) /\ ~Runs(w)
      /\ \A k \in Controllers : cleaner[k].pc = "idle" /\ cleaner[k].todo = {}
      /\ \A s \in Clients : sub[s] = Idle
      /\ \A j \in Jobs : pdf[j] = NoPrint /\ rows[j].status = "absent"
      /\ claims = {} /\ purges = {}
  BY DEF SystemInit, Init, Idle, Busy, Runs, Executing, Resting, NoRow
<1>3. SystemTypeOK
  BY <1>1, RestingIsCleaning DEF SystemInit, SystemTypeOK, IInv, Prints
<1>4. CopiesAreOwn /\ InTime /\ ExecutingOwnsRow /\ CancelledInTime /\ StoredIfOk
  BY <1>2 DEF CopiesAreOwn, InTime, ExecutingOwnsRow, CancelledInTime, StoredIfOk
<1>5. PrintsAgree /\ Submitting
  BY <1>2 DEF PrintsAgree, Submitting
<1>6. Cleaning
  <2>1. HeldCopies(cleaner) = {}
    BY <1>2 DEF HeldCopies
  <2> QED BY <1>2, <2>1 DEF Cleaning
<1>7. ActiveHasInput /\ CompletedHasPdf /\ NoOrphanPdf
  BY <1>2 DEF ActiveHasInput, CompletedHasPdf, NoOrphanPdf
<1> QED BY <1>1, <1>3, <1>4, <1>5, <1>6, <1>7 DEF SInv

LEMMA SystemStep == SInv /\ [SystemNext]_system => SInv' /\ [Next]_vars
<1> SUFFICES ASSUME SInv, [SystemNext]_system PROVE SInv' /\ [Next]_vars
  OBVIOUS
<1>1. ASSUME NEW s \in Clients, Call(s) PROVE SInv' /\ [Next]_vars
  BY <1>1, PutInputKeeps, EndSubmitKeeps, EnqueueInputKeeps DEF Call
<1>2. ASSUME NEW w \in Workers, Poll(w) PROVE SInv' /\ [Next]_vars
  BY <1>2, ClaimJobKeeps, PollGivesUpKeeps DEF Poll
<1>3. ASSUME NEW k \in Controllers, Cleanup(k) PROVE SInv' /\ [Next]_vars
  BY <1>3, DeleteInputKeeps, DeletePdfKeeps, ForgetRowKeeps, EndCleanupKeeps DEF Cleanup
<1>4. CASE UNCHANGED system
  <2>1. UNCHANGED <<rows, clock, issued, claims, purges, capability,
                    json, pdf, task, cleaner, sub>> /\ UNCHANGED vars
    BY <1>4 DEF system, vars
  <2>2. IInv'
    BY <2>1, NextPreserves DEF SInv
  <2>3. SystemTypeOK'
    BY <2>1, <2>2 DEF SInv, SystemTypeOK, IInv
  <2> QED BY <2>1, <2>2, <2>3, Untouched DEF SInv
<1> QED
  BY <1>1, <1>2, <1>3, <1>4, PassKeeps, MintCapabilityKeeps, CancelJobKeeps, SubmitKeeps,
     ExecuteKeeps, ReportKeeps, ReportLostKeeps, StartCleanupKeeps, CrashKeeps DEF SystemNext

\* The inductive invariant of the whole compiler.
THEOREM SystemInductive == System => []SInv
<1>1. SInv /\ [SystemNext]_system => SInv'
  BY SystemStep
<1> QED BY <1>1, SystemStart, PTL DEF System

\* Every variable of the compiler keeps its type.
THEOREM SystemTypeCorrect == System => []SystemTypeOK
<1>1. SInv => SystemTypeOK
  BY DEF SInv
<1> QED BY <1>1, SystemInductive, PTL

\* The compiler is built from the queue's actions, so LeaseExclusion, GiveUpSafe,
\* QuotasHold, OutcomesAreFinal, RetentionHolds and the refinement of JobLifecycle
\* hold of the compiler too.
LEMMA QueueOfCompiler == System => Spec
<1>1. SInv /\ [SystemNext]_system => [Next]_vars
  BY SystemStep
<1>2. SystemInit => Init
  BY DEF SystemInit
<1> QED BY <1>1, <1>2, SystemInductive, PTL DEF System, Spec

\* Whoever executes a job owns its row, so no two workers execute one job and
\* no outcome or retry limit is published while its worker runs.
THEOREM OnlyOwnersExecute == System => []ExecutingOwnsRow
<1>1. SInv => ExecutingOwnsRow
  BY DEF SInv
<1> QED BY <1>1, SystemInductive, PTL

\* A job that may still be executed has its own input in the bucket, although
\* submissions and cleaners write the bucket and the queue in separate steps.
THEOREM InputsStay == System => []ActiveHasInput
<1>1. SInv => ActiveHasInput
  BY DEF SInv
<1> QED BY <1>1, SystemInductive, PTL

\* A completed job's PDF, made from that job's input, stays for seven days.
THEOREM PdfsStay == System => []CompletedHasPdf
<1>1. SInv => CompletedHasPdf
  BY DEF SInv
<1> QED BY <1>1, SystemInductive, PTL

\* No PDF outlives its row, whatever worker was executing when it was purged.
THEOREM PdfsGoFirst == System => []NoOrphanPdf
<1>1. SInv => NoOrphanPdf
  BY DEF SInv
<1> QED BY <1>1, SystemInductive, PTL
=============================================================================
