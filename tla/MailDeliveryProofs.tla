------------------------- MODULE MailDeliveryProofs -------------------------
(***************************************************************************)
(* Proofs about MailDelivery, for any number of drafts, messages, edits,   *)
(* renumberings, days and faults.                                          *)
(*                                                                         *)
(* Sending.  A draft that left is claimed, and no operation takes a draft  *)
(* back from a claim; at the transmission the draft was claimed by this    *)
(* operation and has not left.  The text was approved when it was claimed, *)
(* and nothing that clears an approval runs before the transmission ends.  *)
(* A save whose caller was cancelled holds an identifier of its own.       *)
(*                                                                         *)
(* Collecting.  What the cursor has passed is stored, was skipped on       *)
(* purpose or is no longer in the folder; what a collection under way is   *)
(* to pass is that or still to be fetched, because a batch is all that was *)
(* found up to where the cursor is to go; and neither is beyond the folder,*)
(* so that a message that comes later is not passed.  A row that is not    *)
(* historical came after the folder was first seen under its UIDVALIDITY.  *)
(***************************************************************************)
EXTENDS MailDelivery, FiniteSetTheorems, WellFoundedInduction, TLAPS

\* The unique index on the source of a draft.
OneResponse ==
    \A d, e \in Drafts :
        Exists(d) /\ Exists(e) /\ drafts[d].source = drafts[e].source
        /\ drafts[d].source # None => d = e

LateIsOwn ==
    /\ \A s \in late : ~Exists(s.draft)
    /\ \A s, t \in late : s.draft = t.draft => s = t

\* What left is claimed, and left once.
GoneIsClaimed ==
    \A d \in Drafts : wire[d] # << >> =>
        Len(wire[d]) = 1 /\ Exists(d) /\ drafts[d].status \in Claimed

ApprovedBySomebody ==
    \A d \in Drafts :
        Exists(d) /\ drafts[d].status = "approved" => consent[d] # "nobody"

\* What an operation has established on its way to SMTP.
OnItsWay ==
    /\ ~Free /\ task.pc \in {"approve", "credentials", "claim", "transmit", "finish"} =>
          task.draft \in Drafts /\ Exists(task.draft)
    /\ ~Free /\ task.pc \in {"claim", "transmit"} => task.settings = account.revision
    /\ At("generate") => task.source \in Letters
    /\ At("transmit") =>
          /\ drafts[task.draft].status = "sending"
          /\ wire[task.draft] = << >>
          /\ consent[task.draft] # "nobody"
    /\ At("finish") => drafts[task.draft].status \in Claimed

Sending ==
    /\ OneResponse /\ LateIsOwn /\ GoneIsClaimed /\ ApprovedBySomebody /\ OnItsWay
    /\ SentAsApproved

Passed(v, u) == Recorded(v, u) \/ (skip.validity = v /\ u <= skip.uid)

\* Where a collection stands: up to where the cursor is to go, what is in the
\* folder is stored, skipped or still to be fetched.
Collecting ==
    /\ ~Free /\ task.pc \in {"collect", "advance", "skip"} =>
          /\ task.validity \in Validities /\ boundary[task.validity] # -1
          /\ task.advance <= inbox.count
    /\ At("collect") =>
          /\ task.todo # {} /\ \A u \in task.todo : u <= task.advance
          /\ \A u \in inbox.held : u <= task.advance =>
                u \in task.todo \/ Passed(task.validity, u)
    /\ At("advance") =>
          \A u \in inbox.held : u <= task.advance => Passed(task.validity, u)
    /\ At("skip") => cursor.validity = 0

\* The boundary of a UIDVALIDITY is not below where it was first seen, and
\* neither that nor the cursor is beyond the folder.
BoundaryIsLater ==
    /\ \A v \in Validities :
          /\ boundary[v] # -1 => first[v] # -1 /\ first[v] <= boundary[v]
          /\ first[v] <= inbox.count
    /\ cursor.validity # 0 => boundary[cursor.validity] # -1
    /\ cursor.uid <= inbox.count

IsNew(v, l) == v \in Validities /\ first[v] # -1 /\ l > first[v]

GeneratesNew == At("generate") => \E v \in Validities : IsNew(v, task.source)

RowsAreNew ==
    \A i \in DOMAIN rows :
        /\ ~rows[i].historical => IsNew(rows[i].validity, rows[i].letter)
        /\ rows[i].historical => rows[i].processed

\* A row that may be answered, and the message being answered.
LiveIsNew ==
    /\ RowsAreNew
    /\ GeneratesNew
    /\ \A s \in late : \E v \in Validities : IsNew(v, s.source)

Collection == Collecting /\ NothingIsPassedOver /\ BoundaryIsLater /\ LiveIsNew
              /\ ArchiveIsNotAnswered

IInv == TypeOK /\ Sending /\ Collection

-----------------------------------------------------------------------------
(* Types.                                                                  *)

LEMMA NewDraftIsRow ==
    ASSUME NEW l \in Letters \cup {None}
    PROVE  NewDraft(l) \in DraftRows /\ NewDraft(l).approved = 0
           /\ NewDraft(l).status = "draft" /\ NewDraft(l).source = l
BY MailAssumption DEF NewDraft, DraftRows

\* Identifiers are drawn from the unused ones.
LEMMA NewIdIsUnused == ASSUME Unused # {} PROVE NewId \in Unused
BY DEF NewId

LEMMA Bounds ==
    /\ MaxRevision \in Nat \ {0} /\ MaxSettings \in Nat \ {0} /\ MaxValidity \in Nat \ {0}
    /\ MaxLetters \in Nat /\ MaxProfiles \in Nat /\ Days \in Nat
    /\ Removals \in Nat /\ Faults \in Nat /\ Window \in Nat \ {0} /\ Batch \in Nat \ {0}
BY MailAssumption

\* UIDs are positive.
LEMMA UIDs ==
    ASSUME NEW S \in SUBSET Letters
    PROVE  /\ S \subseteq Nat
           /\ \A u \in S : u \in Nat /\ 1 <= u /\ ~(u <= 0) /\ u <= MaxLetters
<1>1. \A u \in Letters : u \in Nat /\ 1 <= u /\ ~(u <= 0) /\ u <= MaxLetters
  BY Bounds DEF Letters
<1> QED BY <1>1

\* A row with another revision, status and approval.
With(row, r, st, a) == [row EXCEPT !.revision = r, !.status = st, !.approved = a]

LEMMA ChangedRow ==
    ASSUME NEW row \in DraftRows, NEW r \in 1..MaxRevision,
           NEW st \in {"draft", "approved"} \cup Claimed, NEW a \in 0..MaxRevision
    PROVE  /\ With(row, r, st, a) \in DraftRows
           /\ With(row, r, st, a).revision = r
           /\ With(row, r, st, a).status = st
           /\ With(row, r, st, a).approved = a
           /\ With(row, r, st, a).source = row.source
<1> DEFINE r1 == [row EXCEPT !.revision = r]
           r2 == [r1 EXCEPT !.status = st]
           r3 == [r2 EXCEPT !.approved = a]
<1>1. r1 \in DraftRows /\ r1.revision = r /\ r1.source = row.source
  BY DEF DraftRows
<1>2. With(row, r, st, a) = r3
  BY DEF With
<1> HIDE DEF r1
<1>3. r2 \in DraftRows /\ r2.status = st /\ r2.revision = r /\ r2.source = row.source
  BY <1>1 DEF DraftRows
<1> HIDE DEF r2
<1>4. /\ r3 \in DraftRows /\ r3.approved = a
      /\ r3.status = st /\ r3.revision = r /\ r3.source = row.source
  BY <1>3 DEF DraftRows
<1> QED BY <1>2, <1>4

LEMMA RowFields ==
    ASSUME NEW row \in DraftRows
    PROVE  /\ row.revision \in 1..MaxRevision /\ row.approved \in 0..MaxRevision
           /\ row.status \in {"draft", "approved"} \cup Claimed
           /\ row.revision \in 0..MaxRevision /\ 0 \in 0..MaxRevision
<1>1. /\ row.revision \in 1..MaxRevision /\ row.approved \in 0..MaxRevision
      /\ row.status \in {"draft", "approved"} \cup Claimed
  BY DEF DraftRows
<1> QED BY <1>1, Bounds

LEMMA RowIsRow ==
    ASSUME TypeOK, NEW d \in Drafts, Exists(d)
    PROVE  drafts[d] \in DraftRows
BY DEF TypeOK, Exists

\* A step that leaves the drafts' table alone or replaces one row.
RowsOK ==
    /\ drafts \in [Drafts -> DraftRows \cup {None}]
    /\ \A d \in Drafts : Exists(d) =>
         drafts[d].approved =
           IF drafts[d].status = "draft" THEN 0 ELSE drafts[d].revision

LEMMA ReplaceRow ==
    ASSUME TypeOK, NEW d \in Drafts, NEW row \in DraftRows,
           row.approved = IF row.status = "draft" THEN 0 ELSE row.revision,
           drafts' = [drafts EXCEPT ![d] = row]
    PROVE  /\ RowsOK'
           /\ drafts'[d] = row /\ Exists(d)'
           /\ \A e \in Drafts \ {d} : drafts'[e] = drafts[e] /\ (Exists(e)' <=> Exists(e))
BY RowAssumption DEF TypeOK, RowsOK, Exists

LEMMA InsertRow ==
    ASSUME TypeOK, NEW d \in Drafts, NEW l \in Letters \cup {None}, Insert(d, l)
    PROVE  /\ RowsOK'
           /\ drafts'[d] = NewDraft(l) /\ Exists(d)'
           /\ \A e \in Drafts \ {d} : drafts'[e] = drafts[e] /\ (Exists(e)' <=> Exists(e))
<1>1. NewDraft(l) \in DraftRows /\ NewDraft(l).approved = 0 /\ NewDraft(l).status = "draft"
  BY NewDraftIsRow
<1> QED BY <1>1, ReplaceRow DEF Insert

LEMMA ApproveRow ==
    ASSUME TypeOK, NEW d \in Drafts, Exists(d), NEW by \in Persons, Approve(d, by)
    PROVE  /\ RowsOK' /\ consent' \in [Drafts -> Persons]
           /\ drafts'[d].source = drafts[d].source /\ drafts'[d].status = "approved"
           /\ Exists(d)' /\ consent'[d] = by
           /\ \A e \in Drafts \ {d} : /\ drafts'[e] = drafts[e] /\ (Exists(e)' <=> Exists(e))
                                      /\ consent'[e] = consent[e]
<1>1. drafts[d] \in DraftRows
  BY RowIsRow
<1> DEFINE row == ApprovedRow(drafts[d])
<1>2. /\ row \in DraftRows /\ row.status = "approved" /\ row.approved = row.revision
      /\ row.source = drafts[d].source
  <2>1. row = With(drafts[d], drafts[d].revision, "approved", drafts[d].revision)
    BY <1>1 DEF ApprovedRow, DraftRows, With
  <2> HIDE DEF row
  <2>2. drafts[d].revision \in 1..MaxRevision /\ drafts[d].revision \in 0..MaxRevision
    BY <1>1, RowFields
  <2> QED BY <1>1, <2>1, <2>2, ChangedRow
<1>3. drafts' = [drafts EXCEPT ![d] = row]
  BY DEF Approve, TypeOK
<1> HIDE DEF row
<1>4. /\ RowsOK' /\ drafts'[d] = row /\ Exists(d)'
      /\ \A e \in Drafts \ {d} : drafts'[e] = drafts[e] /\ (Exists(e)' <=> Exists(e))
  BY <1>2, <1>3, ReplaceRow
<1>5. /\ consent' \in [Drafts -> Persons] /\ consent'[d] = by
      /\ \A e \in Drafts \ {d} : consent'[e] = consent[e]
  BY DEF Approve, TypeOK
<1> QED BY <1>2, <1>4, <1>5

\* A row whose status alone changes, among the approved and claimed ones.
LEMMA StatusRow ==
    ASSUME TypeOK, NEW d \in Drafts, Exists(d), NEW st \in Used,
           drafts[d].status \in Used,
           drafts' = [drafts EXCEPT ![d].status = st]
    PROVE  /\ RowsOK'
           /\ drafts'[d].source = drafts[d].source /\ drafts'[d].status = st /\ Exists(d)'
           /\ \A e \in Drafts \ {d} : drafts'[e] = drafts[e] /\ (Exists(e)' <=> Exists(e))
<1>1. drafts[d] \in DraftRows
  BY RowIsRow
<1> DEFINE row == [drafts[d] EXCEPT !.status = st]
<1>2. /\ row \in DraftRows /\ row.status = st /\ row.approved = drafts[d].approved
      /\ row.revision = drafts[d].revision /\ row.source = drafts[d].source
  BY <1>1 DEF DraftRows, Used
<1>3. drafts[d].approved = drafts[d].revision /\ st # "draft"
  BY DEF TypeOK, Used, Claimed
<1>4. drafts' = [drafts EXCEPT ![d] = row]
  BY DEF TypeOK
<1> HIDE DEF row
<1>5. /\ RowsOK' /\ drafts'[d] = row /\ Exists(d)'
      /\ \A e \in Drafts \ {d} : drafts'[e] = drafts[e] /\ (Exists(e)' <=> Exists(e))
  BY <1>2, <1>3, <1>4, ReplaceRow
<1> QED BY <1>2, <1>5

LEMMA EditRow ==
    ASSUME TypeOK, NEW d \in Drafts, Exists(d), drafts[d].revision < MaxRevision,
           drafts' = [drafts EXCEPT ![d] = Edited(@)]
    PROVE  /\ RowsOK'
           /\ drafts'[d].source = drafts[d].source /\ drafts'[d].status = "draft" /\ Exists(d)'
           /\ \A e \in Drafts \ {d} : drafts'[e] = drafts[e] /\ (Exists(e)' <=> Exists(e))
<1>1. drafts[d] \in DraftRows
  BY RowIsRow
<1> DEFINE row == Edited(drafts[d])
<1>2. /\ row \in DraftRows /\ row.status = "draft" /\ row.approved = 0
      /\ row.source = drafts[d].source
  <2>1. row = With(drafts[d], drafts[d].revision + 1, "draft", 0)
    BY <1>1 DEF Edited, DraftRows, With
  <2> HIDE DEF row
  <2>2. drafts[d].revision + 1 \in 1..MaxRevision /\ 0 \in 0..MaxRevision
    BY <1>1, RowFields, Bounds
  <2> QED BY <1>1, <2>1, <2>2, ChangedRow
<1>4. drafts' = [drafts EXCEPT ![d] = row]
  BY DEF TypeOK
<1> HIDE DEF row
<1>5. /\ RowsOK' /\ drafts'[d] = row /\ Exists(d)'
      /\ \A e \in Drafts \ {d} : drafts'[e] = drafts[e] /\ (Exists(e)' <=> Exists(e))
  BY <1>2, <1>4, ReplaceRow
<1> QED BY <1>2, <1>5

LEMMA DisapproveRows ==
    ASSUME TypeOK, drafts' = [d \in Drafts |-> Disapproved(drafts[d])]
    PROVE  /\ RowsOK'
           /\ \A d \in Drafts : /\ Exists(d)' <=> Exists(d)
                                /\ Exists(d) => /\ drafts'[d].source = drafts[d].source
                                                /\ drafts'[d].status # "approved"
                                                /\ drafts[d].status \in Claimed =>
                                                     drafts'[d].status \in Claimed
<1>1. ASSUME NEW d \in Drafts, Exists(d)
      PROVE  /\ Disapproved(drafts[d]) \in DraftRows
             /\ Disapproved(drafts[d]).approved =
                  IF Disapproved(drafts[d]).status = "draft" THEN 0
                  ELSE Disapproved(drafts[d]).revision
             /\ Disapproved(drafts[d]).source = drafts[d].source
             /\ Disapproved(drafts[d]).status # "approved"
             /\ drafts[d].status \in Claimed => Disapproved(drafts[d]).status \in Claimed
  <2>1. drafts[d] \in DraftRows
    BY <1>1, RowIsRow
  <2>2. drafts[d].approved = IF drafts[d].status = "draft" THEN 0 ELSE drafts[d].revision
    BY <1>1 DEF TypeOK
  <2>3. CASE drafts[d].status = "approved"
    <3>1. Disapproved(drafts[d]) = [drafts[d] EXCEPT !.status = "draft", !.approved = 0]
      BY <1>1, <2>3 DEF Disapproved, Exists
    <3>2. Disapproved(drafts[d]) = With(drafts[d], drafts[d].revision, "draft", 0)
      BY <2>1, <3>1 DEF DraftRows, With
    <3> DEFINE new == Disapproved(drafts[d])
    <3> HIDE DEF new
    <3>3. /\ new \in DraftRows /\ new.status = "draft" /\ new.approved = 0
          /\ new.source = drafts[d].source
      <4>1. drafts[d].revision \in 1..MaxRevision /\ 0 \in 0..MaxRevision
        BY <2>1, RowFields
      <4> QED BY <2>1, <3>2, <4>1, ChangedRow DEF new
    <3> QED BY <2>3, <3>3 DEF Claimed, new
  <2>4. CASE drafts[d].status # "approved"
    BY <2>1, <2>2, <2>4 DEF Disapproved
  <2> QED BY <2>3, <2>4
<1>2. ASSUME NEW d \in Drafts, ~Exists(d) PROVE Disapproved(drafts[d]) = None
  BY <1>2 DEF Disapproved, Exists
<1>3. ASSUME NEW d \in Drafts PROVE Exists(d)' <=> Exists(d)
  BY <1>1, <1>2, RowAssumption DEF Exists
<1>4. drafts' \in [Drafts -> DraftRows \cup {None}]
  BY <1>1, <1>2
<1> QED BY <1>1, <1>3, <1>4 DEF RowsOK

-----------------------------------------------------------------------------
(* Steps that move the operation only.                                     *)

Kinds == {"send", "sync", "compose", "reply"}

Places == {"select", "skip", "collect", "advance", "pending", "generate",
           "approve", "processed", "credentials", "claim", "transmit", "finish"}

LEMMA BeginOK ==
    ASSUME NEW kind \in Kinds, NEW pc \in Places, NEW l \in Letters \cup {None},
           NEW d \in Drafts \cup {None}, NEW r \in 0..MaxRevision,
           Begin(kind, pc, l, d, r)
    PROVE  task' \in Tasks /\ task'.pc = pc /\ task'.source = l /\ task'.draft = d
<1>1. 0 \in 0..MaxSettings /\ 0 \in 0..MaxValidity /\ 0 \in 0..MaxLetters
  BY Bounds
<1> QED BY <1>1 DEF Begin, Tasks, Kinds, Places

LEMMA GotoTask ==
    ASSUME task \in Tasks, NEW pc \in Places, Goto(pc)
    PROVE  /\ task' \in Tasks /\ task'.pc = pc /\ task'.source = task.source
           /\ task'.draft = task.draft /\ task'.settings = task.settings
           /\ task'.kind = task.kind
BY DEF Goto, Tasks, Places

LEMMA AtIsTask ==
    ASSUME TypeOK, NEW pc, At(pc)
    PROVE  task \in Tasks /\ task.pc = pc /\ task # None
BY DEF TypeOK, At, Free

\* Nothing but the operation moves, callers that were cancelled may be gone.
LEMMA TaskStep ==
    ASSUME IInv, UNCHANGED << state, mail, wire, consent >>,
           late' \subseteq late, left' \in [days : 0..Days, removals : 0..Removals, faults : 0..Faults],
           task' \in Tasks \cup {None}, OnItsWay', Collecting', GeneratesNew'
    PROVE  IInv'
<1> USE DEF state, mail
<1>1. TypeOK'
  <2>1. late' \in SUBSET [draft : Drafts, source : Letters]
    BY DEF IInv, TypeOK
  <2> QED BY <2>1 DEF IInv, TypeOK, Exists
<1>2. Sending'
  <2>1. OneResponse' /\ GoneIsClaimed' /\ ApprovedBySomebody' /\ SentAsApproved'
    BY DEF IInv, Sending, OneResponse, GoneIsClaimed, ApprovedBySomebody, SentAsApproved,
           Exists
  <2>2. LateIsOwn'
    BY DEF IInv, Sending, LateIsOwn, Exists
  <2> QED BY <2>1, <2>2 DEF Sending
<1>3. Collection'
  <2>1. NothingIsPassedOver' /\ BoundaryIsLater' /\ ArchiveIsNotAnswered'
    BY DEF IInv, Collection, NothingIsPassedOver, Recorded, BoundaryIsLater,
           ArchiveIsNotAnswered, Exists
  <2>2. LiveIsNew'
    BY DEF IInv, Collection, LiveIsNew, RowsAreNew, IsNew
  <2> QED BY <2>1, <2>2 DEF Collection
<1> QED BY <1>1, <1>2, <1>3 DEF IInv

LEMMA EndStep ==
    ASSUME IInv, task' = None, UNCHANGED << state, mail, wire, consent >>,
           late' \subseteq late, left' \in [days : 0..Days, removals : 0..Removals, faults : 0..Faults]
    PROVE  IInv'
<1>1. OnItsWay' /\ Collecting' /\ GeneratesNew'
  BY DEF OnItsWay, Collecting, GeneratesNew, At, Free
<1> QED BY <1>1, TaskStep

\* An operation begins, or goes on, at a step with no obligations.
Harmless == {"select", "pending", "processed"}

LEMMA HarmlessStep ==
    ASSUME IInv, UNCHANGED << state, mail, wire, consent, late, left >>,
           task' \in Tasks, task'.pc \in Harmless
    PROVE  IInv'
<1>1. OnItsWay' /\ Collecting' /\ GeneratesNew'
  BY DEF OnItsWay, Collecting, GeneratesNew, At, Harmless
<1>2. left' \in [days : 0..Days, removals : 0..Removals, faults : 0..Faults]
  BY DEF IInv, TypeOK
<1> QED BY <1>1, <1>2, TaskStep

LEMMA BeginSyncKeeps == ASSUME IInv, BeginSync PROVE IInv'
<1>1. "sync" \in Kinds /\ "select" \in Places /\ 0 \in 0..MaxRevision /\ "select" \in Harmless
  BY Bounds DEF Kinds, Places, Harmless
<1>2. task' \in Tasks /\ task'.pc = "select"
  BY <1>1, BeginOK DEF BeginSync
<1> QED BY <1>1, <1>2, HarmlessStep DEF BeginSync

LEMMA BeginSendKeeps ==
    ASSUME IInv, NEW d \in Drafts, NEW r \in Revisions(d), BeginSend(d, r)
    PROVE  IInv'
<1>1. r \in 0..MaxRevision
  <2>1. drafts[d].revision \in 1..MaxRevision
    BY RowIsRow, RowFields DEF IInv, BeginSend
  <2> QED BY <2>1, Bounds DEF Revisions, BeginSend
<1>2. "send" \in Kinds /\ "credentials" \in Places
  BY DEF Kinds, Places
<1>3. task' \in Tasks /\ task'.pc = "credentials" /\ task'.draft = d
  BY <1>1, <1>2, BeginOK DEF BeginSend
<1>4. Exists(d)' /\ UNCHANGED << state, mail, wire, consent, late, left >>
  BY DEF BeginSend, Exists, state
<1>5. OnItsWay' /\ Collecting' /\ GeneratesNew'
  BY <1>3, <1>4 DEF OnItsWay, Collecting, GeneratesNew, At
<1>6. left' \in [days : 0..Days, removals : 0..Removals, faults : 0..Faults]
  BY <1>4 DEF IInv, TypeOK
<1> QED BY <1>3, <1>4, <1>5, <1>6, TaskStep

\* A row that is not historical is of a message that came later.
LEMMA LiveRowIsNew ==
    ASSUME IInv, NEW l \in Letters, LiveRow(l)
    PROVE  \E v \in Validities : IsNew(v, l)
<1>1. PICK i \in DOMAIN rows : rows[i].letter = l /\ ~rows[i].historical
  BY DEF LiveRow
<1>2. IsNew(rows[i].validity, l)
  BY <1>1 DEF IInv, Collection, LiveIsNew, RowsAreNew
<1> QED BY <1>2 DEF IsNew

LEMMA BeginReplyKeeps ==
    ASSUME IInv, NEW l \in Letters, BeginCompose(l) \/ BeginReply(l)
    PROVE  IInv'
<1>1. PICK kind \in {"compose", "reply"} : Begin(kind, "generate", l, None, 1)
  BY DEF BeginCompose, BeginReply
<1>2. LiveRow(l) /\ UNCHANGED << state, mail, late, wire, left, consent >>
  BY DEF BeginCompose, BeginReply
<1>3. kind \in Kinds /\ "generate" \in Places /\ 1 \in 0..MaxRevision
  BY Bounds DEF Kinds, Places
<1>4. task' \in Tasks /\ task'.pc = "generate" /\ task'.source = l
  BY <1>1, <1>3, BeginOK
<1>5. OnItsWay' /\ Collecting'
  BY <1>4 DEF OnItsWay, Collecting, At
<1>6. GeneratesNew'
  BY <1>2, <1>4, LiveRowIsNew DEF GeneratesNew, IsNew, mail
<1>7. left' \in [days : 0..Days, removals : 0..Removals, faults : 0..Faults]
  BY <1>2 DEF IInv, TypeOK
<1> QED BY <1>2, <1>4, <1>5, <1>6, <1>7, TaskStep

LEMMA BeginReplyDraftKeeps ==
    ASSUME IInv, NEW l \in Letters, NEW d \in Drafts, BeginReplyDraft(l, d)
    PROVE  IInv'
<1>1. PICK pc \in {"approve", "processed"} : Begin("reply", pc, l, d, 1)
  BY DEF BeginReplyDraft
<1>2. Exists(d) /\ UNCHANGED << state, mail, late, wire, left, consent >>
  BY DEF BeginReplyDraft, Responses
<1>3. "reply" \in Kinds /\ pc \in Places /\ 1 \in 0..MaxRevision
  BY Bounds DEF Kinds, Places
<1>4. task' \in Tasks /\ task'.pc = pc /\ task'.draft = d
  BY <1>1, <1>3, BeginOK
<1>5. Exists(d)'
  BY <1>2 DEF Exists, state
<1>6. OnItsWay' /\ Collecting' /\ GeneratesNew'
  BY <1>4, <1>5 DEF OnItsWay, Collecting, GeneratesNew, At
<1>7. left' \in [days : 0..Days, removals : 0..Removals, faults : 0..Faults]
  BY <1>2 DEF IInv, TypeOK
<1> QED BY <1>2, <1>4, <1>6, <1>7, TaskStep

\* A pending row is live, and Oldest is one if there is any.
LEMMA OldestIsPending ==
    ASSUME IInv, Pending # {}
    PROVE  /\ Oldest \in DOMAIN rows /\ rows[Oldest] \in MessageRows
           /\ ~rows[Oldest].historical
<1>1. rows \in Seq(MessageRows) /\ Pending \subseteq Nat
  BY DEF IInv, TypeOK, Pending
<1>2. \E i \in Pending : \A j \in Pending : i <= j
  <2> DEFINE R == OpToRel(<, Nat)
  <2>1. IsWellFoundedOn(R, Nat)
    BY NatLessThanWellFounded
  <2> HIDE DEF R
  <2>2. PICK i \in Pending : \A j \in Pending : ~(<< j, i >> \in R)
    BY <1>1, <2>1, WFMin
  <2>3. \A j \in Pending : ~(j < i)
    BY <1>1, <2>2 DEF R, OpToRel
  <2> QED BY <1>1, <2>3
<1>3. Oldest \in Pending
  BY <1>2 DEF Oldest
<1>4. Oldest \in DOMAIN rows /\ ~rows[Oldest].processed
  BY <1>3 DEF Pending
<1>5. rows[Oldest] \in MessageRows
  BY <1>1, <1>4
<1>6. rows[Oldest].historical \in BOOLEAN
  BY <1>5 DEF MessageRows
<1> QED BY <1>4, <1>5, <1>6 DEF IInv, Collection, LiveIsNew, RowsAreNew

LEMMA NextPendingKeeps == ASSUME IInv, NextPending PROVE IInv'
<1>1. UNCHANGED << state, mail, late, wire, left, consent >> /\ task \in Tasks
  BY AtIsTask DEF NextPending, IInv
<1>2. left' \in [days : 0..Days, removals : 0..Removals, faults : 0..Faults]
  BY <1>1 DEF IInv, TypeOK
<1>3. CASE ~Answers \/ Pending = {}
  BY <1>1, <1>2, <1>3, EndStep DEF NextPending, End
<1>4. CASE ~(~Answers \/ Pending = {})
  <2> DEFINE l == rows[Oldest].letter
             pc == IF Responses(l) = {} THEN "generate" ELSE "processed"
  <2>1. Oldest \in DOMAIN rows /\ rows[Oldest] \in MessageRows /\ ~rows[Oldest].historical
    BY <1>4, OldestIsPending
  <2>2. l \in Letters
    BY <2>1 DEF MessageRows
  <2>3. LiveRow(l)
    BY <2>1 DEF LiveRow
  <2>4. \E v \in Validities : IsNew(v, l)
    BY <2>2, <2>3, LiveRowIsNew
  <2>5. task' = [task EXCEPT !.source = l, !.revision = 1, !.pc = pc]
    BY <1>4 DEF NextPending
  <2>6. pc \in {"generate", "processed"}
    OBVIOUS
  <2> HIDE DEF l, pc
  <2>7. 1 \in 0..MaxRevision
    BY Bounds
  <2>8. task' \in Tasks /\ task'.source = l /\ task'.pc = pc
    BY <1>1, <2>2, <2>5, <2>6, <2>7 DEF Tasks
  <2>9. OnItsWay' /\ Collecting'
    BY <2>2, <2>6, <2>8 DEF OnItsWay, Collecting, At
  <2>10. GeneratesNew'
    BY <1>1, <2>4, <2>8 DEF GeneratesNew, IsNew, mail
  <2> QED BY <1>1, <1>2, <2>8, <2>9, <2>10, TaskStep
<1> QED BY <1>3, <1>4

LEMMA RefusedKeeps ==
    ASSUME IInv, GenerateFails \/ Decline \/ ClaimRefused \/ FetchFails
    PROVE  IInv'
<1>1. task' = None /\ UNCHANGED << state, mail, late, wire, left, consent >>
  BY DEF GenerateFails, Decline, ClaimRefused, FetchFails, End
<1>2. left' \in [days : 0..Days, removals : 0..Removals, faults : 0..Faults]
  BY <1>1 DEF IInv, TypeOK
<1> QED BY <1>1, <1>2, EndStep

LEMMA RefuseAutomaticKeeps == ASSUME IInv, RefuseAutomatic PROVE IInv'
<1>1. UNCHANGED << state, mail, late, wire, left, consent >> /\ task \in Tasks
  BY AtIsTask DEF RefuseAutomatic, IInv
<1>2. left' \in [days : 0..Days, removals : 0..Removals, faults : 0..Faults]
  BY <1>1 DEF IInv, TypeOK
<1>3. CASE task.kind = "sync"
  <2>1. task' = [task EXCEPT !.pc = "processed"]
    BY <1>3 DEF RefuseAutomatic
  <2>2. task' \in Tasks /\ task'.pc = "processed"
    BY <1>1, <2>1 DEF Tasks
  <2> QED BY <1>1, <2>2, HarmlessStep DEF Harmless
<1>4. CASE task.kind # "sync"
  BY <1>1, <1>2, <1>4, EndStep DEF RefuseAutomatic
<1> QED BY <1>3, <1>4

LEMMA ReadCredentialsKeeps == ASSUME IInv, ReadCredentials PROVE IInv'
<1>1. /\ UNCHANGED << state, mail, late, wire, left, consent >>
      /\ task \in Tasks /\ task.pc = "credentials" /\ task # None
  BY AtIsTask DEF ReadCredentials, IInv
<1>2. left' \in [days : 0..Days, removals : 0..Removals, faults : 0..Faults]
  BY <1>1 DEF IInv, TypeOK
<1>3. task.draft \in Drafts /\ Exists(task.draft)
  BY <1>1 DEF IInv, Sending, OnItsWay, Free
<1>4. account.revision \in 0..MaxSettings
  BY Bounds DEF IInv, TypeOK
<1>5. task' = [task EXCEPT !.settings = account.revision, !.pc = "claim"]
  BY DEF ReadCredentials
<1>6. /\ task' \in Tasks /\ task'.pc = "claim" /\ task'.draft = task.draft
      /\ task'.settings = account.revision
  BY <1>1, <1>4, <1>5 DEF Tasks
<1>7. OnItsWay' /\ Collecting' /\ GeneratesNew'
  BY <1>1, <1>3, <1>6 DEF OnItsWay, Collecting, GeneratesNew, At, Exists, state
<1> QED BY <1>1, <1>2, <1>6, <1>7, TaskStep

LEMMA FaultKeeps == ASSUME IInv, Fail \/ Crash PROVE IInv'
<1>1. /\ task' = None /\ UNCHANGED << state, mail, wire, consent >> /\ late' \subseteq late
      /\ left.faults > 0 /\ left' = [left EXCEPT !.faults = @ - 1]
  BY DEF Fail, Crash, End
<1>2. left' \in [days : 0..Days, removals : 0..Removals, faults : 0..Faults]
  <2>1. left \in [days : 0..Days, removals : 0..Removals, faults : 0..Faults]
    BY DEF IInv, TypeOK
  <2>2. left.faults \in 0..Faults
    BY <2>1
  <2>3. left.faults - 1 \in 0..Faults
    BY <1>1, <2>2, Bounds
  <2> QED BY <1>1, <2>1, <2>3
<1> QED BY <1>1, <1>2, EndStep

LEMMA SaveProfileKeeps ==
    ASSUME IInv, NEW m \in Modes, NEW p \in BOOLEAN, SaveProfile(m, p) PROVE IInv'
<1>1. /\ task' = task /\ task = None
      /\ UNCHANGED << account, drafts, mail, late, wire, left, consent >>
  BY DEF SaveProfile, Free
<1>2. profile' \in [mode : Modes, piped : BOOLEAN, saves : 0..MaxProfiles]
  BY Bounds DEF SaveProfile, IInv, TypeOK
<1>3. TypeOK'
  BY <1>1, <1>2 DEF IInv, TypeOK, Exists, mail
<1>4. Sending'
  BY <1>1 DEF IInv, Sending, OneResponse, LateIsOwn, GoneIsClaimed, ApprovedBySomebody,
              OnItsWay, SentAsApproved, Exists, At, Free
<1>5. Collecting' /\ GeneratesNew'
  BY <1>1 DEF Collecting, GeneratesNew, At, Free
<1>6. Collection'
  BY <1>1, <1>5 DEF IInv, Collection, NothingIsPassedOver, Recorded, BoundaryIsLater,
                    ArchiveIsNotAnswered, LiveIsNew, RowsAreNew, IsNew, Exists, mail
<1> QED BY <1>3, <1>4, <1>6 DEF IInv

LEMMA DecideTimesOutKeeps == ASSUME IInv, DecideTimesOut PROVE IInv'
<1> DEFINE new == [draft |-> NewId, source |-> task.source]
<1>1. /\ At("generate") /\ task' = None /\ late' = late \cup {new}
      /\ UNCHANGED << state, mail, wire, left, consent >>
  BY DEF DecideTimesOut, End
<1>2. NewId \in Drafts /\ ~Exists(NewId) /\ \A s \in late : s.draft # NewId
  BY NewIdIsUnused DEF DecideTimesOut, Unused
<1>3. task.source \in Letters /\ \E v \in Validities : IsNew(v, task.source)
  BY <1>1 DEF IInv, Sending, OnItsWay, Collection, LiveIsNew, GeneratesNew
<1>4. new.draft = NewId /\ new.source = task.source
      /\ new \in [draft : Drafts, source : Letters]
  BY <1>2, <1>3
<1> HIDE DEF new
<1>5. TypeOK'
  <2>1. late' \in SUBSET [draft : Drafts, source : Letters]
    BY <1>1, <1>4 DEF IInv, TypeOK
  <2> QED BY <1>1, <2>1 DEF IInv, TypeOK, Exists, mail, state
<1>6. Sending'
  <2>1. LateIsOwn'
    BY <1>1, <1>2, <1>4 DEF IInv, Sending, LateIsOwn, Exists, state
  <2> QED BY <1>1, <2>1 DEF IInv, Sending, OneResponse, GoneIsClaimed, ApprovedBySomebody,
              OnItsWay, SentAsApproved, Exists, At, Free, state
<1>7. Collection'
  <2>1. Collecting' /\ GeneratesNew'
    BY <1>1 DEF Collecting, GeneratesNew, At, Free
  <2>2. LiveIsNew'
    BY <1>1, <1>3, <1>4, <2>1 DEF IInv, Collection, LiveIsNew, RowsAreNew, IsNew, mail
  <2> QED BY <1>1, <2>1, <2>2 DEF IInv, Collection, NothingIsPassedOver, Recorded,
              BoundaryIsLater, ArchiveIsNotAnswered, Exists, mail, state
<1> QED BY <1>5, <1>6, <1>7 DEF IInv

-----------------------------------------------------------------------------
(* Steps on the drafts.                                                    *)

\* One row d is inserted, edited, approved, claimed or finished: it keeps or
\* gets a source no other row has, and is claimed if it was.
LEMMA DraftStep ==
    ASSUME IInv, NEW d \in Drafts, RowsOK', Exists(d)',
           \A e \in Drafts \ {d} : /\ drafts'[e] = drafts[e] /\ (Exists(e)' <=> Exists(e))
                                   /\ consent'[e] = consent[e],
           consent' \in [Drafts -> Persons],
           \/ Exists(d) /\ drafts'[d].source = drafts[d].source
           \/ /\ ~Exists(d)
              /\ drafts'[d].source # None =>
                   /\ Responses(drafts'[d].source) = {}
                   /\ \E v \in Validities : IsNew(v, drafts'[d].source),
           wire[d] # << >> => drafts'[d].status \in Claimed,
           drafts'[d].status = "approved" => consent'[d] # "nobody",
           late' \subseteq late, \A s \in late' : s.draft # d,
           task' \in Tasks \cup {None}, OnItsWay', Collecting', GeneratesNew',
           UNCHANGED << account, profile, mail, wire, left >>
    PROVE  IInv'
<1> USE DEF mail
<1>1. TypeOK'
  <2>1. late' \in SUBSET [draft : Drafts, source : Letters]
    BY DEF IInv, TypeOK
  <2> QED BY <2>1 DEF IInv, TypeOK, RowsOK
<1>2. OneResponse'
  <2> SUFFICES ASSUME NEW a \in Drafts, NEW b \in Drafts, Exists(a)', Exists(b)',
                      drafts'[a].source = drafts'[b].source, drafts'[a].source # None
               PROVE  a = b
    BY DEF OneResponse
  <2>1. CASE Exists(d)
    <3>1. \A e \in Drafts : Exists(e)' => Exists(e) /\ drafts'[e].source = drafts[e].source
      BY <2>1
    <3> QED BY <3>1 DEF IInv, Sending, OneResponse
  <2>2. CASE ~Exists(d)
    <3>1. \A e \in Drafts \ {d} : Exists(e)' /\ drafts'[d].source # None =>
                                     drafts'[e].source # drafts'[d].source
      BY <2>2 DEF Responses
    <3>2. CASE a # d /\ b # d
      BY <3>2 DEF IInv, Sending, OneResponse
    <3> QED BY <3>1, <3>2
  <2> QED BY <2>1, <2>2
<1>3. LateIsOwn'
  BY DEF IInv, TypeOK, Sending, LateIsOwn
<1>4. GoneIsClaimed' /\ ApprovedBySomebody'
  BY DEF IInv, Sending, GoneIsClaimed, ApprovedBySomebody
<1>5. SentAsApproved'
  BY DEF IInv, Sending, SentAsApproved
<1>6. ArchiveIsNotAnswered'
  <2> SUFFICES ASSUME NEW e \in Drafts, Exists(e)', drafts'[e].source # None
               PROVE  \E v \in Validities : first[v] # -1 /\ drafts'[e].source > first[v]
    BY DEF ArchiveIsNotAnswered
  <2>1. CASE Exists(e) /\ drafts'[e].source = drafts[e].source
    BY <2>1 DEF IInv, Collection, ArchiveIsNotAnswered
  <2>2. CASE ~Exists(e)
    BY <2>2 DEF IsNew
  <2> QED BY <2>1, <2>2
<1>7. NothingIsPassedOver' /\ BoundaryIsLater'
  BY DEF IInv, Collection, NothingIsPassedOver, Recorded, BoundaryIsLater
<1>8. LiveIsNew'
  BY DEF IInv, Collection, LiveIsNew, RowsAreNew, IsNew
<1> QED BY <1>1, <1>2, <1>3, <1>4, <1>5, <1>6, <1>7, <1>8 DEF IInv, Sending, Collection

\* Without an operation there is nothing on its way.
LEMMA FreeStep ==
    ASSUME task' = None
    PROVE  task' \in Tasks \cup {None} /\ OnItsWay' /\ Collecting' /\ GeneratesNew'
BY DEF OnItsWay, Collecting, GeneratesNew, At, Free

LEMMA CreateDraftKeeps == ASSUME IInv, CreateDraft PROVE IInv'
<1>1. /\ task' = None /\ Insert(NewId, None)
      /\ UNCHANGED << account, profile, mail, late, wire, left, consent >>
  BY DEF CreateDraft, Free
<1>2. PICK d \in Drafts : d = NewId /\ ~Exists(d) /\ \A s \in late : s.draft # d
  BY NewIdIsUnused DEF CreateDraft, Unused
<1>3. /\ RowsOK' /\ drafts'[d] = NewDraft(None) /\ Exists(d)'
      /\ \A e \in Drafts \ {d} : drafts'[e] = drafts[e] /\ (Exists(e)' <=> Exists(e))
  <2>1. None \in Letters \cup {None} /\ TypeOK
    BY DEF IInv
  <2> QED BY <1>1, <1>2, <2>1, InsertRow
<1>4. NewDraft(None).source = None /\ NewDraft(None).status = "draft"
  BY NewDraftIsRow
<1>5. wire[d] = << >> /\ consent' \in [Drafts -> Persons]
  BY <1>1, <1>2 DEF IInv, Sending, GoneIsClaimed, TypeOK
<1>6. task' \in Tasks \cup {None} /\ OnItsWay' /\ Collecting' /\ GeneratesNew'
  BY <1>1, FreeStep
<1>7. drafts'[d].source = None /\ drafts'[d].status = "draft" /\ UNCHANGED consent
  BY <1>1, <1>3, <1>4
<1> QED BY <1>1, <1>2, <1>3, <1>5, <1>6, <1>7, DraftStep

LEMMA EditDraftKeeps == ASSUME IInv, NEW d \in Drafts, EditDraft(d) PROVE IInv'
<1>1. /\ task' = None /\ Exists(d) /\ drafts[d].status \notin Claimed
      /\ UNCHANGED << account, profile, mail, late, wire, left >>
  BY DEF EditDraft, Free
<1>2. /\ RowsOK' /\ drafts'[d].source = drafts[d].source /\ drafts'[d].status = "draft"
      /\ Exists(d)'
      /\ \A e \in Drafts \ {d} : drafts'[e] = drafts[e] /\ (Exists(e)' <=> Exists(e))
  BY EditRow DEF EditDraft, IInv
<1>3. /\ consent' \in [Drafts -> Persons]
      /\ \A e \in Drafts \ {d} : consent'[e] = consent[e]
  BY DEF EditDraft, IInv, TypeOK, Persons
<1>4. wire[d] = << >> /\ \A s \in late : s.draft # d
  BY <1>1 DEF IInv, Sending, GoneIsClaimed, LateIsOwn
<1>5. task' \in Tasks \cup {None} /\ OnItsWay' /\ Collecting' /\ GeneratesNew'
  BY <1>1, FreeStep
<1> QED BY <1>1, <1>2, <1>3, <1>4, <1>5, DraftStep

LEMMA ApproveDraftKeeps == ASSUME IInv, NEW d \in Drafts, ApproveDraft(d) PROVE IInv'
<1>1. /\ task' = None /\ Exists(d) /\ drafts[d].status \notin Claimed
      /\ Approve(d, "user") /\ UNCHANGED << account, profile, mail, late, wire, left >>
  BY DEF ApproveDraft, Free, Claimed
<1>2. /\ RowsOK' /\ consent' \in [Drafts -> Persons]
      /\ drafts'[d].source = drafts[d].source /\ drafts'[d].status = "approved"
      /\ Exists(d)' /\ consent'[d] = "user"
      /\ \A e \in Drafts \ {d} : /\ drafts'[e] = drafts[e] /\ (Exists(e)' <=> Exists(e))
                                 /\ consent'[e] = consent[e]
  <2>1. "user" \in Persons
    BY DEF Persons
  <2> QED BY <1>1, <2>1, ApproveRow DEF IInv
<1>3. wire[d] = << >> /\ \A s \in late : s.draft # d
  BY <1>1 DEF IInv, Sending, GoneIsClaimed, LateIsOwn
<1>4. task' \in Tasks \cup {None} /\ OnItsWay' /\ Collecting' /\ GeneratesNew'
  BY <1>1, FreeStep
<1> QED BY <1>1, <1>2, <1>3, <1>4, DraftStep

LEMMA GenerateKeeps == ASSUME IInv, Generate PROVE IInv'
<1>1. /\ At("generate") /\ Insertable(task.source) /\ Insert(NewId, task.source)
      /\ UNCHANGED << account, profile, mail, late, wire, left, consent >>
  BY DEF Generate
<1>2. PICK d \in Drafts : d = NewId /\ ~Exists(d) /\ \A s \in late : s.draft # d
  BY NewIdIsUnused DEF Generate, Unused
<1>3. PICK l \in Letters : l = task.source /\ \E v \in Validities : IsNew(v, l)
  BY <1>1 DEF IInv, Sending, OnItsWay, Collection, LiveIsNew, GeneratesNew
<1>4. /\ RowsOK' /\ drafts'[d] = NewDraft(l) /\ Exists(d)'
      /\ \A e \in Drafts \ {d} : drafts'[e] = drafts[e] /\ (Exists(e)' <=> Exists(e))
  <2>1. l \in Letters \cup {None} /\ TypeOK
    BY DEF IInv
  <2> QED BY <1>1, <1>2, <1>3, <2>1, InsertRow
<1>5. drafts'[d].source = l /\ drafts'[d].status = "draft" /\ UNCHANGED consent
  BY <1>1, <1>4, NewDraftIsRow
<1>6. wire[d] = << >> /\ consent' \in [Drafts -> Persons]
  BY <1>1, <1>2 DEF IInv, Sending, GoneIsClaimed, TypeOK
<1>7. Responses(l) = {} /\ IInv
  <2>1. l # None
    BY MailAssumption DEF Letters
  <2> QED BY <1>1, <1>3, <2>1 DEF Insertable
<1>8. task' \in Tasks \cup {None} /\ OnItsWay' /\ Collecting' /\ GeneratesNew'
  <2>1. CASE task.kind = "compose"
    <3>1. task' = None
      BY <2>1 DEF Generate
    <3> QED BY <3>1, FreeStep
  <2>2. CASE task.kind # "compose"
    <3>1. PICK pc \in {"approve", "processed"} :
            task' = [task EXCEPT !.draft = d, !.pc = pc]
      BY <1>2, <2>2 DEF Generate
    <3>2. task \in Tasks
      BY <1>1, AtIsTask DEF IInv
    <3>3. task' \in Tasks /\ task'.pc = pc /\ task'.draft = d
      BY <3>1, <3>2 DEF Tasks
    <3> QED BY <1>4, <3>3 DEF OnItsWay, Collecting, GeneratesNew, At
  <2> QED BY <2>1, <2>2
<1> QED BY <1>1, <1>2, <1>3, <1>4, <1>5, <1>6, <1>7, <1>8, DraftStep

\* The thread inserts a row of its own, whatever the operation that holds the
\* lock is at.
LEMMA LateSaveKeeps == ASSUME IInv, NEW s \in late, LateSave(s) PROVE IInv'
<1>1. /\ late' = late \ {s}
      /\ UNCHANGED << account, profile, mail, task, wire, left, consent >>
  BY DEF LateSave
<1>2. s \in [draft : Drafts, source : Letters] /\ ~Exists(s.draft)
  BY DEF IInv, TypeOK, Sending, LateIsOwn
<1>3. PICK d \in Drafts, l \in Letters : d = s.draft /\ l = s.source
  BY <1>2
<1>4. /\ task' \in Tasks \cup {None}
      /\ Collecting /\ OnItsWay /\ GeneratesNew
  BY <1>1 DEF IInv, TypeOK, Sending, Collection, LiveIsNew
<1>5. Collecting' /\ GeneratesNew'
  BY <1>1, <1>4 DEF Collecting, GeneratesNew, At, Free, Passed, Recorded, IsNew, mail
<1>6. CASE ~Insertable(s.source)
  <2>2. UNCHANGED << state, mail, wire, consent >> /\ late' \subseteq late
    BY <1>1, <1>6 DEF LateSave, state
  <2>3. OnItsWay'
    BY <1>1, <1>4, <2>2 DEF OnItsWay, At, Free, Exists, state
  <2>4. left' \in [days : 0..Days, removals : 0..Removals, faults : 0..Faults]
    BY <1>1 DEF IInv, TypeOK
  <2> QED BY <1>4, <1>5, <2>2, <2>3, <2>4, TaskStep
<1>7. CASE Insertable(s.source)
  <2>1. /\ RowsOK' /\ drafts'[d] = NewDraft(l) /\ Exists(d)'
        /\ \A e \in Drafts \ {d} : drafts'[e] = drafts[e] /\ (Exists(e)' <=> Exists(e))
    <3>1. l \in Letters \cup {None} /\ TypeOK /\ Insert(d, l)
      BY <1>3, <1>7 DEF IInv, LateSave
    <3> QED BY <3>1, InsertRow
  <2>2. drafts'[d].source = l /\ drafts'[d].status = "draft" /\ UNCHANGED consent
    BY <1>1, <2>1, NewDraftIsRow
  <2>3. wire[d] = << >> /\ consent' \in [Drafts -> Persons] /\ ~Exists(d)
    BY <1>1, <1>2, <1>3 DEF IInv, Sending, GoneIsClaimed, TypeOK
  <2>4. Responses(l) = {}
    <3>1. l # None
      BY MailAssumption DEF Letters
    <3> QED BY <1>3, <1>7, <3>1 DEF Insertable
  <2>5. \E v \in Validities : IsNew(v, l)
    BY <1>3 DEF IInv, Collection, LiveIsNew
  <2>6. late' \subseteq late /\ \A t \in late' : t.draft # d
    BY <1>1, <1>3 DEF IInv, Sending, LateIsOwn
  <2>7. OnItsWay'
    BY <1>1, <1>4, <2>1, <2>3 DEF OnItsWay, At, Free
  <2> QED BY <1>1, <1>4, <1>5, <2>1, <2>2, <2>3, <2>4, <2>5, <2>6, <2>7, DraftStep
<1> QED BY <1>6, <1>7

LEMMA ApproveAutomaticKeeps == ASSUME IInv, ApproveAutomatic PROVE IInv'
<1>1. /\ task \in Tasks /\ task.pc = "approve" /\ task # None
      /\ UNCHANGED << account, profile, mail, late, wire, left >>
  BY AtIsTask DEF ApproveAutomatic, IInv
<1>2. PICK d \in Drafts : d = task.draft /\ Exists(d)
  BY <1>1 DEF IInv, Sending, OnItsWay, Free
<1>3. drafts[d].status = "draft" /\ Approve(d, "automation")
  BY <1>2 DEF ApproveAutomatic, CanApprove
<1>4. /\ RowsOK' /\ consent' \in [Drafts -> Persons]
      /\ drafts'[d].source = drafts[d].source /\ drafts'[d].status = "approved"
      /\ Exists(d)' /\ consent'[d] = "automation"
      /\ \A e \in Drafts \ {d} : /\ drafts'[e] = drafts[e] /\ (Exists(e)' <=> Exists(e))
                                 /\ consent'[e] = consent[e]
  <2>1. "automation" \in Persons
    BY DEF Persons
  <2> QED BY <1>2, <1>3, <2>1, ApproveRow DEF IInv
<1>5. wire[d] = << >> /\ \A s \in late : s.draft # d
  BY <1>2, <1>3 DEF IInv, Sending, GoneIsClaimed, LateIsOwn, Claimed
<1>6. task' \in Tasks /\ task'.pc = "credentials" /\ task'.draft = d
  <2>1. "credentials" \in Places /\ Goto("credentials")
    BY DEF Places, ApproveAutomatic
  <2> QED BY <1>1, <1>2, <2>1, GotoTask
<1>7. OnItsWay' /\ Collecting' /\ GeneratesNew'
  BY <1>4, <1>6 DEF OnItsWay, Collecting, GeneratesNew, At
<1> QED BY <1>1, <1>2, <1>4, <1>5, <1>6, <1>7, DraftStep

LEMMA ClaimSendKeeps == ASSUME IInv, ClaimSend PROVE IInv'
<1>1. /\ task \in Tasks /\ task.pc = "claim" /\ task # None
      /\ UNCHANGED << account, profile, mail, late, wire, left, consent >>
  BY AtIsTask DEF ClaimSend, IInv
<1>2. PICK d \in Drafts : d = task.draft /\ Exists(d) /\ task.settings = account.revision
  BY <1>1 DEF IInv, Sending, OnItsWay, Free
<1>3. drafts[d].status = "approved" /\ drafts' = [drafts EXCEPT ![d].status = "sending"]
  BY <1>2 DEF ClaimSend, Sendable
<1>4. /\ RowsOK'
      /\ drafts'[d].source = drafts[d].source /\ drafts'[d].status = "sending" /\ Exists(d)'
      /\ \A e \in Drafts \ {d} : drafts'[e] = drafts[e] /\ (Exists(e)' <=> Exists(e))
  <2>1. "sending" \in Used /\ drafts[d].status \in Used /\ TypeOK
    BY <1>3 DEF Used, Claimed, IInv
  <2> QED BY <1>2, <1>3, <2>1, StatusRow
<1>5. /\ wire[d] = << >> /\ consent[d] # "nobody" /\ \A s \in late : s.draft # d
      /\ consent \in [Drafts -> Persons]
  BY <1>2, <1>3 DEF IInv, Sending, GoneIsClaimed, ApprovedBySomebody, LateIsOwn, Claimed,
                    TypeOK
<1>6. /\ task' \in Tasks /\ task'.pc = "transmit" /\ task'.draft = d
      /\ task'.settings = task.settings
  <2>1. "transmit" \in Places /\ Goto("transmit")
    BY DEF Places, ClaimSend
  <2> QED BY <1>1, <1>2, <2>1, GotoTask
<1>7. OnItsWay' /\ Collecting' /\ GeneratesNew'
  BY <1>1, <1>2, <1>4, <1>5, <1>6 DEF OnItsWay, Collecting, GeneratesNew, At
<1>8. wire[d] # << >> => drafts'[d].status \in Claimed
  BY <1>5
<1> QED BY <1>1, <1>2, <1>4, <1>5, <1>6, <1>7, <1>8, DraftStep

LEMMA FinishSendKeeps == ASSUME IInv, FinishSend PROVE IInv'
<1>1. /\ task \in Tasks /\ task.pc = "finish" /\ task # None /\ At("finish")
      /\ UNCHANGED << account, profile, mail, late, wire, left, consent >>
  BY AtIsTask DEF FinishSend, IInv
<1>2. PICK d \in Drafts : d = task.draft /\ Exists(d) /\ drafts[d].status \in Claimed
  BY <1>1 DEF IInv, Sending, OnItsWay, Free
<1>3. PICK st \in Claimed : drafts' = [drafts EXCEPT ![d].status = st]
  <2> DEFINE st == IF drafts[d].status # "sending" THEN drafts[d].status
                   ELSE IF task.success THEN "sent" ELSE "uncertain"
  <2>1. st \in Claimed
    BY <1>2 DEF Claimed
  <2>2. drafts' = [drafts EXCEPT ![d].status = st]
    BY <1>2 DEF FinishSend
  <2> QED BY <2>1, <2>2
<1>4. /\ RowsOK'
      /\ drafts'[d].source = drafts[d].source /\ drafts'[d].status = st /\ Exists(d)'
      /\ \A e \in Drafts \ {d} : drafts'[e] = drafts[e] /\ (Exists(e)' <=> Exists(e))
  <2>1. st \in Used /\ drafts[d].status \in Used /\ TypeOK
    BY <1>2 DEF Used, IInv
  <2> QED BY <1>2, <1>3, <2>1, StatusRow
<1>5. /\ \A s \in late : s.draft # d
      /\ consent \in [Drafts -> Persons]
  BY <1>2 DEF IInv, Sending, LateIsOwn, TypeOK
<1>6. task' \in Tasks \cup {None} /\ OnItsWay' /\ Collecting' /\ GeneratesNew'
  <2>1. CASE task' = None
    BY <2>1, FreeStep
  <2>2. CASE Goto("processed")
    <3>1. "processed" \in Places
      BY DEF Places
    <3>2. task' \in Tasks /\ task'.pc = "processed"
      BY <1>1, <2>2, <3>1, GotoTask
    <3> QED BY <3>2 DEF OnItsWay, Collecting, GeneratesNew, At
  <2> QED BY <2>1, <2>2 DEF FinishSend, Conclude, End
<1>7. st # "approved"
  BY DEF Claimed
<1> QED BY <1>1, <1>2, <1>4, <1>5, <1>6, <1>7, DraftStep

\* The one step that reaches SMTP.
LEMMA TransmitKeeps ==
    ASSUME IInv, NEW accepted \in BOOLEAN, NEW heard \in BOOLEAN, Transmit(accepted, heard)
    PROVE  IInv'
<1>1. /\ task \in Tasks /\ task.pc = "transmit" /\ task # None /\ At("transmit")
      /\ UNCHANGED << state, mail, late, left, consent >>
      /\ task' = [task EXCEPT !.pc = "finish", !.success = heard]
  BY AtIsTask DEF Transmit, IInv
<1>2. PICK d \in Drafts : /\ d = task.draft /\ Exists(d) /\ task.settings = account.revision
                          /\ drafts[d].status = "sending" /\ wire[d] = << >>
                          /\ consent[d] # "nobody"
  BY <1>1 DEF IInv, Sending, OnItsWay, Free
<1>3. task' \in Tasks /\ task'.pc = "finish" /\ task'.draft = d
  BY <1>1, <1>2 DEF Tasks
<1>4. OnItsWay' /\ Collecting' /\ GeneratesNew'
  BY <1>1, <1>2, <1>3 DEF OnItsWay, Collecting, GeneratesNew, At, Claimed, Exists, state
<1>5. left \in [days : 0..Days, removals : 0..Removals, faults : 0..Faults]
  BY DEF IInv, TypeOK
<1>6. CASE ~accepted
  <2>1. UNCHANGED wire
    BY <1>6 DEF Transmit
  <2> QED BY <1>1, <1>3, <1>4, <1>5, <2>1, TaskStep
<1>7. CASE accepted
  <2> DEFINE m == [by |-> consent[d], day |-> left.days]
  <2>1. m \in [by : Persons, day : 0..Days] /\ m.by # "nobody"
    BY <1>2, <1>5 DEF IInv, TypeOK
  <2>2. wire' = [wire EXCEPT ![d] = Append(@, m)]
    BY <1>2, <1>7 DEF Transmit
  <2> HIDE DEF m
  <2>3. /\ wire' \in [Drafts -> Seq([by : Persons, day : 0..Days])]
        /\ \A e \in Drafts \ {d} : wire'[e] = wire[e]
    <3> DEFINE T == [by : Persons, day : 0..Days]
    <3>1. wire \in [Drafts -> Seq(T)] /\ m \in T
      BY <2>1 DEF IInv, TypeOK
    <3> HIDE DEF T
    <3>2. Append(wire[d], m) \in Seq(T)
      BY <3>1
    <3>3. wire' \in [Drafts -> Seq(T)] /\ \A e \in Drafts \ {d} : wire'[e] = wire[e]
      BY <2>2, <3>1, <3>2
    <3> QED BY <3>3 DEF T
  <2>4. wire'[d] = Append(<< >>, m)
    BY <1>2, <2>2 DEF IInv, TypeOK
  <2>5. wire'[d] = << m >>
    BY <2>4
  <2>6. Len(wire'[d]) = 1 /\ DOMAIN wire'[d] = {1} /\ wire'[d][1] = m
    BY <2>5
  <2>7. TypeOK'
    BY <1>1, <1>3, <2>3 DEF IInv, TypeOK, Exists, state, mail
  <2>8. GoneIsClaimed'
    BY <1>1, <1>2, <2>3, <2>6 DEF IInv, Sending, GoneIsClaimed, Exists, Claimed, state
  <2>9. SentAsApproved'
    BY <2>1, <2>3, <2>6 DEF IInv, Sending, SentAsApproved
  <2>10. OneResponse' /\ LateIsOwn' /\ ApprovedBySomebody'
    BY <1>1 DEF IInv, Sending, OneResponse, LateIsOwn, ApprovedBySomebody, Exists, state
  <2>11. Collection'
    BY <1>1, <1>4 DEF IInv, Collection, NothingIsPassedOver, Recorded, BoundaryIsLater,
              ArchiveIsNotAnswered, LiveIsNew, RowsAreNew, IsNew, Exists, mail, state
  <2> QED BY <1>4, <2>7, <2>8, <2>9, <2>10, <2>11 DEF IInv, Sending
<1> QED BY <1>6, <1>7

\* A day goes by: rows change in nothing but their age.
LEMMA DayPassesKeeps == ASSUME IInv, DayPasses PROVE IInv'
<1>1. /\ task' = None /\ left.days > 0 /\ left' = [left EXCEPT !.days = @ - 1]
      /\ drafts' = [d \in Drafts |-> IF Exists(d) THEN [drafts[d] EXCEPT !.fresh = FALSE]
                                     ELSE None]
      /\ UNCHANGED << account, profile, mail, late, wire, consent >>
  BY DEF DayPasses, Free
<1>2. ASSUME NEW d \in Drafts, Exists(d)
      PROVE  LET row == [drafts[d] EXCEPT !.fresh = FALSE] IN
             /\ row \in DraftRows /\ row.source = drafts[d].source
             /\ row.status = drafts[d].status /\ row.approved = drafts[d].approved
             /\ row.revision = drafts[d].revision
  <2>1. drafts[d] \in DraftRows
    BY <1>2, RowIsRow DEF IInv
  <2> QED BY <2>1 DEF DraftRows
<1>3. ASSUME NEW d \in Drafts, Exists(d)
      PROVE  /\ drafts'[d] \in DraftRows /\ drafts'[d].source = drafts[d].source
             /\ drafts'[d].status = drafts[d].status
             /\ drafts'[d].approved = drafts[d].approved
             /\ drafts'[d].revision = drafts[d].revision
  BY <1>1, <1>2, <1>3
<1>4. \A d \in Drafts : Exists(d)' <=> Exists(d)
  BY <1>1, <1>3, RowAssumption DEF Exists
<1>5. left' \in [days : 0..Days, removals : 0..Removals, faults : 0..Faults]
  <2>1. left \in [days : 0..Days, removals : 0..Removals, faults : 0..Faults]
    BY DEF IInv, TypeOK
  <2>2. left.days \in 0..Days
    BY <2>1
  <2>3. left.days - 1 \in 0..Days
    BY <1>1, <2>2, Bounds
  <2> QED BY <1>1, <2>1, <2>3
<1>6. TypeOK'
  <2>1. drafts' \in [Drafts -> DraftRows \cup {None}]
    BY <1>1, <1>3
  <2> QED BY <1>1, <1>3, <1>4, <1>5, <2>1 DEF IInv, TypeOK, mail
<1>7. OnItsWay' /\ Collecting' /\ GeneratesNew'
  BY <1>1, FreeStep
<1>8. LateIsOwn'
  BY <1>1, <1>4 DEF IInv, TypeOK, Sending, LateIsOwn
<1>9. OneResponse' /\ GoneIsClaimed' /\ ApprovedBySomebody' /\ SentAsApproved'
  BY <1>1, <1>3, <1>4 DEF IInv, Sending, OneResponse, GoneIsClaimed, ApprovedBySomebody,
                          SentAsApproved
<1>10. ArchiveIsNotAnswered'
  BY <1>1, <1>3, <1>4 DEF IInv, Collection, ArchiveIsNotAnswered, mail
<1>11. NothingIsPassedOver' /\ BoundaryIsLater' /\ LiveIsNew'
  BY <1>1, <1>7 DEF IInv, Collection, NothingIsPassedOver, Recorded, BoundaryIsLater,
                    LiveIsNew, RowsAreNew, IsNew, mail
<1> QED BY <1>6, <1>7, <1>8, <1>9, <1>10, <1>11 DEF IInv, Sending, Collection

LEMMA UpdateKeeps ==
    ASSUME IInv, NEW enabled \in BOOLEAN, NEW initial \in Initials, Update(enabled, initial)
    PROVE  IInv'
<1>1. /\ task' = None /\ drafts' = [d \in Drafts |-> Disapproved(drafts[d])]
      /\ consent' = [d \in Drafts |-> "nobody"]
      /\ UNCHANGED << profile, inbox, rows, first, late, wire, left >>
  BY DEF Update, Free
<1>2. account' \in [revision : 1..MaxSettings, enabled : BOOLEAN, initial : Initials]
  <2>1. account.revision \in 1..MaxSettings
    BY DEF IInv, TypeOK
  <2>2. /\ account.revision < MaxSettings
        /\ account' = [revision |-> account.revision + 1, enabled |-> enabled,
                       initial |-> initial]
    BY DEF Update
  <2>3. account.revision + 1 \in 1..MaxSettings
    BY <2>1, <2>2, Bounds
  <2> QED BY <2>2, <2>3
<1>3. /\ RowsOK'
      /\ \A d \in Drafts : /\ Exists(d)' <=> Exists(d)
                           /\ Exists(d) => /\ drafts'[d].source = drafts[d].source
                                           /\ drafts'[d].status # "approved"
                                           /\ drafts[d].status \in Claimed =>
                                                drafts'[d].status \in Claimed
  BY <1>1, DisapproveRows DEF IInv
<1>4. \/ UNCHANGED << cursor, boundary, skip >>
      \/ /\ cursor' = [validity |-> 0, uid |-> 0] /\ skip' = [validity |-> 0, uid |-> 0]
         /\ boundary' = [v \in Validities |-> -1]
  BY DEF Update
<1>5. /\ cursor' \in Cursors /\ skip' \in Cursors
      /\ boundary' \in [Validities -> -1..MaxLetters]
  <2>1. [validity |-> 0, uid |-> 0] \in Cursors /\ -1 \in -1..MaxLetters
    BY Bounds DEF Cursors
  <2> QED BY <1>4, <2>1 DEF IInv, TypeOK
<1>6. TypeOK'
  <2>1. consent' \in [Drafts -> Persons]
    BY <1>1 DEF Persons
  <2> QED BY <1>1, <1>2, <1>3, <1>5, <2>1 DEF IInv, TypeOK, RowsOK
<1>7. OnItsWay' /\ Collecting' /\ GeneratesNew'
  BY <1>1, FreeStep
<1>8. LateIsOwn'
  BY <1>1, <1>3 DEF IInv, TypeOK, Sending, LateIsOwn
<1>9. OneResponse' /\ GoneIsClaimed' /\ ApprovedBySomebody' /\ SentAsApproved'
  BY <1>1, <1>3 DEF IInv, Sending, OneResponse, GoneIsClaimed, ApprovedBySomebody,
                    SentAsApproved
<1>10. ArchiveIsNotAnswered'
  BY <1>1, <1>3 DEF IInv, Collection, ArchiveIsNotAnswered
<1>11. NothingIsPassedOver'
  <2>1. CASE UNCHANGED << cursor, boundary, skip >>
    BY <1>1, <2>1 DEF IInv, Collection, NothingIsPassedOver, Recorded
  <2>2. CASE cursor' = [validity |-> 0, uid |-> 0]
    <3>1. \A u \in inbox'.held : ~(u <= 0)
      BY <1>1, UIDs DEF IInv, TypeOK
    <3> QED BY <2>2, <3>1 DEF NothingIsPassedOver
  <2> QED BY <1>4, <2>1, <2>2
<1>12. BoundaryIsLater'
  <2>1. cursor'.uid <= inbox'.count
    BY <1>1, <1>4 DEF IInv, TypeOK, Collection, BoundaryIsLater
  <2> QED BY <1>1, <1>4, <2>1 DEF IInv, Collection, BoundaryIsLater
<1>13. LiveIsNew'
  BY <1>1, <1>7 DEF IInv, Collection, LiveIsNew, RowsAreNew, IsNew
<1> QED BY <1>6, <1>7, <1>8, <1>9, <1>10, <1>11, <1>12, <1>13 DEF IInv, Sending, Collection

-----------------------------------------------------------------------------
(* Steps on the folder and on what is stored of it.                        *)

\* Drafts are left alone, and the messages answered stay new.
LEMMA FolderStep ==
    ASSUME IInv, UNCHANGED << state, late, wire, consent >>,
           left' \in [days : 0..Days, removals : 0..Removals, faults : 0..Faults],
           task' \in Tasks \cup {None}, OnItsWay', Collecting', GeneratesNew',
           inbox' \in [count : 0..MaxLetters, validity : Validities, held : SUBSET Letters],
           cursor' \in Cursors, skip' \in Cursors, rows' \in Seq(MessageRows),
           boundary' \in [Validities -> -1..MaxLetters],
           first' \in [Validities -> -1..MaxLetters],
           \A v \in Validities : first[v] # -1 => first'[v] = first[v],
           NothingIsPassedOver', BoundaryIsLater',
           RowsAreNew'
    PROVE  IInv'
<1> USE DEF state
<1>1. TypeOK'
  BY DEF IInv, TypeOK, Exists
<1>2. Sending'
  BY DEF IInv, Sending, OneResponse, LateIsOwn, GoneIsClaimed, ApprovedBySomebody,
         SentAsApproved, Exists
<1>3. \A v \in Validities, l \in Letters : IsNew(v, l) => IsNew(v, l)'
  BY DEF IsNew
<1>4. ArchiveIsNotAnswered'
  BY DEF IInv, Collection, ArchiveIsNotAnswered, Exists
<1>5. LiveIsNew'
  <2>1. \A s \in late' : \E v \in Validities : IsNew(v, s.source)'
    BY <1>3 DEF IInv, TypeOK, Collection, LiveIsNew
  <2> QED BY <2>1 DEF LiveIsNew
<1> QED BY <1>1, <1>2, <1>4, <1>5 DEF IInv, Collection

LEMMA ServerKeeps ==
    ASSUME IInv, Arrive \/ Renumber \/ \E u \in Letters : Expunge(u) PROVE IInv'
<1>1. /\ UNCHANGED << state, late, wire, consent, task >>
      /\ UNCHANGED << cursor, boundary, rows, first, skip >>
  BY DEF Arrive, Renumber, Expunge
<1>2. /\ inbox \in [count : 0..MaxLetters, validity : Validities, held : SUBSET Letters]
      /\ left \in [days : 0..Days, removals : 0..Removals, faults : 0..Faults]
      /\ inbox.count \in 0..MaxLetters /\ inbox.held \in SUBSET Letters
  BY DEF IInv, TypeOK
<1>3. /\ inbox' \in [count : 0..MaxLetters, validity : Validities, held : SUBSET Letters]
      /\ left' \in [days : 0..Days, removals : 0..Removals, faults : 0..Faults]
      /\ inbox.count <= inbox'.count /\ inbox'.count \in 0..MaxLetters
      /\ inbox'.held \subseteq inbox.held \cup {n \in Letters : n > inbox.count}
  <2>1. CASE Arrive
    <3>1. inbox.count + 1 \in 0..MaxLetters /\ inbox.count + 1 \in Letters
          /\ inbox.count + 1 > inbox.count
      BY <1>2, <2>1, Bounds DEF Arrive, Letters
    <3>2. /\ inbox' = [inbox EXCEPT !.count = inbox.count + 1,
                                    !.held = inbox.held \cup {inbox.count + 1}]
          /\ left' = left
      BY <1>2, <2>1 DEF Arrive
    <3> DEFINE n == inbox.count + 1
               held == inbox.held \cup {n}
    <3>3. held \in SUBSET Letters /\ n \in 0..MaxLetters
          /\ held \subseteq inbox.held \cup {m \in Letters : m > inbox.count}
      BY <1>2, <3>1
    <3>4. inbox.count <= n
      BY <1>2
    <3> HIDE DEF n, held
    <3>5. inbox' = [inbox EXCEPT !.count = n, !.held = held]
      BY <3>2 DEF n, held
    <3>6. inbox' \in [count : 0..MaxLetters, validity : Validities, held : SUBSET Letters]
          /\ inbox'.count = n /\ inbox'.held = held
      BY <1>2, <3>3, <3>5
    <3> QED BY <1>2, <3>2, <3>3, <3>4, <3>6
  <2>2. CASE Renumber
    <3>1. inbox.validity + 1 \in Validities
      BY <1>2, <2>2, Bounds DEF Renumber, Validities
    <3> QED BY <1>2, <2>2, <3>1 DEF Renumber
  <2>3. ASSUME NEW u \in Letters, Expunge(u)
        PROVE  /\ inbox' \in [count : 0..MaxLetters, validity : Validities, held : SUBSET Letters]
               /\ left' \in [days : 0..Days, removals : 0..Removals, faults : 0..Faults]
               /\ inbox'.count = inbox.count /\ inbox'.held \subseteq inbox.held
    <3>1. left.removals - 1 \in 0..Removals
      BY <1>2, <2>3, Bounds DEF Expunge
    <3>2. left' \in [days : 0..Days, removals : 0..Removals, faults : 0..Faults]
      BY <1>2, <2>3, <3>1 DEF Expunge
    <3>3. inbox.held \ {u} \in SUBSET Letters
      BY <1>2
    <3>4. inbox' = [inbox EXCEPT !.held = inbox.held \ {u}]
      BY <1>2, <2>3 DEF Expunge
    <3> DEFINE held == inbox.held \ {u}
    <3>5. inbox' = [inbox EXCEPT !.held = held] /\ held \in SUBSET Letters
          /\ held \subseteq inbox.held
      BY <3>3, <3>4
    <3> HIDE DEF held
    <3> QED BY <1>2, <3>2, <3>5
  <2> QED BY <1>2, <2>1, <2>2, <2>3
<1>4. OnItsWay'
  BY <1>1 DEF IInv, Sending, OnItsWay, At, Free, Exists, state
<1>5. BoundaryIsLater'
  <2>1. \A v \in Validities : first[v] <= inbox'.count
    BY <1>2, <1>3 DEF IInv, TypeOK, Collection, BoundaryIsLater
  <2>2. cursor.uid <= inbox'.count
    BY <1>2, <1>3 DEF IInv, TypeOK, Cursors, Collection, BoundaryIsLater
  <2> QED BY <1>1, <2>1, <2>2 DEF IInv, Collection, BoundaryIsLater
<1>6. \A v, u : Passed(v, u)' <=> Passed(v, u)
  BY <1>1 DEF Passed, Recorded
<1>7. NothingIsPassedOver'
  <2>1. cursor.uid \in 0..MaxLetters /\ cursor.uid <= inbox.count
    BY DEF IInv, TypeOK, Cursors, Collection, BoundaryIsLater
  <2>2. ASSUME NEW u \in inbox'.held, u <= cursor.uid PROVE Passed(cursor.validity, u)
    <3>1. u \in inbox.held \/ (u \in Letters /\ u > inbox.count)
      BY <1>3
    <3>2. u \in inbox.held
      BY <1>2, <2>1, <2>2, <3>1, Bounds DEF Letters
    <3> QED BY <2>2, <3>2 DEF IInv, Collection, NothingIsPassedOver, Passed
  <2>3. \A u \in inbox'.held : u <= cursor'.uid => Passed(cursor.validity, u)'
    BY <1>1, <1>6, <2>2
  <2> QED BY <1>1, <2>3 DEF NothingIsPassedOver, Passed
<1>8. Collecting'
  <2>1. CASE Free
    BY <1>1, <2>1 DEF Collecting, At, Free
  <2>2. CASE ~Free
    <3>1. task \in Tasks /\ task.advance \in 0..MaxLetters
      BY <2>2 DEF IInv, TypeOK, Free, Tasks
    <3>2. task.advance <= inbox.count =>
            /\ task.advance <= inbox'.count
            /\ \A u \in inbox'.held : u <= task.advance => u \in inbox.held
      BY <1>2, <1>3, <3>1, Bounds DEF Letters
    <3> QED BY <1>1, <1>6, <3>2 DEF IInv, Collection, Collecting, At, Free
  <2> QED BY <2>1, <2>2
<1>9. GeneratesNew' /\ RowsAreNew'
  BY <1>1 DEF IInv, Collection, LiveIsNew, GeneratesNew, RowsAreNew, IsNew, At, Free
<1>10. /\ task' \in Tasks \cup {None} /\ cursor' \in Cursors /\ skip' \in Cursors
       /\ rows' \in Seq(MessageRows) /\ boundary' \in [Validities -> -1..MaxLetters]
       /\ first' \in [Validities -> -1..MaxLetters]
  BY <1>1 DEF IInv, TypeOK
<1> QED BY <1>1, <1>3, <1>4, <1>5, <1>7, <1>8, <1>9, <1>10, FolderStep

LEMMA ProcessedKeeps == ASSUME IInv, Processed PROVE IInv'
<1>1. /\ UNCHANGED << state, inbox, cursor, boundary, first, skip, late, wire, left, consent >>
      /\ task \in Tasks
  BY AtIsTask DEF Processed, IInv
<1> DEFINE hit(i) == \/ task.kind = "sync" /\ i = Oldest
                     \/ task.kind = "reply" /\ rows[i].letter = task.source
<1>2. rows' = [i \in DOMAIN rows |-> IF hit(i) THEN [rows[i] EXCEPT !.processed = TRUE]
                                     ELSE rows[i]]
  BY DEF Processed
<1>3. rows \in Seq(MessageRows)
  BY DEF IInv, TypeOK
<1>4. ASSUME NEW i \in DOMAIN rows
      PROVE  /\ rows'[i] \in MessageRows
             /\ rows'[i].validity = rows[i].validity /\ rows'[i].uid = rows[i].uid
             /\ rows'[i].letter = rows[i].letter /\ rows'[i].historical = rows[i].historical
             /\ rows[i].processed => rows'[i].processed
  <2>1. rows[i] \in MessageRows
    BY <1>3
  <2>2. rows'[i] = IF hit(i) THEN [rows[i] EXCEPT !.processed = TRUE] ELSE rows[i]
    BY <1>2
  <2> HIDE DEF hit
  <2> QED BY <2>1, <2>2 DEF MessageRows
<1> HIDE DEF hit
<1>5. DOMAIN rows' = DOMAIN rows /\ rows' \in Seq(MessageRows)
  BY <1>2, <1>3, <1>4
<1>6. \A v, u : Recorded(v, u) => Recorded(v, u)'
  BY <1>4, <1>5 DEF Recorded
<1>7. NothingIsPassedOver' /\ BoundaryIsLater'
  BY <1>1, <1>6 DEF IInv, Collection, NothingIsPassedOver, BoundaryIsLater
<1>8. task' \in Tasks \cup {None} /\ OnItsWay' /\ Collecting' /\ GeneratesNew'
  <2>1. CASE task.kind = "sync"
    <3>1. task' = [task EXCEPT !.pc = "pending", !.draft = None, !.source = None,
                               !.success = FALSE, !.settings = 0]
      BY <2>1 DEF Processed
    <3>2. 0 \in 0..MaxSettings
      BY Bounds
    <3>3. task' \in Tasks /\ task'.pc = "pending"
      BY <1>1, <3>1, <3>2 DEF Tasks
    <3> QED BY <3>3 DEF OnItsWay, Collecting, GeneratesNew, At
  <2>2. CASE task.kind # "sync"
    <3>1. task' = None
      BY <2>2 DEF Processed
    <3> QED BY <3>1, FreeStep
  <2> QED BY <2>1, <2>2
<1>9. RowsAreNew'
  BY <1>1, <1>4, <1>5 DEF IInv, Collection, LiveIsNew, RowsAreNew, IsNew
<1>10. /\ left' \in [days : 0..Days, removals : 0..Removals, faults : 0..Faults]
       /\ inbox' \in [count : 0..MaxLetters, validity : Validities, held : SUBSET Letters]
       /\ cursor' \in Cursors /\ skip' \in Cursors
       /\ boundary' \in [Validities -> -1..MaxLetters]
       /\ first' \in [Validities -> -1..MaxLetters]
  BY <1>1 DEF IInv, TypeOK
<1> QED BY <1>1, <1>5, <1>7, <1>8, <1>9, <1>10, FolderStep

\* The collection is over.
LEMMA CollectedOK ==
    ASSUME task \in Tasks, Collected
    PROVE  task' \in Tasks /\ OnItsWay' /\ Collecting' /\ GeneratesNew'
<1>1. 0 \in 0..MaxValidity /\ 0 \in 0..MaxLetters
  BY Bounds
<1>2. task' \in Tasks /\ task'.pc = "pending"
  BY <1>1 DEF Collected, Tasks
<1> QED BY <1>2 DEF OnItsWay, Collecting, GeneratesNew, At

LEMMA AdvancedOK ==
    ASSUME cursor \in Cursors, NEW v \in Validities, NEW u \in 0..MaxLetters
    PROVE  /\ Advanced(v, u) \in Cursors /\ Advanced(v, u).validity = v
           /\ \/ Advanced(v, u).uid = u
              \/ cursor.validity = v /\ Advanced(v, u).uid = cursor.uid
<1>1. cursor.uid \in 0..MaxLetters /\ v \in 0..MaxValidity
  BY Bounds DEF Cursors, Validities
<1> QED BY <1>1 DEF Advanced, Cursors

LEMMA FolderTypes ==
    ASSUME IInv
    PROVE  /\ inbox \in [count : 0..MaxLetters, validity : Validities, held : SUBSET Letters]
           /\ inbox.count \in 0..MaxLetters /\ inbox.validity \in Validities
           /\ inbox.held \in SUBSET Letters
           /\ left \in [days : 0..Days, removals : 0..Removals, faults : 0..Faults]
           /\ cursor \in Cursors /\ skip \in Cursors /\ rows \in Seq(MessageRows)
           /\ cursor.uid \in 0..MaxLetters /\ cursor.validity \in 0..MaxValidity
           /\ boundary \in [Validities -> -1..MaxLetters]
           /\ first \in [Validities -> -1..MaxLetters]
BY DEF IInv, TypeOK, Cursors

LEMMA AdvanceKeeps == ASSUME IInv, Advance PROVE IInv'
<1>1. /\ task \in Tasks /\ task # None /\ task.pc = "advance" /\ At("advance") /\ Collected
      /\ cursor' = Advanced(task.validity, task.advance)
      /\ UNCHANGED << state, late, wire, left, consent >>
      /\ UNCHANGED << inbox, boundary, rows, first, skip >>
  BY AtIsTask DEF Advance, IInv
<1>2. PICK v \in Validities, a \in 0..MaxLetters :
        /\ v = task.validity /\ a = task.advance /\ boundary[v] # -1
        /\ a <= inbox.count /\ \A u \in inbox.held : u <= a => Passed(v, u)
  <2>1. task.advance \in 0..MaxLetters
    BY <1>1 DEF Tasks
  <2> QED BY <1>1, <2>1 DEF IInv, Collection, Collecting, Free
<1>3. /\ cursor' \in Cursors /\ cursor'.validity = v
      /\ cursor'.uid = a \/ (cursor.validity = v /\ cursor'.uid = cursor.uid)
  BY <1>1, <1>2, AdvancedOK, FolderTypes
<1>4. task' \in Tasks /\ OnItsWay' /\ Collecting' /\ GeneratesNew'
  BY <1>1, CollectedOK
<1>5. NothingIsPassedOver'
  <2>1. \A u \in inbox.held : u <= cursor'.uid => Passed(v, u)
    BY <1>2, <1>3 DEF IInv, Collection, NothingIsPassedOver, Passed
  <2> QED BY <1>1, <1>3, <2>1 DEF NothingIsPassedOver, Passed, Recorded
<1>6. BoundaryIsLater' /\ RowsAreNew'
  BY <1>1, <1>2, <1>3 DEF IInv, Collection, BoundaryIsLater, LiveIsNew, RowsAreNew, IsNew
<1> QED BY <1>1, <1>3, <1>4, <1>5, <1>6, FolderStep, FolderTypes

LEMMA SkipArchiveKeeps == ASSUME IInv, SkipArchive PROVE IInv'
<1>1. /\ task \in Tasks /\ task # None /\ task.pc = "skip" /\ At("skip") /\ Collected
      /\ cursor' = Advanced(task.validity, task.advance)
      /\ skip' = [validity |-> task.validity, uid |-> task.advance]
      /\ UNCHANGED << state, late, wire, left, consent >>
      /\ UNCHANGED << inbox, boundary, rows, first >>
  BY AtIsTask DEF SkipArchive, IInv
<1>2. PICK v \in Validities, a \in 0..MaxLetters :
        /\ v = task.validity /\ a = task.advance /\ boundary[v] # -1 /\ cursor.validity = 0
        /\ a <= inbox.count
  <2>1. task.advance \in 0..MaxLetters
    BY <1>1 DEF Tasks
  <2> QED BY <1>1, <2>1 DEF IInv, Collection, Collecting, Free
<1>3. v # 0
  BY Bounds DEF Validities
<1>4. cursor' \in Cursors /\ cursor'.validity = v /\ cursor'.uid = a
  BY <1>1, <1>2, <1>3, AdvancedOK, FolderTypes
<1>5. skip' \in Cursors /\ skip'.validity = v /\ skip'.uid = a
  BY <1>1, <1>2, Bounds DEF Cursors, Validities
<1>6. task' \in Tasks /\ OnItsWay' /\ Collecting' /\ GeneratesNew'
  BY <1>1, CollectedOK
<1>7. NothingIsPassedOver'
  BY <1>4, <1>5 DEF NothingIsPassedOver
<1>8. BoundaryIsLater' /\ RowsAreNew'
  BY <1>1, <1>2, <1>4 DEF IInv, Collection, BoundaryIsLater, LiveIsNew, RowsAreNew, IsNew
<1> QED BY <1>1, <1>4, <1>5, <1>6, <1>7, <1>8, FolderStep, FolderTypes

\* Sets of UIDs have a least element and, being bounded, a greatest one.
LEMMA EarliestIsLeast ==
    ASSUME NEW S \in SUBSET Letters, S # {}
    PROVE  Earliest(S) \in S /\ \A w \in S : Earliest(S) <= w
<1> DEFINE R == OpToRel(<, Nat)
<1>1. IsWellFoundedOn(R, Nat)
  BY NatLessThanWellFounded
<1>2. S \subseteq Nat
  BY UIDs
<1> HIDE DEF R
<1>3. PICK i \in S : \A j \in S : ~(<< j, i >> \in R)
  BY <1>1, <1>2, WFMin
<1>4. \A j \in S : ~(j < i)
  BY <1>2, <1>3 DEF R, OpToRel
<1>5. i \in S /\ \A j \in S : i <= j
  BY <1>2, <1>4
<1> QED BY <1>5 DEF Earliest

LEMMA LatestIsGreatest ==
    ASSUME NEW S \in SUBSET Letters, S # {}
    PROVE  Latest(S) \in S /\ \A w \in S : w <= Latest(S)
<1> DEFINE R == OpToRel(<, Nat)
           T == {n \in Nat : \E u \in S : n = MaxLetters - u}
<1>1. IsWellFoundedOn(R, Nat)
  BY NatLessThanWellFounded
<1>2. \A u \in S : u \in Nat /\ MaxLetters - u \in Nat
  BY Bounds DEF Letters
<1>3. T \subseteq Nat /\ T # {}
  BY <1>2
<1> HIDE DEF R, T
<1>4. PICK i \in T : \A j \in T : ~(<< j, i >> \in R)
  BY <1>1, <1>3, WFMin
<1>5. \A j \in T : ~(j < i)
  BY <1>3, <1>4 DEF R, OpToRel
<1>6. PICK u \in S : i = MaxLetters - u
  BY DEF T
<1>7. ASSUME NEW w \in S PROVE w <= u
  <2>1. MaxLetters - w \in T
    BY <1>2 DEF T
  <2>2. ~(MaxLetters - w < MaxLetters - u)
    BY <1>5, <1>6, <2>1
  <2> QED BY <1>2, <2>2, Bounds
<1> QED BY <1>7 DEF Latest

LEMMA LettersAreFinite ==
    ASSUME NEW S \in SUBSET Letters
    PROVE  IsFiniteSet(S) /\ Cardinality(S) \in Nat
<1>1. IsFiniteSet(Letters)
  BY Bounds, FS_Interval DEF Letters
<1>2. IsFiniteSet(S)
  BY <1>1, FS_Subset
<1> QED BY <1>2, FS_CardinalityType

\* A batch is what the search found up to where the cursor is to go.
LEMMA BatchIsUpTo ==
    ASSUME NEW found \in SUBSET Letters, NEW end \in 0..MaxLetters,
           \A u \in found : u <= end
    PROVE  /\ AdvanceTo(found, end) \in 0..MaxLetters /\ AdvanceTo(found, end) <= end
           /\ BatchOf(found) = {u \in found : u <= AdvanceTo(found, end)}
           /\ found # {} => BatchOf(found) # {}
<1> DEFINE Below(u) == {w \in found : w < u}
           B == BatchOf(found)
<1>1. /\ B = {u \in found : Cardinality(Below(u)) < Batch}
      /\ Batch \in Nat \ {0} /\ found \subseteq Nat /\ B \subseteq found
  BY Bounds DEF BatchOf, Letters
<1>2. \A u \in found : IsFiniteSet(Below(u)) /\ Cardinality(Below(u)) \in Nat
  BY LettersAreFinite
<1>3. IsFiniteSet(found) /\ Cardinality(found) \in Nat
  BY LettersAreFinite
<1>4. ASSUME found # {} PROVE B # {}
  <2>1. PICK e \in found : \A w \in found : e <= w
    BY <1>4, EarliestIsLeast
  <2>2. Below(e) = {}
    <3>1. \A w \in found : ~(w < e)
      BY <1>1, <2>1
    <3> QED BY <3>1
  <2>3. Cardinality(Below(e)) < Batch
    BY <1>1, <2>2, FS_EmptySet
  <2> QED BY <1>1, <2>1, <2>3
<1>5. CASE Cardinality(found) > Batch
  <2>1. found # {}
    BY <1>1, <1>5, FS_EmptySet
  <2>2. B \in SUBSET Letters /\ B # {}
    BY <1>1, <1>4, <2>1
  <2>3. PICK m \in B : m = Latest(B) /\ \A w \in B : w <= m
    BY <2>2, LatestIsGreatest
  <2>4. AdvanceTo(found, end) = m
    BY <1>5, <2>3 DEF AdvanceTo
  <2>5. m \in 0..MaxLetters /\ m <= end
    BY <1>1, <2>2, Bounds DEF Letters
  <2>6. ASSUME NEW u \in found, u <= m PROVE u \in B
    <3>1. Below(u) \subseteq Below(m)
      <4>1. m \in Nat /\ u \in Nat /\ found \subseteq Nat
        BY <1>1
      <4>2. \A w \in found : w < u => w < m
        BY <2>6, <4>1
      <4> QED BY <4>2
    <3> HIDE DEF Below, B
    <3>2. IsFiniteSet(Below(m)) /\ Cardinality(Below(m)) \in Nat /\ Cardinality(Below(u)) \in Nat
          /\ Cardinality(Below(m)) < Batch
      BY <1>1, <1>2
    <3>3. Cardinality(Below(u)) <= Cardinality(Below(m))
      BY <3>1, <3>2, FS_Subset
    <3>4. Cardinality(Below(u)) < Batch
      BY <1>1, <3>2, <3>3
    <3> QED BY <1>1, <3>4
  <2>7. B = {u \in found : u <= m}
    BY <1>1, <2>3, <2>6
  <2> QED BY <1>4, <2>4, <2>5, <2>7
<1>6. CASE ~(Cardinality(found) > Batch)
  <2>1. AdvanceTo(found, end) = end
    BY <1>6 DEF AdvanceTo
  <2>2. ASSUME NEW u \in found PROVE u \in B
    <3>1. Below(u) \subseteq found /\ Below(u) # found
      BY <1>1
    <3> HIDE DEF Below, B
    <3>2. Cardinality(Below(u)) <= Cardinality(found)
          /\ (Cardinality(Below(u)) = Cardinality(found) => Below(u) = found)
      BY <1>3, <3>1, FS_Subset
    <3>3. Cardinality(Below(u)) < Batch
      BY <1>1, <1>2, <1>3, <1>6, <3>1, <3>2
    <3> QED BY <1>1, <3>3
  <2>3. B = found
    BY <1>1, <2>2
  <2> QED BY <1>4, <2>1, <2>3
<1> QED BY <1>5, <1>6

LEMMA CollectKeeps == ASSUME IInv, Collect PROVE IInv'
<1>1. /\ task \in Tasks /\ task # None /\ task.pc = "collect" /\ At("collect")
      /\ UNCHANGED << state, late, wire, left, consent >>
      /\ UNCHANGED << inbox, boundary, first, skip >>
  BY AtIsTask DEF Collect, IInv
<1>2. PICK v \in Validities, n \in Letters, stop \in 0..MaxLetters, todo \in SUBSET Letters :
        /\ v = task.validity /\ n = Earliest(todo) /\ stop = task.advance /\ todo = task.todo
        /\ boundary[v] # -1 /\ n \in todo /\ \A u \in todo : n <= u /\ u <= stop
        /\ stop <= inbox.count
        /\ \A u \in inbox.held : u <= stop => u \in todo \/ Passed(v, u)
  <2>1. task.advance \in 0..MaxLetters /\ task.todo \in SUBSET Letters
    BY <1>1 DEF Tasks
  <2>2. /\ task.validity \in Validities /\ boundary[task.validity] # -1
        /\ task.advance <= inbox.count
        /\ task.todo # {} /\ \A u \in task.todo : u <= task.advance
        /\ \A u \in inbox.held : u <= task.advance =>
             u \in task.todo \/ Passed(task.validity, u)
    BY <1>1 DEF IInv, Collection, Collecting, Free
  <2>3. Earliest(task.todo) \in task.todo /\ \A w \in task.todo : Earliest(task.todo) <= w
    BY <2>1, <2>2, EarliestIsLeast
  <2> QED BY <2>1, <2>2, <2>3
<1> DEFINE old == n <= boundary[v]
           row == [validity |-> v, uid |-> n, letter |-> n, historical |-> old,
                   processed |-> old]
<1>3. rows' = IF Recorded(v, n) THEN rows ELSE Append(rows, row)
  BY <1>2 DEF Collect
<1>4. /\ row \in MessageRows /\ row.validity = v /\ row.uid = n /\ row.letter = n
      /\ row.historical = old /\ row.processed = old
  BY DEF MessageRows
<1> HIDE DEF row
<1>5. /\ rows' \in Seq(MessageRows) /\ Recorded(v, n)'
      /\ \A i \in DOMAIN rows : i \in DOMAIN rows' /\ rows'[i] = rows[i]
      /\ \A i \in DOMAIN rows' : i \in DOMAIN rows \/ rows'[i] = row
  <2>1. CASE Recorded(v, n)
    BY <1>3, <2>1, FolderTypes DEF Recorded
  <2>2. CASE ~Recorded(v, n)
    <3>1. rows' = Append(rows, row) /\ rows \in Seq(MessageRows)
      BY <1>3, <2>2, FolderTypes
    <3>2. /\ rows' \in Seq(MessageRows) /\ Len(rows') = Len(rows) + 1
          /\ \A i \in 1..Len(rows) : rows'[i] = rows[i]
          /\ rows'[Len(rows) + 1] = row
      BY <1>4, <3>1
    <3>3. DOMAIN rows = 1..Len(rows) /\ DOMAIN rows' = 1..(Len(rows) + 1) /\ Len(rows) \in Nat
      BY <3>1, <3>2
    <3>4. Recorded(v, n)'
      <4>1. Len(rows) + 1 \in DOMAIN rows'
        BY <3>3
      <4> QED BY <1>4, <3>2, <4>1 DEF Recorded
    <3> QED BY <3>2, <3>3, <3>4
  <2> QED BY <2>1, <2>2
<1>6. \A w, u : Recorded(w, u) => Recorded(w, u)'
  BY <1>5 DEF Recorded
<1>7. \A w, u : Passed(w, u) => Passed(w, u)'
  BY <1>1, <1>6 DEF Passed
<1>8. /\ Passed(v, n)'
      /\ \A u \in inbox.held : u <= stop => u \in todo \ {n} \/ Passed(v, u)'
      /\ \A u \in inbox.held : u <= n => Passed(v, u)'
  <2>1. Passed(v, n)'
    BY <1>5 DEF Passed
  <2>2. inbox.held \subseteq Nat /\ todo \subseteq Nat
    BY <1>2, FolderTypes, UIDs
  <2>5. n \in Nat /\ stop \in Nat /\ n <= stop
    BY <1>2, <2>2, Bounds
  <2>3. \A u \in inbox.held : u <= stop => u \in todo \ {n} \/ Passed(v, u)'
    BY <1>2, <1>7, <2>1
  <2>4. ASSUME NEW u \in inbox.held, u <= n PROVE Passed(v, u)'
    <3>1. u <= stop
      BY <2>2, <2>4, <2>5
    <3>2. u \notin todo \ {n}
      BY <1>2, <2>2, <2>4, <2>5
    <3> QED BY <2>3, <3>1, <3>2
  <2> QED BY <2>1, <2>3, <2>4
<1>9. /\ cursor' \in Cursors /\ cursor'.validity = v
      /\ cursor'.uid = n \/ (cursor.validity = v /\ cursor'.uid = cursor.uid)
  <2>1. n \in 0..MaxLetters /\ cursor' = Advanced(v, n)
    BY <1>2, Bounds DEF Letters, Collect
  <2> QED BY <2>1, AdvancedOK, FolderTypes
<1>10. NothingIsPassedOver'
  <2>1. \A u \in inbox.held : u <= cursor'.uid => Passed(v, u)'
    BY <1>7, <1>8, <1>9 DEF IInv, Collection, NothingIsPassedOver, Passed
  <2> QED BY <1>1, <1>9, <2>1 DEF NothingIsPassedOver, Passed
<1>11. BoundaryIsLater'
  <2>1. cursor'.uid <= inbox'.count
    BY <1>1, <1>2, <1>9, FolderTypes, Bounds
       DEF IInv, Collection, BoundaryIsLater, Letters
  <2> QED BY <1>1, <1>2, <1>9, <2>1 DEF IInv, Collection, BoundaryIsLater
<1>12. RowsAreNew'
  <2>1. n > boundary[v] => IsNew(v, n)'
    <3>1. /\ first[v] # -1 /\ first[v] <= boundary[v]
          /\ first[v] \in -1..MaxLetters /\ boundary[v] \in -1..MaxLetters
      BY <1>2, FolderTypes DEF IInv, Collection, BoundaryIsLater
    <3> QED BY <1>1, <3>1, Bounds DEF IsNew, Letters
  <2>2. boundary[v] \in -1..MaxLetters
    BY FolderTypes
  <2>3. ~old => n > boundary[v]
    BY <2>2, Bounds DEF Letters
  <2> QED BY <1>1, <1>4, <1>5, <2>1, <2>3 DEF IInv, Collection, LiveIsNew, RowsAreNew, IsNew
<1>13. task' \in Tasks /\ OnItsWay' /\ Collecting' /\ GeneratesNew'
  <2> DEFINE rest == todo \ {n}
             pc == IF todo = {n} THEN "advance" ELSE "collect"
  <2>1. task' = [task EXCEPT !.pc = pc, !.todo = rest]
    BY <1>1, <1>2 DEF Collect, Tasks
  <2>2. rest \in SUBSET Letters /\ (rest = {} <=> todo = {n}) /\ rest \subseteq todo
    BY <1>2
  <2>3. pc \in {"advance", "collect"} /\ (pc = "advance" <=> rest = {})
    BY <2>2
  <2>4. \A u \in inbox.held : u <= stop => u \in rest \/ Passed(v, u)'
    BY <1>8
  <2> HIDE DEF rest, pc
  <2>5. /\ task' \in Tasks /\ task'.pc = pc /\ task'.validity = v
        /\ task'.advance = stop /\ task'.todo = rest
    BY <1>1, <1>2, <2>1, <2>2, <2>3 DEF Tasks
  <2>6. \A u \in rest : u <= stop
    BY <1>2, <2>2
  <2>7. OnItsWay' /\ GeneratesNew'
    BY <2>3, <2>5 DEF OnItsWay, GeneratesNew, At
  <2>8. Collecting'
    BY <1>1, <1>2, <2>3, <2>4, <2>5, <2>6 DEF Collecting, At
  <2> QED BY <2>5, <2>7, <2>8
<1> QED BY <1>1, <1>5, <1>9, <1>10, <1>11, <1>12, <1>13, FolderStep, FolderTypes

LEMMA SelectKeeps == ASSUME IInv, Select PROVE IInv'
<1>1. /\ task \in Tasks /\ UNCHANGED << state, late, wire, left, consent >>
      /\ UNCHANGED << inbox, cursor, rows, skip >>
  BY AtIsTask DEF Select, IInv
<1>2. PICK v \in Validities, last \in 0..MaxLetters : v = inbox.validity /\ last = inbox.count
  BY FolderTypes
<1> DEFINE start == IF cursor.validity = v THEN cursor.uid + 1 ELSE 1
           fresh == cursor.validity = 0 /\ account.initial = "new"
           end == WindowEnd(start, last)
           found == {u \in inbox.held : start <= u /\ u <= end}
           pc == IF found = {} THEN "advance" ELSE "collect"
<1>3. /\ boundary' = [boundary EXCEPT ![v] = HistoryBoundary(v, last)]
      /\ first' = [first EXCEPT ![v] = IF @ = -1 THEN last ELSE @]
      /\ \/ fresh /\ task' = [task EXCEPT !.pc = "skip", !.validity = v, !.advance = last]
         \/ Collected
         \/ /\ start <= end
            /\ task' = [task EXCEPT !.pc = pc, !.validity = v, !.todo = BatchOf(found),
                                    !.advance = AdvanceTo(found, end)]
  BY <1>2 DEF Select
<1>4. v # 0 /\ v \in 0..MaxValidity
  BY Bounds DEF Validities
<1>5. start \in 1..(MaxLetters + 1) /\ (cursor.validity # v => start = 1)
      /\ (cursor.validity = v => start - 1 = cursor.uid)
  <2>1. cursor.uid \in 0..MaxLetters
    BY FolderTypes
  <2> QED BY <2>1, Bounds
<1> HIDE DEF start
<1>6. end <= last /\ (start <= end => end \in 0..MaxLetters)
  BY <1>5, Bounds DEF WindowEnd
<1>7. found \in SUBSET Letters /\ \A u \in found : u <= end
  BY FolderTypes
<1> HIDE DEF end, found
<1>8. HistoryBoundary(v, last) = (IF boundary[v] # -1 THEN boundary[v] ELSE last)
  BY <1>4 DEF HistoryBoundary, IInv, Collection, BoundaryIsLater
<1>9. /\ boundary' \in [Validities -> -1..MaxLetters]
      /\ boundary'[v] = (IF boundary[v] # -1 THEN boundary[v] ELSE last)
      /\ \A w \in Validities \ {v} : boundary'[w] = boundary[w]
  <2>1. last \in -1..MaxLetters /\ boundary[v] \in -1..MaxLetters
    BY FolderTypes, Bounds
  <2> QED BY <1>3, <1>8, <2>1, FolderTypes
<1>10. /\ first' \in [Validities -> -1..MaxLetters]
       /\ first'[v] = (IF first[v] = -1 THEN last ELSE first[v])
       /\ \A w \in Validities \ {v} : first'[w] = first[w]
  <2>1. last \in -1..MaxLetters
    BY Bounds
  <2> QED BY <1>3, <2>1, FolderTypes
<1>11. \A w \in Validities : first[w] # -1 => first'[w] = first[w]
  BY <1>10
<1>12. boundary'[v] # -1
  BY <1>9, Bounds
<1>13. BoundaryIsLater'
  <2>1. first[v] \in -1..MaxLetters /\ boundary[v] \in -1..MaxLetters
    BY FolderTypes
  <2>2. boundary[v] # -1 => first[v] # -1 /\ first[v] <= boundary[v]
    BY DEF IInv, Collection, BoundaryIsLater
  <2>3. first[v] <= last
    BY <1>2 DEF IInv, Collection, BoundaryIsLater
  <2>4. first'[v] # -1 /\ first'[v] <= boundary'[v] /\ first'[v] <= last
    BY <1>9, <1>10, <2>1, <2>2, <2>3, Bounds
  <2>5. ASSUME NEW w \in Validities
        PROVE  /\ boundary'[w] # -1 => first'[w] # -1 /\ first'[w] <= boundary'[w]
               /\ first'[w] <= inbox'.count
    <3>1. CASE w = v
      BY <1>1, <1>2, <2>4, <3>1
    <3>2. CASE w # v
      BY <1>1, <1>9, <1>10, <3>2 DEF IInv, Collection, BoundaryIsLater
    <3> QED BY <3>1, <3>2
  <2>6. cursor'.validity # 0 => boundary'[cursor'.validity] # -1
    <3>1. cursor.validity \in 0..MaxValidity
      BY FolderTypes
    <3>2. cursor.validity # 0 => cursor.validity \in 1..MaxValidity
      BY <3>1, Bounds
    <3>3. cursor.validity # 0 => cursor.validity \in Validities
      BY <3>2 DEF Validities
    <3> QED BY <1>1, <1>9, <1>12, <3>3 DEF IInv, Collection, BoundaryIsLater
  <2>7. cursor'.uid <= inbox'.count
    BY <1>1 DEF IInv, Collection, BoundaryIsLater
  <2> QED BY <2>5, <2>6, <2>7 DEF BoundaryIsLater
<1>14. NothingIsPassedOver' /\ RowsAreNew'
  BY <1>1, <1>11 DEF IInv, Collection, NothingIsPassedOver, Recorded, LiveIsNew, RowsAreNew,
                     IsNew
<1>15. task' \in Tasks /\ OnItsWay' /\ Collecting' /\ GeneratesNew'
  <2>1. CASE Collected
    BY <1>1, <2>1, CollectedOK
  <2>2. ASSUME fresh,
               task' = [task EXCEPT !.pc = "skip", !.validity = v, !.advance = last]
        PROVE  task' \in Tasks /\ OnItsWay' /\ Collecting' /\ GeneratesNew'
    <3>1. /\ task' \in Tasks /\ task'.pc = "skip" /\ task'.validity = v
          /\ task'.advance = last
      BY <1>1, <1>4, <2>2 DEF Tasks
    <3>2. cursor'.validity = 0 /\ last <= inbox'.count
      BY <1>1, <1>2, <2>2
    <3> QED BY <1>12, <3>1, <3>2 DEF OnItsWay, Collecting, GeneratesNew, At
  <2>3. ASSUME start <= end,
               task' = [task EXCEPT !.pc = pc, !.validity = v, !.todo = BatchOf(found),
                                    !.advance = AdvanceTo(found, end)]
        PROVE  task' \in Tasks /\ OnItsWay' /\ Collecting' /\ GeneratesNew'
    <3>1. PICK a \in 0..MaxLetters, todo \in SUBSET Letters :
            /\ a = AdvanceTo(found, end) /\ todo = BatchOf(found)
            /\ a <= end /\ todo = {u \in found : u <= a} /\ (found # {} => todo # {})
      <4>1. end \in 0..MaxLetters
        BY <1>6, <2>3
      <4>2. /\ AdvanceTo(found, end) \in 0..MaxLetters /\ AdvanceTo(found, end) <= end
            /\ BatchOf(found) = {u \in found : u <= AdvanceTo(found, end)}
            /\ found # {} => BatchOf(found) # {}
        BY <1>7, <4>1, BatchIsUpTo
      <4>3. BatchOf(found) \in SUBSET Letters
        BY <1>7, <4>2
      <4> QED BY <4>2, <4>3
    <3>2. /\ pc \in {"advance", "collect"} /\ (pc = "advance" => todo = {})
          /\ (pc = "collect" => todo # {})
      BY <3>1
    <3> HIDE DEF pc
    <3>3. /\ task' \in Tasks /\ task'.pc = pc /\ task'.validity = v
          /\ task'.todo = todo /\ task'.advance = a
      BY <1>1, <1>4, <2>3, <3>1, <3>2 DEF Tasks
    <3>4. end \in Nat /\ end <= last /\ a <= last
      BY <1>6, <2>3, <3>1, Bounds
    <3>5. ASSUME NEW u \in inbox.held, u <= a PROVE u \in todo \/ Passed(v, u)
      <4>1. u \in Nat /\ u > 0
        BY FolderTypes, Bounds DEF Letters
      <4>2. CASE start <= u
        <5>1. u <= end
          BY <3>1, <3>4, <3>5, <4>1, Bounds
        <5>2. u \in found
          BY <4>2, <5>1 DEF found
        <5> QED BY <3>1, <3>5, <5>2
      <4>3. CASE ~(start <= u)
        <5>1. cursor.validity = v /\ u <= cursor.uid
          BY <1>5, <4>1, <4>3, FolderTypes
        <5> QED BY <5>1 DEF IInv, Collection, NothingIsPassedOver, Passed
      <4> QED BY <4>2, <4>3
    <3>6. \A u \in inbox'.held : u <= a => u \in todo \/ Passed(v, u)'
      BY <1>1, <3>5 DEF Passed, Recorded
    <3>7. \A u \in todo : u <= a
      BY <3>1
    <3>8. a <= inbox'.count
      BY <1>1, <1>2, <3>4
    <3>9. OnItsWay' /\ GeneratesNew'
      BY <3>2, <3>3 DEF OnItsWay, GeneratesNew, At
    <3>10. Collecting'
      BY <1>12, <3>2, <3>3, <3>6, <3>7, <3>8 DEF Collecting, At
    <3> QED BY <3>3, <3>9, <3>10
  <2> QED BY <1>3, <2>1, <2>2, <2>3
<1> QED BY <1>1, <1>9, <1>10, <1>11, <1>13, <1>14, <1>15, FolderStep, FolderTypes

-----------------------------------------------------------------------------
(* The theorems.                                                           *)

LEMMA Start == Init => IInv
<1> SUFFICES ASSUME Init PROVE IInv
  OBVIOUS
<1> USE DEF Init
<1>1. task = None /\ late = {} /\ rows = << >> /\ Free
  BY DEF Free
<1>2. \A d \in Drafts : ~Exists(d) /\ wire[d] = << >> /\ consent[d] = "nobody"
  BY DEF Exists
<1>3. TypeOK
  <2>1. account \in [revision : 1..MaxSettings, enabled : BOOLEAN, initial : Initials]
    <3>1. 1 \in 1..MaxSettings /\ TRUE \in BOOLEAN
      BY Bounds
    <3>2. PICK i \in Initials : account = [revision |-> 1, enabled |-> TRUE, initial |-> i]
      OBVIOUS
    <3> QED BY <3>1, <3>2, Zenon
  <2>2. profile \in [mode : Modes, piped : BOOLEAN, saves : 0..MaxProfiles]
    <3>1. 0 \in 0..MaxProfiles
      BY Bounds
    <3>2. PICK m \in Modes, p \in BOOLEAN : profile = [mode |-> m, piped |-> p, saves |-> 0]
      OBVIOUS
    <3> QED BY <3>1, <3>2, Zenon
  <2>3. /\ drafts \in [Drafts -> DraftRows \cup {None}]
        /\ wire \in [Drafts -> Seq([by : Persons, day : 0..Days])]
        /\ consent \in [Drafts -> Persons]
    BY DEF Persons
  <2>4. inbox \in [count : 0..MaxLetters, validity : Validities, held : SUBSET Letters]
    BY Bounds DEF Validities
  <2>5. /\ cursor \in Cursors /\ skip \in Cursors
        /\ boundary \in [Validities -> -1..MaxLetters]
        /\ first \in [Validities -> -1..MaxLetters]
    BY Bounds DEF Cursors
  <2>6. left \in [days : 0..Days, removals : 0..Removals, faults : 0..Faults]
    BY Bounds
  <2>7. /\ rows \in Seq(MessageRows) /\ task \in Tasks \cup {None}
        /\ late \in SUBSET [draft : Drafts, source : Letters]
    BY <1>1
  <2> QED BY <1>2, <2>1, <2>2, <2>3, <2>4, <2>5, <2>6, <2>7 DEF TypeOK
<1>4. Sending
  <2>1. OneResponse /\ GoneIsClaimed /\ ApprovedBySomebody
    BY <1>2 DEF OneResponse, GoneIsClaimed, ApprovedBySomebody
  <2>2. LateIsOwn /\ OnItsWay
    BY <1>1 DEF LateIsOwn, OnItsWay, At
  <2>3. SentAsApproved
    <3>1. \A d \in Drafts : DOMAIN wire[d] = {}
      BY <1>2
    <3> QED BY <3>1 DEF SentAsApproved
  <2> QED BY <2>1, <2>2, <2>3 DEF Sending
<1>5. Collection
  <2>1. Collecting /\ GeneratesNew
    BY <1>1 DEF Collecting, GeneratesNew, At
  <2>2. NothingIsPassedOver
    BY DEF NothingIsPassedOver
  <2>3. BoundaryIsLater
    BY Bounds DEF BoundaryIsLater
  <2>4. LiveIsNew
    BY <1>1, <2>1 DEF LiveIsNew, RowsAreNew
  <2>5. ArchiveIsNotAnswered
    BY <1>2 DEF ArchiveIsNotAnswered
  <2> QED BY <2>1, <2>2, <2>3, <2>4, <2>5 DEF Collection
<1> QED BY <1>3, <1>4, <1>5 DEF IInv

LEMMA Inductive == IInv /\ [Next]_vars => IInv'
<1> SUFFICES ASSUME IInv, [Next]_vars PROVE IInv'
  OBVIOUS
<1>1. CASE User
  BY <1>1, CreateDraftKeeps, EditDraftKeeps, ApproveDraftKeeps, BeginSendKeeps, UpdateKeeps,
     SaveProfileKeeps DEF User
<1>2. CASE Pipeline
  BY <1>2, BeginReplyKeeps, BeginReplyDraftKeeps DEF Pipeline
<1>3. CASE BeginSync
  BY <1>3, BeginSyncKeeps
<1>4. CASE Step
  BY <1>4, SelectKeeps, SkipArchiveKeeps, CollectKeeps, AdvanceKeeps, RefusedKeeps,
     NextPendingKeeps, GenerateKeeps, DecideTimesOutKeeps, ApproveAutomaticKeeps,
     RefuseAutomaticKeeps, ProcessedKeeps, ReadCredentialsKeeps, ClaimSendKeeps,
     TransmitKeeps, FinishSendKeeps DEF Step
<1>5. CASE Threads
  BY <1>5, LateSaveKeeps DEF Threads
<1>6. CASE Environment
  BY <1>6, FaultKeeps, ServerKeeps, DayPassesKeeps DEF Environment
<1>7. CASE UNCHANGED vars
  <2> USE <1>7 DEF vars
  <2>1. TypeOK'
    BY DEF IInv, TypeOK, Exists
  <2>2. OneResponse' /\ LateIsOwn' /\ GoneIsClaimed' /\ ApprovedBySomebody'
    BY DEF IInv, Sending, OneResponse, LateIsOwn, GoneIsClaimed, ApprovedBySomebody, Exists
  <2>3. OnItsWay'
    BY DEF IInv, Sending, OnItsWay, Exists, At, Free
  <2>4. SentAsApproved'
    BY DEF IInv, Sending, SentAsApproved
  <2>5. Collecting'
    BY DEF IInv, Collection, Collecting, Passed, Recorded, At, Free
  <2>6. NothingIsPassedOver'
    BY DEF IInv, Collection, NothingIsPassedOver, Recorded
  <2>7. BoundaryIsLater' /\ LiveIsNew'
    BY DEF IInv, Collection, BoundaryIsLater, LiveIsNew, RowsAreNew, GeneratesNew, IsNew, At, Free
  <2>8. ArchiveIsNotAnswered'
    BY DEF IInv, Collection, ArchiveIsNotAnswered, Exists
  <2> QED BY <2>1, <2>2, <2>3, <2>4, <2>5, <2>6, <2>7, <2>8 DEF IInv, Sending, Collection
<1> QED BY <1>1, <1>2, <1>3, <1>4, <1>5, <1>6, <1>7 DEF Next

LEMMA Invariance == Spec => []IInv
<1>1. Init => IInv
  BY Start
<1>2. IInv /\ [Next]_vars => IInv'
  BY Inductive
<1> QED BY <1>1, <1>2, PTL DEF Spec

\* The tables keep their types, and a draft is approved at its own revision.
THEOREM TypeCorrect == Spec => []TypeOK
<1>1. IInv => TypeOK
  BY DEF IInv
<1> QED BY <1>1, Invariance, PTL

\* Through crashes, lost SMTP answers, retries and saves that commit after
\* their caller was cancelled, claim_send lets a draft out once, and the unique
\* index lets one draft answer a message.
THEOREM NothingIsSentTwice == Spec => []SentAtMostOnce
<1>1. IInv => SentAtMostOnce
  <2> SUFFICES ASSUME IInv PROVE SentAtMostOnce
    OBVIOUS
  <2>1. ASSUME NEW d \in Drafts PROVE Len(wire[d]) <= 1
    <3>1. CASE wire[d] = << >>
      BY <3>1
    <3>2. CASE wire[d] # << >>
      <4>1. Len(wire[d]) = 1
        BY <3>2 DEF IInv, Sending, GoneIsClaimed
      <4> QED BY <4>1
    <3> QED BY <3>1, <3>2
  <2>2. ASSUME NEW d \in Drafts, NEW e \in Drafts, Exists(d), Exists(e),
               drafts[d].source = drafts[e].source, drafts[d].source # None
        PROVE  d = e
    BY <2>2 DEF IInv, Sending, OneResponse
  <2> QED BY <2>1, <2>2 DEF SentAtMostOnce
<1> QED BY <1>1, Invariance, PTL

\* What reaches SMTP was approved, in the text and under the settings it is
\* sent with: nothing that clears an approval runs between claim and SMTP.
THEOREM ApprovedWhenSent == Spec => []SentAsApproved
<1>1. IInv => SentAsApproved
  BY DEF IInv, Sending
<1> QED BY <1>1, Invariance, PTL

\* No first collection, renumbering or change of initial_sync makes sync
\* answer mail that was there before the folder was first seen.
THEOREM ArchivesStayUnanswered == Spec => []ArchiveIsNotAnswered
<1>1. IInv => ArchiveIsNotAnswered
  BY DEF IInv, Collection
<1> QED BY <1>1, Invariance, PTL

\* With windows and batches of any size, messages removed and UIDs left unused
\* anywhere, through failures and restarts, the cursor of sync passes no message
\* of the folder that is not stored or skipped on purpose.
THEOREM CollectionIsComplete == Spec => []NothingIsPassedOver
<1>1. IInv => NothingIsPassedOver
  BY DEF IInv, Collection
<1> QED BY <1>1, Invariance, PTL
=============================================================================
