---------------------------- MODULE MailDelivery ----------------------------
(***************************************************************************)
(* The mail worker of galadril_plugins.utils for one connection: collecting *)
(* an IMAP folder (transport.py), the drafts, approvals and send claims of  *)
(* its SQLite store (store.py), and the operations that move them           *)
(* (service.py).                                                            *)
(*                                                                          *)
(* A file lock admits one process per database and every operation holds    *)
(* the connection's asyncio lock, so `task' is the one operation under way; *)
(* a store method is a transaction, hence a step.  What still interleaves   *)
(* with it: the mail server, a crash, and the store thread of an operation  *)
(* whose HTTP deadline cancelled it, which goes on without the lock (late). *)
(*                                                                          *)
(* Left out: rights (the acting user is the owner), message content, thread *)
(* numbering, tracking, OAuth, ingestion (it can only fail the collection), *)
(* deletion of the connection, policies that answer from another account.   *)
(***************************************************************************)
EXTENDS Integers, FiniteSets, Sequences

CONSTANTS
  Drafts,       \* identifiers uuid4 may draw for drafts
  MaxLetters,   \* bound on the messages of the folder
  None,         \* no draft, no source, no operation
  Window,       \* UIDs searched per folder and poll (4096 in the code)
  Batch,        \* messages collected per folder and poll (25 in the code)
  Unreadable,   \* messages parse_message refuses: too large, too complex
  Unanswerable, \* messages whose sender DraftInput refuses as a recipient
  DailyLimit,   \* ResponseProfile.daily_limit
  Modes,        \* modes of the response profile in use
  Initials,     \* values of initial_sync in use
  Manual,       \* whether users write, approve and send drafts themselves
  MaxRevision,  \* bound on edits of a draft
  MaxSettings,  \* bound on edits of the connection
  MaxValidity,  \* bound on changes of UIDVALIDITY
  MaxProfiles,  \* bound on saves of the response profile
  Days,         \* times a day goes by
  Removals,     \* messages other clients remove from the folder
  Faults        \* failures and crashes

ASSUME MailAssumption ==
  /\ None \notin Drafts \cup Nat
  /\ IsFiniteSet(Drafts)
  /\ MaxLetters \in Nat
  /\ Modes \subseteq {"draft", "approval", "automatic"} /\ Manual \in BOOLEAN
  /\ Initials \subseteq {"all", "new"}
  /\ Window \in Nat \ {0} /\ Batch \in Nat \ {0}
  /\ Unreadable \cup Unanswerable \subseteq 1..MaxLetters
  /\ DailyLimit \in Nat \ {0}
  /\ MaxRevision \in Nat \ {0} /\ MaxSettings \in Nat \ {0}
  /\ MaxValidity \in Nat \ {0}
  /\ MaxProfiles \in Nat /\ Days \in Nat /\ Removals \in Nat /\ Faults \in Nat

VARIABLES
  account,    \* accounts row: revision of the settings, enabled, initial_sync
  profile,    \* its response profile: mode, bound to a pipeline or not, saves
  drafts,     \* drafts row of each identifier, or None
  inbox,      \* the IMAP folder: UIDNEXT - 1, UIDVALIDITY, the UIDs in it
  cursor,     \* cursors row; validity 0 when there is none
  boundary,   \* history_boundaries: UID by validity, -1 when there is none
  rows,       \* messages table in insertion order
  task,       \* the operation that holds the connection's lock, or None
  late,       \* save_draft calls whose caller was cancelled
  wire,       \* for each draft the messages SMTP accepted
  left,       \* days, removals and faults that may still come
  consent,    \* ghost: who approved a draft's current text for the current
              \* settings of the connection: "user", "automation" or "nobody"
  first,      \* ghost: UIDNEXT - 1 when a validity was first selected, or -1
  skip        \* ghost: the UIDs initial_sync = "new" passed over

state == <<account, profile, drafts>>
mail == <<inbox, cursor, boundary, rows, first, skip>>
vars == <<account, profile, drafts, inbox, cursor, boundary, rows, task, late,
          wire, left, consent, first, skip>>

Validities == 1..MaxValidity

\* Message-IDs: the order of arrival, which is also the UID.  A new UIDVALIDITY
\* keeps the order and, here, the numbers: UIDs of two validities are never
\* compared.
Letters == 1..MaxLetters

Claimed == {"sending", "sent", "uncertain"}
Used == {"approved"} \cup Claimed

DraftRows ==
  [revision : 1..MaxRevision,
   status : {"draft", "approved"} \cup Claimed,
   approved : 0..MaxRevision, source : Letters \cup {None}, fresh : BOOLEAN]

ASSUME RowAssumption == None \notin DraftRows

-----------------------------------------------------------------------------
(* The drafts table *)

Exists(d) == drafts[d] # None

\* response_draft, has_response: the draft bound to a source, if any
Responses(l) == {d \in Drafts : Exists(d) /\ drafts[d].source = l}

\* unique index one_response_per_source
Insertable(l) == l # None => Responses(l) = {}

\* uuid4: an identifier no row and no save under way has
Unused == {d \in Drafts : ~Exists(d) /\ \A s \in late : s.draft # d}
NewId == CHOOSE d \in Unused : TRUE

NewDraft(l) ==
  [revision |-> 1, status |-> "draft", approved |-> 0, source |-> l,
   fresh |-> TRUE]

Insert(d, l) == drafts' = [drafts EXCEPT ![d] = NewDraft(l)]

\* save_draft on an existing row: every edit clears the approval
Edited(row) ==
  [row EXCEPT !.revision = @ + 1, !.status = "draft", !.approved = 0]

ApprovedRow(row) == [row EXCEPT !.status = "approved", !.approved = row.revision]

\* approve_automatic: the drafts the daily limit counts
Counted == {d \in Drafts : /\ Exists(d)
                           /\ drafts[d].source # None
                           /\ drafts[d].fresh
                           /\ drafts[d].status \in Used}

\* Mutant: an uncertain delivery may be tried again.
Sendable_Again(d, r) ==
  /\ Exists(d)
  /\ drafts[d].revision = r
  /\ drafts[d].approved = r
  /\ drafts[d].status \in {"approved", "uncertain"}

Sendable(d, r) ==
  /\ Exists(d)
  /\ drafts[d].revision = r
  /\ drafts[d].approved = r
  /\ drafts[d].status = "approved"

\* Mutant: the approvals survive new settings.
Disapproved_Never(row) == row

\* what update does to the drafts of the connection
Disapproved(row) ==
  IF row # None /\ row.status = "approved"
  THEN [row EXCEPT !.status = "draft", !.approved = 0] ELSE row

Approve(d, by) ==
  /\ drafts' = [drafts EXCEPT ![d] = ApprovedRow(@)]
  /\ consent' = [consent EXCEPT ![d] = by]

-----------------------------------------------------------------------------
(* Operations of a user.  Each takes the lock for one transaction. *)

Free == task = None

\* operate: save_draft without an identifier, or generate for a reader
CreateDraft ==
  /\ Free
  /\ Unused # {}
  /\ Insertable(None)
  /\ Insert(NewId, None)
  /\ UNCHANGED <<account, profile, mail, task, late, wire, left, consent>>

\* operate: save_draft with the revision the user saw
EditDraft(d) ==
  /\ Free
  /\ Exists(d)
  /\ drafts[d].status \notin Claimed
  /\ drafts[d].revision < MaxRevision
  /\ drafts' = [drafts EXCEPT ![d] = Edited(@)]
  /\ consent' = [consent EXCEPT ![d] = "nobody"]
  /\ UNCHANGED <<account, profile, mail, task, late, wire, left>>

\* operate: approve
ApproveDraft(d) ==
  /\ Free
  /\ Exists(d)
  /\ drafts[d].status \in {"draft", "approved"}
  /\ Approve(d, "user")
  /\ UNCHANGED <<account, profile, mail, task, late, wire, left>>

\* operate: update; going from "new" to "all" restarts the collection
Update(enabled, initial) ==
  /\ Free
  /\ account.revision < MaxSettings
  /\ account' = [revision |-> account.revision + 1, enabled |-> enabled,
                 initial |-> initial]
  /\ drafts' = [d \in Drafts |-> Disapproved(drafts[d])]
  /\ IF account.initial = "new" /\ initial = "all"
     THEN /\ cursor' = [validity |-> 0, uid |-> 0]
          /\ boundary' = [v \in Validities |-> -1]
          /\ skip' = [validity |-> 0, uid |-> 0]
     ELSE UNCHANGED <<cursor, boundary, skip>>
  /\ consent' = [d \in Drafts |-> "nobody"]
  /\ UNCHANGED <<profile, inbox, rows, first, task, late, wire, left>>

\* operate: save_profile
SaveProfile(mode, piped) ==
  /\ Free
  /\ profile.saves < MaxProfiles
  /\ profile' = [mode |-> mode, piped |-> piped, saves |-> profile.saves + 1]
  /\ UNCHANGED <<account, drafts, mail, task, late, wire, left, consent>>

-----------------------------------------------------------------------------
(* Operations of several steps *)

Begin(kind, pc, l, d, r) ==
  /\ Free
  /\ task' = [kind |-> kind, pc |-> pc, source |-> l, draft |-> d,
              revision |-> r, settings |-> 0, success |-> FALSE,
              validity |-> 0, todo |-> {}, advance |-> 0]

At(pc) == ~Free /\ task.pc = pc
Goto(pc) == task' = [task EXCEPT !.pc = pc]
End == task' = None

\* The steps a task takes after a draft was, or was not, answered.
Conclude == IF task.kind = "send" THEN End ELSE Goto("processed")

\* operate: send
BeginSend(d, r) ==
  /\ Exists(d)
  /\ Begin("send", "credentials", None, d, r)
  /\ UNCHANGED <<state, mail, late, wire, left, consent>>

\* poll, and operate: sync
BeginSync ==
  /\ account.enabled
  /\ Begin("sync", "select", None, None, 0)
  /\ UNCHANGED <<state, mail, late, wire, left, consent>>

LiveRow(l) == \E i \in DOMAIN rows : rows[i].letter = l /\ ~rows[i].historical

\* pipeline_compose and pipeline_decide: a draft for a message, made once
BeginCompose(l) ==
  /\ profile.piped
  /\ LiveRow(l)
  /\ Responses(l) = {}
  /\ Begin("compose", "generate", l, None, 1)
  /\ UNCHANGED <<state, mail, late, wire, left, consent>>

\* pipeline_reply without a draft
BeginReply(l) ==
  /\ profile.piped
  /\ LiveRow(l)
  /\ Responses(l) = {}
  /\ Begin("reply", "generate", l, None, 1)
  /\ UNCHANGED <<state, mail, late, wire, left, consent>>

\* pipeline_reply with the draft pipeline_compose or pipeline_decide returned
BeginReplyDraft(l, d) ==
  /\ profile.piped
  /\ LiveRow(l)
  /\ d \in Responses(l)
  /\ drafts[d].status # "sent"
  /\ Begin("reply", IF profile.mode = "automatic" THEN "approve" ELSE "processed",
           l, d, 1)
  /\ UNCHANGED <<state, mail, late, wire, left, consent>>

-----------------------------------------------------------------------------
(* transport.sync *)

\* Mutant: a changed validity opens no new window.
HistoryBoundary_Once(v, end) ==
  IF boundary[v] # -1 THEN boundary[v]
  ELSE IF cursor.validity = 0 THEN end ELSE 0

\* history_boundary: the mark persisted when a validity is first observed
HistoryBoundary(v, end) ==
  IF boundary[v] # -1 THEN boundary[v]
  ELSE IF cursor.validity # v THEN end ELSE 0

Earliest(uids) == CHOOSE u \in uids : \A w \in uids : u <= w
Latest(uids) == CHOOSE u \in uids : \A w \in uids : w <= u

\* The UIDs searched: at most Window of them, up to UIDNEXT - 1.
WindowEnd(start, last) ==
  IF start + Window - 1 < last THEN start + Window - 1 ELSE last

\* numbers[:25] of what the search found
BatchOf(found) == {u \in found : Cardinality({w \in found : w < u}) < Batch}

\* Mutant: the cursor moves to the end of the window after every batch.
AdvanceTo_End(found, end) == end

\* Past what was left for the next poll the cursor does not move; a window that
\* was exhausted, empty ones included, is passed as a whole.
AdvanceTo(found, end) ==
  IF Cardinality(found) > Batch THEN Latest(BatchOf(found)) ELSE end

Collected ==
  task' = [task EXCEPT !.pc = "pending", !.validity = 0, !.todo = {}, !.advance = 0]

\* select, UIDVALIDITY, UIDNEXT, cursor, history_boundary, search
Select ==
  /\ At("select")
  /\ LET v == inbox.validity
         last == inbox.count          \* UIDNEXT - 1
         start == IF cursor.validity = v THEN cursor.uid + 1 ELSE 1
         end == WindowEnd(start, last)
         found == {u \in inbox.held : start <= u /\ u <= end}
         fresh == cursor.validity = 0 /\ account.initial = "new"
     IN /\ boundary' = [boundary EXCEPT ![v] = HistoryBoundary(v, last)]
        /\ first' = [first EXCEPT ![v] = IF @ = -1 THEN last ELSE @]
        /\ \/ /\ fresh
              /\ task' = [task EXCEPT !.pc = "skip", !.validity = v, !.advance = last]
           \/ ~fresh /\ start > end /\ Collected
           \/ /\ ~fresh /\ start <= end
              /\ task' = [task EXCEPT !.pc = IF found = {} THEN "advance" ELSE "collect",
                                      !.validity = v, !.todo = BatchOf(found),
                                      !.advance = AdvanceTo(found, end)]
  /\ UNCHANGED <<state, inbox, cursor, rows, skip, late, wire, left, consent>>

Advanced(v, u) ==
  [validity |-> v,
   uid |-> IF cursor.validity = v /\ cursor.uid > u THEN cursor.uid ELSE u]

\* initial_sync = "new": advance past what is there
SkipArchive ==
  /\ At("skip")
  /\ cursor' = Advanced(task.validity, task.advance)
  /\ skip' = [validity |-> task.validity, uid |-> task.advance]
  /\ Collected
  /\ UNCHANGED <<state, inbox, boundary, rows, first, late, wire, left, consent>>

Recorded(v, u) == \E i \in DOMAIN rows : rows[i].validity = v /\ rows[i].uid = u

\* The next message of the batch can be fetched and parsed.
Fetched == /\ task.validity = inbox.validity
           /\ Earliest(task.todo) \in inbox.held
           /\ Earliest(task.todo) \notin Unreadable

\* record_message: a row already there keeps its flags; the cursor moves along
Collect ==
  /\ At("collect")
  /\ Fetched
  /\ LET u == Earliest(task.todo)
         old == u <= boundary[task.validity]
     IN /\ rows' = IF Recorded(task.validity, u) THEN rows
                   ELSE Append(rows, [validity |-> task.validity, uid |-> u,
                                      letter |-> u,
                                      historical |-> old, processed |-> old])
        /\ cursor' = Advanced(task.validity, u)
        /\ task' = [task EXCEPT !.pc = IF task.todo = {u} THEN "advance" ELSE "collect",
                                !.todo = @ \ {u}]
  /\ UNCHANGED <<state, inbox, boundary, first, skip, late, wire, left, consent>>

Advance ==
  /\ At("advance")
  /\ cursor' = Advanced(task.validity, task.advance)
  /\ Collected
  /\ UNCHANGED <<state, inbox, boundary, rows, first, skip, late, wire, left, consent>>

\* The folder was renumbered or the message removed under the open session, or
\* the message is refused, as it will be at the next poll.
FetchFails ==
  /\ At("collect")
  /\ ~Fetched
  /\ End
  /\ UNCHANGED <<state, mail, late, wire, left, consent>>

-----------------------------------------------------------------------------
(* sync, after the collection: one answer for each pending message *)

Pending == {i \in DOMAIN rows : ~rows[i].processed}
Oldest == CHOOSE i \in Pending : \A j \in Pending : i <= j

Answers == ~profile.piped /\ profile.mode # "draft"

\* Mutant: the collection does not look for an earlier response.
NextPending_Regenerate ==
  /\ At("pending")
  /\ IF ~Answers \/ Pending = {} THEN End
     ELSE task' = [task EXCEPT !.source = rows[Oldest].letter, !.revision = 1,
                               !.pc = "generate"]
  /\ UNCHANGED <<state, mail, late, wire, left, consent>>

NextPending ==
  /\ At("pending")
  /\ IF ~Answers \/ Pending = {} THEN End
     ELSE LET l == rows[Oldest].letter
          IN task' = [task EXCEPT
               !.source = l, !.revision = 1,
               !.pc = IF Responses(l) = {} THEN "generate" ELSE "processed"]
  /\ UNCHANGED <<state, mail, late, wire, left, consent>>

\* DraftInput accepts the sender as the recipient of the reply.
Addressable == task.source \notin Unanswerable

\* generate: Scribe wrote the reply and save_draft stores it
Generate ==
  /\ At("generate")
  /\ Addressable
  /\ Unused # {}
  /\ Insertable(task.source)
  /\ Insert(NewId, task.source)
  /\ task' = IF task.kind = "compose" THEN None
             ELSE [task EXCEPT !.draft = NewId,
                    !.pc = IF profile.mode = "automatic" THEN "approve"
                           ELSE "processed"]
  /\ UNCHANGED <<account, profile, mail, late, wire, left, consent>>

\* DraftInput raises out of the operation, at every attempt; or a cancelled save
\* committed first, and the unique index rejects this one.
GenerateFails ==
  /\ At("generate")
  /\ ~Addressable \/ Responses(task.source) # {}
  /\ End
  /\ UNCHANGED <<state, mail, late, wire, left, consent>>

\* decide_reply: the model declines
Decline ==
  /\ At("generate")
  /\ task.kind = "compose"
  /\ End
  /\ UNCHANGED <<state, mail, late, wire, left, consent>>

\* The deadline of /pipeline/decide passes while the save is under way.
DecideTimesOut ==
  /\ At("generate")
  /\ task.kind = "compose"
  /\ Addressable
  /\ Unused # {}
  /\ late' = late \cup {[draft |-> NewId, source |-> task.source]}
  /\ End
  /\ UNCHANGED <<state, mail, wire, left, consent>>

LateSave(s) ==
  /\ late' = late \ {s}
  /\ IF Insertable(s.source) THEN Insert(s.draft, s.source)
     ELSE UNCHANGED drafts
  /\ UNCHANGED <<account, profile, mail, task, wire, left, consent>>

CanApprove(d) ==
  /\ drafts[d].status = "draft"
  /\ profile.mode = "automatic"
  /\ Cardinality(Counted) < DailyLimit

\* approve_automatic
ApproveAutomatic ==
  /\ At("approve")
  /\ CanApprove(task.draft)
  /\ Approve(task.draft, "automation")
  /\ Goto("credentials")
  /\ UNCHANGED <<account, profile, mail, late, wire, left>>

\* approve_automatic refuses, for one of these reasons or for the content
RefuseAutomatic ==
  /\ At("approve")
  /\ task' = IF task.kind = "sync" THEN [task EXCEPT !.pc = "processed"] ELSE None
  /\ UNCHANGED <<state, mail, late, wire, left, consent>>

\* processed: the rows of the answered message
Processed ==
  /\ At("processed")
  /\ rows' = [i \in DOMAIN rows |->
                IF \/ task.kind = "sync" /\ i = Oldest
                   \/ task.kind = "reply" /\ rows[i].letter = task.source
                THEN [rows[i] EXCEPT !.processed = TRUE] ELSE rows[i]]
  /\ task' = IF task.kind = "sync"
             THEN [task EXCEPT !.pc = "pending", !.draft = None, !.source = None,
                                !.success = FALSE, !.settings = 0]
             ELSE None
  /\ UNCHANGED <<state, inbox, cursor, boundary, first, skip, late, wire, left,
                 consent>>

-----------------------------------------------------------------------------
(* send *)

\* authorize, credentials, draft, profile
ReadCredentials ==
  /\ At("credentials")
  /\ task' = [task EXCEPT !.settings = account.revision, !.pc = "claim"]
  /\ UNCHANGED <<state, mail, late, wire, left, consent>>

\* claim_send: committed before SMTP is contacted
ClaimSend ==
  /\ At("claim")
  /\ account.enabled
  /\ Sendable(task.draft, task.revision)
  /\ drafts' = [drafts EXCEPT ![task.draft].status = "sending"]
  /\ Goto("transmit")
  /\ UNCHANGED <<account, profile, mail, late, wire, left, consent>>

ClaimRefused ==
  /\ At("claim")
  /\ ~(account.enabled /\ Sendable(task.draft, task.revision))
  /\ End
  /\ UNCHANGED <<state, mail, late, wire, left, consent>>

\* transport.send: SMTP accepts the message or not, and says so or not
Transmit(accepted, heard) ==
  /\ At("transmit")
  /\ heard => accepted
  /\ wire' = IF accepted
             THEN [wire EXCEPT ![task.draft] = Append(@,
                     [by |-> IF task.settings = account.revision
                             THEN consent[task.draft] ELSE "nobody",
                      day |-> left.days])]
             ELSE wire
  /\ task' = [task EXCEPT !.pc = "finish", !.success = heard]
  /\ UNCHANGED <<state, mail, late, left, consent>>

\* finish_send; an uncertain delivery raises out of the operation
FinishSend ==
  /\ At("finish")
  /\ drafts' = [drafts EXCEPT ![task.draft].status =
                  IF @ # "sending" THEN @
                  ELSE IF task.success THEN "sent" ELSE "uncertain"]
  /\ IF task.success THEN Conclude ELSE End
  /\ UNCHANGED <<account, profile, mail, late, wire, left, consent>>

-----------------------------------------------------------------------------
(* The environment *)

\* Any call of the operation raises; send turns a failed transmission into
\* an uncertain one, which is an outcome of Transmit.
Fail ==
  /\ ~Free
  /\ task.pc # "transmit"
  /\ left.faults > 0
  /\ left' = [left EXCEPT !.faults = @ - 1]
  /\ End
  /\ UNCHANGED <<state, mail, late, wire, consent>>

\* The process dies with its threads; the store keeps what was committed.
Crash ==
  /\ ~Free \/ late # {}
  /\ left.faults > 0
  /\ left' = [left EXCEPT !.faults = @ - 1]
  /\ End
  /\ late' = {}
  /\ UNCHANGED <<state, mail, wire, consent>>

Arrive ==
  /\ inbox.count < MaxLetters
  /\ inbox' = [inbox EXCEPT !.count = @ + 1, !.held = @ \cup {inbox.count + 1}]
  /\ UNCHANGED <<state, cursor, boundary, rows, first, skip, task, late, wire,
                 left, consent>>

\* Another client removes a message from the folder: its UID stays unused.
Expunge(u) ==
  /\ u \in inbox.held
  /\ left.removals > 0
  /\ left' = [left EXCEPT !.removals = @ - 1]
  /\ inbox' = [inbox EXCEPT !.held = @ \ {u}]
  /\ UNCHANGED <<state, cursor, boundary, rows, first, skip, task, late, wire,
                 consent>>

\* The server renumbers the folder.
Renumber ==
  /\ inbox.validity < MaxValidity
  /\ inbox' = [inbox EXCEPT !.validity = @ + 1]
  /\ UNCHANGED <<state, cursor, boundary, rows, first, skip, task, late, wire,
                 left, consent>>

\* More than 86400 seconds go by: no draft counts as created today.
DayPasses ==
  /\ Free
  /\ left.days > 0
  /\ left' = [left EXCEPT !.days = @ - 1]
  /\ drafts' = [d \in Drafts |->
                  IF Exists(d) THEN [drafts[d] EXCEPT !.fresh = FALSE] ELSE None]
  /\ UNCHANGED <<account, profile, mail, task, late, wire, consent>>

-----------------------------------------------------------------------------
Init ==
  /\ account \in {[revision |-> 1, enabled |-> TRUE, initial |-> i] :
                    i \in Initials}
  /\ profile \in {[mode |-> m, piped |-> p, saves |-> 0] :
                    m \in Modes, p \in BOOLEAN}
  /\ drafts = [d \in Drafts |-> None]
  /\ inbox = [count |-> 0, validity |-> 1, held |-> {}]
  /\ cursor = [validity |-> 0, uid |-> 0]
  /\ boundary = [v \in Validities |-> -1]
  /\ rows = <<>>
  /\ task = None
  /\ late = {}
  /\ wire = [d \in Drafts |-> <<>>]
  /\ left = [days |-> Days, removals |-> Removals, faults |-> Faults]
  /\ consent = [d \in Drafts |-> "nobody"]
  /\ first = [v \in Validities |-> -1]
  /\ skip = [validity |-> 0, uid |-> 0]

\* The revisions of a draft a user may have seen.
Revisions(d) == IF Exists(d) THEN 1..drafts[d].revision ELSE {}

User ==
  \/ Manual /\ CreateDraft
  \/ Manual /\ \E d \in Drafts : \/ EditDraft(d) \/ ApproveDraft(d)
                                \/ \E r \in Revisions(d) : BeginSend(d, r)
  \/ \E e \in BOOLEAN, i \in Initials : Update(e, i)
  \/ \E m \in Modes, p \in BOOLEAN : SaveProfile(m, p)

Pipeline ==
  \E l \in Letters :
     \/ BeginCompose(l)
     \/ BeginReply(l)
     \/ \E d \in Drafts : BeginReplyDraft(l, d)

Step ==
  \/ Select \/ SkipArchive \/ Collect \/ Advance \/ FetchFails
  \/ NextPending \/ Generate \/ GenerateFails \/ Decline \/ DecideTimesOut
  \/ ApproveAutomatic \/ RefuseAutomatic \/ Processed
  \/ ReadCredentials \/ ClaimSend \/ ClaimRefused
  \/ \E a, h \in BOOLEAN : Transmit(a, h)
  \/ FinishSend

Environment ==
  \/ Fail \/ Crash \/ Renumber \/ DayPasses
  \/ Arrive \/ \E u \in Letters : Expunge(u)

Threads == \E s \in late : LateSave(s)

Next == User \/ Pipeline \/ BeginSync \/ Step \/ Threads \/ Environment

Spec == Init /\ [][Next]_vars

\* The event loop runs the operation that holds the lock, its threads end, the
\* poller keeps polling, and asyncio.Lock serves its waiters in order, so an enabled
\* connection is polled again however often users take the lock.
Fairness == WF_vars(Step) /\ WF_vars(Threads) /\ SF_vars(BeginSync)

FairSpec == Spec /\ Fairness

-----------------------------------------------------------------------------
(* Properties *)

Tasks ==
  [kind : {"send", "sync", "compose", "reply"},
   pc : {"select", "skip", "collect", "advance", "pending", "generate",
         "approve", "processed", "credentials", "claim", "transmit", "finish"},
   source : Letters \cup {None}, draft : Drafts \cup {None},
   revision : 0..MaxRevision, settings : 0..MaxSettings, success : BOOLEAN,
   validity : 0..MaxValidity, todo : SUBSET Letters, advance : 0..MaxLetters]

MessageRows ==
  [validity : Validities, uid : Letters, letter : Letters,
   historical : BOOLEAN, processed : BOOLEAN]

Persons == {"user", "automation", "nobody"}

Cursors == [validity : 0..MaxValidity, uid : 0..MaxLetters]

\* The tables and the operation have their types; a draft is approved exactly
\* at its own revision while it waits, and a claimed one keeps the approval
\* it was claimed under.
TypeOK ==
  /\ account \in [revision : 1..MaxSettings, enabled : BOOLEAN,
                  initial : Initials]
  /\ profile \in [mode : Modes, piped : BOOLEAN, saves : 0..MaxProfiles]
  /\ drafts \in [Drafts -> DraftRows \cup {None}]
  /\ \A d \in Drafts : Exists(d) =>
       drafts[d].approved =
         IF drafts[d].status = "draft" THEN 0 ELSE drafts[d].revision
  /\ inbox \in [count : 0..MaxLetters, validity : Validities, held : SUBSET Letters]
  /\ cursor \in Cursors /\ skip \in Cursors
  /\ boundary \in [Validities -> -1..MaxLetters]
  /\ first \in [Validities -> -1..MaxLetters]
  /\ rows \in Seq(MessageRows)
  /\ task \in Tasks \cup {None}
  /\ late \in SUBSET [draft : Drafts, source : Letters]
  /\ wire \in [Drafts -> Seq([by : Persons, day : 0..Days])]
  /\ left \in [days : 0..Days, removals : 0..Removals, faults : 0..Faults]
  /\ consent \in [Drafts -> Persons]

\* A draft reaches SMTP at most once and a message is answered at most once,
\* whatever crashes, lost SMTP answers, retries by users and replays of the
\* pipeline do, although a renumbered folder lists the message twice and a
\* cancelled call may store its draft after the retry did (claim_send,
\* finish_send, one_response_per_source).
SentAtMostOnce ==
  /\ \A d \in Drafts : Len(wire[d]) <= 1
  /\ \A d, e \in Drafts :
       Exists(d) /\ Exists(e) /\ wire[d] # <<>> /\ wire[e] # <<>>
       /\ drafts[d].source = drafts[e].source /\ drafts[d].source # None => d = e

\* What reaches SMTP is a text that was approved, and approved for the
\* connection settings it is sent with: edits of the draft and of the
\* connection clear approvals (save_draft, update, send).  The signature is not
\* part of that text: send reads it from the profile when it composes.
SentAsApproved ==
  \A d \in Drafts : \A i \in DOMAIN wire[d] : wire[d][i].by # "nobody"

\* A generated reply answers only mail that came after the folder was first
\* seen under some UIDVALIDITY: archives brought by a first collection, a
\* renumbering or a switch to "all" are never answered (history_boundary).
ArchiveIsNotAnswered ==
  \A d \in Drafts : Exists(d) /\ drafts[d].source # None =>
    \E v \in Validities : /\ first[v] # -1
                          /\ drafts[d].source > first[v]

\* The cursor never passes a message of the folder that was not stored: through
\* full, sparse and empty windows, batches, messages removed meanwhile, failures
\* and restarts, but for what "new messages only" skips (sync).
NothingIsPassedOver ==
  \A u \in inbox.held : u <= cursor.uid =>
    \/ Recorded(cursor.validity, u)
    \/ skip.validity = cursor.validity /\ u <= skip.uid

\* The drafts that left by automation on a day.
Automatic(n) ==
  {d \in Drafts : \E i \in DOMAIN wire[d] :
                     wire[d][i] = [by |-> "automation", day |-> n]}

\* No more automatic replies leave within a day than daily_limit allows
\* (approve_automatic).
DailyLimitKept == \A n \in 0..Days : Cardinality(Automatic(n)) <= DailyLimit

\* The collection is stopped at a message that cannot be parsed.
Jammed ==
  \E u \in inbox.held \cap Unreadable :
    ~(cursor.validity = inbox.validity /\ u <= cursor.uid)

\* A reply to this row is refused whenever the collection comes to it.
Refused(i) ==
  rows[i].letter \in Unanswerable /\ Responses(rows[i].letter) = {}

\* A connection that stays enabled and set to answer its mail, and whose folder
\* can be read, gets every stored message off the pending list, although
\* failures, refusals by the mail server, removed messages and uncertain
\* deliveries abandon a collection half way, except for a message that cannot be
\* answered and whatever is pending behind it (sync, poll).
PendingIsWorkedOff ==
  <>[](account.enabled /\ Answers /\ ~Jammed) =>
    []<>(\A i \in Pending : \E j \in Pending : j <= i /\ Refused(j))

\* Without the exceptions: every pending message is worked off.
EveryPendingIsWorkedOff ==
  <>[](account.enabled /\ Answers) => []<>(Pending = {})
=============================================================================
