--------------------- MODULE PengoloGenerationsProofs ---------------------
(***************************************************************************)
(* Proofs about PengoloGenerations, for any number of turns, pieces,       *)
(* sources, retries, edits and faults and pages of any size.               *)
(*                                                                         *)
(* The proofs go through what a step can do, not through the actions one   *)
(* by one: to the record and output of one generation (GenMoves), to the   *)
(* chat (ChatMoves), to a worker and its callbacks (WorkMoves) and to a    *)
(* request (SendMoves).  The inductive invariant comes in four layers,     *)
(* each using the ones before it:                                          *)
(*   Core       the lives of requests, workers and records, revisions,     *)
(*              endings, and whose turn it is;                             *)
(*   Said       what the chat's messages say of its generations;           *)
(*   Delivered  what is stored, acknowledged and on its way;               *)
(*   Watching   what a subscriber has been sent.                           *)
(* What Text computes is shown by taking the least length at which it      *)
(* would be wrong.                                                         *)
(***************************************************************************)
EXTENDS PengoloGenerations, FiniteSetTheorems, SequenceTheorems,
        WellFoundedInduction, TLAPS

\* A request that has not submitted its generation yet.
Early == {"idle", "prepared", "reserved", "noted", "read"}

\* The turn of g is not settled.
Opened(g) == gen[g] # None /\ gen[g].status \in Active

\* Output belongs to a record, a record to a request that reserved it once,
\* a worker to a request that submitted it, a callback to a worker.
Lifecycle ==
    \A g \in Generations :
        /\ gen[g] = None => output[g] = <<>>
        /\ gen[g] # None => sender[g].pc \notin {"idle", "prepared"}
        /\ sender[g].pc \in Early => worker[g].pc = "none" /\ ~sender[g].flying
        /\ sender[g].pc = "waiting" => sender[g].flying
        /\ sender[g].flying => worker[g].pc = "none"
        /\ worker[g].pc = "none" =>
              /\ worker[g] = NoWorker
              /\ \A c \in calls : c.gen # g
              /\ Opened(g) => output[g] = <<>>
        /\ worker[g].pc = "done" => worker[g] = Ended

\* Until the submission only the request itself and one ending write to the
\* record, so its revision tells how far it is: a copy with the revision of
\* the record has its status and its evidence.
Before(g, r, steps) ==
    /\ r.status \in {"pending"} \cup Terminal
    /\ r.rev = steps + IF r.status = "pending" THEN 0 ELSE 1

Revisions ==
    \A g \in Generations :
        /\ gen[g] # None =>
              /\ sender[g].pc = "reserved" => Before(g, gen[g], 1)
              /\ sender[g].pc \in {"noted", "read"} => Before(g, gen[g], 2)
        /\ sender[g].pc = "read" =>
              /\ sender[g].copy # None /\ Before(g, sender[g].copy, 2)
              /\ gen[g] # None =>
                    /\ sender[g].copy.evidence = gen[g].evidence
                    /\ sender[g].copy.status # "pending" =>
                          gen[g].status = sender[g].copy.status

\* The ending is the last event, and the record has its status.
EndsLast ==
    \A g \in Generations : gen[g] # None =>
        /\ \A i \in DOMAIN output[g] :
              Stops(output[g][i].kind) => /\ i = Len(output[g])
                                          /\ gen[g].status = output[g][i].kind
        /\ gen[g].status \in Terminal =>
              output[g] # <<>> /\ output[g][Len(output[g])].kind = gen[g].status

\* Who may come back: a durable chat has its id once, a temporary one comes
\* back under the same id only when all its generations are gone.
Rooms ==
    /\ ~opened => chat = None /\ edit = None /\ \A g \in Generations : gen[g] = None
    /\ temporary /\ chat = None => \A g \in Generations : gen[g] = None
    /\ expired => temporary /\ chat # None
    /\ temporary /\ removing # None =>
          expired /\ \A g \in Generations : gen[g] # None => g \in removing.rows
    /\ edit # None => edits > 0

\* No edit of a temporary chat was begun: its copy may be saved over a later
\* chat with the same id and revision.
Undisturbed == ~temporary \/ edits = 0

\* A copy with the revision of the chat is the chat, except for the project.
EditIsFresh ==
    edit # None /\ chat # None =>
        /\ edit.rev <= chat.rev
        /\ edit.rev = chat.rev =>
              edit.active = chat.active /\ edit.messages = chat.messages

\* The chat and its generations agree on whose turn it is.
Turns == Undisturbed => EditIsFresh /\ ActiveMatches

\* Messages are of turns that were reserved.
SpokenIn(messages) ==
    \A i \in DOMAIN messages :
        sender[messages[i].gen].pc \notin {"idle", "prepared"}

\* What is seen is in the evidence, but for what no tool records.
Upon(seen, evidence) == seen \ Unrecorded \subseteq evidence

\* What a message is based on is in its evidence.
CoveredIn(messages) ==
    \A i \in DOMAIN messages : \A j \in DOMAIN messages[i].text :
        Upon(messages[i].text[j].from, messages[i].evidence)

\* Both hold of the chat and of the copy update_chat works on.
Messages ==
    /\ chat # None => SpokenIn(chat.messages) /\ CoveredIn(chat.messages)
    /\ edit # None => SpokenIn(edit.messages) /\ CoveredIn(edit.messages)

\* One message of this role speaks for g, with this status.
SaysOnce(messages, role, g, text, status) ==
    \E q \in DOMAIN messages :
        /\ messages[q].status = status
        /\ role = "assistant" => messages[q].text = text
        /\ \A i \in DOMAIN messages :
              messages[i].role = role /\ messages[i].gen = g <=> i = q

\* What the messages say of a generation with this status and text.
Told(messages, g, status, text) ==
    IF status \in Active
    THEN /\ SaysOnce(messages, "user", g, text, "pending")
         /\ \A i \in DOMAIN messages :
               ~(messages[i].role = "assistant" /\ messages[i].gen = g)
    ELSE /\ SaysOnce(messages, "user", g, text, status)
         /\ SaysOnce(messages, "assistant", g, text, status)

\* The messages say of every generation what its record says.
Answered ==
    Undisturbed /\ ChatVisible => \A g \in Generations : gen[g] # None =>
        Told(chat.messages, g, gen[g].status, Text(output[g]))

\* What a piece of text on its way is based on is in the record already.
FromIn(pieces, evidence) == \A i \in DOMAIN pieces : Upon(pieces[i].from, evidence)

\* What a request passes on, attachments and history, is among the sources it
\* records first.
Grounded == \A g \in Generations : Upon(sender[g].basis, sender[g].sources)

\* This holds of attachments, of what a worker has seen, of unflushed text,
\* of stored text and of callbacks.
Sourced ==
    /\ \A g \in Generations : gen[g] # None =>
          /\ sender[g].pc \in {"noted", "read"} \/ sender[g].flying =>
                sender[g].sources \subseteq gen[g].evidence
          /\ Upon(worker[g].known, gen[g].evidence)
          /\ FromIn(worker[g].pending, gen[g].evidence)
          /\ FromIn(Text(output[g]), gen[g].evidence)
    /\ \A c \in calls : gen[c.gen] # None => FromIn(c.content, gen[c.gen].evidence)

\* The pieces continue a text of length n.
Continues(pieces, n) == \A i \in DOMAIN pieces : pieces[i].n = n + i

\* Only a content event carries text.
EmptyEnds == \A c \in calls : c.kind # "content" => c.content = <<>>

\* Callbacks are at or behind the position under delivery, and repeat it.
DeliveryOf(w, seq, kind, content) ==
    /\ seq <= w.cursor + 1
    /\ seq = w.cursor + 1 =>
          /\ w.out = None => w.pc = "failing"
          /\ kind = "content" => content = w.pending
          /\ kind = "tool" => w.pending = <<>>

\* How a task and its callbacks agree on what is under delivery.
Delivery ==
    \A g \in Generations : Alive(g) =>
        /\ worker[g].out \in {"tool", "completed", "failed"} => worker[g].pending = <<>>
        /\ worker[g].pc = "start" => worker[g].out = None
        /\ worker[g].pc = "failing" => worker[g].failAt <= worker[g].cursor + 1
        /\ \A c \in calls : c.gen = g => DeliveryOf(worker[g], c.seq, c.kind, c.content)

\* While the turn is open: what is stored is what was acknowledged, and the
\* event under delivery perhaps.
Stored(w, n, text) ==
    /\ n \in {w.cursor, w.cursor + 1}
    /\ n = w.cursor => w.made = text + Len(w.pending) /\ Continues(w.pending, text)
    /\ n = w.cursor + 1 => w.made = text
    /\ w.out = None /\ w.pc \in {"start", "run"} => n = w.cursor

\* An event that would be stored next continues the stored text.
Follows(seq, content, n, text) ==
    seq <= n + 1 /\ (seq = n + 1 => Continues(content, text))

\* An open turn's events can be stored without gap or repetition.
InOrder ==
    \A g \in Generations : Opened(g) =>
        /\ Alive(g) => Stored(worker[g], Len(output[g]), Len(Text(output[g])))
        /\ \A c \in calls : c.gen = g =>
              Follows(c.seq, c.content, Len(output[g]), Len(Text(output[g])))

\* What a subscriber has been sent is the beginning of the output, and the
\* generation it follows is not reserved again.
Replayed ==
    /\ view.gen = None => view.after = 0 /\ view.text = <<>>
    /\ view.gen # None =>
          /\ sender[view.gen].pc \notin {"idle", "prepared"}
          /\ gen[view.gen] # None =>
                /\ view.after <= Len(output[view.gen])
                /\ view.text = Text(SubSeq(output[view.gen], 1, view.after))

\* The snapshot of a settled generation stays true while the page is read.
Snapshot ==
    view.pc = "read" /\ view.status \in Terminal =>
        /\ view.message # None
        /\ view.message.status = view.status
        /\ view.after >= view.sequence => view.text = view.message.text
        /\ gen[view.gen] # None =>
              /\ gen[view.gen].status = view.status
              /\ Len(output[view.gen]) = view.sequence
              /\ view.message.text = Text(output[view.gen])

\* A subscriber is never told an end without the whole text.
Watching == Replayed /\ (Undisturbed => Snapshot /\ ReplayIsComplete)

---------------------------------------------------------------------------
(* Concatenation. *)

LEMMA LeastNumber ==
    ASSUME NEW T, T \subseteq Nat, T # {}
    PROVE  \E n \in T : \A m \in T : n <= m
<1> DEFINE R == {p \in Nat \X Nat : p[1] < p[2]}
<1>1. IsWellFoundedOn(R, Nat)
  BY NatLessThanWellFounded DEF OpToRel
<1>2. \A m, n \in Nat : <<m, n>> \in R <=> m < n
  OBVIOUS
<1> HIDE DEF R
<1>3. PICK n \in T : \A m \in T : ~(<<m, n>> \in R)
  BY <1>1, WFMin
<1>4. \A m \in T : ~(m < n) /\ m \in Nat /\ n \in Nat
  BY <1>2, <1>3
<1>5. \A m \in T : n <= m
  BY <1>4
<1> QED BY <1>5

\* f gives the concatenations of the first elements of seqs.
Concats(f, seqs) ==
    f = [i \in 1..Len(seqs) |-> IF i = 1 THEN seqs[i] ELSE f[i - 1] \o seqs[i]]

LEMMA PrefixesExist ==
    ASSUME NEW S, NEW seqs \in Seq(Seq(S))
    PROVE  \E f \in [1..Len(seqs) -> Seq(S)] : Concats(f, seqs)
<1> DEFINE Step(f, i) == IF i = 1 THEN seqs[i] ELSE f[i - 1] \o seqs[i]
           Good(n) == \E f \in [1..n -> Seq(S)] : \A i \in 1..n : f[i] = Step(f, i)
           T == {n \in 0..Len(seqs) : ~Good(n)}
<1>0. Len(seqs) \in Nat /\ \A i \in 1..Len(seqs) : seqs[i] \in Seq(S)
  OBVIOUS
<1>1. T = {}
  <2> SUFFICES ASSUME T # {} PROVE FALSE
    OBVIOUS
  <2>1. PICK n \in T : \A m \in T : n <= m
    <3>1. T \subseteq Nat
      BY <1>0
    <3> HIDE DEF T
    <3> QED BY <3>1, LeastNumber
  <2>2. n \in 0..Len(seqs) /\ ~Good(n)
    OBVIOUS
  <2>3. Good(0)
    <3> DEFINE f == [i \in 1..0 |-> <<>>]
    <3>1. f \in [1..0 -> Seq(S)] /\ \A i \in 1..0 : f[i] = Step(f, i)
      OBVIOUS
    <3> QED BY <3>1
  <2>4. n # 0 /\ n \in Nat
    <3> HIDE DEF Good
    <3> QED BY <1>0, <2>2, <2>3
  <2>5. Good(n - 1)
    <3> HIDE DEF Good
    <3>1. n - 1 \in 0..Len(seqs) /\ ~(n <= n - 1)
      BY <1>0, <2>2, <2>4
    <3> QED BY <2>1, <3>1
  <2>6. PICK f \in [1..(n - 1) -> Seq(S)] : \A i \in 1..(n - 1) : f[i] = Step(f, i)
    BY <2>5
  <2> DEFINE g == [i \in 1..n |-> IF i = n THEN Step(f, n) ELSE f[i]]
  <2>7. Step(f, n) \in Seq(S)
    <3>1. CASE n = 1
      BY <1>0, <2>2, <3>1
    <3>2. CASE n # 1
      <4>1. f[n - 1] \in Seq(S) /\ seqs[n] \in Seq(S)
        BY <1>0, <2>2, <2>4, <2>6, <3>2
      <4> QED BY <3>2, <4>1
    <3> QED BY <3>1, <3>2
  <2>8. g \in [1..n -> Seq(S)]
    <3>1. \A i \in 1..n : i # n => i \in 1..(n - 1)
      BY <2>4
    <3> HIDE DEF Step
    <3> QED BY <2>6, <2>7, <3>1
  <2>9. ASSUME NEW i \in 1..n PROVE g[i] = Step(g, i)
    <3>1. i # 1 => i - 1 \in 1..(n - 1) /\ g[i - 1] = f[i - 1]
      BY <2>4
    <3>2. Step(g, i) = Step(f, i)
      BY <3>1
    <3>3. i # n => i \in 1..(n - 1)
      BY <2>4
    <3> HIDE DEF Step
    <3> QED BY <2>6, <3>2, <3>3
  <2> QED BY <2>2, <2>8, <2>9
<1>2. Good(Len(seqs))
  <2> HIDE DEF Good
  <2> QED BY <1>0, <1>1
<1>3. PICK f \in [1..Len(seqs) -> Seq(S)] : \A i \in 1..Len(seqs) : f[i] = Step(f, i)
  BY <1>2
<1>4. Concats(f, seqs)
  BY <1>3 DEF Concats
<1> QED BY <1>4

LEMMA PrefixesUnique ==
    ASSUME NEW seqs, Len(seqs) \in Nat, NEW f, NEW g, Concats(f, seqs), Concats(g, seqs)
    PROVE  f = g
<1> DEFINE T == {i \in 1..Len(seqs) : f[i] # g[i]}
<1>1. /\ \A i \in 1..Len(seqs) : f[i] = IF i = 1 THEN seqs[i] ELSE f[i - 1] \o seqs[i]
      /\ \A i \in 1..Len(seqs) : g[i] = IF i = 1 THEN seqs[i] ELSE g[i - 1] \o seqs[i]
  BY DEF Concats
<1>2. T = {}
  <2> SUFFICES ASSUME T # {} PROVE FALSE
    OBVIOUS
  <2>1. PICK n \in T : \A m \in T : n <= m
    <3>1. T \subseteq Nat
      OBVIOUS
    <3> HIDE DEF T
    <3> QED BY <3>1, LeastNumber
  <2>2. n \in 1..Len(seqs) /\ f[n] # g[n]
    OBVIOUS
  <2>3. n # 1
    BY <1>1, <2>2
  <2>4. n - 1 \in 1..Len(seqs) /\ ~(n <= n - 1)
    BY <2>2, <2>3
  <2>5. f[n - 1] = g[n - 1]
    BY <2>1, <2>4
  <2> QED BY <1>1, <2>2, <2>3, <2>5
<1>3. \A i \in 1..Len(seqs) : f[i] = g[i]
  BY <1>2
<1>4. f = [i \in 1..Len(seqs) |-> f[i]] /\ g = [i \in 1..Len(seqs) |-> g[i]]
  BY DEF Concats
<1> QED BY <1>3, <1>4

LEMMA FlattenIs ==
    ASSUME NEW S, NEW seqs \in Seq(Seq(S)), Len(seqs) # 0, NEW f, Concats(f, seqs)
    PROVE  FlattenSeq(seqs) = f[Len(seqs)]
<1> DEFINE F == CHOOSE g : g = [i \in 1..Len(seqs) |->
                                  IF i = 1 THEN seqs[i] ELSE g[i - 1] \o seqs[i]]
<1>1. FlattenSeq(seqs) = F[Len(seqs)]
  BY DEF FlattenSeq
<1>2. F = CHOOSE g : Concats(g, seqs)
  BY DEF Concats
<1>3. Concats(F, seqs)
  BY <1>2
<1> HIDE DEF F
<1>4. F = f
  <2>1. Len(seqs) \in Nat
    OBVIOUS
  <2> QED BY <1>3, <2>1, PrefixesUnique
<1> QED BY <1>1, <1>4

LEMMA FlattenIsSeq ==
    ASSUME NEW S, NEW seqs \in Seq(Seq(S))
    PROVE  FlattenSeq(seqs) \in Seq(S)
<1>1. CASE Len(seqs) = 0
  BY <1>1 DEF FlattenSeq
<1>2. CASE Len(seqs) # 0
  <2>1. PICK f \in [1..Len(seqs) -> Seq(S)] : Concats(f, seqs)
    BY PrefixesExist
  <2>2. FlattenSeq(seqs) = f[Len(seqs)]
    BY <1>2, <2>1, FlattenIs
  <2>3. Len(seqs) \in 1..Len(seqs)
    BY <1>2
  <2> QED BY <2>1, <2>2, <2>3
<1> QED BY <1>1, <1>2

LEMMA FlattenAppend ==
    ASSUME NEW S, NEW seqs \in Seq(Seq(S)), NEW x \in Seq(S)
    PROVE  FlattenSeq(Append(seqs, x)) = FlattenSeq(seqs) \o x
<1> DEFINE n == Len(seqs)
           more == Append(seqs, x)
<1>1. /\ n \in Nat /\ more \in Seq(Seq(S)) /\ Len(more) = n + 1 /\ more[n + 1] = x
      /\ \A i \in 1..n : more[i] = seqs[i]
  OBVIOUS
<1>2. PICK h \in [1..Len(more) -> Seq(S)] : Concats(h, more)
  BY <1>1, PrefixesExist
<1>3. \A i \in 1..(n + 1) : h[i] = IF i = 1 THEN more[i] ELSE h[i - 1] \o more[i]
  BY <1>1, <1>2 DEF Concats
<1> HIDE DEF more
<1>4. FlattenSeq(more) = h[n + 1]
  BY <1>1, <1>2, FlattenIs
<1>5. CASE n = 0
  <2>1. FlattenSeq(seqs) = <<>>
    BY <1>5 DEF FlattenSeq
  <2>2. h[n + 1] = x
    BY <1>1, <1>3, <1>5
  <2>3. <<>> \o x = x
    OBVIOUS
  <2> QED BY <1>4, <2>1, <2>2, <2>3 DEF more
<1>6. CASE n # 0
  <2> DEFINE f == [i \in 1..n |-> h[i]]
  <2>1. Concats(f, seqs)
    <3>1. ASSUME NEW i \in 1..n
          PROVE  h[i] = IF i = 1 THEN seqs[i] ELSE f[i - 1] \o seqs[i]
      <4>1. i \in 1..(n + 1) /\ more[i] = seqs[i]
        BY <1>1
      <4>2. i # 1 => f[i - 1] = h[i - 1]
        BY <1>1
      <4> QED BY <1>3, <4>1, <4>2
    <3> QED BY <3>1 DEF Concats
  <2>2. FlattenSeq(seqs) = f[n]
    BY <1>6, <2>1, FlattenIs
  <2>3. f[n] = h[n]
    BY <1>1, <1>6
  <2>4. h[n + 1] = h[n] \o x
    <3>1. n + 1 \in 1..(n + 1) /\ n + 1 # 1 /\ (n + 1) - 1 = n
      BY <1>1, <1>6
    <3> QED BY <1>1, <1>3, <3>1
  <2> QED BY <1>4, <2>2, <2>3, <2>4 DEF more
<1> QED BY <1>5, <1>6

Contents(events) == [i \in DOMAIN events |-> events[i].content]

LEMMA TextOfNothing == Text(<<>>) = <<>>
<1>1. Contents(<<>>) = <<>>
  BY DEF Contents
<1> QED BY <1>1 DEF Text, Contents, FlattenSeq

LEMMA SeqParts ==
    ASSUME NEW E, NEW s \in Seq(E)
    PROVE  /\ Len(s) \in Nat /\ DOMAIN s = 1..Len(s)
           /\ \A i \in 1..Len(s) : s[i] \in E
OBVIOUS

LEMMA ContentsAre ==
    ASSUME NEW S, NEW K, NEW events \in Seq([kind : K, content : Seq(S)])
    PROVE  /\ Contents(events) \in Seq(Seq(S)) /\ Len(Contents(events)) = Len(events)
           /\ Contents(events) = [i \in 1..Len(events) |-> events[i].content]
<1>1. /\ Len(events) \in Nat /\ DOMAIN events = 1..Len(events)
      /\ \A i \in 1..Len(events) : events[i] \in [kind : K, content : Seq(S)]
  BY SeqParts
<1>2. \A i \in 1..Len(events) : events[i].content \in Seq(S)
  BY <1>1
<1>3. Contents(events) = [i \in 1..Len(events) |-> events[i].content]
  BY <1>1 DEF Contents
<1> QED BY <1>1, <1>2, <1>3

LEMMA TextIsSeq ==
    ASSUME NEW S, NEW K, NEW events \in Seq([kind : K, content : Seq(S)])
    PROVE  Text(events) \in Seq(S)
<1>1. Contents(events) \in Seq(Seq(S))
  BY ContentsAre
<1> QED BY <1>1, FlattenIsSeq DEF Text, Contents

LEMMA TextOfAppend ==
    ASSUME NEW S, NEW K, NEW events \in Seq([kind : K, content : Seq(S)]),
           NEW e \in [kind : K, content : Seq(S)]
    PROVE  Text(Append(events, e)) = Text(events) \o e.content
<1>1. Contents(events) \in Seq(Seq(S)) /\ Len(Contents(events)) = Len(events)
  BY ContentsAre
<1>2. Contents(Append(events, e)) = Append(Contents(events), e.content)
  <2>1. /\ Len(events) \in Nat /\ Len(Append(events, e)) = Len(events) + 1
        /\ Append(events, e)[Len(events) + 1] = e
        /\ \A i \in 1..Len(events) : Append(events, e)[i] = events[i]
        /\ DOMAIN Append(events, e) = 1..(Len(events) + 1) /\ DOMAIN events = 1..Len(events)
    OBVIOUS
  <2>2. Append(Contents(events), e.content) =
           [i \in 1..(Len(events) + 1) |-> IF i = Len(events) + 1 THEN e.content
                                           ELSE Contents(events)[i]]
    BY <1>1
  <2>3. \A i \in 1..Len(events) : Contents(events)[i] = events[i].content
    BY <2>1 DEF Contents
  <2>4. ASSUME NEW i \in 1..(Len(events) + 1)
        PROVE  Append(events, e)[i].content =
                 IF i = Len(events) + 1 THEN e.content ELSE Contents(events)[i]
    BY <2>1, <2>3
  <2>5. Contents(Append(events, e)) =
           [i \in 1..(Len(events) + 1) |-> Append(events, e)[i].content]
    BY <2>1 DEF Contents
  <2> QED BY <2>2, <2>4, <2>5
<1>3. FlattenSeq(Append(Contents(events), e.content)) =
          FlattenSeq(Contents(events)) \o e.content
  BY <1>1, FlattenAppend
<1> QED BY <1>2, <1>3 DEF Text, Contents

---------------------------------------------------------------------------
(* Types. *)

LEMMA Constants ==
    /\ NoSender \in Senders /\ NoWorker \in Tasks /\ Ended \in Tasks
    /\ \A r \in 1..RevisionCap : Bump(r) \in 1..RevisionCap
    /\ 1 \in 1..Attempts /\ 1 \in 0..Attempts /\ 0 \in 0..Attempts
<1>1. NoSender \in Senders
  BY DEF NoSender, Senders
<1>2. NoWorker \in Tasks
  BY PengoloAssumption DEF NoWorker, Tasks
<1>3. Ended \in Tasks
  <2>1. \A w \in Tasks : [w EXCEPT !.pc = "done"] \in Tasks
    BY DEF Tasks
  <2> QED BY <1>2, <2>1 DEF Ended
<1>4. \A r \in 1..RevisionCap : Bump(r) \in 1..RevisionCap
  BY DEF Bump, RevisionCap
<1>5. 1 \in 1..Attempts /\ 1 \in 0..Attempts /\ 0 \in 0..Attempts
  BY PengoloAssumption
<1> QED BY <1>1, <1>2, <1>3, <1>4, <1>5

LEMMA CallType ==
    ASSUME NEW g \in Generations, NEW slot \in {"out", "fail"}, NEW seq \in Nat \ {0},
           NEW kind \in Outs, NEW content \in Seq(Piece), NEW attempt \in 1..Attempts
    PROVE  Call(g, slot, seq, kind, content, attempt) \in Callbacks
BY DEF Call, Callbacks

\* A message of the chat, a chat, and what append makes of it.
LEMMA TextType ==
    ASSUME NEW events \in Seq(Events)
    PROVE  Text(events) \in Seq(Piece)
BY TextIsSeq DEF Events

LEMMA MarkedType ==
    ASSUME NEW g \in Generations, NEW kind \in Terminal, NEW messages \in Seq(Message)
    PROVE  /\ Marked(g, kind, messages) \in Seq(Message)
           /\ Len(Marked(g, kind, messages)) = Len(messages)
<1> DEFINE m == Marked(g, kind, messages)
<1>1. /\ Len(messages) \in Nat /\ DOMAIN messages = 1..Len(messages)
      /\ \A i \in 1..Len(messages) : messages[i] \in Message
  BY SeqParts
<1>2. \A x \in Message : [x EXCEPT !.status = kind] \in Message
  BY DEF Message
<1>3. m \in [1..Len(messages) -> Message]
  BY <1>1, <1>2 DEF Marked
<1> HIDE DEF m
<1>4. m \in Seq(Message)
  BY <1>1, <1>3
<1>5. Len(m) = Len(messages)
  BY <1>1, <1>3
<1> QED BY <1>4, <1>5 DEF m

LEMMA AnswerType ==
    ASSUME TypeOK, NEW g \in Generations, NEW kind \in Terminal, gen[g] # None
    PROVE  Answer(g, kind) \in Message
<1>1. gen[g] \in Records /\ output[g] \in Seq(Events)
  BY DEF TypeOK
<1>2. gen[g].evidence \in SUBSET Evidence
  BY <1>1 DEF Records
<1>3. Text(output[g]) \in Seq(Piece)
  BY <1>1, TextType
<1> QED BY <1>2, <1>3 DEF Answer, Message

LEMMA ChatUpdate ==
    ASSUME NEW c \in Chats, NEW a \in Generations \cup {None}, NEW m \in Seq(Message),
           NEW d,
           d = [rev |-> c.rev + 1, active |-> a, project |-> c.project, messages |-> m]
    PROVE  /\ d \in Chats /\ d.rev = c.rev + 1 /\ d.active = a
           /\ d.messages = m /\ d.project = c.project
<1>1. c.rev + 1 \in Nat /\ c.project \in Projects
  BY DEF Chats
<1> QED BY <1>1 DEF Chats

LEMMA SettleType ==
    ASSUME TypeOK, NEW g \in Generations, NEW kind \in Terminal, chat # None, gen[g] # None
    PROVE  LET d == SettleChat(g, kind)
           IN /\ d \in Chats /\ d.rev = chat.rev + 1 /\ d.active = None
              /\ d.messages = Append(Marked(g, kind, chat.messages), Answer(g, kind))
              /\ d.project = chat.project
<1> DEFINE d == SettleChat(g, kind)
           m == Append(Marked(g, kind, chat.messages), Answer(g, kind))
<1>1. chat \in Chats /\ chat.messages \in Seq(Message)
  BY DEF TypeOK, Chats
<1>2. m \in Seq(Message)
  BY <1>1, MarkedType, AnswerType
<1>3. d = [chat EXCEPT !.rev = @ + 1, !.active = None, !.messages = m]
  BY DEF SettleChat
<1>4. None \in Generations \cup {None}
  OBVIOUS
<1> HIDE DEF d, m
<1>6. d = [rev |-> chat.rev + 1, active |-> None, project |-> chat.project, messages |-> m]
  BY <1>1, <1>3 DEF Chats
<1>5. /\ d \in Chats /\ d.rev = chat.rev + 1 /\ d.active = None
      /\ d.messages = m /\ d.project = chat.project
  BY <1>1, <1>2, <1>4, <1>6, ChatUpdate
<1> QED BY <1>5 DEF d, m

LEMMA WrittenType ==
    ASSUME NEW r \in Records, NEW kind \in {"heartbeat", "content", "tool"} \cup Terminal
    PROVE  LET w == Written(r, kind)
           IN /\ w \in Records /\ w.evidence = r.evidence /\ w.project = r.project
              /\ w.status = IF Stops(kind) THEN kind ELSE "running"
              /\ w.rev = Bump(r.rev) /\ w.leased = TRUE
BY Constants DEF Written, Records, Stops, Active

LEMMA WriteType ==
    ASSUME TypeOK, NEW g \in Generations, gen[g] # None,
           NEW kind \in {"heartbeat", "content", "tool"} \cup Terminal,
           NEW content \in Seq(Piece), Write(g, kind, content)
    PROVE  /\ chat' \in Chats \cup {None} /\ gen' \in [Generations -> Records \cup {None}]
           /\ output' \in [Generations -> Seq(Events)]
           /\ cap' \subseteq Generations /\ leaseRows' \subseteq Generations
           /\ UNCHANGED <<expired, opened>>
<1>1. gen[g] \in Records /\ output[g] \in Seq(Events)
  BY DEF TypeOK
<1>2. Written(gen[g], kind) \in Records
  BY <1>1, WrittenType
<1>4. gen' \in [Generations -> Records \cup {None}]
  BY <1>2 DEF TypeOK, Write
<1>5. output' \in [Generations -> Seq(Events)]
  <2>1. CASE kind = "heartbeat"
    BY <2>1 DEF Write, TypeOK
  <2>2. CASE kind # "heartbeat"
    <3>1. [kind |-> kind, content |-> content] \in Events
      BY <2>2 DEF Events, Terminal
    <3>2. Append(output[g], [kind |-> kind, content |-> content]) \in Seq(Events)
      BY <1>1, <3>1
    <3>3. output' = [output EXCEPT ![g] = Append(@, [kind |-> kind, content |-> content])]
      BY <2>2 DEF Write
    <3> QED BY <3>2, <3>3 DEF TypeOK
  <2> QED BY <2>1, <2>2
<1>6. chat' \in Chats \cup {None}
  <2>1. CASE Stops(kind) /\ ChatVisible
    BY <2>1, SettleType DEF Write, Stops, ChatVisible
  <2>2. CASE ~(Stops(kind) /\ ChatVisible)
    BY <2>2 DEF Write, TypeOK
  <2> QED BY <2>1, <2>2
<1> QED BY <1>4, <1>5, <1>6 DEF Write, TypeOK

\* What the shapes of the records need to be kept: a copy that is saved was
\* read, a failure has a position, a page is read of a generation.
Shapes ==
    /\ TypeOK
    /\ \A g \in Generations :
          /\ sender[g].pc = "read" => sender[g].copy # None
          /\ worker[g].pc = "failing" => worker[g].failAt # 0
    /\ view.pc = "read" => view.gen # None

LEMMA ReservedChat ==
    ASSUME TypeOK, NEW g \in Generations, Reserve(g)
    PROVE  /\ Base \in Chats /\ Question(g) \in Message
           /\ chat' \in Chats /\ chat'.rev = Base.rev + 1 /\ chat'.active = g
           /\ chat'.messages = Append(Base.messages, Question(g))
           /\ chat'.project = Base.project
<1> DEFINE m == Append(Base.messages, Question(g))
           b == Base
<1>1. b \in Chats
  BY PengoloAssumption DEF TypeOK, Base, Chats
<1>2. Question(g) \in Message
  BY DEF Question, Message, Active
<1>3. m \in Seq(Message)
  BY <1>1, <1>2 DEF Chats
<1>4. chat' = [b EXCEPT !.rev = b.rev + 1, !.active = g, !.messages = m]
  BY DEF Reserve
<1> HIDE DEF m, b
<1>5. chat' = [rev |-> b.rev + 1, active |-> g, project |-> b.project, messages |-> m]
  BY <1>1, <1>4 DEF Chats
<1>6. /\ chat' \in Chats /\ chat'.rev = b.rev + 1 /\ chat'.active = g
      /\ chat'.messages = m /\ chat'.project = b.project
  BY <1>1, <1>3, <1>5, ChatUpdate
<1> QED BY <1>1, <1>2, <1>6 DEF m, b

LEMMA PastMessages ==
    ASSUME TypeOK, NEW m \in Past
    PROVE  /\ m \in Message /\ chat # None
           /\ \E i \in DOMAIN chat.messages : m = chat.messages[i]
<1>1. ChatVisible /\ m \in Range(chat.messages)
  BY DEF Past
<1>2. chat.messages \in Seq(Message)
  BY <1>1 DEF TypeOK, Chats, ChatVisible
<1> QED BY <1>1, <1>2 DEF Range, ChatVisible

LEMMA HistoryType ==
    ASSUME TypeOK
    PROVE  History \subseteq Evidence /\ Basis \subseteq Evidence
<1>1. ASSUME NEW m \in Past
      PROVE  /\ m.evidence \subseteq Evidence
             /\ \A p \in Range(m.text) : p.from \subseteq Evidence
  <2>1. m.text \in Seq(Piece) /\ m.evidence \subseteq Evidence
    BY PastMessages DEF Message
  <2>2. \A p \in Range(m.text) : p \in Piece
    BY <2>1 DEF Range
  <2> QED BY <2>1, <2>2 DEF Piece
<1> QED BY <1>1 DEF History, Basis

\* The steps of a request.
LEMMA QuitType ==
    ASSUME TypeOK, NEW g \in Generations, Quit(g)
    PROVE  sender' \in [Generations -> Senders]
<1> DEFINE s == [NoSender EXCEPT !.pc = "done", !.flying = sender[g].flying,
                   !.sources = IF sender[g].flying THEN sender[g].sources ELSE {},
                   !.basis = IF sender[g].flying THEN sender[g].basis ELSE {}]
<1>1. sender[g] \in Senders
  BY DEF TypeOK
<1>2. s \in Senders
  BY <1>1 DEF Senders, NoSender
<1>3. sender' = [sender EXCEPT ![g] = s]
  BY DEF Quit
<1> HIDE DEF s
<1> QED BY <1>2, <1>3 DEF TypeOK

LEMMA EvidenceType ==
    ASSUME TypeOK, NEW g \in Generations, gen[g] # None,
           NEW sources \in SUBSET Evidence, AddEvidence(g, sources)
    PROVE  gen' \in [Generations -> Records \cup {None}]
<1>1. gen[g] \in Records
  BY DEF TypeOK
<1> DEFINE r == [gen[g] EXCEPT !.evidence = gen[g].evidence \cup sources,
                               !.rev = Bump(gen[g].rev)]
<1>2. r \in Records
  BY <1>1, Constants DEF Records
<1>3. gen' = [gen EXCEPT ![g] = r]
  BY DEF AddEvidence, TypeOK
<1> HIDE DEF r
<1> QED BY <1>2, <1>3 DEF TypeOK

LEMMA SendingType ==
    ASSUME Shapes, NEW g \in Generations, Sending(g)
    PROVE  TypeOK'
<1> USE DEF store
<1>a. TypeOK
  BY DEF Shapes
<1>0. sender[g] \in Senders /\ g \in Evidence /\ gen[g] \in Records \cup {None}
  BY <1>a DEF TypeOK, Evidence
<1>1. CASE Prepare(g)
  <2>1. sender' \in [Generations -> Senders]
    <3> DEFINE s == History \cup {g}
               b == Basis \cup {g}
    <3>1. s \in SUBSET Evidence /\ b \in SUBSET Evidence
      BY <1>a, <1>0, HistoryType
    <3>2. sender' = [sender EXCEPT ![g].pc = "prepared", ![g].sources = s, ![g].basis = b]
      BY <1>1 DEF Prepare
    <3> HIDE DEF s, b
    <3>3. [sender[g] EXCEPT !.pc = "prepared", !.sources = s, !.basis = b] \in Senders
      BY <1>0, <3>1 DEF Senders
    <3> QED BY <1>a, <3>2, <3>3 DEF TypeOK
  <2> QED BY <1>a, <1>1, <2>1 DEF Prepare, TypeOK
<1>2. CASE Reserve(g)
  <2>1. sender' \in [Generations -> Senders]
    BY <1>a, <1>0, <1>2 DEF Reserve, Senders, TypeOK
  <2>2. Base.project \in Projects
    BY <1>a, <1>2, ReservedChat DEF Chats
  <2>3. [status |-> "pending", evidence |-> {}, leased |-> TRUE, rev |-> 1,
         project |-> Base.project, authorized |-> FALSE] \in Records
    BY <2>2 DEF Records, RevisionCap, Active
  <2>4. gen' \in [Generations -> Records \cup {None}]
    BY <1>a, <1>2, <2>3 DEF Reserve, TypeOK
  <2>5. chat' \in Chats \cup {None}
    BY <1>a, <1>2, ReservedChat
  <2> QED BY <1>a, <1>2, <2>1, <2>4, <2>5 DEF Reserve, RegisterLease, TypeOK
<1>3. CASE ReserveRefused(g)
  <2>1. sender' \in [Generations -> Senders]
    BY <1>a, <1>3, Constants DEF ReserveRefused, TypeOK
  <2> QED BY <1>a, <1>3, <2>1 DEF ReserveRefused, TypeOK
<1>4. CASE RecordInput(g)
  <2>1. sender' \in [Generations -> Senders]
    <3>1. [sender[g] EXCEPT !.pc = "noted"] \in Senders
      BY <1>a, <1>0 DEF Senders
    <3>2. CASE Visible(g)
      BY <1>a, <1>4, <3>1, <3>2 DEF RecordInput, TypeOK
    <3>3. CASE ~Visible(g)
      BY <1>a, <1>4, <3>3, QuitType DEF RecordInput
    <3> QED BY <3>2, <3>3
  <2>2. sender[g].sources \in SUBSET Evidence
    BY <1>a, <1>0 DEF Senders
  <2>3. gen' \in [Generations -> Records \cup {None}]
    BY <1>a, <1>4, <2>2, EvidenceType DEF RecordInput, Visible, TypeOK
  <2> QED BY <1>a, <1>4, <2>1, <2>3 DEF RecordInput, TypeOK
<1>5. CASE ReadAuthorization(g)
  <2>1. sender' \in [Generations -> Senders]
    <3>1. gen[g] \in Records => [sender[g] EXCEPT !.pc = "read", !.copy = gen[g]] \in Senders
      BY <1>a, <1>0 DEF Senders
    <3>2. CASE Visible(g)
      BY <1>a, <1>0, <1>5, <3>1, <3>2 DEF ReadAuthorization, TypeOK, Visible
    <3>3. CASE ~Visible(g)
      BY <1>a, <1>5, <3>3, QuitType DEF ReadAuthorization
    <3> QED BY <3>2, <3>3
  <2> QED BY <1>a, <1>5, <2>1 DEF ReadAuthorization, TypeOK
<1>6. CASE SaveAuthorization(g)
  <2>1. sender' \in [Generations -> Senders]
    <3>1. [sender[g] EXCEPT !.pc = "waiting", !.copy = None, !.flying = TRUE] \in Senders
      BY <1>a, <1>0 DEF Senders
    <3>2. CASE Unchanged(g)
      BY <1>a, <1>6, <3>1, <3>2 DEF SaveAuthorization, TypeOK
    <3>3. CASE ~Unchanged(g)
      BY <1>a, <1>6, <3>3, QuitType DEF SaveAuthorization
    <3> QED BY <3>2, <3>3
  <2>2. gen' \in [Generations -> Records \cup {None}]
    <3>1. CASE Unchanged(g)
      <4>1. sender[g].copy \in Records /\ gen[g] \in Records
        BY <1>a, <1>0, <1>6, <3>1 DEF Senders, Shapes, SaveAuthorization, Unchanged
      <4>2. [sender[g].copy EXCEPT !.authorized = TRUE, !.rev = Bump(sender[g].copy.rev),
                                   !.leased = gen[g].leased] \in Records
        BY <4>1, Constants DEF Records
      <4> QED BY <1>a, <1>6, <3>1, <4>2 DEF SaveAuthorization, TypeOK
    <3>2. CASE ~Unchanged(g)
      BY <1>a, <1>6, <3>2 DEF SaveAuthorization, TypeOK
    <3> QED BY <3>1, <3>2
  <2> QED BY <1>a, <1>6, <2>1, <2>2 DEF SaveAuthorization, TypeOK
<1>7. CASE Refused(g)
  <2>1. sender' \in [Generations -> Senders]
    <3>1. PICK late, taken \in BOOLEAN :
            sender' = [sender EXCEPT ![g].pc = "refused", ![g].flying = late /\ ~taken]
      BY <1>a, <1>7 DEF Refused
    <3>2. [sender[g] EXCEPT !.pc = "refused", !.flying = late /\ ~taken] \in Senders
      BY <1>a, <1>0 DEF Senders
    <3> QED BY <1>a, <3>1, <3>2 DEF TypeOK
  <2>2. Started(g) \in Tasks
    BY <1>a, <1>0, Constants DEF Started, Tasks, Senders
  <2>3. worker' \in [Generations -> Tasks]
    BY <1>a, <1>7, <2>2 DEF Refused, TypeOK
  <2> QED BY <1>a, <1>7, <2>1, <2>3, PengoloAssumption DEF Refused, TypeOK, Fault
<1>8. CASE FailSubmission(g)
  <2>1. sender' \in [Generations -> Senders]
    BY <1>a, <1>8, QuitType DEF FailSubmission
  <2>2. CASE Visible(g) /\ gen[g].status \in Active
    <3>1. "failed" \in Terminal /\ <<>> \in Seq(Piece)
      BY DEF Terminal
    <3> QED BY <1>a, <1>8, <2>1, <2>2, <3>1, WriteType DEF FailSubmission, TypeOK, Visible
  <2>3. CASE ~(Visible(g) /\ gen[g].status \in Active)
    BY <1>a, <1>8, <2>1, <2>3 DEF FailSubmission, TypeOK
  <2> QED BY <2>2, <2>3
<1>9. CASE Abandon(g)
  BY <1>a, <1>9, QuitType, PengoloAssumption DEF Abandon, TypeOK, Fault
<1> QED BY <1>1, <1>2, <1>3, <1>4, <1>5, <1>6, <1>7, <1>8, <1>9 DEF Sending

\* The steps of a worker.
LEMMA TaskFields ==
    ASSUME NEW w \in Tasks
    PROVE  /\ w.cursor \in Nat /\ w.cursor + 1 \in Nat \ {0} /\ w.made \in 0..Pieces
           /\ w.pending \in Seq(Piece) /\ w.out \in Outs \cup {None}
           /\ w.tries \in 0..Attempts /\ w.failAt \in Nat /\ w.failTries \in 0..Attempts
           /\ w.known \in SUBSET Evidence /\ w.tool \in Tools \cup {None}
BY DEF Tasks

LEMMA FailureType ==
    ASSUME TypeOK, NEW g \in Generations, NEW w \in Tasks, NEW others \in SUBSET Callbacks,
           PostFailure(g, w, others)
    PROVE  worker' \in [Generations -> Tasks] /\ calls' \subseteq Callbacks
<1>1. /\ w.cursor + 1 \in Nat \ {0} /\ 1 \in 1..Attempts /\ 1 \in 0..Attempts
      /\ "failed" \in Outs /\ <<>> \in Seq(Piece)
  BY TaskFields, Constants DEF Outs
<1>2. [w EXCEPT !.pc = "failing", !.failAt = w.cursor + 1, !.failTries = 1] \in Tasks
  BY <1>1 DEF Tasks
<1>3. Call(g, "fail", w.cursor + 1, "failed", <<>>, 1) \in Callbacks
  BY <1>1, CallType
<1> QED BY <1>2, <1>3 DEF PostFailure, TypeOK

LEMMA EndType ==
    ASSUME TypeOK, NEW g \in Generations, NEW others \in SUBSET Callbacks, End(g, others)
    PROVE  worker' \in [Generations -> Tasks] /\ calls' \subseteq Callbacks
BY Constants DEF End, TypeOK

LEMMA RaiseType ==
    ASSUME TypeOK, NEW g \in Generations, NEW others \in SUBSET Callbacks, Raise(g, others)
    PROVE  worker' \in [Generations -> Tasks] /\ calls' \subseteq Callbacks
<1>1. worker[g] \in Tasks
  BY DEF TypeOK
<1>2. [worker[g] EXCEPT !.out = None, !.tries = 0] \in Tasks
  BY <1>1, Constants DEF Tasks
<1> QED BY <1>2, FailureType, EndType DEF Raise

LEMMA PostType ==
    ASSUME TypeOK, NEW g \in Generations, NEW kind \in Outs, NEW content \in Seq(Piece),
           NEW pc \in {"run", "closing", "failing"}, Post(g, kind, content, pc)
    PROVE  worker' \in [Generations -> Tasks] /\ calls' \subseteq Callbacks
<1>1. worker[g] \in Tasks
  BY DEF TypeOK
<1>2. [worker[g] EXCEPT !.out = kind, !.tries = 1, !.pc = pc] \in Tasks
  BY <1>1, Constants DEF Tasks
<1>3. Call(g, "out", worker[g].cursor + 1, kind, content, 1) \in Callbacks
  BY <1>1, TaskFields, Constants, CallType
<1> QED BY <1>2, <1>3 DEF Post, TypeOK

LEMMA RetryType ==
    ASSUME TypeOK, NEW g \in Generations, Retry(g)
    PROVE  worker' \in [Generations -> Tasks] /\ calls' \subseteq Callbacks
<1> DEFINE w == worker[g]
           content == IF w.out = "content" THEN w.pending ELSE <<>>
<1>1. w \in Tasks /\ calls \in SUBSET Callbacks
  BY DEF TypeOK
<1>2. CASE Again(w.tries) /\ worker' = [worker EXCEPT ![g].tries = @ + 1]
           /\ calls' = calls \cup {Call(g, "out", w.cursor + 1, w.out, content, w.tries + 1)}
  <2>1. w.tries + 1 \in 1..Attempts /\ w.tries + 1 \in 0..Attempts
    BY <1>1, <1>2, TaskFields, PengoloAssumption DEF Again
  <2>2. w.out \in Outs /\ content \in Seq(Piece) /\ w.cursor + 1 \in Nat \ {0}
    BY <1>1, TaskFields DEF Retry
  <2>3. [w EXCEPT !.tries = w.tries + 1] \in Tasks
    BY <1>1, <2>1 DEF Tasks
  <2> HIDE DEF content
  <2>4. Call(g, "out", w.cursor + 1, w.out, content, w.tries + 1) \in Callbacks
    BY <2>1, <2>2, CallType
  <2> QED BY <1>1, <1>2, <2>3, <2>4 DEF TypeOK
<1>3. CASE Raise(g, calls)
  BY <1>1, <1>3, RaiseType
<1> QED BY <1>2, <1>3 DEF Retry

LEMMA RetryFailureType ==
    ASSUME Shapes, NEW g \in Generations, RetryFailure(g)
    PROVE  worker' \in [Generations -> Tasks] /\ calls' \subseteq Callbacks
<1> DEFINE w == worker[g]
<1>1. TypeOK /\ w \in Tasks /\ calls \in SUBSET Callbacks
  BY DEF Shapes, TypeOK
<1>2. CASE Again(w.failTries)
  <2>1. w.failTries + 1 \in 1..Attempts /\ w.failTries + 1 \in 0..Attempts
    BY <1>1, <1>2, TaskFields, PengoloAssumption DEF Again
  <2>2. w.failAt \in Nat \ {0} /\ "failed" \in Outs /\ <<>> \in Seq(Piece)
    BY <1>1, TaskFields DEF RetryFailure, Shapes, Outs
  <2>3. [w EXCEPT !.failTries = w.failTries + 1] \in Tasks
    BY <1>1, <2>1 DEF Tasks
  <2>4. Call(g, "fail", w.failAt, "failed", <<>>, w.failTries + 1) \in Callbacks
    BY <2>1, <2>2, CallType
  <2> QED BY <1>1, <1>2, <2>3, <2>4 DEF TypeOK, RetryFailure
<1>3. CASE ~Again(w.failTries)
  BY <1>1, <1>3, EndType DEF RetryFailure
<1> QED BY <1>2, <1>3

LEMMA WorkerOnlyType ==
    ASSUME TypeOK, WorkerOnly, Fault \/ UNCHANGED faults,
           worker' \in [Generations -> Tasks], calls' \subseteq Callbacks
    PROVE  TypeOK'
BY PengoloAssumption DEF TypeOK, WorkerOnly, store, Fault

LEMMA WorkingType ==
    ASSUME Shapes, NEW g \in Generations, Working(g)
    PROVE  TypeOK'
<1> DEFINE w == worker[g]
<1>0. TypeOK /\ w \in Tasks /\ calls \in SUBSET Callbacks /\ sender[g] \in Senders
  BY DEF Shapes, TypeOK
<1>1. CASE Submitted(g)
  <2>1. Started(g) \in Tasks
    BY <1>0, Constants DEF Started, Tasks, Senders
  <2>2. [sender[g] EXCEPT !.flying = FALSE,
            !.pc = IF sender[g].pc = "waiting" THEN "done" ELSE sender[g].pc,
            !.sources = {}, !.basis = {}] \in Senders
    BY <1>0 DEF Senders
  <2>3. sender' \in [Generations -> Senders] /\ worker' \in [Generations -> Tasks]
    BY <1>0, <1>1, <2>1, <2>2 DEF Submitted, TypeOK
  <2> QED BY <1>0, <1>1, <2>3 DEF Submitted, TypeOK, store
<1>2. CASE Beat(g)
  <2>1. [w EXCEPT !.pc = IF w.pc = "start" THEN "run" ELSE w.pc] \in Tasks
    BY <1>0 DEF Tasks
  <2>2. worker' \in [Generations -> Tasks]
    BY <1>0, <1>2, <2>1 DEF Beat, TypeOK
  <2>3. gen[g] # None /\ <<>> \in Seq(Piece)
    BY <1>2 DEF Beat, Resolved, Authorized, Visible
  <2> QED BY <1>0, <1>2, <2>2, <2>3, WriteType DEF Beat, TypeOK
<1>3. CASE EmitContent(g)
  <2>1. w.made + 1 \in 0..Pieces /\ w.made + 1 \in 1..Pieces
    BY <1>0, <1>3, TaskFields, PengoloAssumption DEF EmitContent
  <2> DEFINE p == Append(w.pending, [n |-> w.made + 1, from |-> w.known])
  <2>2. p \in Seq(Piece)
    <3>1. w.pending \in Seq(Piece) /\ w.known \in SUBSET Evidence
      BY <1>0, TaskFields
    <3>2. [n |-> w.made + 1, from |-> w.known] \in Piece
      BY <2>1, <3>1 DEF Piece
    <3> QED BY <3>1, <3>2
  <2>3. worker' = [worker EXCEPT ![g].made = w.made + 1, ![g].pending = p]
    BY <1>0, <1>3 DEF EmitContent, TypeOK
  <2> HIDE DEF p
  <2>4. [w EXCEPT !.made = w.made + 1, !.pending = p] \in Tasks
    BY <1>0, <2>1, <2>2 DEF Tasks
  <2>5. worker' \in [Generations -> Tasks]
    BY <1>0, <2>3, <2>4 DEF TypeOK
  <2> QED BY <1>0, <1>3, <2>5, WorkerOnlyType DEF EmitContent
<1>4. CASE Flush(g)
  <2>1. w.pc \in {"run", "failing"} /\ w.pending \in Seq(Piece) /\ "content" \in Outs
    BY <1>0, <1>4, TaskFields DEF Flush, Outs
  <2>2. worker' \in [Generations -> Tasks] /\ calls' \subseteq Callbacks
    BY <1>0, <1>4, <2>1, PostType DEF Flush
  <2> QED BY <1>0, <1>4, <2>2, WorkerOnlyType DEF Flush
<1>5. CASE EmitEnd(g)
  <2>1. PICK kind \in {"completed", "failed"} : Post(g, kind, <<>>, "closing")
    BY <1>5 DEF EmitEnd
  <2>2. kind \in Outs /\ <<>> \in Seq(Piece)
    BY DEF Outs
  <2>3. worker' \in [Generations -> Tasks] /\ calls' \subseteq Callbacks
    BY <1>0, <2>1, <2>2, PostType
  <2> QED BY <1>0, <1>5, <2>3, WorkerOnlyType DEF EmitEnd
<1>6. CASE StreamRaises(g)
  BY <1>0, <1>6, FailureType, WorkerOnlyType DEF StreamRaises
<1>7. CASE Retry(g)
  BY <1>0, <1>7, RetryType, WorkerOnlyType DEF Retry
<1>8. CASE RetryFailure(g)
  BY <1>0, <1>8, RetryFailureType, WorkerOnlyType DEF RetryFailure
<1>9. CASE WorkerStop(g)
  BY <1>0, <1>9, EndType, WorkerOnlyType DEF WorkerStop
<1>10. CASE ToolCall(g)
  <2>1. PICK s \in Sources \ w.known :
          worker' = [worker EXCEPT ![g].out = "tool", ![g].tries = 1,
                        ![g].tool = [source |-> s, resolved |-> FALSE]]
    BY <1>10 DEF ToolCall
  <2>2. /\ [source |-> s, resolved |-> FALSE] \in Tools /\ "tool" \in Outs
        /\ <<>> \in Seq(Piece)
    BY DEF Tools, Outs
  <2>3. [w EXCEPT !.out = "tool", !.tries = 1,
                  !.tool = [source |-> s, resolved |-> FALSE]] \in Tasks
    BY <1>0, <2>2, Constants DEF Tasks
  <2>4. worker' \in [Generations -> Tasks]
    BY <1>0, <2>1, <2>3 DEF TypeOK
  <2>5. Call(g, "out", w.cursor + 1, "tool", <<>>, 1) \in Callbacks
    BY <1>0, <2>2, TaskFields, Constants, CallType
  <2>6. calls' \subseteq Callbacks
    BY <1>0, <1>10, <2>5 DEF ToolCall
  <2> QED BY <1>0, <1>10, <2>4, <2>6, WorkerOnlyType DEF ToolCall
<1>11. CASE ToolResolve(g)
  <2> DEFINE t == IF Resolved(g) THEN [w.tool EXCEPT !.resolved = TRUE] ELSE None
  <2>1. t \in Tools \cup {None}
    BY <1>0, <1>11, TaskFields DEF ToolResolve, Tools
  <2>2. worker' = [worker EXCEPT ![g].tool = t]
    BY <1>11 DEF ToolResolve
  <2> HIDE DEF t
  <2>3. [w EXCEPT !.tool = t] \in Tasks
    BY <1>0, <2>1 DEF Tasks
  <2>4. worker' \in [Generations -> Tasks]
    BY <1>0, <2>2, <2>3 DEF TypeOK
  <2> QED BY <1>0, <1>11, <2>4, WorkerOnlyType DEF ToolResolve
<1>12. CASE ToolResult(g)
  <2>1. w.tool \in Tools /\ w.tool.source \in Evidence
    BY <1>0, <1>12, TaskFields DEF ToolResult, Tools, Evidence
  <2>2. /\ [w EXCEPT !.tool = None] \in Tasks
        /\ [w EXCEPT !.tool = None, !.known = w.known \cup {w.tool.source}] \in Tasks
    BY <1>0, <2>1 DEF Tasks
  <2>3. worker' \in [Generations -> Tasks]
    BY <1>0, <1>12, <2>2 DEF ToolResult, TypeOK
  <2>4. gen' \in [Generations -> Records \cup {None}]
    <3>1. CASE Visible(g)
      BY <1>0, <1>12, <2>1, <3>1, EvidenceType DEF ToolResult, Visible
    <3>2. CASE ~Visible(g)
      BY <1>0, <1>12, <3>2 DEF ToolResult, TypeOK
    <3> QED BY <3>1, <3>2
  <2> QED BY <1>0, <1>12, <2>3, <2>4 DEF ToolResult, TypeOK
<1>13. CASE UnrecordedResult(g)
  <2>1. w.tool \in Tools /\ w.tool.source \in Evidence
    BY <1>0, <1>13, TaskFields DEF UnrecordedResult, Tools, Evidence
  <2>2. [w EXCEPT !.tool = None, !.known = w.known \cup {w.tool.source}] \in Tasks
    BY <1>0, <2>1 DEF Tasks
  <2>3. worker' \in [Generations -> Tasks]
    BY <1>0, <1>13, <2>2 DEF UnrecordedResult, TypeOK
  <2> QED BY <1>0, <1>13, <2>3, WorkerOnlyType DEF UnrecordedResult
<1> QED BY <1>1, <1>2, <1>3, <1>4, <1>5, <1>6, <1>7, <1>8, <1>9, <1>10, <1>11, <1>12, <1>13
        DEF Working

\* The callbacks.
LEMMA ReplyType ==
    ASSUME TypeOK, NEW c \in calls, NEW accepted \in BOOLEAN, Reply(c, accepted)
    PROVE  /\ worker' \in [Generations -> Tasks] /\ calls' \subseteq Callbacks
           /\ Fault \/ UNCHANGED faults
<1>1. c \in Callbacks /\ c.gen \in Generations /\ calls \ {c} \in SUBSET Callbacks
  BY DEF TypeOK, Callbacks
<1> DEFINE w == worker[c.gen]
<1>2. w \in Tasks
  BY <1>1 DEF TypeOK
<1>7. Fault \/ UNCHANGED faults
  BY DEF Reply
<1> SUFFICES worker' \in [Generations -> Tasks] /\ calls' \subseteq Callbacks
  BY <1>7
<1>3. CASE Acknowledge(c) /\ calls' = calls \ {c}
  <2>1. w.cursor + 1 \in Nat /\ <<>> \in Seq(Piece)
    BY <1>2, TaskFields
  <2>2. Acknowledged(w, c) \in Tasks
    BY <1>2, <2>1, Constants DEF Acknowledged, Tasks
  <2> QED BY <1>1, <1>3, <2>2 DEF Acknowledge, TypeOK
<1>4. CASE End(c.gen, calls \ {c})
  BY <1>1, <1>4, EndType
<1>5. CASE Raise(c.gen, calls \ {c})
  BY <1>1, <1>5, RaiseType
<1>6. CASE UNCHANGED worker /\ calls' = calls \ {c}
  BY <1>1, <1>6 DEF TypeOK
<1> QED BY <1>3, <1>4, <1>5, <1>6 DEF Reply

LEMMA CallbackType ==
    ASSUME TypeOK, NEW c \in calls, Resolve(c) \/ Accept(c) \/ Lose(c)
    PROVE  TypeOK'
<1>0. c \in Callbacks /\ c.gen \in Generations /\ calls \subseteq Callbacks
  BY DEF TypeOK, Callbacks
<1>1. CASE Resolve(c)
  <2>1. CASE Resolved(c.gen)
    <3>1. [c EXCEPT !.stage = "resolved"] \in Callbacks
      BY <1>0 DEF Callbacks
    <3> QED BY <1>0, <1>1, <2>1, <3>1, WorkerOnlyType DEF Resolve, TypeOK
  <2>2. CASE ~Resolved(c.gen)
    <3>1. Reply(c, FALSE)
      BY <1>1, <2>2 DEF Resolve
    <3> QED BY <1>1, <3>1, ReplyType, WorkerOnlyType DEF Resolve
  <2> QED BY <2>1, <2>2
<1>2. CASE Accept(c)
  <2>1. /\ gen[c.gen] # None => c.kind \in {"heartbeat", "content", "tool"} \cup Terminal
        /\ c.content \in Seq(Piece)
    BY <1>0 DEF Callbacks, Outs, Terminal
  <2>2. CASE Visible(c.gen) /\ Extends(c.gen, c.seq)
    <3>1. Write(c.gen, c.kind, c.content) /\ Reply(c, TRUE)
      BY <1>2, <2>2 DEF Accept
    <3>2. gen[c.gen] # None
      BY <2>2 DEF Visible
    <3>3. /\ worker' \in [Generations -> Tasks] /\ calls' \subseteq Callbacks
          /\ Fault \/ UNCHANGED faults
      BY <3>1, ReplyType
    <3>4. /\ chat' \in Chats \cup {None} /\ gen' \in [Generations -> Records \cup {None}]
          /\ output' \in [Generations -> Seq(Events)]
          /\ cap' \subseteq Generations /\ leaseRows' \subseteq Generations
          /\ UNCHANGED <<expired, opened>>
      BY <1>0, <2>1, <3>1, <3>2, WriteType
    <3> QED BY <1>2, <3>3, <3>4, PengoloAssumption DEF Accept, TypeOK, Fault
  <2>3. CASE ~(Visible(c.gen) /\ Extends(c.gen, c.seq))
    <3> DEFINE answer == Visible(c.gen) /\ Replays(c.gen, c)
    <3>1. UNCHANGED store /\ Reply(c, answer) /\ answer \in BOOLEAN
      BY <1>2, <2>3 DEF Accept, Visible, Replays
    <3> HIDE DEF answer
    <3>2. /\ worker' \in [Generations -> Tasks] /\ calls' \subseteq Callbacks
          /\ Fault \/ UNCHANGED faults
      BY <3>1, ReplyType
    <3> QED BY <1>2, <3>1, <3>2, WorkerOnlyType DEF Accept, WorkerOnly
  <2> QED BY <2>2, <2>3
<1>3. CASE Lose(c)
  <2>1. worker' \in [Generations -> Tasks] /\ calls' \subseteq Callbacks
    BY <1>0, <1>3 DEF Lose, TypeOK
  <2> QED BY <1>3, <2>1, WorkerOnlyType DEF Lose
<1> QED BY <1>1, <1>2, <1>3

\* Deadlines, sweeps, edits and removals.
LEMMA SweepingType ==
    ASSUME TypeOK, NEW g \in Generations, Sweeping(g) \/ Cancel(g)
    PROVE  TypeOK'
<1>0. gen[g] \in Records \cup {None} /\ <<>> \in Seq(Piece)
      /\ "failed" \in Terminal /\ "cancelled" \in Terminal
  BY DEF TypeOK, Terminal
<1>1. CASE LeaseLapses(g)
  <2>1. [gen[g] EXCEPT !.leased = FALSE] \in Records
    BY <1>0, <1>1 DEF LeaseLapses, Records
  <2> QED BY <1>1, <2>1 DEF LeaseLapses, Outside, TypeOK
<1>2. CASE CapabilityLapses(g)
  BY <1>2 DEF CapabilityLapses, Outside, TypeOK
<1>3. CASE ExpireLease(g)
  <2>1. gen[g] # None /\ Write(g, "failed", <<>>)
    BY <1>3 DEF ExpireLease, Visible
  <2> QED BY <1>0, <1>3, <2>1, WriteType DEF ExpireLease, Outside, TypeOK
<1>4. CASE RemoveGeneration(g)
  <2>1. <<>> \in Seq(Events)
    OBVIOUS
  <2> QED BY <1>4, <2>1 DEF RemoveGeneration, Outside, TypeOK
<1>5. CASE Cancel(g)
  <2>1. gen[g] # None /\ Write(g, "cancelled", <<>>)
    BY <1>5 DEF Cancel, Authorized, Visible
  <2>2. worker' \in [Generations -> Tasks]
    BY <1>5, Constants DEF Cancel, TypeOK
  <2> QED BY <1>0, <1>5, <2>1, <2>2, WriteType DEF Cancel, Outside, TypeOK
<1> QED BY <1>1, <1>2, <1>3, <1>4, <1>5 DEF Sweeping

LEMMA StoreType ==
    ASSUME TypeOK,
           \/ ScanLeases \/ CloseTemporary \/ Restart
           \/ EditRead \/ EditSave \/ DeleteCheck \/ RemoveRows \/ RemoveChat
    PROVE  TypeOK'
<1> USE DEF store
<1>0. <<>> \in Seq(Events)
  OBVIOUS
<1>1. CASE ScanLeases
  BY <1>1 DEF ScanLeases, Lapsed, Outside, TypeOK
<1>2. CASE CloseTemporary
  BY <1>2 DEF CloseTemporary, Outside, TypeOK
<1>3. CASE Restart
  <2>1. /\ gen' \in [Generations -> Records \cup {None}] /\ chat' \in Chats \cup {None}
        /\ output' \in [Generations -> Seq(Events)] /\ expired' \in BOOLEAN
    BY <1>0, <1>3 DEF Restart, TypeOK
  <2> QED BY <1>3, <2>1, PengoloAssumption DEF Restart, Fault, TypeOK
<1>4. CASE EditRead
  <2>1. chat \in Chats
    BY <1>4 DEF EditRead, ChatVisible, TypeOK
  <2>2. \A p \in Projects : [chat EXCEPT !.project = p] \in Chats
    BY <2>1 DEF Chats
  <2>3. edit' \in Chats \cup {None}
    BY <1>4, <2>2 DEF EditRead
  <2> QED BY <1>4, <2>3, PengoloAssumption DEF EditRead, TypeOK
<1>5. CASE EditSave
  <2>1. edit \in Chats
    BY <1>5 DEF EditSave, TypeOK
  <2>2. [edit EXCEPT !.rev = edit.rev + 1] \in Chats /\ edit.project \in Projects
    BY <2>1 DEF Chats
  <2>3. \A r \in Records : [r EXCEPT !.project = edit.project] \in Records
    BY <2>2 DEF Records
  <2>4. gen' \in [Generations -> Records \cup {None}]
    BY <1>5, <2>3 DEF EditSave, TypeOK
  <2>5. chat' \in Chats \cup {None}
    BY <1>5, <2>2 DEF EditSave, TypeOK
  <2> QED BY <1>5, <2>4, <2>5 DEF EditSave, TypeOK
<1>6. CASE DeleteCheck
  <2>1. removing' \in Removals
    BY <1>6 DEF DeleteCheck, Removals
  <2> QED BY <1>6, <2>1 DEF DeleteCheck, Outside, TypeOK
<1>7. CASE RemoveRows
  <2>1. removing' \in Removals
    BY <1>7 DEF RemoveRows, Removals
  <2> QED BY <1>7, <2>1 DEF RemoveRows, Outside, TypeOK
<1>8. CASE RemoveChat
  BY <1>0, <1>8 DEF RemoveChat, Outside, TypeOK
<1> QED BY <1>1, <1>2, <1>3, <1>4, <1>5, <1>6, <1>7, <1>8

\* The subscriber.
LEMMA AnswerOfType ==
    ASSUME TypeOK, NEW g \in Generations, chat # None
    PROVE  AnswerOf(g) \in Message \cup {None}
<1>1. chat.messages \in Seq(Message)
  BY DEF TypeOK, Chats
<1>2. \A m \in Range(chat.messages) : m \in Message
  BY <1>1 DEF Range
<1> QED BY <1>2 DEF AnswerOf

\* One page of the replay: the events after the position, at most Page.
PageAfter(g, after) ==
    SubSeq(output[g], after + 1, Min({after + Page, Len(output[g])}))

LEMMA MinOfTwo ==
    ASSUME NEW a \in Nat, NEW b \in Nat
    PROVE  Min({a, b}) = IF a <= b THEN a ELSE b
BY DEF Min

LEMMA PageType ==
    ASSUME TypeOK, NEW g \in Generations, NEW after \in Nat
    PROVE  /\ PageAfter(g, after) \in Seq(Events) /\ Len(PageAfter(g, after)) \in Nat
           /\ after <= Len(output[g]) =>
                /\ after + Len(PageAfter(g, after)) =
                      IF after + Page <= Len(output[g]) THEN after + Page
                      ELSE Len(output[g])
                /\ \A i \in 1..Len(PageAfter(g, after)) :
                      PageAfter(g, after)[i] = output[g][after + i]
<1> DEFINE s == output[g]
           last == Min({after + Page, Len(s)})
           e == SubSeq(s, after + 1, last)
<1>1. /\ s \in Seq(Events) /\ Len(s) \in Nat /\ Page \in Nat /\ after + Page \in Nat
      /\ after + 1 \in Int
  BY PengoloAssumption DEF TypeOK
<1>2. last = IF after + Page <= Len(s) THEN after + Page ELSE Len(s)
  BY <1>1, MinOfTwo
<1>3. last \in Nat /\ last <= Len(s)
  BY <1>1, <1>2
<1>4. \A i \in (after + 1)..last : s[i] \in Events
  BY <1>1, <1>3
<1>5. PageAfter(g, after) = e
  BY DEF PageAfter
<1> HIDE DEF last, s
<1>6. /\ e \in Seq(Events) /\ Len(e) = (IF after + 1 <= last THEN last - (after + 1) + 1 ELSE 0)
      /\ \A i \in 1..(last - (after + 1) + 1) : e[i] = s[(after + 1) + i - 1]
  BY <1>1, <1>3, <1>4, SubSeqProperties
<1>7. Len(e) \in Nat
  BY <1>6
<1>8. ASSUME after <= Len(s) PROVE after + Len(e) = last
  BY <1>1, <1>2, <1>3, <1>6, <1>8, PengoloAssumption
<1>9. ASSUME after <= Len(s), NEW i \in 1..Len(e) PROVE e[i] = s[after + i]
  BY <1>1, <1>3, <1>6, <1>9
<1> HIDE DEF e
<1> QED BY <1>2, <1>5, <1>6, <1>7, <1>8, <1>9 DEF s

LEMMA ViewFields ==
    ASSUME NEW v \in Views
    PROVE  /\ v.pc \in {"idle", "read", "told"} /\ v.gen \in Generations \cup {None}
           /\ v.after \in Nat /\ v.text \in Seq(Piece)
           /\ v.status \in Active \cup Terminal \cup {None} /\ v.sequence \in Nat
           /\ v.message \in Message \cup {None}
BY DEF Views

\* What a page does to the subscriber, field by field.
LEMMA PageEffect ==
    ASSUME Shapes, ViewPage
    PROVE  LET events == PageAfter(view.gen, view.after)
               sent   == view.after + Len(events)
               ends   == events # <<>> /\ Stops(events[Len(events)].kind)
               told   == IF ends THEN events[Len(events)].kind
                         ELSE IF sent >= view.sequence THEN view.status ELSE "running"
           IN /\ view.gen \in Generations
              /\ view'.pc = "told" /\ view'.gen = view.gen
              /\ IF ends /\ ~ChatVisible
                 THEN /\ view'.status = None /\ view'.after = view.after
                      /\ view'.text = view.text
                 ELSE /\ view'.status = told /\ view'.after = sent
                      /\ view'.text = view.text \o Text(events)
                      /\ told \in Terminal => view'.message =
                            IF ends THEN AnswerOf(view.gen) ELSE view.message
              /\ view' \in Views
<1> DEFINE g == view.gen
           events == PageAfter(g, view.after)
           sent == view.after + Len(events)
           lastKind == events[Len(events)].kind
           ends == events # <<>> /\ Stops(lastKind)
           told == IF ends THEN lastKind
                   ELSE IF sent >= view.sequence THEN view.status ELSE "running"
           said == CASE told \notin Terminal -> None
                     [] told \in Terminal /\ ends -> AnswerOf(g)
                     [] OTHER -> view.message
<1>1. /\ TypeOK /\ view \in Views /\ g \in Generations /\ view.after \in Nat
      /\ view.text \in Seq(Piece) /\ view.sequence \in Nat
      /\ view.status \in Active \cup Terminal \cup {None}
      /\ view.message \in Message \cup {None}
  BY ViewFields DEF Shapes, TypeOK, ViewPage
<1>2. /\ events \in Seq(Events) /\ Len(events) \in Nat /\ sent \in Nat
  BY <1>1, PageType
<1>3. Text(events) \in Seq(Piece)
  BY <1>2, TextType
<1>4. events # <<>> => events[Len(events)] \in Events
  BY <1>2
<1>5. ends => lastKind \in Terminal
  BY DEF Stops
<1>6. told \in Active \cup Terminal \cup {None}
  BY <1>1, <1>5 DEF Active
<1>7. /\ said \in Message \cup {None} \/ (ends /\ ~ChatVisible)
      /\ told \in Terminal => said = IF ends THEN AnswerOf(g) ELSE view.message
  <2>1. CASE told \notin Terminal
    BY <2>1
  <2>2. CASE told \in Terminal /\ ends
    BY <1>1, <2>2, AnswerOfType DEF ChatVisible
  <2>3. CASE told \in Terminal /\ ~ends
    BY <1>1, <2>3
  <2> QED BY <2>1, <2>2, <2>3
<1>8. Last(events) = events[Len(events)]
  BY DEF Last
<1>9. view' = IF ends /\ ~ChatVisible
              THEN [view EXCEPT !.pc = "told", !.status = None]
              ELSE [view EXCEPT !.pc = "told", !.after = sent,
                      !.text = view.text \o Text(events), !.status = told,
                      !.sequence = 0, !.message = said]
  BY <1>8 DEF ViewPage, PageAfter, Covers
<1>10. view.text \o Text(events) \in Seq(Piece)
  BY <1>1, <1>3
<1> HIDE DEF ends, told, said, sent, events
<1>11. CASE ends /\ ~ChatVisible
  <2>1. view' = [view EXCEPT !.pc = "told", !.status = None]
    BY <1>9, <1>11
  <2>2. /\ view'.pc = "told" /\ view'.gen = g /\ view'.status = None
        /\ view'.after = view.after /\ view'.text = view.text /\ view' \in Views
    BY <1>1, <2>1 DEF Views
  <2> QED BY <1>1, <1>11, <2>2 DEF ends, told, sent, events
<1>12. CASE ~(ends /\ ~ChatVisible)
  <2> DEFINE text == view.text \o Text(events)
  <2>1. view' = [view EXCEPT !.pc = "told", !.after = sent, !.text = text, !.status = told,
                    !.sequence = 0, !.message = said]
    BY <1>9, <1>12
  <2>2. text \in Seq(Piece)
    BY <1>10
  <2> HIDE DEF text
  <2>3. /\ view'.pc = "told" /\ view'.gen = g /\ view'.status = told
        /\ view'.after = sent /\ view'.text = text /\ view'.message = said
    BY <1>1, <2>1 DEF Views
  <2>4. view' \in Views
    BY <1>1, <1>2, <1>6, <1>7, <1>12, <2>1, <2>2 DEF Views
  <2> QED BY <1>1, <1>7, <1>12, <2>3, <2>4 DEF text, ends, told, sent, events
<1> QED BY <1>11, <1>12

LEMMA ReadEffect ==
    ASSUME TypeOK, NEW g \in Generations, ViewRead(g)
    PROVE  /\ view' \in Views /\ view'.pc = "read" /\ view'.gen = g
           /\ view'.status = gen[g].status /\ view'.sequence = Len(output[g])
           /\ view'.message = AnswerOf(g)
           /\ view'.after = view.after /\ view'.text = view.text
<1>1. chat # None /\ gen[g] # None
  BY DEF ViewRead, Authorized, ChatVisible, Visible
<1>2. /\ view \in Views /\ AnswerOf(g) \in Message \cup {None}
      /\ gen[g].status \in Active \cup Terminal /\ Len(output[g]) \in Nat
  BY <1>1, AnswerOfType DEF TypeOK, Records
<1>3. view' = [view EXCEPT !.pc = "read", !.gen = g, !.status = gen[g].status,
                  !.sequence = Len(output[g]), !.message = AnswerOf(g)]
  BY DEF ViewRead
<1>4. /\ view'.pc = "read" /\ view'.gen = g /\ view'.status = gen[g].status
      /\ view'.sequence = Len(output[g]) /\ view'.message = AnswerOf(g)
      /\ view'.after = view.after /\ view'.text = view.text
  BY <1>2, <1>3 DEF Views
<1>5. view' \in Views
  BY <1>2, <1>3 DEF Views
<1> QED BY <1>4, <1>5

\* The copy a request saves was read; only ReadAuthorization makes one.
LEMMA CopyKept ==
    ASSUME Shapes, [Next]_vars, NEW h \in Generations, sender'[h].pc = "read"
    PROVE  sender'[h].copy # None
<1>0. /\ sender \in [Generations -> Senders]
      /\ \A g \in Generations : sender[g].pc = "read" => sender[g].copy # None
  BY DEF Shapes, TypeOK
<1> USE DEF Senders
<1>1. ASSUME NEW g \in Generations, Sending(g) PROVE sender'[h].copy # None
  <2>1. CASE Quit(g)
    BY <1>0, <2>1 DEF Quit, NoSender
  <2>2. CASE Prepare(g) \/ Reserve(g) \/ ReserveRefused(g)
    BY <1>0, <2>2 DEF Prepare, Reserve, ReserveRefused, NoSender
  <2>3. CASE RecordInput(g) /\ ~Quit(g)
    BY <1>0, <2>3 DEF RecordInput
  <2>4. CASE ReadAuthorization(g) /\ ~Quit(g)
    BY <1>0, <2>4 DEF ReadAuthorization, Visible
  <2>5. CASE SaveAuthorization(g) /\ ~Quit(g)
    BY <1>0, <2>5 DEF SaveAuthorization
  <2>6. CASE Refused(g)
    BY <1>0, <2>6 DEF Refused
  <2> QED BY <1>1, <2>1, <2>2, <2>3, <2>4, <2>5, <2>6 DEF Sending, FailSubmission, Abandon
<1>2. ASSUME NEW g \in Generations, Submitted(g) PROVE sender'[h].copy # None
  BY <1>0, <1>2 DEF Submitted
<1>3. CASE UNCHANGED sender
  BY <1>0, <1>3
<1> QED BY <1>1, <1>2, <1>3 DEF Next, vars, actors, Working, Sweeping, Beat, EmitContent, Flush,
        EmitEnd, StreamRaises, Retry, RetryFailure, WorkerStop, ToolCall, ToolResolve, ToolResult,
        UnrecordedResult, WorkerOnly, Outside, LeaseLapses, CapabilityLapses, ExpireLease, RemoveGeneration,
        Cancel, ViewRead, Resolve, Accept, Lose, ScanLeases, Housekeeping, CloseTemporary, Restart,
        EditRead, EditSave, DeleteCheck, RemoveRows, RemoveChat, ViewPage

LEMMA ViewFrame ==
    ASSUME [Next]_vars
    PROVE  UNCHANGED view \/ ViewPage \/ \E g \in Generations : ViewRead(g)
<1>1. ASSUME NEW g \in Generations, Sending(g) PROVE UNCHANGED view
  BY <1>1 DEF Sending, Prepare, Reserve, ReserveRefused, RecordInput, ReadAuthorization,
        SaveAuthorization, FailSubmission, Abandon, Refused
<1>2. ASSUME NEW g \in Generations, Working(g) PROVE UNCHANGED view
  BY <1>2 DEF Submitted, Working, Beat, EmitContent, Flush, EmitEnd, StreamRaises, Retry,
        RetryFailure, WorkerStop, ToolCall, ToolResolve, ToolResult, UnrecordedResult, WorkerOnly
<1>3. ASSUME NEW g \in Generations, Sweeping(g) \/ Cancel(g) PROVE UNCHANGED view
  BY <1>3 DEF Sweeping, Cancel, LeaseLapses, CapabilityLapses, ExpireLease, RemoveGeneration,
        Outside
<1>4. ASSUME NEW c \in calls, Resolve(c) \/ Accept(c) \/ Lose(c) PROVE UNCHANGED view
  BY <1>4 DEF Resolve, Accept, Lose, WorkerOnly
<1>5. ASSUME \/ ScanLeases \/ Housekeeping \/ CloseTemporary \/ Restart
             \/ EditRead \/ EditSave \/ DeleteCheck \/ RemoveRows \/ RemoveChat
      PROVE  UNCHANGED view
  BY <1>5 DEF ScanLeases, Housekeeping, CloseTemporary, Restart,
        EditRead, EditSave, DeleteCheck, RemoveRows, RemoveChat, Outside
<1>6. CASE UNCHANGED vars
  BY <1>6 DEF vars, actors
<1> QED BY <1>1, <1>2, <1>3, <1>4, <1>5, <1>6 DEF Next

\* A closing failure has the position that PostFailure gave it.
LEMMA FailAtKept ==
    ASSUME Shapes, [Next]_vars, NEW h \in Generations, worker'[h].pc = "failing"
    PROVE  worker'[h].failAt # 0
<1>0. /\ worker \in [Generations -> Tasks]
      /\ \A g \in Generations : worker[g].pc = "failing" => worker[g].failAt # 0
      /\ calls \subseteq Callbacks
  BY DEF Shapes, TypeOK
<1>a. Ended \in Tasks /\ Ended.pc = "done" /\ NoWorker \in Tasks
  BY Constants DEF Ended, NoWorker
<1>b. \A g \in Generations : worker[g].cursor \in Nat
  BY <1>0, TaskFields
<1> USE DEF Tasks
<1>1. ASSUME NEW g \in Generations, NEW w \in Tasks, NEW others, PostFailure(g, w, others)
      PROVE  worker'[h].failAt # 0
  <2> DEFINE at == w.cursor + 1
             failed == [w EXCEPT !.pc = "failing", !.failAt = at, !.failTries = 1]
  <2>1. at # 0
    BY TaskFields
  <2>2. worker' = [worker EXCEPT ![g] = failed]
    BY <1>1 DEF PostFailure
  <2> HIDE DEF at
  <2>3. failed.failAt = at
    OBVIOUS
  <2> HIDE DEF failed
  <2>4. CASE h = g
    BY <1>0, <2>1, <2>2, <2>3, <2>4
  <2>5. CASE h # g
    BY <1>0, <2>2, <2>5
  <2> QED BY <2>4, <2>5
<1>2. ASSUME NEW g \in Generations, NEW others, End(g, others) PROVE worker'[h].failAt # 0
  BY <1>0, <1>a, <1>2 DEF End
<1>3. ASSUME NEW g \in Generations, NEW others, Raise(g, others) PROVE worker'[h].failAt # 0
  <2>1. [worker[g] EXCEPT !.out = None, !.tries = 0] \in Tasks
    BY <1>0, <1>3, Constants
  <2> HIDE DEF Tasks
  <2> QED BY <1>1, <1>2, <1>3, <2>1 DEF Raise
<1>4. ASSUME NEW g \in Generations, NEW kind, NEW content,
             NEW pc, pc \in {worker[g].pc, "closing"}, Post(g, kind, content, pc)
      PROVE  worker'[h].failAt # 0
  BY <1>0, <1>4 DEF Post
<1>5. ASSUME NEW g \in Generations, Started(g).pc = "start", worker' = [worker EXCEPT ![g] = Started(g)]
      PROVE  worker'[h].failAt # 0
  BY <1>0, <1>5
<1>6. \A g \in Generations : Started(g).pc = "start"
  BY DEF Started, NoWorker
<1>7. ASSUME NEW g \in Generations, Working(g) PROVE worker'[h].failAt # 0
  <2>1. CASE Submitted(g)
    BY <1>5, <1>6, <2>1 DEF Submitted
  <2>2. CASE Beat(g)
    BY <1>0, <2>2 DEF Beat
  <2>3. CASE EmitContent(g)
    BY <1>0, <2>3 DEF EmitContent
  <2>4. CASE Flush(g)
    BY <1>4, <2>4 DEF Flush
  <2>5. CASE EmitEnd(g)
    BY <1>4, <2>5 DEF EmitEnd
  <2>6. CASE StreamRaises(g)
    BY <1>0, <1>1, <2>6 DEF StreamRaises
  <2>7. CASE Retry(g)
    BY <1>0, <1>3, <2>7 DEF Retry
  <2>8. CASE RetryFailure(g)
    BY <1>0, <1>2, <2>8 DEF RetryFailure
  <2>9. CASE WorkerStop(g)
    BY <1>2, <2>9 DEF WorkerStop
  <2>10. CASE ToolCall(g)
    BY <1>0, <2>10 DEF ToolCall
  <2>11. CASE ToolResolve(g)
    BY <1>0, <2>11 DEF ToolResolve
  <2>12. CASE ToolResult(g)
    <3>1. CASE Visible(g)
      <4> DEFINE k == worker[g].known \cup {worker[g].tool.source}
      <4>1. worker' = [worker EXCEPT ![g].tool = None, ![g].known = k]
        BY <2>12, <3>1 DEF ToolResult
      <4> HIDE DEF k
      <4>2. worker'[h].pc = worker[h].pc /\ worker'[h].failAt = worker[h].failAt
        BY <1>0, <4>1
      <4> QED BY <1>0, <4>2
    <3>2. CASE ~Visible(g)
      BY <1>0, <2>12, <3>2 DEF ToolResult
    <3> QED BY <3>1, <3>2
  <2>13. CASE UnrecordedResult(g)
    <3> DEFINE k == worker[g].known \cup {worker[g].tool.source}
    <3>1. worker' = [worker EXCEPT ![g].tool = None, ![g].known = k]
      BY <2>13 DEF UnrecordedResult
    <3> HIDE DEF k
    <3>2. worker'[h].pc = worker[h].pc /\ worker'[h].failAt = worker[h].failAt
      BY <1>0, <3>1
    <3> QED BY <1>0, <3>2
  <2> QED BY <1>7, <2>1, <2>2, <2>3, <2>4, <2>5, <2>6, <2>7, <2>8, <2>9, <2>10, <2>11, <2>12,
             <2>13 DEF Working
<1>8. ASSUME NEW c \in calls, NEW accepted, Reply(c, accepted) PROVE worker'[h].failAt # 0
  <2>1. c.gen \in Generations
    BY <1>0 DEF Callbacks
  <2>2. CASE Acknowledge(c)
    <3>1. Acknowledged(worker[c.gen], c).pc = "failing" =>
             Acknowledged(worker[c.gen], c).failAt = worker[c.gen].failAt
                /\ worker[c.gen].pc = "failing"
      BY <1>0, <1>a, <2>1 DEF Acknowledged
    <3> QED BY <1>0, <2>1, <2>2, <3>1 DEF Acknowledge
  <2>3. CASE UNCHANGED worker
    BY <1>0, <2>3
  <2>4. CASE End(c.gen, calls \ {c}) \/ Raise(c.gen, calls \ {c})
    BY <1>2, <1>3, <2>1, <2>4
  <2> QED BY <1>8, <2>2, <2>3, <2>4 DEF Reply
<1>9. ASSUME NEW c \in calls, Resolve(c) \/ Accept(c) \/ Lose(c) PROVE worker'[h].failAt # 0
  <2>1. CASE UNCHANGED worker
    BY <1>0, <2>1
  <2> QED BY <1>8, <1>9, <2>1 DEF Resolve, Accept, Lose
<1>10. ASSUME NEW g \in Generations, Refused(g) PROVE worker'[h].failAt # 0
  <2>1. CASE UNCHANGED worker
    BY <1>0, <2>1
  <2> QED BY <1>5, <1>6, <1>10, <2>1 DEF Refused
<1>11. ASSUME NEW g \in Generations, Cancel(g) PROVE worker'[h].failAt # 0
  BY <1>0, <1>a, <1>11 DEF Cancel
<1>12. CASE UNCHANGED worker
  BY <1>0, <1>12
<1> HIDE DEF Tasks
<1> QED BY <1>7, <1>9, <1>10, <1>11, <1>12 DEF Next, vars, actors, Sending, Sweeping, Prepare, Reserve,
        ReserveRefused, RecordInput, ReadAuthorization, SaveAuthorization, FailSubmission, Abandon,
        LeaseLapses, CapabilityLapses, ExpireLease, RemoveGeneration,
        ViewRead, ScanLeases, Housekeeping, CloseTemporary, Restart,
        EditRead, EditSave, DeleteCheck, RemoveRows, RemoveChat, ViewPage

LEMMA ShapesInit == Init => Shapes
<1>1. <<>> \in Seq(Events) /\ <<>> \in Seq(Piece)
  OBVIOUS
<1>2. Init => TypeOK
  <2> HAVE Init
  <2>1. view \in Views
    BY <1>1 DEF Init, Views
  <2>2. /\ gen \in [Generations -> Records \cup {None}]
        /\ output \in [Generations -> Seq(Events)]
    BY <1>1 DEF Init
  <2>3. sender \in [Generations -> Senders] /\ worker \in [Generations -> Tasks]
    BY Constants DEF Init
  <2>4. temporary \in BOOLEAN /\ edits \in 0..Edits /\ faults \in 0..Faults
    BY PengoloAssumption DEF Init
  <2> QED BY <2>1, <2>2, <2>3, <2>4 DEF Init, TypeOK
<1> QED BY <1>2 DEF Init, Shapes, NoSender, NoWorker

LEMMA ShapesStep == Shapes /\ [Next]_vars => Shapes'
<1> SUFFICES ASSUME Shapes, [Next]_vars PROVE Shapes'
  OBVIOUS
<1>0. TypeOK
  BY DEF Shapes
<1>1. TypeOK'
  <2>1. ASSUME NEW g \in Generations, ViewRead(g) PROVE TypeOK'
    BY <1>0, <2>1, ReadEffect DEF ViewRead, TypeOK, store
  <2>2. ASSUME ViewPage PROVE TypeOK'
    <3>1. view' \in Views
      BY <2>2, PageEffect
    <3> QED BY <1>0, <2>2, <3>1 DEF ViewPage, TypeOK, store
  <2>3. CASE UNCHANGED vars
    BY <1>0, <2>3 DEF vars, store, actors, TypeOK
  <2> QED BY <1>0, <2>1, <2>2, <2>3, SendingType, WorkingType, SweepingType, CallbackType, StoreType
          DEF Next, Housekeeping
<1>2. view'.pc = "read" => view'.gen # None
  <2>1. CASE UNCHANGED view
    BY <2>1 DEF Shapes
  <2>2. ASSUME NEW g \in Generations, ViewRead(g) PROVE view'.gen # None
    BY <1>0, <2>2, ReadEffect, PengoloAssumption
  <2>3. ASSUME ViewPage PROVE view'.pc = "told"
    BY <2>3, PageEffect
  <2> QED BY <2>1, <2>2, <2>3, ViewFrame
<1> QED BY <1>1, <1>2, CopyKept, FailAtKept DEF Shapes

\* Every reachable state has the shapes the code gives its records, so no
\* step works on a record that is not there.
THEOREM TypeCorrect == Spec => []TypeOK
<1>1. Shapes => TypeOK
  BY DEF Shapes
<1> QED BY <1>1, ShapesInit, ShapesStep, PTL DEF Spec

---------------------------------------------------------------------------
(* What a step can do to the record and the output of one generation.      *)

\* The kinds of event append takes.
Appendable == {"heartbeat", "content", "tool"} \cup Terminal

\* Nothing but the scope or the lease changes.
Kept(h) ==
    /\ output'[h] = output[h]
    /\ gen[h] = None => gen'[h] = None
    /\ gen[h] # None => /\ gen'[h] # None
                        /\ gen'[h].status = gen[h].status
                        /\ gen'[h].evidence = gen[h].evidence
                        /\ gen'[h].rev = gen[h].rev

\* The record is removed, or was not there.
Gone(h) == gen'[h] = None /\ output'[h] = <<>>

\* reserve opens the turn.
Fresh(h) ==
    /\ Reserve(h)
    /\ gen[h] = None /\ gen'[h] # None /\ output'[h] = output[h]
    /\ gen'[h].status = "pending" /\ gen'[h].evidence = {} /\ gen'[h].rev = 1

\* record_evidence adds to it.
Grown(h, sources) ==
    /\ ~expired /\ gen[h] # None /\ gen'[h] # None /\ output'[h] = output[h]
    /\ gen'[h].status = gen[h].status /\ gen'[h].rev = Bump(gen[h].rev)
    /\ gen'[h].evidence = gen[h].evidence \cup sources

\* send writes its copy back.
Saved(h) ==
    /\ SaveAuthorization(h)
    /\ gen[h] # None /\ gen'[h] # None /\ output'[h] = output[h]
    /\ sender[h].copy \in Records /\ gen[h].rev = sender[h].copy.rev
    /\ gen'[h].status = sender[h].copy.status
    /\ gen'[h].evidence = sender[h].copy.evidence
    /\ gen'[h].rev = Bump(sender[h].copy.rev)

\* append stores an event, or renews the lease.
Wrote(h, kind, content) ==
    /\ ~expired /\ gen[h] # None /\ gen[h].status \in Active /\ gen'[h] # None
    /\ gen'[h].status = IF Stops(kind) THEN kind ELSE "running"
    /\ gen'[h].evidence = gen[h].evidence /\ gen'[h].rev = Bump(gen[h].rev)
    /\ output'[h] = IF kind = "heartbeat" THEN output[h]
                    ELSE Append(output[h], [kind |-> kind, content |-> content])

\* Who appends an event, and which.
Appends(h, kind, content) ==
    /\ Write(h, kind, content) /\ Wrote(h, kind, content) /\ Unlocked(h)
    /\ UNCHANGED <<temporary, removing, edit, view, edits>>
    /\ \/ FailSubmission(h) /\ kind = "failed" /\ content = <<>>
       \/ Cancel(h) /\ kind = "cancelled" /\ content = <<>>
       \/ ExpireLease(h) /\ kind = "failed" /\ content = <<>>
       \/ Beat(h) /\ kind = "heartbeat" /\ content = <<>>
       \/ \E c \in calls : /\ Accept(c) /\ Reply(c, TRUE) /\ c.gen = h /\ kind = c.kind
                           /\ content = c.content /\ Extends(h, c.seq)

LEMMA WroteIs ==
    ASSUME TypeOK, NEW g \in Generations, gen[g] # None, gen[g].status \in Active, ~expired,
           NEW kind \in Appendable, NEW content \in Seq(Piece), Write(g, kind, content)
    PROVE  /\ Wrote(g, kind, content)
           /\ \A h \in Generations \ {g} : gen'[h] = gen[h] /\ output'[h] = output[h]
<1>1. gen[g] \in Records
  BY DEF TypeOK
<1> DEFINE r == Written(gen[g], kind)
<1>2. /\ r \in Records /\ r.status = (IF Stops(kind) THEN kind ELSE "running")
      /\ r.evidence = gen[g].evidence /\ r.rev = Bump(gen[g].rev)
  BY <1>1, WrittenType DEF Appendable
<1>3. gen' = [gen EXCEPT ![g] = r]
  BY DEF Write
<1> HIDE DEF r
<1>4. gen'[g] = r /\ r # None /\ \A h \in Generations \ {g} : gen'[h] = gen[h]
  BY <1>2, <1>3, NoneAssumption DEF TypeOK
<1>5. /\ output'[g] = (IF kind = "heartbeat" THEN output[g]
                       ELSE Append(output[g], [kind |-> kind, content |-> content]))
      /\ \A h \in Generations \ {g} : output'[h] = output[h]
  BY DEF Write, TypeOK
<1> QED BY <1>2, <1>4, <1>5 DEF Wrote

LEMMA GrownIs ==
    ASSUME TypeOK, NEW g \in Generations, gen[g] # None, ~expired, NEW sources,
           sources \in SUBSET Evidence, AddEvidence(g, sources), UNCHANGED output
    PROVE  Grown(g, sources) /\ \A h \in Generations \ {g} : gen'[h] = gen[h]
<1>1. gen[g] \in Records
  BY DEF TypeOK
<1> DEFINE e == gen[g].evidence \cup sources
           b == Bump(gen[g].rev)
           r == [gen[g] EXCEPT !.evidence = e, !.rev = b]
<1>2. gen' = [gen EXCEPT ![g] = r]
  BY DEF AddEvidence, TypeOK
<1> HIDE DEF e, b
<1>3. r.evidence = e /\ r.rev = b /\ r.status = gen[g].status
  BY <1>1 DEF Records
<1>4. gen'[g] = r /\ \A h \in Generations \ {g} : gen'[h] = gen[h]
  BY <1>2 DEF TypeOK
<1>5. gen' \in [Generations -> Records \cup {None}]
  BY EvidenceType
<1>6. r # None
  <2>1. r.evidence \in SUBSET Evidence /\ r.rev \in 1..RevisionCap
    BY <1>1, <1>3, Constants DEF e, b, Records
  <2>2. r \in Records
    BY <1>1, <1>3, <2>1 DEF Records
  <2> QED BY <2>2, NoneAssumption
<1> QED BY <1>3, <1>4, <1>6 DEF Grown, e, b

LEMMA SavedIs ==
    ASSUME Shapes, NEW g \in Generations, SaveAuthorization(g), Unchanged(g)
    PROVE  Saved(g) /\ \A h \in Generations \ {g} : gen'[h] = gen[h]
<1> DEFINE copy == sender[g].copy
           b == Bump(copy.rev)
           r == [copy EXCEPT !.authorized = TRUE, !.rev = b, !.leased = gen[g].leased]
<1>1. copy \in Records /\ gen[g] \in Records /\ gen \in [Generations -> Records \cup {None}]
  BY DEF Shapes, TypeOK, Senders, SaveAuthorization, Unchanged
<1>2. gen' = [gen EXCEPT ![g] = r]
  BY DEF SaveAuthorization
<1>3. b \in 1..RevisionCap
  BY <1>1, Constants DEF Records
<1> HIDE DEF b, copy
<1>4. r \in Records /\ r.status = copy.status /\ r.evidence = copy.evidence /\ r.rev = b
  BY <1>1, <1>3 DEF Records
<1>5. gen'[g] = r /\ \A h \in Generations \ {g} : gen'[h] = gen[h]
  BY <1>1, <1>2
<1>6. gen'[g] # None
  BY <1>4, <1>5, NoneAssumption
<1> QED BY <1>1, <1>4, <1>5, <1>6 DEF Saved, b, copy, SaveAuthorization, Unchanged

LEMMA FreshIs ==
    ASSUME Shapes, NEW g \in Generations, Reserve(g)
    PROVE  Fresh(g) /\ \A h \in Generations \ {g} : gen'[h] = gen[h]
<1> DEFINE r == [status |-> "pending", evidence |-> {}, leased |-> TRUE, rev |-> 1,
                 project |-> Base.project, authorized |-> FALSE]
<1>1. gen' = [gen EXCEPT ![g] = r] /\ gen \in [Generations -> Records \cup {None}] /\ TypeOK
  BY DEF Reserve, Shapes, TypeOK
<1>2. r \in Records
  <2>1. Base.project \in Projects
    BY <1>1, ReservedChat DEF Chats
  <2> QED BY <2>1 DEF Records, RevisionCap, Active
<1>3. r # None
  BY <1>2, NoneAssumption
<1> QED BY <1>1, <1>3 DEF Fresh, Reserve, CanReserve

\* The steps that write to the store, by what they write.
StoreMoves ==
    \/ UNCHANGED <<chat, expired, gen, output>>
    \/ \E g \in Generations : Fresh(g) /\ \A h \in Generations \ {g} : gen'[h] = gen[h]
    \/ \E g \in Generations :
          /\ \/ RecordInput(g) /\ Grown(g, sender[g].sources)
             \/ ToolResult(g) /\ Grown(g, {worker[g].tool.source})
             \/ Saved(g)
          /\ UNCHANGED <<chat, expired, output>>
          /\ \A h \in Generations \ {g} : gen'[h] = gen[h]
    \/ \E g \in Generations, kind \in Appendable, content \in Seq(Piece) :
          /\ Appends(g, kind, content)
          /\ UNCHANGED expired
          /\ \A h \in Generations \ {g} : gen'[h] = gen[h] /\ output'[h] = output[h]
    \/ \E g \in Generations : LeaseLapses(g) \/ RemoveGeneration(g)
    \/ CloseTemporary \/ Restart \/ EditSave \/ RemoveChat

LEMMA AppendsCase ==
    ASSUME TypeOK, NEW g \in Generations, NEW kind \in Appendable, NEW content \in Seq(Piece),
           gen[g] # None, gen[g].status \in Active, ~expired, Unlocked(g),
           Write(g, kind, content), UNCHANGED <<temporary, removing, edit, view, edits>>,
           \/ FailSubmission(g) /\ kind = "failed" /\ content = <<>>
           \/ Cancel(g) /\ kind = "cancelled" /\ content = <<>>
           \/ ExpireLease(g) /\ kind = "failed" /\ content = <<>>
           \/ Beat(g) /\ kind = "heartbeat" /\ content = <<>>
           \/ \E c \in calls : /\ Accept(c) /\ Reply(c, TRUE) /\ c.gen = g /\ kind = c.kind
                               /\ content = c.content /\ Extends(g, c.seq)
    PROVE  StoreMoves
<1>1. Appends(g, kind, content)
  BY WroteIs DEF Appends
<1>2. UNCHANGED expired
  BY DEF Write
<1>3. \A h \in Generations \ {g} : gen'[h] = gen[h] /\ output'[h] = output[h]
  BY WroteIs
<1> QED BY <1>1, <1>2, <1>3 DEF StoreMoves

LEMMA StoreStep ==
    ASSUME Shapes, [Next]_vars
    PROVE  StoreMoves
<1>0. TypeOK /\ <<>> \in Seq(Piece)
      /\ {"failed", "cancelled", "heartbeat"} \subseteq Appendable
  BY DEF Shapes, Appendable, Terminal
<1>1. ASSUME NEW g \in Generations, Sending(g) PROVE StoreMoves
  <2>1. CASE Prepare(g) \/ ReserveRefused(g) \/ ReadAuthorization(g) \/ Refused(g) \/ Abandon(g)
    BY <2>1 DEF StoreMoves, Prepare, ReserveRefused, ReadAuthorization, Refused, Abandon, store
  <2>2. CASE Reserve(g)
    BY <2>2, FreshIs DEF StoreMoves
  <2>3. CASE RecordInput(g)
    <3>1. CASE Visible(g)
      <4>1. sender[g].sources \in SUBSET Evidence
        BY <1>0 DEF TypeOK, Senders
      <4>2. Grown(g, sender[g].sources) /\ \A h \in Generations \ {g} : gen'[h] = gen[h]
        BY <1>0, <2>3, <3>1, <4>1, GrownIs DEF RecordInput, Visible
      <4> QED BY <2>3, <4>2 DEF StoreMoves, RecordInput
    <3>2. CASE ~Visible(g)
      BY <2>3, <3>2 DEF StoreMoves, RecordInput
    <3> QED BY <3>1, <3>2
  <2>4. CASE SaveAuthorization(g)
    <3>1. CASE Unchanged(g)
      BY <2>4, <3>1, SavedIs DEF StoreMoves, SaveAuthorization
    <3>2. CASE ~Unchanged(g)
      BY <2>4, <3>2 DEF StoreMoves, SaveAuthorization
    <3> QED BY <3>1, <3>2
  <2>5. CASE FailSubmission(g)
    <3>1. CASE Visible(g) /\ gen[g].status \in Active
      <4>1. /\ Write(g, "failed", <<>>) /\ gen[g] # None /\ ~expired /\ Unlocked(g)
            /\ UNCHANGED <<temporary, removing, edit, view, edits>>
        BY <2>5, <3>1 DEF FailSubmission, Visible
      <4> QED BY <1>0, <2>5, <3>1, <4>1, AppendsCase
    <3>2. CASE ~(Visible(g) /\ gen[g].status \in Active)
      BY <2>5, <3>2 DEF StoreMoves, FailSubmission, store
    <3> QED BY <3>1, <3>2
  <2> QED BY <1>1, <2>1, <2>2, <2>3, <2>4, <2>5 DEF Sending
<1>2. ASSUME NEW g \in Generations, Working(g) PROVE StoreMoves
  <2>1. CASE Submitted(g)
    BY <2>1 DEF StoreMoves, Submitted, store
  <2>2. CASE Beat(g)
    <3>1. /\ Write(g, "heartbeat", <<>>) /\ gen[g] # None /\ ~expired /\ Unlocked(g)
          /\ gen[g].status \in Active /\ UNCHANGED <<temporary, removing, edit, view, edits>>
      BY <2>2 DEF Beat, Resolved, Authorized, Visible
    <3> QED BY <1>0, <2>2, <3>1, AppendsCase
  <2>3. CASE ToolResult(g)
    <3>1. CASE Visible(g)
      <4>1. worker[g].tool \in Tools
        BY <1>0, <2>3, TaskFields DEF TypeOK, ToolResult
      <4>2. {worker[g].tool.source} \in SUBSET Evidence
        BY <4>1 DEF Tools, Evidence
      <4>3. Grown(g, {worker[g].tool.source}) /\ \A h \in Generations \ {g} : gen'[h] = gen[h]
        BY <1>0, <2>3, <3>1, <4>2, GrownIs DEF ToolResult, Visible
      <4> QED BY <2>3, <4>3 DEF StoreMoves, ToolResult
    <3>2. CASE ~Visible(g)
      BY <2>3, <3>2 DEF StoreMoves, ToolResult
    <3> QED BY <3>1, <3>2
  <2>4. CASE WorkerOnly
    BY <2>4 DEF StoreMoves, WorkerOnly, store
  <2> QED BY <1>2, <2>1, <2>2, <2>3, <2>4 DEF Working, EmitContent, Flush, EmitEnd, StreamRaises,
          Retry, RetryFailure, WorkerStop, ToolCall, ToolResolve, UnrecordedResult
<1>3. ASSUME NEW g \in Generations, Sweeping(g) \/ Cancel(g) PROVE StoreMoves
  <2>1. CASE LeaseLapses(g) \/ RemoveGeneration(g)
    BY <2>1 DEF StoreMoves
  <2>2. CASE CapabilityLapses(g)
    BY <2>2 DEF StoreMoves, CapabilityLapses
  <2>3. CASE ExpireLease(g)
    <3>1. /\ Write(g, "failed", <<>>) /\ gen[g] # None /\ ~expired /\ Unlocked(g)
          /\ gen[g].status \in Active /\ UNCHANGED <<temporary, removing, edit, view, edits>>
      BY <2>3 DEF ExpireLease, Visible, Outside
    <3> QED BY <1>0, <2>3, <3>1, AppendsCase
  <2>4. CASE Cancel(g)
    <3>1. /\ Write(g, "cancelled", <<>>) /\ gen[g] # None /\ ~expired /\ Unlocked(g)
          /\ gen[g].status \in Active /\ UNCHANGED <<temporary, removing, edit, view, edits>>
      BY <2>4 DEF Cancel, Authorized, Visible, Outside
    <3> QED BY <1>0, <2>4, <3>1, AppendsCase
  <2> QED BY <1>3, <2>1, <2>2, <2>3, <2>4 DEF Sweeping
<1>4. ASSUME NEW c \in calls, Resolve(c) \/ Accept(c) \/ Lose(c) PROVE StoreMoves
  <2>1. CASE WorkerOnly \/ UNCHANGED store
    BY <2>1 DEF StoreMoves, WorkerOnly, store
  <2>2. CASE Accept(c) /\ Visible(c.gen) /\ Extends(c.gen, c.seq)
    <3>1. /\ Write(c.gen, c.kind, c.content) /\ Reply(c, TRUE) /\ gen[c.gen] # None /\ ~expired
          /\ gen[c.gen].status \in Active /\ Unlocked(c.gen)
          /\ UNCHANGED <<temporary, removing, edit, view, edits>>
      BY <2>2 DEF Accept, Visible, Extends
    <3>2. c.gen \in Generations /\ c.kind \in Appendable /\ c.content \in Seq(Piece)
      BY <1>0 DEF TypeOK, Callbacks, Outs, Appendable, Terminal
    <3> QED BY <1>0, <2>2, <3>1, <3>2, AppendsCase
  <2> QED BY <1>4, <2>1, <2>2 DEF Resolve, Accept, Lose
<1>5. ASSUME NEW g \in Generations, ViewRead(g) PROVE StoreMoves
  BY <1>5 DEF ViewRead, store, StoreMoves
<1>6. ASSUME \/ ScanLeases \/ Housekeeping \/ EditRead \/ DeleteCheck \/ RemoveRows \/ ViewPage
      PROVE  StoreMoves
  BY <1>6 DEF ScanLeases, Housekeeping, EditRead, DeleteCheck, RemoveRows, ViewPage, store,
              StoreMoves
<1>7. CASE UNCHANGED vars
  BY <1>7 DEF vars, store, StoreMoves
<1> QED BY <1>1, <1>2, <1>3, <1>4, <1>5, <1>6, <1>7 DEF Next, StoreMoves

\* The same, of one generation.
GenMoves(h) ==
    \/ Kept(h) \/ Gone(h) \/ Fresh(h) \/ Saved(h)
    \/ RecordInput(h) /\ Grown(h, sender[h].sources)
    \/ ToolResult(h) /\ Grown(h, {worker[h].tool.source})
    \/ \E kind \in Appendable, content \in Seq(Piece) : Appends(h, kind, content)

LEMMA GenStep ==
    ASSUME Shapes, [Next]_vars, NEW h \in Generations
    PROVE  GenMoves(h)
<1>0. /\ TypeOK /\ gen \in [Generations -> Records \cup {None}]
      /\ output \in [Generations -> Seq(Events)]
  BY DEF Shapes, TypeOK
<1>1. CASE gen'[h] = gen[h] /\ output'[h] = output[h]
  BY <1>1 DEF GenMoves, Kept
<1>2. ASSUME NEW g \in Generations, Fresh(g), \A k \in Generations \ {g} : gen'[k] = gen[k]
      PROVE  GenMoves(h)
  <2>1. UNCHANGED output
    BY <1>2 DEF Fresh, Reserve
  <2> QED BY <1>1, <1>2, <2>1 DEF GenMoves
<1>3. ASSUME NEW g \in Generations, UNCHANGED output, \A k \in Generations \ {g} : gen'[k] = gen[k],
             \/ RecordInput(g) /\ Grown(g, sender[g].sources)
             \/ ToolResult(g) /\ Grown(g, {worker[g].tool.source})
             \/ Saved(g)
      PROVE  GenMoves(h)
  BY <1>1, <1>3 DEF GenMoves
<1>4. ASSUME NEW g \in Generations, NEW kind \in Appendable, NEW content \in Seq(Piece),
             Appends(g, kind, content),
             \A k \in Generations \ {g} : gen'[k] = gen[k] /\ output'[k] = output[k]
      PROVE  GenMoves(h)
  BY <1>1, <1>4 DEF GenMoves
<1>5. ASSUME NEW g \in Generations, LeaseLapses(g) PROVE GenMoves(h)
  <2>1. gen[g] \in Records /\ gen' = [gen EXCEPT ![g].leased = FALSE] /\ UNCHANGED output
    BY <1>0, <1>5 DEF LeaseLapses
  <2>2. [gen[g] EXCEPT !.leased = FALSE] \in Records
    BY <2>1 DEF Records
  <2>3. CASE g = h
    <3>1. /\ gen'[h] = [gen[h] EXCEPT !.leased = FALSE] /\ gen'[h] # None
      BY <1>0, <2>1, <2>2, <2>3, NoneAssumption
    <3>2. /\ gen'[h].status = gen[h].status /\ gen'[h].evidence = gen[h].evidence
          /\ gen'[h].rev = gen[h].rev
      BY <2>1, <2>3, <3>1 DEF Records
    <3> QED BY <1>5, <2>1, <2>3, <3>1, <3>2 DEF GenMoves, Kept, LeaseLapses
  <2> QED BY <1>0, <1>1, <2>1, <2>3
<1>6. ASSUME NEW g \in Generations, RemoveGeneration(g) PROVE GenMoves(h)
  BY <1>0, <1>1, <1>6 DEF RemoveGeneration, GenMoves, Gone
<1>7. CASE CloseTemporary
  BY <1>1, <1>7 DEF CloseTemporary
<1>8. CASE Restart
  BY <1>1, <1>8 DEF Restart, GenMoves, Gone
<1>9. CASE EditSave
  <2>1. CASE SameRevision /\ gen[h] # None
    <3>1. gen[h] \in Records /\ edit \in Chats /\ edit.project \in Projects
      BY <1>0, <1>9, <2>1 DEF EditSave, TypeOK, Chats
    <3>2. gen'[h] = [gen[h] EXCEPT !.project = edit.project] /\ output'[h] = output[h]
      BY <1>9, <2>1 DEF EditSave
    <3>3. /\ gen'[h] \in Records /\ gen'[h].status = gen[h].status
          /\ gen'[h].evidence = gen[h].evidence /\ gen'[h].rev = gen[h].rev
      BY <3>1, <3>2 DEF Records
    <3> QED BY <2>1, <3>2, <3>3, NoneAssumption DEF GenMoves, Kept
  <2>2. CASE ~(SameRevision /\ gen[h] # None)
    BY <1>1, <1>9, <2>2 DEF EditSave
  <2> QED BY <2>1, <2>2
<1>10. CASE RemoveChat
  BY <1>1, <1>10 DEF RemoveChat, GenMoves, Gone
<1>11. CASE UNCHANGED <<chat, expired, gen, output>>
  BY <1>1, <1>11
<1> QED BY <1>2, <1>3, <1>4, <1>5, <1>6, <1>7, <1>8, <1>9, <1>10, <1>11, StoreStep DEF StoreMoves

---------------------------------------------------------------------------
(* What a step can do to the worker of one generation and its callbacks.   *)

\* Two callbacks that deliver the same event.
Alike(c, d) == c.gen = d.gen /\ c.seq = d.seq /\ c.kind = d.kind /\ c.content = d.content

\* No other event of h is on its way than before.
OldCalls(h) == \A c \in calls' : c.gen = h => \E d \in calls : Alike(c, d)

\* One event of h is sent, or sent again.
NewCall(h, seq, kind, content) ==
    \A c \in calls' : c.gen = h =>
        \/ \E d \in calls : Alike(c, d)
        \/ c.seq = seq /\ c.kind = kind /\ c.content = content

\* What is acknowledged, produced and not flushed stays as it is.
SameText(h) ==
    /\ worker'[h].cursor = worker[h].cursor /\ worker'[h].made = worker[h].made
    /\ worker'[h].pending = worker[h].pending /\ worker'[h].known = worker[h].known

\* Nothing happens to the worker.
Rests(h) == worker'[h] = worker[h] /\ OldCalls(h)

\* Scribe starts the task.
Begins(h) ==
    /\ Submitted(h) \/ Refused(h)
    /\ worker'[h] = Started(h) /\ OldCalls(h)

\* The task is over.
Ends(h) ==
    /\ Alive(h) \/ worker[h].out # None
    /\ worker'[h] = Ended /\ OldCalls(h)

\* The task gets going, or its tool call is resolved or refused.
Shifts(h) ==
    /\ SameText(h) /\ OldCalls(h)
    /\ worker'[h].out = worker[h].out /\ worker'[h].failAt = worker[h].failAt
    /\ \/ worker'[h].pc = worker[h].pc
       \/ worker[h].pc = "start" /\ worker'[h].pc = "run"
    /\ Alive(h) \/ worker[h].tool # None

\* The result of a tool call arrives.
Learns(h) ==
    /\ (ToolResult(h) /\ Visible(h)) \/ UnrecordedResult(h)
    /\ OldCalls(h) /\ worker[h].tool # None
    /\ worker'[h].pc = worker[h].pc /\ worker'[h].out = worker[h].out
    /\ worker'[h].cursor = worker[h].cursor /\ worker'[h].made = worker[h].made
    /\ worker'[h].pending = worker[h].pending /\ worker'[h].failAt = worker[h].failAt
    /\ worker'[h].known = worker[h].known \cup {worker[h].tool.source}

\* The stream yields a piece.
Produces(h) ==
    /\ worker[h].pc = "run" /\ worker[h].out = None /\ OldCalls(h)
    /\ worker'[h].pc = worker[h].pc /\ worker'[h].out = worker[h].out
    /\ worker'[h].cursor = worker[h].cursor /\ worker'[h].failAt = worker[h].failAt
    /\ worker'[h].known = worker[h].known
    /\ worker'[h].made = worker[h].made + 1
    /\ worker'[h].pending = Append(worker[h].pending,
          [n |-> worker[h].made + 1, from |-> worker[h].known])

\* An event is delivered for the first time.
Posts(h, kind, content) ==
    /\ worker[h].pc \in {"run", "failing"} /\ worker[h].out = None
    /\ worker'[h].out = kind /\ SameText(h) /\ worker'[h].failAt = worker[h].failAt
    /\ worker'[h].pc \in {worker[h].pc, "closing"}
    /\ \/ kind = "content" /\ content = worker[h].pending /\ worker'[h].pc = worker[h].pc
       \/ /\ kind \in {"tool", "completed", "failed"} /\ content = <<>>
          /\ worker[h].pending = <<>> /\ worker[h].pc = "run"
    /\ NewCall(h, worker[h].cursor + 1, kind, content)

\* It is delivered again.
Repeats(h) ==
    /\ worker[h].out # None
    /\ worker'[h].pc = worker[h].pc /\ worker'[h].out = worker[h].out /\ SameText(h)
    /\ worker'[h].failAt = worker[h].failAt
    /\ NewCall(h, worker[h].cursor + 1, worker[h].out,
               IF worker[h].out = "content" THEN worker[h].pending ELSE <<>>)

\* The task fails and says so.
Breaks(h) ==
    /\ worker[h].pc \in {"start", "run", "closing"}
    /\ worker'[h].pc = "failing" /\ worker'[h].out \in {worker[h].out, None} /\ SameText(h)
    /\ worker'[h].failAt = worker[h].cursor + 1
    /\ NewCall(h, worker[h].cursor + 1, "failed", <<>>)

\* It says so again.
Refails(h) ==
    /\ worker[h].pc = "failing"
    /\ worker'[h].pc = worker[h].pc /\ worker'[h].out = worker[h].out /\ SameText(h)
    /\ worker'[h].failAt = worker[h].failAt
    /\ NewCall(h, worker[h].failAt, "failed", <<>>)

\* An event is acknowledged.
Advances(h, c) ==
    /\ Accept(c) /\ c \in calls /\ c.gen = h /\ OldCalls(h)
    /\ (Visible(h) /\ Extends(h, c.seq)) \/ Replays(h, c)
    /\ worker[h].out = c.kind /\ worker[h].cursor + 1 = c.seq
    /\ worker'[h].pc = worker[h].pc /\ worker'[h].failAt = worker[h].failAt
    /\ worker'[h].cursor = worker[h].cursor + 1 /\ worker'[h].out = None
    /\ worker'[h].made = worker[h].made /\ worker'[h].known = worker[h].known
    /\ worker'[h].pending = IF c.kind = "content" THEN <<>> ELSE worker[h].pending

WorkMoves(h) ==
    \/ Rests(h) \/ Begins(h) \/ Ends(h) \/ Shifts(h) \/ Learns(h) \/ Produces(h)
    \/ \E kind \in Outs, content \in Seq(Piece) : Posts(h, kind, content)
    \/ Repeats(h) \/ Breaks(h) \/ Refails(h)
    \/ \E c \in calls : Advances(h, c)

\* A step of another generation leaves the worker and its callbacks alone.
LEMMA RestsElsewhere ==
    ASSUME NEW h, worker'[h] = worker[h],
           \A c \in calls' : c.gen = h => c \in calls
    PROVE  WorkMoves(h)
BY DEF WorkMoves, Rests, OldCalls, Alike

LEMMA FailureMoves ==
    ASSUME TypeOK, NEW h \in Generations, NEW g \in Generations,
           NEW w \in Tasks, w = worker[g] \/ w = [worker[g] EXCEPT !.out = None, !.tries = 0],
           NEW others, others \subseteq calls, PostFailure(g, w, others),
           worker[g].pc \in {"start", "run", "closing"}
    PROVE  WorkMoves(h)
<1> DEFINE c == Call(g, "fail", w.cursor + 1, "failed", <<>>, 1)
<1>0. worker \in [Generations -> Tasks] /\ worker[g] \in Tasks
  BY DEF TypeOK
<1>1. /\ w.cursor = worker[g].cursor /\ w.made = worker[g].made
      /\ w.pending = worker[g].pending /\ w.known = worker[g].known
      /\ w.out \in {worker[g].out, None}
  BY <1>0 DEF Tasks
<1>2. /\ c.gen = g /\ c.seq = w.cursor + 1 /\ c.kind = "failed" /\ c.content = <<>>
      /\ calls' = others \cup {c}
  BY DEF Call, PostFailure
<1> HIDE DEF c
<1>3. CASE h # g
  <2>1. worker'[h] = worker[h]
    BY <1>0, <1>3 DEF PostFailure
  <2> QED BY <1>2, <1>3, <2>1, RestsElsewhere
<1>4. CASE h = g
  <2>1. worker'[h] = [w EXCEPT !.pc = "failing", !.failAt = w.cursor + 1, !.failTries = 1]
    BY <1>0, <1>4 DEF PostFailure
  <2>2. /\ worker'[h].pc = "failing" /\ worker'[h].out = w.out /\ worker'[h].cursor = w.cursor
        /\ worker'[h].made = w.made /\ worker'[h].pending = w.pending
        /\ worker'[h].known = w.known /\ worker'[h].failAt = w.cursor + 1
    BY <2>1 DEF Tasks
  <2>3. NewCall(h, worker[h].cursor + 1, "failed", <<>>)
    BY <1>1, <1>2, <1>4 DEF NewCall, Alike
  <2>4. Breaks(h)
    BY <1>1, <1>4, <2>2, <2>3 DEF Breaks, SameText
  <2> QED BY <2>4 DEF WorkMoves
<1> QED BY <1>3, <1>4

LEMMA EndMoves ==
    ASSUME TypeOK, NEW h \in Generations, NEW g \in Generations,
           NEW others, others \subseteq calls, End(g, others),
           Alive(g) \/ worker[g].out # None
    PROVE  WorkMoves(h)
<1>0. worker \in [Generations -> Tasks]
  BY DEF TypeOK
<1>1. calls' \subseteq calls
  BY DEF End
<1>2. CASE h # g
  <2>1. worker'[h] = worker[h]
    BY <1>0, <1>2 DEF End
  <2> QED BY <1>1, <2>1, RestsElsewhere
<1>3. CASE h = g
  <2>1. worker'[h] = Ended
    BY <1>0, <1>3 DEF End
  <2> QED BY <1>1, <1>3, <2>1 DEF Ends, OldCalls, Alike, WorkMoves
<1> QED BY <1>2, <1>3

LEMMA RaiseMoves ==
    ASSUME TypeOK, NEW h \in Generations, NEW g \in Generations,
           NEW others, others \subseteq calls, Raise(g, others),
           Alive(g) \/ worker[g].out # None
    PROVE  WorkMoves(h)
<1> DEFINE w == [worker[g] EXCEPT !.out = None, !.tries = 0]
<1>1. w \in Tasks
  BY Constants DEF TypeOK, Tasks
<1>2. CASE worker[g].pc \in {"run", "closing"} /\ PostFailure(g, w, others)
  BY <1>1, <1>2, FailureMoves
<1>3. CASE End(g, others)
  BY <1>3, EndMoves
<1> QED BY <1>2, <1>3 DEF Raise

LEMMA PostMoves ==
    ASSUME TypeOK, NEW h \in Generations, NEW g \in Generations,
           NEW kind \in Outs, NEW content \in Seq(Piece), NEW pc,
           pc \in {worker[g].pc, "closing"}, Post(g, kind, content, pc),
           worker[g].pc \in {"run", "failing"}, worker[g].out = None,
           \/ kind = "content" /\ content = worker[g].pending /\ pc = worker[g].pc
           \/ /\ kind \in {"tool", "completed", "failed"} /\ content = <<>>
              /\ worker[g].pending = <<>> /\ worker[g].pc = "run"
    PROVE  WorkMoves(h)
<1> DEFINE c == Call(g, "out", worker[g].cursor + 1, kind, content, 1)
<1>0. worker \in [Generations -> Tasks] /\ worker[g] \in Tasks
  BY DEF TypeOK
<1>2. /\ c.gen = g /\ c.seq = worker[g].cursor + 1 /\ c.kind = kind /\ c.content = content
      /\ calls' = calls \cup {c}
  BY DEF Call, Post
<1> HIDE DEF c
<1>3. CASE h # g
  <2>1. worker'[h] = worker[h]
    BY <1>0, <1>3 DEF Post
  <2> QED BY <1>2, <1>3, <2>1, RestsElsewhere
<1>4. CASE h = g
  <2>1. worker'[h] = [worker[h] EXCEPT !.out = kind, !.tries = 1, !.pc = pc]
    BY <1>0, <1>4 DEF Post
  <2>2. /\ worker'[h].pc = pc /\ worker'[h].out = kind /\ SameText(h)
        /\ worker'[h].failAt = worker[h].failAt
    BY <1>0, <1>4, <2>1 DEF Tasks, SameText
  <2>3. NewCall(h, worker[h].cursor + 1, kind, content)
    BY <1>2, <1>4 DEF NewCall, Alike
  <2>4. Posts(h, kind, content)
    BY <1>4, <2>2, <2>3 DEF Posts
  <2> QED BY <2>4 DEF WorkMoves
<1> QED BY <1>3, <1>4

LEMMA BeginMoves ==
    ASSUME TypeOK, NEW h \in Generations, NEW g \in Generations, Submitted(g) \/ Refused(g)
    PROVE  WorkMoves(h)
<1>0. worker \in [Generations -> Tasks] /\ UNCHANGED calls
  BY DEF TypeOK, Submitted, Refused
<1>1. CASE worker'[h] = worker[h]
  BY <1>0, <1>1, RestsElsewhere
<1>2. CASE worker' = [worker EXCEPT ![g] = Started(g)]
  <2>1. CASE h = g
    <3>1. worker'[h] = Started(h)
      BY <1>0, <1>2, <2>1
    <3> QED BY <1>0, <2>1, <3>1 DEF Begins, OldCalls, Alike, WorkMoves
  <2>2. CASE h # g
    BY <1>0, <1>1, <1>2, <2>2
  <2> QED BY <2>1, <2>2
<1> QED BY <1>0, <1>1, <1>2 DEF Submitted, Refused

LEMMA RepeatMoves ==
    ASSUME TypeOK, NEW h \in Generations, NEW g \in Generations, Retry(g)
    PROVE  WorkMoves(h)
<1> DEFINE content == IF worker[g].out = "content" THEN worker[g].pending ELSE <<>>
           c == Call(g, "out", worker[g].cursor + 1, worker[g].out, content, worker[g].tries + 1)
<1>0. worker \in [Generations -> Tasks] /\ worker[g] \in Tasks
  BY DEF TypeOK
<1>1. CASE worker' = [worker EXCEPT ![g].tries = @ + 1] /\ calls' = calls \cup {c}
  <2>2. /\ c.gen = g /\ c.seq = worker[g].cursor + 1 /\ c.kind = worker[g].out
        /\ c.content = content
    BY DEF Call
  <2> HIDE DEF c, content
  <2>3. CASE h # g
    <3>1. worker'[h] = worker[h]
      BY <1>0, <1>1, <2>3
    <3> QED BY <1>1, <2>2, <2>3, <3>1, RestsElsewhere
  <2>4. CASE h = g
    <3>1. worker'[h] = [worker[h] EXCEPT !.tries = worker[h].tries + 1]
      BY <1>0, <1>1, <2>4
    <3>2. /\ worker'[h].pc = worker[h].pc /\ worker'[h].out = worker[h].out /\ SameText(h)
          /\ worker'[h].failAt = worker[h].failAt
      BY <1>0, <2>4, <3>1 DEF Tasks, SameText
    <3>3. NewCall(h, worker[h].cursor + 1, worker[h].out, content)
      BY <1>1, <2>2, <2>4 DEF NewCall, Alike
    <3>4. Repeats(h)
      BY <2>4, <3>2, <3>3 DEF Repeats, Retry, content
    <3> QED BY <3>4 DEF WorkMoves
  <2> QED BY <2>3, <2>4
<1>2. CASE Raise(g, calls)
  BY <1>2, RaiseMoves DEF Retry
<1> QED BY <1>1, <1>2 DEF Retry

LEMMA RefailMoves ==
    ASSUME TypeOK, NEW h \in Generations, NEW g \in Generations, RetryFailure(g)
    PROVE  WorkMoves(h)
<1> DEFINE c == Call(g, "fail", worker[g].failAt, "failed", <<>>, worker[g].failTries + 1)
<1>0. worker \in [Generations -> Tasks] /\ worker[g] \in Tasks
  BY DEF TypeOK
<1>1. CASE worker' = [worker EXCEPT ![g].failTries = @ + 1] /\ calls' = calls \cup {c}
  <2>2. /\ c.gen = g /\ c.seq = worker[g].failAt /\ c.kind = "failed" /\ c.content = <<>>
    BY DEF Call
  <2> HIDE DEF c
  <2>3. CASE h # g
    <3>1. worker'[h] = worker[h]
      BY <1>0, <1>1, <2>3
    <3> QED BY <1>1, <2>2, <2>3, <3>1, RestsElsewhere
  <2>4. CASE h = g
    <3>1. worker'[h] = [worker[h] EXCEPT !.failTries = worker[h].failTries + 1]
      BY <1>0, <1>1, <2>4
    <3>2. /\ worker'[h].pc = worker[h].pc /\ worker'[h].out = worker[h].out /\ SameText(h)
          /\ worker'[h].failAt = worker[h].failAt
      BY <1>0, <2>4, <3>1 DEF Tasks, SameText
    <3>3. NewCall(h, worker[h].failAt, "failed", <<>>)
      BY <1>1, <2>2, <2>4 DEF NewCall, Alike
    <3>4. Refails(h)
      BY <2>4, <3>2, <3>3 DEF Refails, RetryFailure
    <3> QED BY <3>4 DEF WorkMoves
  <2> QED BY <2>3, <2>4
<1>2. CASE End(g, calls)
  BY <1>2, EndMoves DEF RetryFailure, Alive
<1> QED BY <1>1, <1>2 DEF RetryFailure

LEMMA WorkingMoves ==
    ASSUME Shapes, NEW h \in Generations, NEW g \in Generations, Working(g)
    PROVE  WorkMoves(h)
<1> DEFINE w == worker[g]
<1>0. /\ TypeOK /\ worker \in [Generations -> Tasks] /\ w \in Tasks /\ <<>> \in Seq(Piece)
      /\ Outs = {"content", "tool", "completed", "failed"}
  BY DEF Shapes, TypeOK, Outs
<1>1. CASE Submitted(g)
  BY <1>0, <1>1, BeginMoves
<1>2. CASE Beat(g)
  <2>1. UNCHANGED calls
    BY <1>2 DEF Beat
  <2>2. CASE h # g
    BY <1>0, <1>2, <2>1, <2>2, RestsElsewhere DEF Beat
  <2>3. CASE h = g
    <3>1. worker'[h] = [w EXCEPT !.pc = IF w.pc = "start" THEN "run" ELSE w.pc]
      BY <1>0, <1>2, <2>3 DEF Beat
    <3>2. /\ SameText(h) /\ worker'[h].out = w.out /\ worker'[h].failAt = w.failAt
          /\ worker'[h].pc = w.pc \/ (w.pc = "start" /\ worker'[h].pc = "run")
      BY <1>0, <2>3, <3>1 DEF Tasks, SameText
    <3> QED BY <1>2, <2>1, <2>3, <3>2 DEF Shifts, OldCalls, Alike, WorkMoves, Beat
  <2> QED BY <2>2, <2>3
<1>3. CASE EmitContent(g)
  <2>1. UNCHANGED calls
    BY <1>3 DEF EmitContent
  <2>2. CASE h # g
    BY <1>0, <1>3, <2>1, <2>2, RestsElsewhere DEF EmitContent
  <2>3. CASE h = g
    <3> DEFINE p == Append(w.pending, [n |-> w.made + 1, from |-> w.known])
    <3>1. worker' = [worker EXCEPT ![g].made = w.made + 1, ![g].pending = p]
      BY <1>0, <1>3 DEF EmitContent, TypeOK
    <3> HIDE DEF p
    <3>2. worker'[h] = [w EXCEPT !.made = w.made + 1, !.pending = p]
      BY <1>0, <2>3, <3>1
    <3>3. /\ worker'[h].pc = w.pc /\ worker'[h].out = w.out /\ worker'[h].cursor = w.cursor
          /\ worker'[h].known = w.known /\ worker'[h].made = w.made + 1
          /\ worker'[h].pending = p /\ worker'[h].failAt = w.failAt
      BY <1>0, <3>2 DEF Tasks
    <3> QED BY <1>3, <2>1, <2>3, <3>3 DEF Produces, OldCalls, Alike, WorkMoves, EmitContent, p
  <2> QED BY <2>2, <2>3
<1>4. CASE Flush(g)
  <2>1. w.pending \in Seq(Piece) /\ "content" \in Outs
    BY <1>0, TaskFields
  <2> QED BY <1>0, <1>4, <2>1, PostMoves DEF Flush
<1>5. CASE EmitEnd(g)
  BY <1>0, <1>5, PostMoves DEF EmitEnd
<1>6. CASE StreamRaises(g)
  BY <1>0, <1>6, FailureMoves DEF StreamRaises
<1>7. CASE Retry(g)
  BY <1>0, <1>7, RepeatMoves
<1>8. CASE RetryFailure(g)
  BY <1>0, <1>8, RefailMoves
<1>9. CASE WorkerStop(g)
  BY <1>0, <1>9, EndMoves DEF WorkerStop
<1>10. CASE ToolCall(g)
  <2> DEFINE c == Call(g, "out", w.cursor + 1, "tool", <<>>, 1)
  <2>1. PICK s \in Sources \ w.known :
          worker' = [worker EXCEPT ![g].out = "tool", ![g].tries = 1,
                        ![g].tool = [source |-> s, resolved |-> FALSE]]
    BY <1>10 DEF ToolCall
  <2>2. /\ c.gen = g /\ c.seq = w.cursor + 1 /\ c.kind = "tool" /\ c.content = <<>>
        /\ calls' = calls \cup {c}
    BY <1>10 DEF Call, ToolCall
  <2> HIDE DEF c
  <2>3. CASE h # g
    <3>1. worker'[h] = worker[h]
      BY <1>0, <2>1, <2>3
    <3> QED BY <2>2, <2>3, <3>1, RestsElsewhere
  <2>4. CASE h = g
    <3> DEFINE t == [source |-> s, resolved |-> FALSE]
    <3>1. worker'[h] = [w EXCEPT !.out = "tool", !.tries = 1, !.tool = t]
      BY <1>0, <2>1, <2>4
    <3> HIDE DEF t
    <3>2. /\ worker'[h].pc = w.pc /\ worker'[h].out = "tool" /\ SameText(h)
          /\ worker'[h].failAt = w.failAt
      BY <1>0, <2>4, <3>1 DEF Tasks, SameText
    <3>3. NewCall(h, w.cursor + 1, "tool", <<>>)
      BY <2>2, <2>4 DEF NewCall, Alike
    <3>4. Posts(h, "tool", <<>>)
      BY <1>10, <2>4, <3>2, <3>3 DEF Posts, ToolCall
    <3> QED BY <1>0, <3>4 DEF WorkMoves
  <2> QED BY <2>3, <2>4
<1>11. CASE ToolResolve(g)
  <2> DEFINE t == IF Resolved(g) THEN [w.tool EXCEPT !.resolved = TRUE] ELSE None
  <2>1. worker' = [worker EXCEPT ![g].tool = t] /\ UNCHANGED calls /\ w.tool # None
    BY <1>11 DEF ToolResolve
  <2> HIDE DEF t
  <2>2. CASE h # g
    BY <1>0, <2>1, <2>2, RestsElsewhere
  <2>3. CASE h = g
    <3>1. worker'[h] = [w EXCEPT !.tool = t]
      BY <1>0, <2>1, <2>3
    <3>2. /\ worker'[h].pc = w.pc /\ worker'[h].out = w.out /\ SameText(h)
          /\ worker'[h].failAt = w.failAt
      BY <1>0, <2>3, <3>1 DEF Tasks, SameText
    <3> QED BY <2>1, <2>3, <3>2 DEF Shifts, OldCalls, Alike, WorkMoves
  <2> QED BY <2>2, <2>3
<1>12. CASE ToolResult(g)
  <2>1. UNCHANGED calls /\ w.tool # None
    BY <1>12 DEF ToolResult
  <2>2. CASE h # g
    BY <1>0, <1>12, <2>1, <2>2, RestsElsewhere DEF ToolResult
  <2>3. CASE h = g /\ Visible(g)
    <3> DEFINE k == w.known \cup {w.tool.source}
    <3>1. worker' = [worker EXCEPT ![g].tool = None, ![g].known = k]
      BY <1>12, <2>3 DEF ToolResult
    <3> HIDE DEF k
    <3>2. worker'[h] = [w EXCEPT !.tool = None, !.known = k]
      BY <1>0, <2>3, <3>1
    <3>3. /\ worker'[h].pc = w.pc /\ worker'[h].out = w.out /\ worker'[h].cursor = w.cursor
          /\ worker'[h].made = w.made /\ worker'[h].pending = w.pending
          /\ worker'[h].known = k /\ worker'[h].failAt = w.failAt
      BY <1>0, <3>2 DEF Tasks
    <3> QED BY <1>12, <2>1, <2>3, <3>3 DEF Learns, OldCalls, Alike, WorkMoves, k
  <2>4. CASE h = g /\ ~Visible(g)
    <3>2. worker'[h] = [w EXCEPT !.tool = None]
      BY <1>0, <1>12, <2>4 DEF ToolResult
    <3>3. /\ worker'[h].pc = w.pc /\ worker'[h].out = w.out /\ SameText(h)
          /\ worker'[h].failAt = w.failAt
      BY <1>0, <2>4, <3>2 DEF Tasks, SameText
    <3> QED BY <2>1, <2>4, <3>3 DEF Shifts, OldCalls, Alike, WorkMoves
  <2> QED BY <2>2, <2>3, <2>4
<1>13. CASE UnrecordedResult(g)
  <2> DEFINE k == w.known \cup {w.tool.source}
  <2>1. /\ worker' = [worker EXCEPT ![g].tool = None, ![g].known = k]
        /\ UNCHANGED calls /\ w.tool # None
    BY <1>13 DEF UnrecordedResult
  <2> HIDE DEF k
  <2>2. CASE h # g
    BY <1>0, <2>1, <2>2, RestsElsewhere
  <2>3. CASE h = g
    <3>1. worker'[h] = [w EXCEPT !.tool = None, !.known = k]
      BY <1>0, <2>1, <2>3
    <3>2. /\ worker'[h].pc = w.pc /\ worker'[h].out = w.out /\ worker'[h].cursor = w.cursor
          /\ worker'[h].made = w.made /\ worker'[h].pending = w.pending
          /\ worker'[h].known = k /\ worker'[h].failAt = w.failAt
      BY <1>0, <3>1 DEF Tasks
    <3> QED BY <1>13, <2>1, <2>3, <3>2 DEF Learns, OldCalls, Alike, WorkMoves, k
  <2> QED BY <2>2, <2>3
<1> QED BY <1>1, <1>2, <1>3, <1>4, <1>5, <1>6, <1>7, <1>8, <1>9, <1>10, <1>11, <1>12, <1>13
        DEF Working

LEMMA ReplyMoves ==
    ASSUME TypeOK, NEW h \in Generations, NEW c \in calls, NEW accepted \in BOOLEAN,
           Reply(c, accepted),
           accepted => /\ Accept(c)
                       /\ (Visible(c.gen) /\ Extends(c.gen, c.seq)) \/ Replays(c.gen, c)
    PROVE  WorkMoves(h)
<1> DEFINE g == c.gen
           w == worker[c.gen]
<1>0. /\ worker \in [Generations -> Tasks] /\ g \in Generations /\ w \in Tasks
      /\ calls \ {c} \subseteq calls /\ c.kind \in Outs
  BY DEF TypeOK, Callbacks
<1>4. Awaited(c) => Alive(g) \/ worker[g].out # None
  BY <1>0, NoneAssumption DEF Awaited, Alive
<1>1. CASE Acknowledge(c) /\ calls' = calls \ {c} /\ Awaited(c) /\ accepted
  <2>1. CASE h # g
    <3>1. worker'[h] = worker[h]
      BY <1>0, <1>1, <2>1 DEF Acknowledge
    <3> QED BY <1>1, <3>1, RestsElsewhere
  <2>2. CASE h = g /\ (c.slot = "fail" \/ w.pc = "closing")
    <3>1. worker'[h] = Ended
      BY <1>0, <1>1, <2>2 DEF Acknowledge, Acknowledged
    <3> QED BY <1>1, <1>4, <2>2, <3>1 DEF Ends, OldCalls, Alike, WorkMoves
  <2>3. CASE h = g /\ c.slot # "fail" /\ w.pc # "closing"
    <3> DEFINE p == IF c.kind = "content" THEN <<>> ELSE w.pending
    <3>1. worker'[h] = [w EXCEPT !.cursor = w.cursor + 1, !.out = None, !.tries = 0,
                                 !.pending = p]
      BY <1>0, <1>1, <2>3 DEF Acknowledge, Acknowledged
    <3> HIDE DEF p
    <3>2. /\ worker'[h].pc = w.pc /\ worker'[h].out = None /\ worker'[h].made = w.made
          /\ worker'[h].cursor = w.cursor + 1 /\ worker'[h].known = w.known
          /\ worker'[h].pending = p /\ worker'[h].failAt = w.failAt
      BY <1>0, <3>1 DEF Tasks
    <3>3. w.out = c.kind /\ w.cursor + 1 = c.seq
      BY <1>1, <2>3 DEF Awaited
    <3>4. Advances(h, c)
      BY <1>1, <2>3, <3>2, <3>3 DEF Advances, OldCalls, Alike, p
    <3> QED BY <3>4 DEF WorkMoves
  <2> QED BY <2>1, <2>2, <2>3
<1>2. CASE End(g, calls \ {c}) /\ Awaited(c)
  BY <1>0, <1>2, <1>4, EndMoves
<1>3. CASE Raise(g, calls \ {c}) /\ Awaited(c)
  BY <1>0, <1>3, <1>4, RaiseMoves
<1>5. CASE UNCHANGED worker /\ calls' = calls \ {c}
  BY <1>5, RestsElsewhere
<1> QED BY <1>1, <1>2, <1>3, <1>5 DEF Reply

LEMMA CallbackMoves ==
    ASSUME TypeOK, NEW h \in Generations, NEW c \in calls, Resolve(c) \/ Accept(c) \/ Lose(c)
    PROVE  WorkMoves(h)
<1>1. CASE Resolve(c)
  <2>1. CASE Resolved(c.gen)
    <3> DEFINE d == [c EXCEPT !.stage = "resolved"]
    <3>1. c \in Callbacks
      BY DEF TypeOK
    <3>2. Alike(d, c)
      BY <3>1 DEF Alike, Callbacks
    <3>3. calls' = (calls \ {c}) \cup {d} /\ UNCHANGED worker
      BY <1>1, <2>1 DEF Resolve
    <3> HIDE DEF d
    <3>4. OldCalls(h)
      BY <3>2, <3>3 DEF OldCalls, Alike
    <3> QED BY <3>3, <3>4 DEF Rests, WorkMoves
  <2>2. CASE ~Resolved(c.gen)
    <3>1. Reply(c, FALSE)
      BY <1>1, <2>2 DEF Resolve
    <3> QED BY <3>1, ReplyMoves
  <2> QED BY <2>1, <2>2
<1>2. CASE Accept(c)
  <2> DEFINE answer == Visible(c.gen) /\ Replays(c.gen, c)
             extends == Visible(c.gen) /\ Extends(c.gen, c.seq)
  <2>1. answer \in BOOLEAN /\ IF extends THEN Reply(c, TRUE) ELSE Reply(c, answer)
    BY <1>2 DEF Accept, Visible, Replays
  <2>2. CASE extends
    BY <1>2, <2>1, <2>2, ReplyMoves
  <2>3. CASE ~extends
    <3>1. answer => Replays(c.gen, c)
      OBVIOUS
    <3>2. Reply(c, answer)
      BY <2>1, <2>3
    <3> HIDE DEF answer
    <3> QED BY <1>2, <2>1, <3>1, <3>2, ReplyMoves
  <2> QED BY <2>2, <2>3
<1>3. CASE Lose(c)
  BY <1>3, RestsElsewhere DEF Lose
<1> QED BY <1>1, <1>2, <1>3

LEMMA WorkStep ==
    ASSUME Shapes, [Next]_vars, NEW h \in Generations
    PROVE  WorkMoves(h)
<1>0. TypeOK /\ worker \in [Generations -> Tasks]
  BY DEF Shapes, TypeOK
<1>1. CASE UNCHANGED <<worker, calls>>
  BY <1>1, RestsElsewhere
<1>2. ASSUME NEW g \in Generations, Sending(g) PROVE WorkMoves(h)
  BY <1>0, <1>1, <1>2, BeginMoves DEF Sending, Prepare, Reserve, ReserveRefused, RecordInput,
        ReadAuthorization, SaveAuthorization, FailSubmission, Abandon
<1>3. ASSUME NEW g \in Generations, Cancel(g) PROVE WorkMoves(h)
  <2>1. UNCHANGED calls
    BY <1>3 DEF Cancel, Outside
  <2>2. CASE worker'[h] = worker[h]
    BY <2>1, <2>2, RestsElsewhere
  <2>3. CASE worker'[h] = Ended /\ Alive(h)
    BY <2>1, <2>3 DEF Ends, OldCalls, Alike, WorkMoves
  <2> QED BY <1>0, <1>3, <2>2, <2>3 DEF Cancel
<1>4. ASSUME NEW g \in Generations, Sweeping(g) \/ ViewRead(g) PROVE WorkMoves(h)
  BY <1>1, <1>4 DEF Sweeping, LeaseLapses, CapabilityLapses, ExpireLease, RemoveGeneration,
        Outside, ViewRead
<1>5. ASSUME \/ ScanLeases \/ Housekeeping \/ CloseTemporary \/ Restart
             \/ EditRead \/ EditSave \/ DeleteCheck \/ RemoveRows \/ RemoveChat \/ ViewPage
      PROVE  WorkMoves(h)
  BY <1>1, <1>5 DEF ScanLeases, Housekeeping, CloseTemporary, Restart,
        EditRead, EditSave, DeleteCheck, RemoveRows, RemoveChat, Outside, ViewPage
<1>6. CASE UNCHANGED vars
  BY <1>1, <1>6 DEF vars, actors
<1> QED BY <1>0, <1>2, <1>3, <1>4, <1>5, <1>6, WorkingMoves, CallbackMoves DEF Next

---------------------------------------------------------------------------
(* What a step can do to one request.                                      *)

Quits(h) ==
    /\ sender[h].pc \notin {"idle", "done"}
    /\ sender'[h].pc = "done" /\ sender'[h].flying = sender[h].flying
    /\ sender[h].flying => sender'[h].sources = sender[h].sources
    /\ sender'[h].basis = IF sender[h].flying THEN sender[h].basis ELSE {}

\* What the request was given is what it was.
SameInput(h) ==
    sender'[h].sources = sender[h].sources /\ sender'[h].basis = sender[h].basis

Sends(h, from, to) ==
    /\ sender[h].pc = from /\ sender'[h].pc = to
    /\ sender'[h].flying = sender[h].flying /\ SameInput(h)

SendMoves(h) ==
    \/ sender'[h] = sender[h]
    \/ /\ Prepare(h) /\ sender'[h].pc = "prepared" /\ sender'[h].flying = sender[h].flying
       /\ sender'[h].sources = History \cup {h} /\ sender'[h].basis = Basis \cup {h}
    \/ Reserve(h) /\ Sends(h, "prepared", "reserved")
    \/ ReserveRefused(h) /\ sender'[h] = NoSender
    \/ RecordInput(h) /\ Visible(h) /\ Sends(h, "reserved", "noted")
    \/ /\ ReadAuthorization(h) /\ Visible(h) /\ Sends(h, "noted", "read")
       /\ sender'[h].copy = gen[h]
    \/ /\ SaveAuthorization(h) /\ Unchanged(h) /\ sender[h].pc = "read"
       /\ sender'[h].pc = "waiting" /\ sender'[h].flying
       /\ SameInput(h)
    \/ /\ Submitted(h) /\ ~sender'[h].flying /\ sender'[h].basis = {}
       /\ sender'[h].pc = IF sender[h].pc = "waiting" THEN "done" ELSE sender[h].pc
    \/ /\ Refused(h) /\ sender[h].pc = "waiting" /\ sender'[h].pc = "refused"
       /\ SameInput(h)
       /\ sender'[h].flying => UNCHANGED worker
    \/ Quits(h)

LEMMA QuitMoves ==
    ASSUME TypeOK, NEW h \in Generations, NEW g \in Generations, Quit(g),
           sender[g].pc \notin {"idle", "done"}
    PROVE  SendMoves(h)
<1> DEFINE s == IF sender[g].flying THEN sender[g].sources ELSE {}
           b == IF sender[g].flying THEN sender[g].basis ELSE {}
           r == [NoSender EXCEPT !.pc = "done", !.flying = sender[g].flying, !.sources = s,
                                 !.basis = b]
<1>0. sender \in [Generations -> Senders] /\ sender[g] \in Senders
  BY DEF TypeOK
<1>1. sender' = [sender EXCEPT ![g] = r]
  BY DEF Quit
<1> HIDE DEF s, b
<1>2. r.pc = "done" /\ r.flying = sender[g].flying /\ r.sources = s /\ r.basis = b
  BY DEF NoSender
<1> HIDE DEF r
<1>3. CASE h = g
  BY <1>0, <1>1, <1>2, <1>3 DEF SendMoves, Quits, s, b
<1>4. CASE h # g
  BY <1>0, <1>1, <1>4 DEF SendMoves
<1> QED BY <1>3, <1>4

LEMMA SendStep ==
    ASSUME Shapes, [Next]_vars, NEW h \in Generations
    PROVE  SendMoves(h)
<1>0. TypeOK /\ sender \in [Generations -> Senders]
  BY DEF Shapes, TypeOK
<1>1. CASE sender'[h] = sender[h]
  BY <1>1 DEF SendMoves
<1>2. ASSUME NEW g \in Generations, Sending(g) PROVE SendMoves(h)
  <2>0. sender[g] \in Senders
    BY <1>0
  <2>1. CASE Prepare(g)
    <3> DEFINE s == History \cup {g}
               b == Basis \cup {g}
    <3>1. sender' = [sender EXCEPT ![g].pc = "prepared", ![g].sources = s, ![g].basis = b]
      BY <2>1 DEF Prepare
    <3> HIDE DEF s, b
    <3>2. CASE h = g
      <4>1. /\ sender'[h].pc = "prepared" /\ sender'[h].flying = sender[h].flying
            /\ sender'[h].sources = s /\ sender'[h].basis = b
        BY <1>0, <2>0, <3>1, <3>2 DEF Senders
      <4> QED BY <2>1, <3>2, <4>1 DEF SendMoves, s, b
    <3> QED BY <1>0, <1>1, <3>1, <3>2
  <2>2. CASE Reserve(g)
    <3>1. sender' = [sender EXCEPT ![g].pc = "reserved"] /\ sender[g].pc = "prepared"
      BY <2>2 DEF Reserve
    <3>2. CASE h = g
      <4>1. Sends(h, "prepared", "reserved")
        BY <1>0, <2>0, <3>1, <3>2 DEF Senders, Sends, SameInput
      <4> QED BY <2>2, <3>2, <4>1 DEF SendMoves
    <3> QED BY <1>0, <1>1, <3>1, <3>2
  <2>3. CASE ReserveRefused(g)
    BY <1>0, <1>1, <2>3 DEF ReserveRefused, SendMoves
  <2>4. CASE RecordInput(g) /\ Visible(g)
    <3>1. sender' = [sender EXCEPT ![g].pc = "noted"] /\ sender[g].pc = "reserved"
      BY <2>4 DEF RecordInput
    <3>2. CASE h = g
      <4>1. Sends(h, "reserved", "noted")
        BY <1>0, <2>0, <3>1, <3>2 DEF Senders, Sends, SameInput
      <4> QED BY <2>4, <3>2, <4>1 DEF SendMoves
    <3> QED BY <1>0, <1>1, <3>1, <3>2
  <2>5. CASE ReadAuthorization(g) /\ Visible(g)
    <3>1. /\ sender' = [sender EXCEPT ![g].pc = "read", ![g].copy = gen[g]]
          /\ sender[g].pc = "noted"
      BY <2>5 DEF ReadAuthorization
    <3>2. CASE h = g
      <4>1. Sends(h, "noted", "read") /\ sender'[h].copy = gen[h]
        BY <1>0, <2>0, <3>1, <3>2 DEF Senders, Sends, SameInput
      <4> QED BY <2>5, <3>2, <4>1 DEF SendMoves
    <3> QED BY <1>0, <1>1, <3>1, <3>2
  <2>6. CASE SaveAuthorization(g) /\ Unchanged(g)
    <3>1. /\ sender' = [sender EXCEPT ![g].pc = "waiting", ![g].copy = None, ![g].flying = TRUE]
          /\ sender[g].pc = "read"
      BY <2>6 DEF SaveAuthorization
    <3>2. CASE h = g
      <4>1. /\ sender'[h].pc = "waiting" /\ sender'[h].flying
            /\ SameInput(h)
        BY <1>0, <2>0, <3>1, <3>2 DEF Senders, SameInput
      <4> QED BY <2>6, <3>1, <3>2, <4>1 DEF SendMoves
    <3> QED BY <1>0, <1>1, <3>1, <3>2
  <2>7. CASE Refused(g)
    <3>1. PICK taken, late \in BOOLEAN :
            /\ sender' = [sender EXCEPT ![g].pc = "refused", ![g].flying = late /\ ~taken]
            /\ worker' = IF taken THEN [worker EXCEPT ![g] = Started(g)] ELSE worker
      BY <2>7 DEF Refused
    <3>2. CASE h = g
      <4>1. /\ sender'[h].pc = "refused" /\ sender'[h].flying = (late /\ ~taken)
            /\ SameInput(h)
        BY <1>0, <2>0, <3>1, <3>2 DEF Senders, SameInput
      <4>2. sender'[h].flying => UNCHANGED worker
        BY <3>1, <4>1
      <4> QED BY <2>7, <3>2, <4>1, <4>2 DEF SendMoves, Refused
    <3> QED BY <1>0, <1>1, <3>1, <3>2
  <2>8. CASE Quit(g) /\ sender[g].pc \notin {"idle", "done"}
    BY <1>0, <2>8, QuitMoves
  <2> QED BY <1>2, <2>1, <2>2, <2>3, <2>4, <2>5, <2>6, <2>7, <2>8
          DEF Sending, RecordInput, ReadAuthorization, SaveAuthorization, FailSubmission, Abandon
<1>3. ASSUME NEW g \in Generations, Submitted(g) PROVE SendMoves(h)
  <2> DEFINE p == IF sender[g].pc = "waiting" THEN "done" ELSE sender[g].pc
  <2>0. sender[g] \in Senders
    BY <1>0
  <2>1. sender' = [sender EXCEPT ![g].flying = FALSE, ![g].pc = p, ![g].sources = {},
                                ![g].basis = {}]
    BY <1>0, <1>3 DEF Submitted
  <2> HIDE DEF p
  <2>2. CASE h = g
    <3>1. ~sender'[h].flying /\ sender'[h].pc = p /\ sender'[h].basis = {}
      BY <1>0, <2>0, <2>1, <2>2 DEF Senders
    <3> QED BY <1>3, <2>2, <3>1 DEF SendMoves, p
  <2> QED BY <1>0, <1>1, <2>1, <2>2
<1>4. CASE UNCHANGED sender
  BY <1>1, <1>4
<1> QED BY <1>2, <1>3, <1>4 DEF Next, vars, actors, Working, Sweeping, Beat, EmitContent, Flush,
        EmitEnd, StreamRaises, Retry, RetryFailure, WorkerStop, ToolCall, ToolResolve, ToolResult,
        UnrecordedResult, WorkerOnly, Outside, LeaseLapses, CapabilityLapses, ExpireLease, RemoveGeneration,
        Cancel, ViewRead, Resolve, Accept, Lose, ScanLeases, Housekeeping, CloseTemporary, Restart,
        EditRead, EditSave, DeleteCheck, RemoveRows, RemoveChat, ViewPage

---------------------------------------------------------------------------
(* The life of a generation: Lifecycle, Revisions and EndsLast.            *)

LEMMA LifecycleOf ==
    ASSUME Lifecycle, NEW g \in Generations
    PROVE  /\ gen[g] = None => output[g] = <<>>
           /\ gen[g] # None => sender[g].pc \notin {"idle", "prepared"}
           /\ sender[g].pc \in Early => worker[g].pc = "none" /\ ~sender[g].flying
           /\ sender[g].pc = "waiting" => sender[g].flying
           /\ sender[g].flying => worker[g].pc = "none"
           /\ worker[g].pc = "none" =>
                 /\ worker[g] = NoWorker
                 /\ \A c \in calls : c.gen # g
                 /\ Opened(g) => output[g] = <<>>
           /\ worker[g].pc = "done" => worker[g] = Ended
BY DEF Lifecycle

\* A worker that is not alive can only be started.
LEMMA Living ==
    ASSUME Shapes, Lifecycle, NEW h \in Generations, ~Alive(h), WorkMoves(h)
    PROVE  Rests(h) \/ (Begins(h) /\ worker[h].pc = "none")
<1>0. worker[h] \in Tasks /\ TypeOK
  BY DEF Shapes, TypeOK
<1>1. worker[h].pc \in {"none", "done"}
  BY <1>0 DEF Tasks, Alive
<1>2. worker[h].out = None /\ worker[h].tool = None
  BY <1>1, LifecycleOf DEF Ended, NoWorker
<1>3. ASSUME Begins(h) PROVE worker[h].pc = "none"
  BY <1>3, LifecycleOf DEF Begins, Submitted, Refused
<1>4. ASSUME NEW c \in calls, Advances(h, c) PROVE FALSE
  <2>1. c.kind \in Outs
    BY <1>0 DEF TypeOK, Callbacks
  <2> QED BY <1>2, <1>4, <2>1, NoneAssumption DEF Advances
<1> HIDE DEF WorkMoves
<1>5. ~Ends(h) /\ ~Shifts(h) /\ ~Learns(h) /\ ~Repeats(h)
  BY <1>1, <1>2 DEF Ends, Shifts, Learns, Repeats, Alive
<1>6. ~Produces(h) /\ ~Breaks(h) /\ ~Refails(h)
  BY <1>1 DEF Produces, Breaks, Refails
<1>7. \A kind \in Outs, content \in Seq(Piece) : ~Posts(h, kind, content)
  BY <1>1 DEF Posts
<1> QED BY <1>3, <1>4, <1>5, <1>6, <1>7 DEF WorkMoves

\* The submission is consumed by the start of the task.
LEMMA BeginsOnce ==
    ASSUME Shapes, Lifecycle, NEW h \in Generations, Begins(h)
    PROVE  /\ sender[h].flying /\ ~sender'[h].flying /\ sender[h].pc \notin Early
           /\ sender'[h].pc \notin Early /\ sender'[h].pc # "waiting"
<1>0. /\ sender \in [Generations -> Senders] /\ sender[h] \in Senders
      /\ worker \in [Generations -> Tasks]
  BY DEF Shapes, TypeOK
<1>1. Started(h).pc = "start"
  BY DEF Started, NoWorker
<1>2. CASE Submitted(h)
  <2> DEFINE p == IF sender[h].pc = "waiting" THEN "done" ELSE sender[h].pc
  <2>1. sender' = [sender EXCEPT ![h].flying = FALSE, ![h].pc = p, ![h].sources = {},
                                ![h].basis = {}]
    BY <1>0, <1>2 DEF Submitted
  <2> HIDE DEF p
  <2>2. ~sender'[h].flying /\ sender'[h].pc = p
    BY <1>0, <2>1 DEF Senders
  <2>3. sender[h].flying /\ sender[h].pc \notin Early
    BY <1>2, LifecycleOf DEF Submitted
  <2> QED BY <2>2, <2>3 DEF p, Early
<1>3. CASE Refused(h)
  <2>1. PICK taken, late \in BOOLEAN :
          /\ sender' = [sender EXCEPT ![h].pc = "refused", ![h].flying = late /\ ~taken]
          /\ worker' = IF taken THEN [worker EXCEPT ![h] = Started(h)] ELSE worker
    BY <1>3 DEF Refused
  <2>2. sender'[h].pc = "refused" /\ sender'[h].flying = (late /\ ~taken)
    BY <1>0, <2>1 DEF Senders
  <2>3. sender[h].pc = "waiting" /\ sender[h].flying /\ worker[h].pc = "none"
    BY <1>3, LifecycleOf DEF Refused
  <2>4. taken
    BY <1>1, <2>1, <2>3 DEF Begins
  <2> QED BY <2>2, <2>3, <2>4 DEF Early
<1> QED BY <1>2, <1>3 DEF Begins

\* A save with an unchanged revision writes the status and evidence back.
LEMMA SavedSame ==
    ASSUME Revisions, NEW h \in Generations, Saved(h)
    PROVE  /\ gen'[h].status = gen[h].status /\ gen'[h].evidence = gen[h].evidence
           /\ gen'[h].rev = Bump(gen[h].rev)
<1>1. sender[h].pc = "read" /\ gen[h] # None /\ gen[h].rev = sender[h].copy.rev
  BY DEF Saved, SaveAuthorization
<1>2. /\ Before(h, gen[h], 2) /\ Before(h, sender[h].copy, 2)
      /\ sender[h].copy.evidence = gen[h].evidence
      /\ sender[h].copy.status # "pending" => gen[h].status = sender[h].copy.status
  BY <1>1 DEF Revisions
<1>3. sender[h].copy.status = gen[h].status
  <2>1. CASE sender[h].copy.status = "pending"
    <3>1. sender[h].copy.rev = 2
      BY <1>2, <2>1 DEF Before
    <3>2. gen[h].status # "pending" => gen[h].rev = 3
      BY <1>2 DEF Before
    <3> QED BY <1>1, <2>1, <3>1, <3>2
  <2> QED BY <1>2, <2>1
<1> QED BY <1>1, <1>2, <1>3 DEF Saved

\* Before the submission only an ending is appended, and not by the request.
LEMMA EarlyAppends ==
    ASSUME Shapes, Lifecycle, NEW h \in Generations, sender[h].pc \in Early \cup {"waiting"},
           NEW kind \in Appendable, NEW content \in Seq(Piece), Appends(h, kind, content)
    PROVE  kind \in Terminal /\ UNCHANGED sender
<1>1. worker[h].pc = "none" /\ \A c \in calls : c.gen # h
  BY LifecycleOf
<1>2. ~Beat(h) /\ ~FailSubmission(h)
  BY <1>1 DEF Beat, Alive, FailSubmission, Early
<1> QED BY <1>1, <1>2 DEF Appends, Cancel, ExpireLease, Outside, Terminal

LEMMA LifecycleStep ==
    ASSUME Shapes, Lifecycle, Revisions, [Next]_vars
    PROVE  Lifecycle'
<1> SUFFICES ASSUME NEW h \in Generations
             PROVE  /\ gen'[h] = None => output'[h] = <<>>
                    /\ gen'[h] # None => sender'[h].pc \notin {"idle", "prepared"}
                    /\ sender'[h].pc \in Early => worker'[h].pc = "none" /\ ~sender'[h].flying
                    /\ sender'[h].pc = "waiting" => sender'[h].flying
                    /\ sender'[h].flying => worker'[h].pc = "none"
                    /\ worker'[h].pc = "none" =>
                          /\ worker'[h] = NoWorker
                          /\ \A c \in calls' : c.gen # h
                          /\ Opened(h)' => output'[h] = <<>>
                    /\ worker'[h].pc = "done" => worker'[h] = Ended
  BY DEF Lifecycle
<1>0. GenMoves(h) /\ SendMoves(h) /\ WorkMoves(h)
  BY GenStep, SendStep, WorkStep
<1>a. /\ sender \in [Generations -> Senders] /\ sender[h] \in Senders /\ worker[h] \in Tasks
      /\ TypeOK
  BY DEF Shapes, TypeOK
<1>b. /\ Started(h).pc = "start" /\ Ended.pc = "done" /\ NoSender.pc = "idle" /\ ~NoSender.flying
  BY DEF Started, NoWorker, Ended, NoSender
<1>1. gen'[h] = None => output'[h] = <<>>
  BY <1>0, LifecycleOf DEF GenMoves, Kept, Gone, Fresh, Saved, Grown, Appends, Wrote
<1>2. ASSUME gen'[h] # None PROVE sender'[h].pc \notin {"idle", "prepared"}
  <2>1. CASE Fresh(h)
    <3>1. sender' = [sender EXCEPT ![h].pc = "reserved"]
      BY <2>1 DEF Fresh, Reserve
    <3> QED BY <1>a, <3>1 DEF Senders
  <2>2. CASE ~Fresh(h)
    <3>1. gen[h] # None
      BY <1>0, <1>2, <2>2 DEF GenMoves, Kept, Gone, Saved, Grown, Appends, Wrote
    <3>2. sender[h].pc \notin {"idle", "prepared"}
      BY <3>1, LifecycleOf
    <3> QED BY <1>0, <3>2 DEF SendMoves, Sends, Quits, Prepare, ReserveRefused
  <2> QED BY <2>1, <2>2
<1>3. ASSUME sender'[h].pc \in Early PROVE worker'[h].pc = "none" /\ ~sender'[h].flying
  <2>1. sender[h].pc \in Early /\ ~sender[h].flying /\ worker[h].pc = "none"
    <3>1. ~Submitted(h) \/ sender[h].pc \in Early
      <4>1. CASE Submitted(h)
        <5>1. sender'[h].pc = IF sender[h].pc = "waiting" THEN "done" ELSE sender[h].pc
          <6> DEFINE p == IF sender[h].pc = "waiting" THEN "done" ELSE sender[h].pc
          <6>1. sender' = [sender EXCEPT ![h].flying = FALSE, ![h].pc = p, ![h].sources = {},
                                        ![h].basis = {}]
            BY <1>a, <4>1 DEF Submitted
          <6> HIDE DEF p
          <6>2. sender'[h].pc = p
            BY <1>a, <6>1 DEF Senders
          <6> QED BY <6>2 DEF p
        <5> QED BY <1>3, <5>1 DEF Early
      <4> QED BY <4>1
    <3>2. sender[h].pc \in Early
      BY <1>0, <1>3, <3>1 DEF SendMoves, Sends, Quits, Prepare, ReserveRefused, Early
    <3> QED BY <3>2, LifecycleOf
  <2>2. Rests(h)
    BY <1>0, <2>1, Living, BeginsOnce DEF Alive
  <2>3. ~sender'[h].flying
    BY <1>0, <1>3, <1>b, <2>1 DEF SendMoves, Sends, Quits, Early
  <2> QED BY <2>1, <2>2, <2>3 DEF Rests
<1>4. ASSUME sender'[h].pc = "waiting" PROVE sender'[h].flying
  <2>1. CASE sender'[h] = sender[h]
    BY <1>4, <2>1, LifecycleOf
  <2> QED BY <1>0, <1>4, <1>b, <2>1 DEF SendMoves, Sends, Quits
<1>5. ASSUME sender'[h].flying PROVE worker'[h].pc = "none"
  <2>1. worker[h].pc = "none"
    <3>1. CASE SaveAuthorization(h)
      BY <3>1, LifecycleOf DEF SaveAuthorization, Early
    <3>2. CASE Refused(h)
      BY <3>2, LifecycleOf DEF Refused
    <3>3. CASE sender[h].flying
      BY <3>3, LifecycleOf
    <3> QED BY <1>0, <1>5, <1>b, <3>1, <3>2, <3>3 DEF SendMoves, Sends, Quits
  <2>2. Rests(h)
    BY <1>0, <1>5, <2>1, Living, BeginsOnce DEF Alive
  <2> QED BY <2>1, <2>2 DEF Rests
<1>6. ASSUME worker'[h].pc = "none"
      PROVE  worker[h].pc = "none" /\ Rests(h)
  <2>1. ~Alive(h)
    <3>1. SUFFICES ASSUME Alive(h) PROVE FALSE
      OBVIOUS
    <3>2. ~Rests(h) /\ ~Begins(h) /\ ~Ends(h)
      BY <1>6, <1>b, <3>1 DEF Rests, Begins, Ends, Alive
    <3>3. ~Shifts(h) /\ ~Learns(h) /\ ~Produces(h) /\ ~Repeats(h) /\ ~Breaks(h) /\ ~Refails(h)
      BY <1>6, <3>1 DEF Shifts, Learns, Produces, Repeats, Breaks, Refails, Alive
    <3>4. \A kind \in Outs, content \in Seq(Piece) : ~Posts(h, kind, content)
      BY <1>6 DEF Posts
    <3>5. \A c \in calls : ~Advances(h, c)
      BY <1>6, <3>1 DEF Advances, Alive
    <3> QED BY <1>0, <3>2, <3>3, <3>4, <3>5 DEF WorkMoves
  <2> QED BY <1>0, <1>6, <1>b, <2>1, Living DEF Rests, Begins
<1>7. ASSUME worker'[h].pc = "none"
      PROVE  /\ worker'[h] = NoWorker
             /\ \A c \in calls' : c.gen # h
  BY <1>6, <1>7, LifecycleOf DEF Rests, OldCalls, Alike
<1>8. ASSUME worker'[h].pc = "none", Opened(h)' PROVE output'[h] = <<>>
  <2>1. worker[h].pc = "none" /\ \A c \in calls : c.gen # h
    BY <1>6, <1>8, LifecycleOf
  <2>2. gen'[h] # None /\ gen'[h].status \in Active
    BY <1>8 DEF Opened
  <2>3. CASE Fresh(h)
    BY <2>3, LifecycleOf DEF Fresh
  <2>4. CASE \E kind \in Appendable, content \in Seq(Piece) : Appends(h, kind, content)
    <3>1. PICK kind \in Appendable, content \in Seq(Piece) : Appends(h, kind, content)
      BY <2>4
    <3>2. kind \in Terminal
      BY <2>1, <3>1 DEF Appends, Beat, Alive, Terminal
    <3> QED BY <2>2, <3>1, <3>2 DEF Appends, Wrote, Stops, Active, Terminal
  <2>5. CASE Saved(h)
    BY <2>1, <2>2, <2>5, SavedSame, LifecycleOf DEF Saved, Opened
  <2>6. CASE Kept(h) \/ \E s : Grown(h, s)
    BY <2>1, <2>2, <2>6, LifecycleOf DEF Kept, Grown, Opened
  <2> QED BY <1>0, <2>2, <2>3, <2>4, <2>5, <2>6 DEF GenMoves, Gone
<1>9. ASSUME worker'[h].pc = "done" PROVE worker'[h] = Ended
  <2>1. CASE Alive(h)
    <3>2. ~Rests(h) /\ ~Begins(h)
      BY <1>9, <1>b, <2>1 DEF Rests, Begins, Alive
    <3>3. ~Shifts(h) /\ ~Learns(h) /\ ~Produces(h) /\ ~Repeats(h) /\ ~Breaks(h) /\ ~Refails(h)
      BY <1>9, <2>1 DEF Shifts, Learns, Produces, Repeats, Breaks, Refails, Alive
    <3>4. \A kind \in Outs, content \in Seq(Piece) : ~Posts(h, kind, content)
      BY <1>9 DEF Posts
    <3>5. \A c \in calls : ~Advances(h, c)
      BY <1>9, <2>1 DEF Advances, Alive
    <3> QED BY <1>0, <3>2, <3>3, <3>4, <3>5 DEF WorkMoves, Ends
  <2>2. CASE ~Alive(h)
    BY <1>0, <1>9, <1>b, <2>2, Living, LifecycleOf DEF Rests, Begins
  <2> QED BY <2>1, <2>2
<1> QED BY <1>1, <1>2, <1>3, <1>4, <1>5, <1>7, <1>8, <1>9

LEMMA RevisionsOf ==
    ASSUME Revisions, NEW g \in Generations
    PROVE  /\ gen[g] # None =>
                 /\ sender[g].pc = "reserved" => Before(g, gen[g], 1)
                 /\ sender[g].pc \in {"noted", "read"} => Before(g, gen[g], 2)
           /\ sender[g].pc = "read" =>
                 /\ sender[g].copy # None /\ Before(g, sender[g].copy, 2)
                 /\ gen[g] # None =>
                       /\ sender[g].copy.evidence = gen[g].evidence
                       /\ sender[g].copy.status # "pending" =>
                             gen[g].status = sender[g].copy.status
BY DEF Revisions

\* An ending is one more revision, and evidence noted another.
LEMMA BeforeWritten ==
    ASSUME NEW g, NEW r, NEW s, NEW steps \in 1..2, Before(g, r, steps), r.status \in Active,
           s.status \in Terminal, s.rev = Bump(r.rev)
    PROVE  Before(g, s, steps)
<1>1. r.status = "pending" /\ s.status # "pending"
  BY DEF Before, Active, Terminal
<1>2. r.rev = steps
  BY <1>1 DEF Before
<1>3. s.rev = steps + 1
  BY <1>2 DEF Bump, RevisionCap
<1> QED BY <1>1, <1>3 DEF Before

LEMMA BeforeNoted ==
    ASSUME NEW g, NEW r, NEW s, Before(g, r, 1), s.status = r.status, s.rev = Bump(r.rev)
    PROVE  Before(g, s, 2)
<1>1. CASE r.status = "pending"
  <2>1. r.rev = 1
    BY <1>1 DEF Before
  <2>2. s.rev = 2
    BY <2>1 DEF Bump, RevisionCap
  <2> QED BY <1>1, <2>2 DEF Before
<1>2. CASE r.status # "pending"
  <2>1. r.rev = 2
    BY <1>2 DEF Before
  <2>2. s.rev = 3
    BY <2>1 DEF Bump, RevisionCap
  <2> QED BY <1>2, <2>2 DEF Before
<1> QED BY <1>1, <1>2

LEMMA BeforeSame ==
    ASSUME NEW g, NEW r, NEW s, NEW steps, Before(g, r, steps),
           s.status = r.status, s.rev = r.rev
    PROVE  Before(g, s, steps)
BY DEF Before

\* While the request does not move, its record is kept, ended or gone.
LEMMA RevisionsStill ==
    ASSUME Shapes, Lifecycle, Revisions, NEW h \in Generations, GenMoves(h),
           sender'[h] = sender[h], sender[h].pc \in {"reserved", "noted", "read"}
    PROVE  \/ Kept(h) \/ Gone(h)
           \/ /\ gen[h] # None /\ gen'[h] # None /\ gen[h].status \in Active
              /\ gen'[h].status \in Terminal /\ gen'[h].rev = Bump(gen[h].rev)
              /\ gen'[h].evidence = gen[h].evidence
<1>0. sender \in [Generations -> Senders] /\ sender[h] \in Senders
  BY DEF Shapes, TypeOK
<1>1. ~Fresh(h)
  BY DEF Fresh, Reserve
<1>2. ~Saved(h)
  <2> SUFFICES ASSUME Saved(h) PROVE FALSE
    OBVIOUS
  <2>1. Unchanged(h) /\ SaveAuthorization(h)
    BY DEF Saved, Unchanged
  <2>2. sender' = [sender EXCEPT ![h].pc = "waiting", ![h].copy = None, ![h].flying = TRUE]
    BY <2>1 DEF SaveAuthorization
  <2>3. sender'[h].pc = "waiting"
    BY <1>0, <2>2 DEF Senders
  <2> QED BY <2>3
<1>3. ~(RecordInput(h) /\ Grown(h, sender[h].sources))
  <2> SUFFICES ASSUME RecordInput(h), Grown(h, sender[h].sources) PROVE FALSE
    OBVIOUS
  <2>1. Visible(h) /\ sender[h].pc = "reserved"
    BY DEF Grown, Visible, RecordInput
  <2>2. sender' = [sender EXCEPT ![h].pc = "noted"]
    BY <2>1 DEF RecordInput
  <2>3. sender'[h].pc = "noted"
    BY <1>0, <2>2 DEF Senders
  <2> QED BY <2>1, <2>3
<1>4. ~ToolResult(h)
  BY LifecycleOf DEF ToolResult, Early, NoWorker
<1>5. ASSUME NEW kind \in Appendable, NEW content \in Seq(Piece), Appends(h, kind, content)
      PROVE  /\ gen[h] # None /\ gen'[h] # None /\ gen[h].status \in Active
             /\ gen'[h].status \in Terminal /\ gen'[h].rev = Bump(gen[h].rev)
             /\ gen'[h].evidence = gen[h].evidence
  <2>1. kind \in Terminal
    BY <1>5, EarlyAppends DEF Early
  <2> QED BY <1>5, <2>1 DEF Appends, Wrote, Stops
<1> QED BY <1>1, <1>2, <1>3, <1>4, <1>5 DEF GenMoves

LEMMA RevisionsStep ==
    ASSUME Shapes, Lifecycle, Revisions, [Next]_vars
    PROVE  Revisions'
<1> SUFFICES ASSUME NEW h \in Generations
             PROVE  /\ gen'[h] # None =>
                          /\ sender'[h].pc = "reserved" => Before(h, gen'[h], 1)
                          /\ sender'[h].pc \in {"noted", "read"} => Before(h, gen'[h], 2)
                    /\ sender'[h].pc = "read" =>
                          /\ sender'[h].copy # None /\ Before(h, sender'[h].copy, 2)
                          /\ gen'[h] # None =>
                                /\ sender'[h].copy.evidence = gen'[h].evidence
                                /\ sender'[h].copy.status # "pending" =>
                                      gen'[h].status = sender'[h].copy.status
  BY DEF Revisions, Before
<1>0. GenMoves(h) /\ SendMoves(h) /\ TypeOK
  BY GenStep, SendStep DEF Shapes
<1>1. CASE sender'[h] = sender[h] /\ sender[h].pc \in {"reserved", "noted", "read"}
  <2>1. CASE Gone(h)
    BY <1>1, <2>1, RevisionsOf DEF Gone
  <2>2. CASE Kept(h) /\ gen[h] # None
    <3>1. /\ gen'[h].status = gen[h].status /\ gen'[h].evidence = gen[h].evidence
          /\ gen'[h].rev = gen[h].rev
      BY <2>2 DEF Kept
    <3>2. /\ sender[h].pc = "reserved" => Before(h, gen'[h], 1)
          /\ sender[h].pc \in {"noted", "read"} => Before(h, gen'[h], 2)
      BY <2>2, <3>1, RevisionsOf, BeforeSame
    <3> QED BY <1>1, <2>2, <3>1, <3>2, RevisionsOf
  <2>3. CASE Kept(h) /\ gen[h] = None
    BY <1>1, <2>3, RevisionsOf DEF Kept
  <2>4. CASE /\ gen[h] # None /\ gen'[h] # None /\ gen[h].status \in Active
             /\ gen'[h].status \in Terminal /\ gen'[h].rev = Bump(gen[h].rev)
             /\ gen'[h].evidence = gen[h].evidence
    <3>1. /\ sender[h].pc = "reserved" => Before(h, gen'[h], 1)
          /\ sender[h].pc \in {"noted", "read"} => Before(h, gen'[h], 2)
      BY <2>4, RevisionsOf, BeforeWritten
    <3>2. sender[h].pc = "read" => sender[h].copy.status = "pending"
      BY <2>4, RevisionsOf DEF Before, Active, Terminal
    <3> QED BY <1>1, <2>4, <3>1, <3>2, RevisionsOf
  <2> QED BY <1>0, <1>1, <2>1, <2>2, <2>3, <2>4, RevisionsStill
<1>2. CASE Reserve(h) /\ Sends(h, "prepared", "reserved")
  <2>1. Fresh(h)
    BY <1>2, FreshIs
  <2>2. Before(h, gen'[h], 1)
    BY <2>1 DEF Fresh, Before
  <2> QED BY <1>2, <2>2 DEF Sends
<1>3. CASE RecordInput(h) /\ Visible(h) /\ Sends(h, "reserved", "noted")
  <2>1. sender[h].sources \in SUBSET Evidence
    BY <1>0 DEF TypeOK, Senders
  <2>2. Grown(h, sender[h].sources)
    BY <1>0, <1>3, <2>1, GrownIs DEF RecordInput, Visible
  <2>3. Before(h, gen'[h], 2)
    BY <1>3, <2>2, RevisionsOf, BeforeNoted DEF Grown, Sends
  <2> QED BY <1>3, <2>3 DEF Sends
<1>4. CASE ReadAuthorization(h) /\ Visible(h) /\ Sends(h, "noted", "read") /\ sender'[h].copy = gen[h]
  <2>1. gen' = gen /\ gen[h] # None
    BY <1>4 DEF ReadAuthorization, Visible, store
  <2>2. Before(h, gen[h], 2)
    BY <1>4, <2>1, RevisionsOf DEF Sends
  <2> QED BY <1>4, <2>1, <2>2 DEF Sends
<1>5. CASE sender'[h].pc \notin {"reserved", "noted", "read"}
  BY <1>5
<1>6. CASE Submitted(h)
  <2>1. sender[h].pc \notin Early
    BY <1>6, LifecycleOf DEF Submitted
  <2>2. CASE sender'[h].pc = IF sender[h].pc = "waiting" THEN "done" ELSE sender[h].pc
    BY <1>5, <2>1, <2>2 DEF Early
  <2>3. CASE sender'[h] = sender[h]
    BY <1>5, <2>1, <2>3 DEF Early
  <2> QED BY <1>0, <1>1, <1>2, <1>3, <1>4, <1>5, <2>2, <2>3 DEF SendMoves, Sends, Quits, NoSender
<1> QED BY <1>0, <1>1, <1>2, <1>3, <1>4, <1>5, <1>6 DEF SendMoves, Sends, Quits, NoSender

LEMMA AppendedParts ==
    ASSUME NEW S, NEW s \in Seq(S), NEW e \in S
    PROVE  /\ Len(Append(s, e)) = Len(s) + 1 /\ Len(s) \in Nat
           /\ DOMAIN Append(s, e) = 1..(Len(s) + 1) /\ DOMAIN s = 1..Len(s)
           /\ \A i \in 1..Len(s) : Append(s, e)[i] = s[i]
           /\ Append(s, e)[Len(s) + 1] = e
           /\ Append(s, e) # <<>>
OBVIOUS

LEMMA EventType ==
    ASSUME NEW kind \in Appendable, kind # "heartbeat", NEW content \in Seq(Piece)
    PROVE  [kind |-> kind, content |-> content] \in Events
BY DEF Appendable, Events

LEMMA EndsLastStep ==
    ASSUME Shapes, Lifecycle, Revisions, EndsLast, [Next]_vars
    PROVE  EndsLast'
<1> SUFFICES ASSUME NEW h \in Generations, gen'[h] # None
             PROVE  /\ \A i \in DOMAIN output'[h] :
                          Stops(output'[h][i].kind) =>
                              i = Len(output'[h]) /\ gen'[h].status = output'[h][i].kind
                    /\ gen'[h].status \in Terminal =>
                          /\ output'[h] # <<>>
                          /\ output'[h][Len(output'[h])].kind = gen'[h].status
  BY DEF EndsLast, Stops
<1>0. GenMoves(h) /\ output[h] \in Seq(Events)
  BY GenStep DEF Shapes, TypeOK
<1>1. CASE gen[h] # None /\ output'[h] = output[h] /\ gen'[h].status = gen[h].status
  BY <1>1 DEF EndsLast
<1>2. CASE Fresh(h)
  <2>1. output'[h] = <<>> /\ gen'[h].status = "pending"
    BY <1>2, LifecycleOf DEF Fresh
  <2> QED BY <2>1 DEF Terminal
<1>3. ASSUME NEW kind \in Appendable, NEW content \in Seq(Piece), Appends(h, kind, content)
      PROVE  /\ \A i \in DOMAIN output'[h] :
                   Stops(output'[h][i].kind) =>
                       i = Len(output'[h]) /\ gen'[h].status = output'[h][i].kind
             /\ gen'[h].status \in Terminal =>
                   /\ output'[h] # <<>>
                   /\ output'[h][Len(output'[h])].kind = gen'[h].status
  <2>1. Wrote(h, kind, content)
    BY <1>3 DEF Appends
  <2>2. \A i \in DOMAIN output[h] : ~Stops(output[h][i].kind)
    BY <2>1 DEF EndsLast, Wrote, Stops, Active, Terminal
  <2>3. CASE kind = "heartbeat"
    BY <2>1, <2>2, <2>3 DEF Wrote, Stops, Terminal
  <2>4. CASE kind # "heartbeat"
    <3> DEFINE e == [kind |-> kind, content |-> content]
    <3>1. e \in Events /\ e.kind = kind
      BY <2>4, EventType
    <3>2. output'[h] = Append(output[h], e)
      BY <2>1, <2>4 DEF Wrote
    <3> HIDE DEF e
    <3>3. /\ Len(output'[h]) = Len(output[h]) + 1 /\ Len(output[h]) \in Nat
          /\ DOMAIN output'[h] = 1..(Len(output[h]) + 1) /\ DOMAIN output[h] = 1..Len(output[h])
          /\ \A i \in 1..Len(output[h]) : output'[h][i] = output[h][i]
          /\ output'[h][Len(output[h]) + 1] = e
          /\ output'[h] # <<>>
      BY <1>0, <3>1, <3>2, AppendedParts
    <3>4. gen'[h].status = IF Stops(kind) THEN kind ELSE "running"
      BY <2>1 DEF Wrote
    <3>5. ASSUME NEW i \in DOMAIN output'[h], Stops(output'[h][i].kind)
          PROVE  i = Len(output'[h]) /\ gen'[h].status = output'[h][i].kind
      <4>1. i = Len(output[h]) + 1
        BY <2>2, <3>3, <3>5
      <4> QED BY <3>1, <3>3, <3>4, <3>5, <4>1
    <3>6. gen'[h].status \in Terminal => gen'[h].status = kind
      BY <3>4 DEF Terminal
    <3> QED BY <3>1, <3>3, <3>5, <3>6
  <2> QED BY <2>3, <2>4
<1>4. CASE Saved(h)
  BY <1>1, <1>4, SavedSame DEF Saved
<1> QED BY <1>0, <1>1, <1>2, <1>3, <1>4 DEF GenMoves, Kept, Gone, Grown

LEMMA SettledStep ==
    ASSUME Shapes, Lifecycle, Revisions, [Next]_vars, NEW g \in Generations,
           gen[g] # None, gen[g].status \in Terminal, gen'[g] # None
    PROVE  gen'[g].status = gen[g].status /\ output'[g] = output[g]
<1>1. GenMoves(g)
  BY GenStep
<1>2. CASE Saved(g)
  BY <1>2, SavedSame DEF Saved
<1>3. \A kind, content : ~Appends(g, kind, content)
  BY DEF Appends, Wrote, Active, Terminal
<1> QED BY <1>1, <1>2, <1>3 DEF GenMoves, Kept, Gone, Fresh, Grown

LEMMA LeaseStep ==
    ASSUME Shapes, Lifecycle, Revisions, [Next]_vars, NEW g \in Generations,
           gen[g] # None, gen[g].status \in Active, gen[g].leased,
           gen'[g] # None, gen'[g].status = "failed"
    PROVE  \/ sender[g].pc = "refused"
           \/ \E c \in calls : c.gen = g /\ c.kind = "failed"
<1>1. GenMoves(g)
  BY GenStep
<1>2. ~Saved(g) /\ ~Kept(g) /\ \A s : ~Grown(g, s)
  BY SavedSame DEF Kept, Grown, Active
<1>3. ASSUME NEW kind \in Appendable, NEW content \in Seq(Piece), Appends(g, kind, content)
      PROVE  \/ sender[g].pc = "refused"
             \/ \E c \in calls : c.gen = g /\ c.kind = "failed"
  <2>1. kind = "failed"
    BY <1>3 DEF Appends, Wrote
  <2>2. ~ExpireLease(g)
    BY DEF ExpireLease, LeaseStillLapsed
  <2> QED BY <1>3, <2>1, <2>2 DEF Appends, FailSubmission
<1> QED BY <1>1, <1>2, <1>3 DEF GenMoves, Gone, Fresh

---------------------------------------------------------------------------
(* The chat: who may come back and whose turn it is.                       *)

Framed ==
    /\ temporary' = temporary
    /\ opened' = opened \/ \E g \in Generations : Reserve(g)
    /\ UNCHANGED <<edit, edits>> \/ EditRead \/ EditSave
    /\ UNCHANGED removing \/ DeleteCheck \/ RemoveRows \/ RemoveChat \/ Restart

LEMMA RoomFrame == [Next]_vars => Framed
<1> SUFFICES ASSUME [Next]_vars PROVE Framed
  OBVIOUS
<1>1. ASSUME NEW g \in Generations, Sending(g) PROVE Framed
  BY <1>1 DEF Framed, Sending, Prepare, Reserve, ReserveRefused, RecordInput, ReadAuthorization,
        SaveAuthorization, FailSubmission, Write, Abandon, Refused, store
<1>2. ASSUME NEW g \in Generations, Working(g) PROVE Framed
  BY <1>2 DEF Framed, Submitted, Working, Beat, Write, EmitContent, Flush, EmitEnd, StreamRaises, Retry,
        RetryFailure, WorkerStop, ToolCall, ToolResolve, ToolResult, UnrecordedResult, WorkerOnly, store
<1>3. ASSUME NEW g \in Generations, Sweeping(g) \/ Cancel(g) \/ ViewRead(g) PROVE Framed
  BY <1>3 DEF Framed, Sweeping, Cancel, Write, LeaseLapses, CapabilityLapses, ExpireLease,
        RemoveGeneration, Outside, ViewRead, store
<1>4. ASSUME NEW c \in calls, Resolve(c) \/ Accept(c) \/ Lose(c) PROVE Framed
  BY <1>4 DEF Framed, Resolve, Accept, Write, Lose, WorkerOnly, store
<1>5. ASSUME \/ ScanLeases \/ Housekeeping \/ CloseTemporary \/ Restart
             \/ EditRead \/ EditSave \/ DeleteCheck \/ RemoveRows \/ RemoveChat \/ ViewPage
      PROVE  Framed
  BY <1>5 DEF Framed, ScanLeases, Housekeeping, CloseTemporary, Restart, store,
        EditRead, EditSave, DeleteCheck, RemoveRows, RemoveChat, Outside, ViewPage
<1>6. CASE UNCHANGED vars
  BY <1>6 DEF Framed, vars, actors, store
<1> QED BY <1>1, <1>2, <1>3, <1>4, <1>5, <1>6 DEF Next

\* The chat is settled by its own record, opened, replaced or removed.
LEMMA AppendsChat ==
    ASSUME Shapes, NEW g \in Generations, NEW kind \in Appendable, NEW content \in Seq(Piece),
           Appends(g, kind, content)
    PROVE  IF Stops(kind) /\ chat # None
           THEN chat' = SettleChat(g, kind) ELSE chat' = chat
BY DEF Appends, Wrote, Write, ChatVisible

LEMMA RoomsStep ==
    ASSUME Shapes, Rooms, [Next]_vars
    PROVE  Rooms'
<1>0. /\ temporary' = temporary
      /\ opened' = opened \/ \E g \in Generations : Reserve(g)
      /\ UNCHANGED <<edit, edits>> \/ EditRead \/ EditSave
      /\ UNCHANGED removing \/ DeleteCheck \/ RemoveRows \/ RemoveChat \/ Restart
  BY RoomFrame DEF Framed
<1>a. TypeOK /\ TypeOK'
  BY ShapesStep DEF Shapes
<1>b. StoreMoves
  BY StoreStep
<1>1. ASSUME NEW g \in Generations, Reserve(g) PROVE Rooms'
  <2>1. /\ chat' # None /\ opened' = TRUE /\ UNCHANGED <<expired, removing, edit, edits>>
    BY <1>1, <1>a, ReservedChat, NoneAssumption DEF Reserve
  <2>2. ~expired
    BY <1>1 DEF Reserve, CanReserve, Rooms
  <2> QED BY <1>0, <2>1, <2>2 DEF Rooms
<1>2. CASE EditRead
  <2>1. edit' # None => edits' > 0
    BY <1>2, <1>a DEF EditRead, TypeOK
  <2>2. UNCHANGED <<chat, gen, opened, expired, removing>> /\ opened
    BY <1>2 DEF EditRead, store, Rooms, ChatVisible
  <2> QED BY <1>0, <2>1, <2>2 DEF Rooms
<1>3. CASE EditSave
  <2>1. UNCHANGED <<opened, expired, removing, edits>> /\ edit' = None /\ edit # None /\ opened
    BY <1>3 DEF EditSave, Rooms
  <2>2. \A h \in Generations : gen'[h] = None <=> gen[h] = None
    <3> TAKE h \in Generations
    <3>1. CASE SameRevision /\ gen[h] # None
      <4>1. edit.project \in Projects /\ gen[h] \in Records
        BY <1>3, <1>a, <3>1 DEF EditSave, TypeOK, Chats
      <4>2. gen'[h] = [gen[h] EXCEPT !.project = edit.project]
        BY <1>3, <3>1 DEF EditSave
      <4>3. gen'[h] \in Records
        BY <4>1, <4>2 DEF Records
      <4> QED BY <3>1, <4>3, NoneAssumption
    <3>2. CASE ~(SameRevision /\ gen[h] # None)
      BY <1>3, <3>2 DEF EditSave
    <3> QED BY <3>1, <3>2
  <2>3. chat' = None <=> chat = None
    <3>1. CASE SameRevision
      <4>1. edit \in Chats /\ edit.rev + 1 \in Nat
        BY <1>3, <1>a DEF EditSave, TypeOK, Chats
      <4>2. chat' = [edit EXCEPT !.rev = edit.rev + 1]
        BY <1>3, <3>1 DEF EditSave
      <4>3. chat' \in Chats
        BY <4>1, <4>2 DEF Chats
      <4> QED BY <3>1, <4>3, NoneAssumption DEF SameRevision
    <3>2. CASE ~SameRevision
      BY <1>3, <3>2 DEF EditSave
    <3> QED BY <3>1, <3>2
  <2> QED BY <1>0, <2>1, <2>2, <2>3 DEF Rooms
<1>4. CASE DeleteCheck
  BY <1>0, <1>4 DEF DeleteCheck, Outside, store, Rooms
<1>5. CASE RemoveRows
  <2>1. UNCHANGED <<chat, gen, opened, expired, edit, edits>>
    BY <1>5 DEF RemoveRows, Outside, store
  <2>2. temporary => expired /\ \A g \in Generations : gen[g] # None => g \in removing'.rows
    BY <1>5 DEF RemoveRows
  <2> QED BY <1>0, <2>1, <2>2 DEF Rooms
<1>6. CASE RemoveChat
  <2>1. /\ chat' = None /\ expired' = FALSE /\ removing' = None
        /\ UNCHANGED <<opened, edit, edits>>
    BY <1>6 DEF RemoveChat, Outside
  <2>2. \A g \in Generations :
           gen'[g] = IF g \in removing.rows THEN None ELSE gen[g]
    BY <1>6 DEF RemoveChat
  <2>3. temporary => \A g \in Generations : gen'[g] = None
    BY <1>6, <2>2 DEF RemoveChat, Rooms
  <2> QED BY <1>0, <2>1, <2>2, <2>3 DEF Rooms
<1>7. CASE Restart
  <2>1. removing' = None /\ UNCHANGED <<opened, edit, edits>>
    BY <1>7 DEF Restart
  <2>2. CASE temporary
    BY <1>0, <1>7, <2>1, <2>2 DEF Restart, Rooms
  <2>3. CASE ~temporary
    BY <1>0, <1>7, <2>1, <2>3 DEF Restart, Rooms
  <2> QED BY <2>2, <2>3
<1>8. CASE CloseTemporary
  BY <1>0, <1>8 DEF CloseTemporary, Outside, Rooms
<1>9. ASSUME NEW g \in Generations, RemoveGeneration(g) PROVE Rooms'
  <2>1. UNCHANGED <<chat, expired, opened, removing, edit, edits>>
    BY <1>9 DEF RemoveGeneration, Outside
  <2>2. \A h \in Generations : gen'[h] # None => gen[h] # None
    BY <1>9, <1>a DEF RemoveGeneration, TypeOK
  <2> QED BY <1>0, <2>1, <2>2 DEF Rooms
<1>10. CASE /\ \A h \in Generations : gen'[h] # None => gen[h] # None
            /\ chat' = None <=> chat = None
            /\ UNCHANGED <<expired, opened, removing, edit, edits>>
  BY <1>0, <1>10 DEF Rooms
<1>11. ASSUME UNCHANGED <<opened, removing, edit, edits>>, ~Restart, ~EditSave, ~RemoveChat,
              ~CloseTemporary, \A g \in Generations : ~Reserve(g) /\ ~RemoveGeneration(g)
       PROVE  /\ \A h \in Generations : gen'[h] # None => gen[h] # None
              /\ chat' = None <=> chat = None
              /\ UNCHANGED expired
  <2>1. \A h \in Generations : gen'[h] # None => gen[h] # None
    <3> TAKE h \in Generations
    <3> QED BY <1>11, GenStep DEF GenMoves, Kept, Gone, Fresh, Saved, Grown, Appends, Wrote
  <2>2. ASSUME NEW g \in Generations, NEW kind \in Appendable, NEW content \in Seq(Piece),
               Appends(g, kind, content)
        PROVE  chat' = None <=> chat = None
    <3>1. CASE Stops(kind) /\ chat # None
      <4>1. chat' = SettleChat(g, kind) /\ gen[g] # None /\ kind \in Terminal
        BY <2>2, <3>1, AppendsChat DEF Appends, Wrote, Stops
      <4>2. chat' \in Chats
        BY <1>a, <3>1, <4>1, SettleType
      <4> QED BY <3>1, <4>2, NoneAssumption
    <3>2. CASE ~(Stops(kind) /\ chat # None)
      BY <2>2, <3>2, AppendsChat
    <3> QED BY <3>1, <3>2
  <2> QED BY <1>11, <1>b, <2>1, <2>2 DEF StoreMoves, Fresh, LeaseLapses
<1> QED BY <1>0, <1>1, <1>2, <1>3, <1>4, <1>5, <1>6, <1>7, <1>8, <1>9, <1>10, <1>11

LEMMA UndisturbedBack ==
    ASSUME Shapes, [Next]_vars, Undisturbed'
    PROVE  Undisturbed
<1>1. Framed /\ edits \in Nat
  BY RoomFrame DEF Shapes, TypeOK
<1> QED BY <1>1 DEF Framed, Undisturbed, EditRead, EditSave

\* A step that keeps the records open or closed and the chat as it is.
LEMMA OpenedKept ==
    ASSUME Shapes, Revisions, NEW h \in Generations,
           Kept(h) \/ Saved(h) \/ (\E s : Grown(h, s))
    PROVE  Opened(h)' <=> Opened(h)
<1>1. CASE Saved(h)
  BY <1>1, SavedSame DEF Saved, Opened
<1> QED BY <1>1 DEF Kept, Grown, Opened

LEMMA SameKept ==
    ASSUME NEW h, gen'[h] = gen[h]
    PROVE  Opened(h)' <=> Opened(h)
BY DEF Opened

LEMMA ActiveMatchesIs ==
    ActiveMatches <=> (ChatVisible => \A g \in Generations : chat.active = g <=> Opened(g))
BY DEF ActiveMatches, Opened

LEMMA ActiveMatchesNext ==
    ActiveMatches' <=>
        (ChatVisible' => \A g \in Generations : chat'.active = g <=> Opened(g)')
BY DEF ActiveMatches, Opened

\* The record an ending is written to is the one whose turn it is.
LEMMA ActiveStep ==
    ASSUME Shapes, Lifecycle, Revisions, Rooms, EditIsFresh, ActiveMatches,
           Undisturbed, [Next]_vars
    PROVE  ActiveMatches'
<1>0. TypeOK /\ TypeOK' /\ Framed /\ StoreMoves
  BY ShapesStep, RoomFrame, StoreStep DEF Shapes
<1>a. ChatVisible => \A g \in Generations : chat.active = g <=> Opened(g)
  BY ActiveMatchesIs
<1> SUFFICES ASSUME ChatVisible', NEW h \in Generations
             PROVE  chat'.active = h <=> Opened(h)'
  BY ActiveMatchesNext
<1>b. chat' # None /\ ~expired'
  BY DEF ChatVisible
<1>1. CASE UNCHANGED <<chat, expired, gen, output>>
  BY <1>1, <1>a, <1>b DEF ChatVisible, Opened
<1>2. ASSUME NEW g \in Generations, Fresh(g), \A k \in Generations \ {g} : gen'[k] = gen[k]
      PROVE  chat'.active = h <=> Opened(h)'
  <2>1. Reserve(g) /\ chat'.active = g
    BY <1>0, <1>2, ReservedChat DEF Fresh
  <2>2. Opened(g)'
    BY <1>2 DEF Fresh, Opened, Active
  <2>3. ASSUME h # g PROVE ~Opened(h)
    <3>1. CASE chat = None
      BY <2>1, <3>1 DEF Reserve, CanReserve, Rooms, Opened
    <3>2. CASE chat # None
      <4>1. chat.active = None /\ ChatVisible
        BY <2>1, <3>2 DEF Reserve, CanReserve, ChatVisible
      <4> QED BY <1>a, <4>1, PengoloAssumption
    <3> QED BY <3>1, <3>2
  <2> QED BY <1>2, <2>1, <2>2, <2>3, SameKept
<1>3. ASSUME NEW g \in Generations, UNCHANGED <<chat, expired, output>>,
             \A k \in Generations \ {g} : gen'[k] = gen[k],
             Saved(g) \/ (\E s : Grown(g, s))
      PROVE  chat'.active = h <=> Opened(h)'
  <2>1. Opened(h)' <=> Opened(h)
    BY <1>3, SameKept, OpenedKept
  <2> QED BY <1>3, <1>a, <1>b, <2>1 DEF ChatVisible
<1>4. ASSUME NEW g \in Generations, NEW kind \in Appendable, NEW content \in Seq(Piece),
             Appends(g, kind, content), UNCHANGED expired,
             \A k \in Generations \ {g} : gen'[k] = gen[k] /\ output'[k] = output[k]
      PROVE  chat'.active = h <=> Opened(h)'
  <2>1. Opened(g) /\ ~expired /\ Wrote(g, kind, content)
    BY <1>4 DEF Appends, Wrote, Opened
  <2>2. CASE Stops(kind) /\ chat # None
    <3>1. chat' = SettleChat(g, kind) /\ kind \in Terminal /\ gen[g] # None
      BY <1>4, <2>1, <2>2, AppendsChat DEF Stops, Opened
    <3>2. chat'.active = None
      BY <1>0, <2>2, <3>1, SettleType
    <3>3. ~Opened(g)'
      BY <2>1, <2>2 DEF Wrote, Opened, Stops, Active, Terminal
    <3>4. h # g => ~Opened(h)
      BY <1>a, <2>1, <2>2 DEF ChatVisible
    <3> QED BY <1>4, <3>2, <3>3, <3>4, SameKept, PengoloAssumption
  <2>3. CASE ~(Stops(kind) /\ chat # None)
    <3>1. chat' = chat /\ chat # None /\ ~Stops(kind)
      BY <1>4, <1>b, <2>3, AppendsChat
    <3>2. Opened(g)'
      BY <2>1, <3>1 DEF Wrote, Opened, Active
    <3> QED BY <1>4, <1>a, <2>1, <3>1, <3>2, SameKept DEF ChatVisible
  <2> QED BY <2>2, <2>3
<1>5. ASSUME NEW g \in Generations, LeaseLapses(g) PROVE chat'.active = h <=> Opened(h)'
  <2>1. gen[g] \in Records /\ gen' = [gen EXCEPT ![g].leased = FALSE]
        /\ gen \in [Generations -> Records \cup {None}] /\ UNCHANGED <<chat, expired>>
    BY <1>0, <1>5 DEF LeaseLapses, TypeOK
  <2>2. CASE h = g
    <3>1. gen'[h] = [gen[h] EXCEPT !.leased = FALSE]
      BY <2>1, <2>2
    <3>2. gen'[h].status = gen[h].status /\ gen'[h] \in Records
      BY <2>1, <2>2, <3>1 DEF Records
    <3>3. Opened(h)' <=> Opened(h)
      BY <1>5, <2>2, <3>2, NoneAssumption DEF Opened, LeaseLapses
    <3> QED BY <1>a, <1>b, <2>1, <3>3 DEF ChatVisible
  <2>3. CASE h # g
    BY <1>a, <1>b, <2>1, <2>3, SameKept DEF ChatVisible
  <2> QED BY <2>2, <2>3
<1>6. ASSUME NEW g \in Generations, RemoveGeneration(g) PROVE FALSE
  BY <1>b, <1>6 DEF RemoveGeneration
<1>7. ~CloseTemporary /\ ~RemoveChat
  BY <1>b DEF CloseTemporary, RemoveChat
<1>8. CASE Restart
  BY <1>1, <1>8, <1>b DEF Restart
<1>9. CASE EditSave
  <2>1. CASE SameRevision
    <3>1. edit # None /\ ~temporary /\ ~expired /\ chat # None /\ edit \in Chats
      BY <1>0, <1>9, <2>1 DEF EditSave, Rooms, Undisturbed, SameRevision, TypeOK
    <3>2. edit.active = chat.active
      BY <2>1, <3>1 DEF EditIsFresh, SameRevision
    <3>3. chat'.active = edit.active
      BY <1>9, <2>1, <3>1 DEF EditSave, Chats
    <3>4. Opened(h)' <=> Opened(h)
      <4>1. CASE gen[h] = None
        BY <1>9, <2>1, <4>1 DEF EditSave, Opened
      <4>2. CASE gen[h] # None
        <5>1. gen'[h] = [gen[h] EXCEPT !.project = edit.project] /\ gen[h] \in Records
          BY <1>0, <1>9, <2>1, <4>2 DEF EditSave, TypeOK
        <5>2. edit.project \in Projects
          BY <3>1 DEF Chats
        <5>3. gen'[h].status = gen[h].status /\ gen'[h] \in Records
          BY <5>1, <5>2 DEF Records
        <5> QED BY <4>2, <5>3, NoneAssumption DEF Opened
      <4> QED BY <4>1, <4>2
    <3> QED BY <1>a, <3>1, <3>2, <3>3, <3>4 DEF ChatVisible
  <2>2. CASE ~SameRevision
    BY <1>1, <1>9, <2>2 DEF EditSave
  <2> QED BY <2>1, <2>2
<1> QED BY <1>0, <1>1, <1>2, <1>3, <1>4, <1>5, <1>6, <1>7, <1>8, <1>9 DEF StoreMoves

LEMMA EditStep ==
    ASSUME Shapes, Rooms, EditIsFresh, Undisturbed, [Next]_vars
    PROVE  EditIsFresh'
<1>0. TypeOK /\ TypeOK' /\ Framed /\ StoreMoves
  BY ShapesStep, RoomFrame, StoreStep DEF Shapes
<1> SUFFICES ASSUME edit' # None, chat' # None
             PROVE  /\ edit'.rev <= chat'.rev
                    /\ edit'.rev = chat'.rev =>
                          edit'.active = chat'.active /\ edit'.messages = chat'.messages
  BY DEF EditIsFresh
<1>1. CASE EditRead
  <2>1. chat' = chat /\ chat \in Chats
    BY <1>0, <1>1 DEF EditRead, store, TypeOK, ChatVisible
  <2>2. PICK p \in Projects : edit' = [chat EXCEPT !.project = p]
    BY <1>1 DEF EditRead
  <2>3. /\ edit'.rev = chat.rev /\ edit'.active = chat.active /\ edit'.messages = chat.messages
        /\ chat.rev \in Nat
    BY <2>1, <2>2 DEF Chats
  <2> QED BY <2>1, <2>3
<1>2. CASE EditSave
  BY <1>2 DEF EditSave
<1>3. CASE UNCHANGED edit
  <2>1. edit # None /\ ~temporary /\ opened
    BY <1>3 DEF Rooms, Undisturbed
  <2>2. CASE chat' = chat
    BY <1>3, <2>2 DEF EditIsFresh
  <2>3. CASE chat # None /\ chat'.rev = chat.rev + 1
    <3>1. edit.rev \in Nat /\ chat.rev \in Nat
      BY <1>0, <2>1, <2>3 DEF TypeOK, Chats
    <3> QED BY <1>3, <2>1, <2>3, <3>1 DEF EditIsFresh
  <2>4. ASSUME NEW g \in Generations, Reserve(g) PROVE chat # None /\ chat'.rev = chat.rev + 1
    <3>1. chat # None
      BY <2>1, <2>4 DEF Reserve, CanReserve
    <3> QED BY <1>0, <2>4, <3>1, ReservedChat DEF Base
  <2>5. ASSUME NEW g \in Generations, NEW kind \in Appendable, NEW content \in Seq(Piece),
               Appends(g, kind, content)
        PROVE  chat' = chat \/ (chat # None /\ chat'.rev = chat.rev + 1)
    <3>1. CASE Stops(kind) /\ chat # None
      <4>1. chat' = SettleChat(g, kind) /\ kind \in Terminal /\ gen[g] # None
        BY <2>5, <3>1, AppendsChat DEF Stops, Appends, Wrote
      <4> QED BY <1>0, <3>1, <4>1, SettleType
    <3> QED BY <2>5, <3>1, AppendsChat
  <2>6. CASE \E g \in Generations : LeaseLapses(g) \/ RemoveGeneration(g)
    BY <2>2, <2>6 DEF LeaseLapses, RemoveGeneration
  <2>7. CASE CloseTemporary \/ Restart \/ RemoveChat
    BY <2>2, <2>7 DEF CloseTemporary, Restart, RemoveChat
  <2> QED BY <1>0, <1>2, <2>2, <2>3, <2>4, <2>5, <2>6, <2>7 DEF StoreMoves, Fresh
<1> QED BY <1>0, <1>1, <1>2, <1>3 DEF Framed

LEMMA TurnsStep ==
    ASSUME Shapes, Lifecycle, Revisions, Rooms, Turns, [Next]_vars
    PROVE  Turns'
<1> SUFFICES ASSUME Undisturbed' PROVE EditIsFresh' /\ ActiveMatches'
  BY DEF Turns
<1>1. Undisturbed /\ EditIsFresh /\ ActiveMatches
  BY UndisturbedBack DEF Turns
<1> QED BY <1>1, ActiveStep, EditStep

\* The conversation itself: shapes, lives, endings, rooms and turns.
Core == Shapes /\ Lifecycle /\ Revisions /\ EndsLast /\ Rooms /\ Turns

LEMMA CoreInit == Init => Core
<1> SUFFICES ASSUME Init PROVE Core
  OBVIOUS
<1>1. \A g \in Generations :
         /\ gen[g] = None /\ output[g] = <<>> /\ sender[g] = NoSender /\ worker[g] = NoWorker
         /\ sender[g].pc = "idle" /\ ~sender[g].flying /\ worker[g].pc = "none"
  BY DEF Init, NoSender, NoWorker
<1>2. /\ calls = {} /\ chat = None /\ edit = None /\ removing = None /\ expired = FALSE
  BY DEF Init
<1>3. Lifecycle
  BY <1>1, <1>2 DEF Lifecycle
<1>4. Revisions /\ EndsLast
  BY <1>1 DEF Revisions, EndsLast
<1>5. Rooms /\ Turns
  BY <1>1, <1>2 DEF Rooms, Turns, EditIsFresh, ActiveMatches, ChatVisible
<1> QED BY <1>3, <1>4, <1>5, ShapesInit DEF Core

LEMMA CoreStep == Core /\ [Next]_vars => Core'
BY ShapesStep, LifecycleStep, RevisionsStep, EndsLastStep, RoomsStep, TurnsStep DEF Core

LEMMA CoreHolds == Spec => []Core
BY CoreInit, CoreStep, PTL DEF Spec

\* append, cancel, expire_leases, the callbacks of a late worker and a save
\* with a stale copy agree: what is settled keeps its status and its output.
THEOREM SettledStays == Spec => SettledIsFinal
<1> DEFINE P == \A g \in Generations :
                   gen[g] # None /\ gen[g].status \in Terminal /\ gen'[g] # None =>
                      gen'[g].status = gen[g].status /\ output'[g] = output[g]
<1>1. Core /\ [Next]_vars => P
  BY SettledStep DEF Core
<1>2. Core /\ [Next]_vars => [P]_vars
  BY <1>1
<1>3. []Core /\ [][Next]_vars => [][P]_vars
  BY <1>2, PTL
<1> QED BY <1>3, CoreHolds DEF Spec, SettledIsFinal

\* expire_leases fails no generation whose lease was renewed after the scan.
THEOREM LeasesHold == Spec => LeaseRespected
<1> DEFINE P == \A g \in Generations :
                   /\ gen[g] # None /\ gen[g].status \in Active /\ gen[g].leased
                   /\ gen'[g] # None /\ gen'[g].status = "failed"
                   => \/ sender[g].pc = "refused"
                      \/ \E c \in calls : c.gen = g /\ c.kind = "failed"
<1>1. Core /\ [Next]_vars => P
  BY LeaseStep DEF Core
<1>2. Core /\ [Next]_vars => [P]_vars
  BY <1>1
<1>3. []Core /\ [][Next]_vars => [][P]_vars
  BY <1>2, PTL
<1> QED BY <1>3, CoreHolds DEF Spec, LeaseRespected

\* reserve, append, remove and the edits of a chat agree on whose turn it is,
\* unless a temporary chat was edited.
THEOREM TurnsAreExclusive == Spec => [](Undisturbed => ActiveMatches)
<1>1. Core => (Undisturbed => ActiveMatches)
  BY DEF Core, Turns
<1> QED BY <1>1, CoreHolds, PTL

---------------------------------------------------------------------------
(* What an answer is based on.                                             *)

LEMMA EmptyEndsStep ==
    ASSUME Shapes, EmptyEnds, [Next]_vars
    PROVE  EmptyEnds'
<1> SUFFICES ASSUME NEW c \in calls', c.kind # "content" PROVE c.content = <<>>
  BY DEF EmptyEnds
<1>0. c.gen \in Generations
  BY ShapesStep DEF Shapes, TypeOK, Callbacks
<1>1. WorkMoves(c.gen)
  BY <1>0, WorkStep
<1>2. CASE \E d \in calls : Alike(c, d)
  BY <1>2 DEF EmptyEnds, Alike
<1>3. ASSUME NEW seq, NEW kind, NEW content, NewCall(c.gen, seq, kind, content),
             kind # "content" => content = <<>>
      PROVE  c.content = <<>>
  BY <1>2, <1>3 DEF NewCall
<1>4. CASE OldCalls(c.gen)
  BY <1>2, <1>4 DEF OldCalls
<1>5. ASSUME NEW kind \in Outs, NEW content \in Seq(Piece), Posts(c.gen, kind, content)
      PROVE  c.content = <<>>
  BY <1>3, <1>5 DEF Posts
<1>6. CASE Repeats(c.gen) \/ Breaks(c.gen) \/ Refails(c.gen)
  BY <1>3, <1>6 DEF Repeats, Breaks, Refails
<1>7. OldCalls(c.gen) \/ Repeats(c.gen) \/ Breaks(c.gen) \/ Refails(c.gen)
      \/ \E kind \in Outs, content \in Seq(Piece) : Posts(c.gen, kind, content)
  BY <1>1 DEF WorkMoves, Rests, Begins, Ends, Shifts, Learns, Produces, Advances
<1> QED BY <1>4, <1>5, <1>6, <1>7

\* Evidence is only added while a record is there.
LEMMA EvidenceGrows ==
    ASSUME Revisions, NEW h \in Generations, GenMoves(h), gen[h] # None, gen'[h] # None
    PROVE  gen[h].evidence \subseteq gen'[h].evidence
<1>1. CASE Saved(h)
  BY <1>1, SavedSame
<1> QED BY <1>1 DEF GenMoves, Kept, Gone, Fresh, Grown, Appends, Wrote

LEMMA UponMore ==
    ASSUME NEW seen, NEW e, NEW f, e \subseteq f, Upon(seen, e)
    PROVE  Upon(seen, f)
BY DEF Upon

LEMMA UponNothing == \A e : Upon({}, e)
BY DEF Upon

LEMMA UponOneMore ==
    ASSUME NEW seen, NEW e, NEW x, Upon(seen, e), x \in e \cup Unrecorded
    PROVE  Upon(seen \cup {x}, e)
BY DEF Upon

LEMMA FromInMore ==
    ASSUME NEW pieces, NEW e, NEW f, e \subseteq f, FromIn(pieces, e)
    PROVE  FromIn(pieces, f)
BY UponMore DEF FromIn

LEMMA FromInNothing == \A e : FromIn(<<>>, e)
BY DEF FromIn

LEMMA FromInAppend ==
    ASSUME NEW pieces \in Seq(Piece), NEW p \in Piece, NEW e, FromIn(pieces, e), Upon(p.from, e)
    PROVE  FromIn(Append(pieces, p), e)
BY AppendedParts DEF FromIn

LEMMA FromInConcat ==
    ASSUME NEW a \in Seq(Piece), NEW b \in Seq(Piece), NEW e, FromIn(a, e), FromIn(b, e)
    PROVE  FromIn(a \o b, e)
<1> SUFFICES ASSUME NEW i \in DOMAIN (a \o b) PROVE Upon((a \o b)[i].from, e)
  BY DEF FromIn
<1>1. /\ Len(a) \in Nat /\ Len(b) \in Nat /\ DOMAIN a = 1..Len(a) /\ DOMAIN b = 1..Len(b)
      /\ DOMAIN (a \o b) = 1..(Len(a) + Len(b))
      /\ (a \o b)[i] = IF i <= Len(a) THEN a[i] ELSE b[i - Len(a)]
  OBVIOUS
<1>2. CASE i <= Len(a)
  BY <1>1, <1>2 DEF FromIn
<1>3. CASE ~(i <= Len(a))
  <2>1. i - Len(a) \in DOMAIN b
    BY <1>1, <1>3
  <2> QED BY <1>1, <1>3, <2>1 DEF FromIn
<1> QED BY <1>2, <1>3

LEMMA TextGrows ==
    ASSUME NEW events \in Seq(Events), NEW e \in Events
    PROVE  Text(Append(events, e)) = Text(events) \o e.content
<1> DEFINE K == {"content", "tool"} \cup Terminal
<1>1. Events = [kind : K, content : Seq(Piece)]
  BY DEF Events
<1> HIDE DEF K
<1>2. events \in Seq([kind : K, content : Seq(Piece)]) /\ e \in [kind : K, content : Seq(Piece)]
  BY <1>1
<1> QED BY <1>2, TextOfAppend, Zenon

\* The text of the output after an append.
LEMMA TextAfter ==
    ASSUME TypeOK, NEW h \in Generations, NEW kind \in Appendable, NEW content \in Seq(Piece),
           Wrote(h, kind, content), kind = "heartbeat" => content = <<>>
    PROVE  /\ Text(output[h]) \in Seq(Piece)
           /\ Text(output'[h]) = Text(output[h]) \o content
<1>0. output[h] \in Seq(Events) /\ Text(output[h]) \in Seq(Piece)
  BY TextType DEF TypeOK
<1>1. CASE kind = "heartbeat"
  <2>1. output'[h] = output[h] /\ content = <<>>
    BY <1>1 DEF Wrote
  <2>2. Text(output[h]) \o <<>> = Text(output[h])
    BY <1>0
  <2> QED BY <1>0, <2>1, <2>2
<1>2. CASE kind # "heartbeat"
  <2> DEFINE e == [kind |-> kind, content |-> content]
  <2>1. e \in Events /\ e.content = content
    BY <1>2, EventType
  <2>2. output'[h] = Append(output[h], e)
    BY <1>2 DEF Wrote
  <2> HIDE DEF e
  <2>3. Text(Append(output[h], e)) = Text(output[h]) \o e.content
    BY <1>0, <2>1, TextGrows
  <2> QED BY <1>0, <2>1, <2>2, <2>3
<1> QED BY <1>1, <1>2

LEMMA SourcedOf ==
    ASSUME Sourced, NEW g \in Generations, gen[g] # None
    PROVE  /\ sender[g].pc \in {"noted", "read"} \/ sender[g].flying =>
                 sender[g].sources \subseteq gen[g].evidence
           /\ Upon(worker[g].known, gen[g].evidence)
           /\ FromIn(worker[g].pending, gen[g].evidence)
           /\ FromIn(Text(output[g]), gen[g].evidence)
           /\ \A c \in calls : c.gen = g => FromIn(c.content, gen[g].evidence)
BY DEF Sourced

\* What the request was given is recorded before it is passed on.
LEMMA InputSourced ==
    ASSUME Shapes, Lifecycle, Revisions, Sourced, [Next]_vars, NEW h \in Generations,
           gen[h] # None, gen'[h] # None,
           sender'[h].pc \in {"noted", "read"} \/ sender'[h].flying
    PROVE  sender'[h].sources \subseteq gen'[h].evidence
<1>0. GenMoves(h) /\ SendMoves(h) /\ TypeOK /\ gen[h].evidence \subseteq gen'[h].evidence
  BY GenStep, SendStep, EvidenceGrows DEF Shapes
<1>1. CASE /\ sender'[h].sources = sender[h].sources
           /\ sender[h].pc \in {"noted", "read"} \/ sender[h].flying
  BY <1>0, <1>1, SourcedOf
<1>2. CASE RecordInput(h) /\ Visible(h) /\ Sends(h, "reserved", "noted")
  <2>1. sender[h].sources \in SUBSET Evidence
    BY <1>0 DEF TypeOK, Senders
  <2>2. Grown(h, sender[h].sources)
    BY <1>0, <1>2, <2>1, GrownIs DEF RecordInput, Visible
  <2> QED BY <1>2, <2>2 DEF Grown, Sends, SameInput
<1>3. CASE Submitted(h)
  <2>1. sender[h].flying /\ sender[h].pc \notin Early
    BY <1>3, LifecycleOf DEF Submitted
  <2>2. CASE /\ ~sender'[h].flying
             /\ sender'[h].pc = IF sender[h].pc = "waiting" THEN "done" ELSE sender[h].pc
    BY <2>1, <2>2 DEF Early
  <2>3. CASE sender'[h] = sender[h] \/ Quits(h)
    BY <1>1, <2>1, <2>3 DEF Quits
  <2> QED BY <1>0, <1>1, <2>1, <2>2, <2>3 DEF SendMoves, Sends, SameInput, Prepare, ReserveRefused, Early, Refused
<1>4. CASE sender'[h].pc \notin {"noted", "read"} /\ ~sender'[h].flying
  BY <1>4
<1>5. CASE Prepare(h) \/ Reserve(h)
  <2>1. ~sender[h].flying
    BY <1>5, LifecycleOf DEF Prepare, Reserve, Early
  <2> QED BY <1>0, <1>1, <1>2, <1>4, <1>5, <2>1
          DEF SendMoves, Sends, SameInput, Quits, Prepare, Reserve, ReserveRefused, RecordInput,
              ReadAuthorization, SaveAuthorization, Submitted, Refused, NoSender
<1>6. CASE Refused(h)
  <2>1. sender[h].flying
    BY <1>6, LifecycleOf DEF Refused
  <2> QED BY <1>0, <1>1, <1>2, <1>3, <1>5, <1>6, <2>1
          DEF SendMoves, Sends, SameInput, Quits, ReserveRefused, Refused
<1>7. CASE sender'[h] = sender[h]
  BY <1>1, <1>7
<1>8. CASE ReadAuthorization(h) /\ Sends(h, "noted", "read")
  BY <1>1, <1>8 DEF Sends, SameInput
<1>9. CASE SaveAuthorization(h) /\ sender[h].pc = "read" /\ SameInput(h)
  BY <1>1, <1>9 DEF SameInput
<1>10. CASE Quits(h)
  BY <1>1, <1>10 DEF Quits
<1> QED BY <1>0, <1>2, <1>3, <1>4, <1>5, <1>6, <1>7, <1>8, <1>9, <1>10 DEF SendMoves, NoSender

\* So is what the agent has seen, before it writes anything based on it.
LEMMA WorkSourced ==
    ASSUME Shapes, Lifecycle, Revisions, Grounded, Sourced, [Next]_vars, NEW h \in Generations,
           gen[h] # None, gen'[h] # None
    PROVE  /\ Upon(worker'[h].known, gen'[h].evidence)
           /\ FromIn(worker'[h].pending, gen'[h].evidence)
           /\ \A c \in calls' : c.gen = h => FromIn(c.content, gen'[h].evidence)
<1> DEFINE w == worker[h]
           e == gen'[h].evidence
<1>0. /\ GenMoves(h) /\ WorkMoves(h) /\ TypeOK /\ gen[h].evidence \subseteq e
      /\ w \in Tasks /\ w.pending \in Seq(Piece)
  BY GenStep, WorkStep, EvidenceGrows, TaskFields DEF Shapes, TypeOK
<1>1. /\ Upon(w.known, e) /\ FromIn(w.pending, e)
      /\ \A d \in calls : d.gen = h => FromIn(d.content, e)
  BY <1>0, SourcedOf, FromInMore, UponMore
<1> HIDE DEF e
<1>2. ASSUME OldCalls(h) PROVE \A c \in calls' : c.gen = h => FromIn(c.content, e)
  BY <1>1, <1>2 DEF OldCalls, Alike
<1>3. ASSUME NEW seq, NEW kind, NEW content, NewCall(h, seq, kind, content), FromIn(content, e)
      PROVE  \A c \in calls' : c.gen = h => FromIn(c.content, e)
  BY <1>1, <1>3 DEF NewCall, Alike
<1>4. CASE Rests(h) \/ Shifts(h)
  BY <1>1, <1>2, <1>4 DEF Rests, Shifts, SameText, e
<1>5. CASE Begins(h)
  <2>1. Upon(sender[h].basis, e)
    <3>1. sender[h].sources \subseteq e
      BY <1>0, <1>5, BeginsOnce, SourcedOf
    <3> QED BY <3>1, UponMore DEF Grounded
  <2>2. Started(h).known = sender[h].basis /\ Started(h).pending = <<>>
    BY DEF Started, NoWorker
  <2> QED BY <1>2, <1>5, <2>1, <2>2, FromInNothing DEF Begins, e
<1>6. CASE Ends(h)
  <2>1. Ended.known = {} /\ Ended.pending = <<>>
    BY DEF Ended, NoWorker
  <2> QED BY <1>2, <1>6, <2>1, FromInNothing, UponNothing DEF Ends, e
<1>7. CASE Learns(h)
  <2>1. w.tool \in Tools
    BY <1>0, <1>7 DEF Learns, Tasks
  <2>2. {w.tool.source} \in SUBSET Evidence
    BY <2>1 DEF Tools, Evidence
  <2>3. ASSUME ToolResult(h), Visible(h) PROVE w.tool.source \in e
    <3>1. Grown(h, {w.tool.source})
      BY <1>0, <2>2, <2>3, GrownIs DEF ToolResult, Visible
    <3> QED BY <3>1 DEF Grown, e
  <2>4. w.tool.source \in e \cup Unrecorded
    BY <1>7, <2>3 DEF Learns, UnrecordedResult
  <2>5. Upon(w.known \cup {w.tool.source}, e)
    BY <1>1, <2>4, UponOneMore
  <2> QED BY <1>1, <1>2, <1>7, <2>5 DEF Learns, e
<1>8. CASE Produces(h)
  <2> DEFINE p == [n |-> w.made + 1, from |-> w.known]
  <2>1. p.from = w.known /\ worker'[h].pending = Append(w.pending, p) /\ worker'[h].known = w.known
    BY <1>8 DEF Produces
  <2>2. p \in Piece
    <3>1. worker'[h] \in Tasks /\ worker'[h].made = w.made + 1
      BY <1>8, ShapesStep DEF Shapes, TypeOK, Produces
    <3>2. w.made \in 0..Pieces /\ w.made + 1 \in 0..Pieces /\ w.known \in SUBSET Evidence
      BY <1>0, <3>1 DEF Tasks
    <3>3. w.made + 1 \in 1..Pieces
      BY <3>2, PengoloAssumption
    <3> QED BY <3>2, <3>3 DEF Piece
  <2> HIDE DEF p
  <2>3. FromIn(Append(w.pending, p), e)
    BY <1>0, <1>1, <2>1, <2>2, FromInAppend
  <2> QED BY <1>1, <1>2, <1>8, <2>1, <2>3 DEF Produces, e
<1>9. ASSUME NEW kind \in Outs, NEW content \in Seq(Piece), Posts(h, kind, content)
      PROVE  /\ Upon(worker'[h].known, e) /\ FromIn(worker'[h].pending, e)
             /\ \A c \in calls' : c.gen = h => FromIn(c.content, e)
  <2>1. FromIn(content, e)
    BY <1>1, <1>9, FromInNothing DEF Posts
  <2> QED BY <1>1, <1>3, <1>9, <2>1 DEF Posts, SameText
<1>10. CASE Repeats(h)
  <2> DEFINE content == IF w.out = "content" THEN w.pending ELSE <<>>
  <2>1. FromIn(content, e)
    BY <1>1, FromInNothing
  <2>2. NewCall(h, w.cursor + 1, w.out, content)
    BY <1>10 DEF Repeats
  <2> HIDE DEF content
  <2> QED BY <1>1, <1>3, <1>10, <2>1, <2>2 DEF Repeats, SameText, e
<1>11. CASE Breaks(h) \/ Refails(h)
  BY <1>1, <1>3, <1>11, FromInNothing DEF Breaks, Refails, SameText, e
<1>12. ASSUME NEW c \in calls, Advances(h, c)
       PROVE  /\ Upon(worker'[h].known, e) /\ FromIn(worker'[h].pending, e)
              /\ \A d \in calls' : d.gen = h => FromIn(d.content, e)
  BY <1>1, <1>2, <1>12, FromInNothing DEF Advances
<1> QED BY <1>0, <1>4, <1>5, <1>6, <1>7, <1>8, <1>9, <1>10, <1>11, <1>12 DEF WorkMoves, e

\* So is what the stored output is based on.
LEMMA OutputSourced ==
    ASSUME Shapes, Revisions, Sourced, [Next]_vars, NEW h \in Generations,
           gen[h] # None, gen'[h] # None
    PROVE  FromIn(Text(output'[h]), gen'[h].evidence)
<1> DEFINE e == gen'[h].evidence
<1>0. GenMoves(h) /\ TypeOK /\ gen[h].evidence \subseteq e
  BY GenStep, EvidenceGrows DEF Shapes
<1>1. FromIn(Text(output[h]), e) /\ \A d \in calls : d.gen = h => FromIn(d.content, e)
  BY <1>0, SourcedOf, FromInMore
<1> HIDE DEF e
<1>2. CASE output'[h] = output[h]
  BY <1>1, <1>2 DEF e
<1>3. ASSUME NEW kind \in Appendable, NEW content \in Seq(Piece), Appends(h, kind, content)
      PROVE  FromIn(Text(output'[h]), e)
  <2>1. FromIn(content, e)
    BY <1>1, <1>3, FromInNothing DEF Appends
  <2>2. CASE kind = "heartbeat"
    BY <1>1, <1>3, <2>2 DEF Appends, Wrote
  <2>3. CASE kind # "heartbeat"
    <3>1. /\ Text(output[h]) \in Seq(Piece)
          /\ Text(output'[h]) = Text(output[h]) \o content
      BY <1>0, <1>3, <2>3, TextAfter DEF Appends
    <3>2. FromIn(Text(output[h]) \o content, e)
      BY <1>1, <2>1, <3>1, FromInConcat
    <3> QED BY <3>1, <3>2
  <2> QED BY <2>2, <2>3
<1> QED BY <1>0, <1>2, <1>3 DEF GenMoves, Kept, Gone, Fresh, Saved, Grown, e

LEMMA SourcedStep ==
    ASSUME Shapes, Lifecycle, Revisions, Grounded, Sourced, [Next]_vars
    PROVE  Sourced'
<1> SUFFICES ASSUME NEW h \in Generations, gen'[h] # None
             PROVE  /\ sender'[h].pc \in {"noted", "read"} \/ sender'[h].flying =>
                          sender'[h].sources \subseteq gen'[h].evidence
                    /\ Upon(worker'[h].known, gen'[h].evidence)
                    /\ FromIn(worker'[h].pending, gen'[h].evidence)
                    /\ FromIn(Text(output'[h]), gen'[h].evidence)
                    /\ \A c \in calls' : c.gen = h => FromIn(c.content, gen'[h].evidence)
  <2>1. \A c \in calls' : c.gen \in Generations
    BY ShapesStep DEF Shapes, TypeOK, Callbacks
  <2> QED BY <2>1 DEF Sourced, FromIn, Upon, Text
<1>1. CASE gen[h] # None
  BY <1>1, InputSourced, WorkSourced, OutputSourced
<1>2. CASE gen[h] = None
  <2>0. GenMoves(h) /\ WorkMoves(h) /\ SendMoves(h) /\ output[h] = <<>>
    BY <1>2, GenStep, WorkStep, SendStep, LifecycleOf
  <2>1. Fresh(h)
    BY <1>2, <2>0 DEF GenMoves, Kept, Gone, Saved, Grown, Appends, Wrote
  <2>2. /\ sender[h].pc = "prepared" /\ worker[h] = NoWorker /\ ~Alive(h) /\ ~sender[h].flying
        /\ \A c \in calls : c.gen # h
    BY <2>1, LifecycleOf DEF Fresh, Reserve, Early, Alive
  <2>3. Rests(h)
    BY <2>0, <2>2, Living, BeginsOnce DEF Early
  <2>4. output'[h] = <<>> /\ Text(output'[h]) = <<>>
    BY <2>0, <2>1, TextOfNothing DEF Fresh
  <2>5. sender'[h].pc = "reserved" /\ ~sender'[h].flying
    <3>1. sender' = [sender EXCEPT ![h].pc = "reserved"] /\ sender \in [Generations -> Senders]
      BY <2>1 DEF Fresh, Reserve, Shapes, TypeOK
    <3>2. sender[h] \in Senders
      BY <3>1
    <3> QED BY <2>2, <3>1, <3>2 DEF Senders
  <2>6. worker'[h].known = {} /\ worker'[h].pending = <<>> /\ \A c \in calls' : c.gen # h
    BY <2>2, <2>3 DEF Rests, OldCalls, Alike, NoWorker
  <2> QED BY <2>4, <2>5, <2>6, FromInNothing, UponNothing
<1> QED BY <1>1, <1>2

---------------------------------------------------------------------------
(* The messages of the chat.                                               *)

\* What a step can do to the chat and to the copy an edit works on.
ChatMoves ==
    \/ chat' = chat \/ chat' = None
    \/ \E g \in Generations : Reserve(g)
    \/ \E g \in Generations, kind \in Terminal, content \in Seq(Piece) :
          Appends(g, kind, content) /\ chat # None /\ chat' = SettleChat(g, kind)
    \/ EditSave /\ SameRevision

LEMMA ChatStep ==
    ASSUME Shapes, [Next]_vars
    PROVE  ChatMoves
<1>1. StoreMoves
  BY StoreStep
<1>2. ASSUME NEW g \in Generations, NEW kind \in Appendable, NEW content \in Seq(Piece),
             Appends(g, kind, content)
      PROVE  ChatMoves
  <2>1. CASE Stops(kind) /\ chat # None
    BY <1>2, <2>1, AppendsChat DEF ChatMoves, Stops
  <2>2. CASE ~(Stops(kind) /\ chat # None)
    BY <1>2, <2>2, AppendsChat DEF ChatMoves
  <2> QED BY <2>1, <2>2
<1>3. CASE EditSave
  BY <1>3 DEF EditSave, ChatMoves
<1>4. CASE Restart \/ CloseTemporary \/ RemoveChat
  BY <1>4 DEF Restart, CloseTemporary, RemoveChat, ChatMoves
<1>5. CASE \E g \in Generations : LeaseLapses(g) \/ RemoveGeneration(g)
  BY <1>5 DEF LeaseLapses, RemoveGeneration, ChatMoves
<1> QED BY <1>1, <1>2, <1>3, <1>4, <1>5 DEF StoreMoves, Fresh, ChatMoves

\* Once a request has spoken it does not start again.
LEMMA SpokenStays ==
    ASSUME Shapes, Lifecycle, [Next]_vars, NEW h \in Generations,
           sender[h].pc \notin {"idle", "prepared"}
    PROVE  sender'[h].pc \notin {"idle", "prepared"}
<1>1. SendMoves(h)
  BY SendStep
<1> QED BY <1>1 DEF SendMoves, Sends, Quits, Prepare, ReserveRefused, Reserve

LEMMA SpokenInStays ==
    ASSUME Shapes, Lifecycle, [Next]_vars, NEW m \in Seq(Message), SpokenIn(m)
    PROVE  \A i \in DOMAIN m : sender'[m[i].gen].pc \notin {"idle", "prepared"}
<1> SUFFICES ASSUME NEW i \in DOMAIN m PROVE sender'[m[i].gen].pc \notin {"idle", "prepared"}
  OBVIOUS
<1>1. m[i] \in Message
  BY SeqParts
<1>2. m[i].gen \in Generations
  BY <1>1 DEF Message
<1> QED BY <1>2, SpokenStays DEF SpokenIn

\* The two ways a message is added.
LEMMA AppendMessage ==
    ASSUME NEW m \in Seq(Message), NEW x \in Message, NEW i \in DOMAIN Append(m, x)
    PROVE  \/ i \in DOMAIN m /\ Append(m, x)[i] = m[i]
           \/ i = Len(m) + 1 /\ Append(m, x)[i] = x
BY AppendedParts

LEMMA MarkedIs ==
    ASSUME NEW g \in Generations, NEW kind \in Terminal, NEW m \in Seq(Message)
    PROVE  /\ DOMAIN Marked(g, kind, m) = DOMAIN m
           /\ \A i \in DOMAIN m :
                 /\ Marked(g, kind, m)[i].role = m[i].role
                 /\ Marked(g, kind, m)[i].gen = m[i].gen
                 /\ Marked(g, kind, m)[i].text = m[i].text
                 /\ Marked(g, kind, m)[i].evidence = m[i].evidence
                 /\ Marked(g, kind, m)[i].status =
                       IF m[i].role = "user" /\ m[i].gen = g THEN kind ELSE m[i].status
<1>1. DOMAIN Marked(g, kind, m) = DOMAIN m
  BY DEF Marked
<1>2. ASSUME NEW i \in DOMAIN m
      PROVE  /\ Marked(g, kind, m)[i].role = m[i].role
             /\ Marked(g, kind, m)[i].gen = m[i].gen
             /\ Marked(g, kind, m)[i].text = m[i].text
             /\ Marked(g, kind, m)[i].evidence = m[i].evidence
             /\ Marked(g, kind, m)[i].status =
                   IF m[i].role = "user" /\ m[i].gen = g THEN kind ELSE m[i].status
  <2> DEFINE x == m[i]
  <2>1. x \in Message
    BY SeqParts
  <2>2. Marked(g, kind, m)[i] = IF x.role = "user" /\ x.gen = g
                                THEN [x EXCEPT !.status = kind] ELSE x
    BY DEF Marked
  <2> HIDE DEF x
  <2>3. CASE x.role = "user" /\ x.gen = g
    <3>1. Marked(g, kind, m)[i] = [x EXCEPT !.status = kind]
      BY <2>2, <2>3
    <3>2. /\ Marked(g, kind, m)[i].role = x.role
          /\ Marked(g, kind, m)[i].gen = x.gen
          /\ Marked(g, kind, m)[i].text = x.text
          /\ Marked(g, kind, m)[i].evidence = x.evidence
          /\ Marked(g, kind, m)[i].status = kind
      BY <2>1, <3>1 DEF Message
    <3> QED BY <2>3, <3>2 DEF x
  <2>4. CASE ~(x.role = "user" /\ x.gen = g)
    BY <2>2, <2>4 DEF x
  <2> QED BY <2>3, <2>4
<1> QED BY <1>1, <1>2

LEMMA QuestionIs ==
    ASSUME NEW g \in Generations
    PROVE  /\ Question(g).role = "user" /\ Question(g).gen = g
           /\ Question(g).status = "pending" /\ Question(g).text = <<>>
BY DEF Question

LEMMA AnswerIs ==
    ASSUME NEW g \in Generations, NEW kind
    PROVE  /\ Answer(g, kind).role = "assistant" /\ Answer(g, kind).gen = g
           /\ Answer(g, kind).status = kind /\ Answer(g, kind).text = Text(output[g])
           /\ Answer(g, kind).evidence = gen[g].evidence
BY DEF Answer

LEMMA MessagesOf ==
    ASSUME TypeOK
    PROVE  /\ chat # None => chat \in Chats /\ chat.messages \in Seq(Message)
           /\ edit # None => edit \in Chats /\ edit.messages \in Seq(Message)
BY DEF TypeOK, Chats

\* The messages after a step are old ones, a question or an answer.
OldMessage(x) ==
    \E m : /\ \/ chat # None /\ m = chat.messages
              \/ edit # None /\ m = edit.messages
           /\ \E i \in DOMAIN m : /\ x.gen = m[i].gen /\ x.text = m[i].text
                                  /\ x.evidence = m[i].evidence

NewMessage(x) ==
    \E g \in Generations :
        /\ x.gen = g
        /\ \/ Reserve(g) /\ x.text = <<>>
           \/ /\ gen[g] # None
              /\ x.text = Text(output[g]) /\ x.evidence = gen[g].evidence

LEMMA ChatMessages ==
    ASSUME Shapes, [Next]_vars, chat' # None, NEW i \in DOMAIN chat'.messages
    PROVE  OldMessage(chat'.messages[i]) \/ NewMessage(chat'.messages[i])
<1>0. TypeOK /\ ChatMoves
  BY ChatStep DEF Shapes
<1>1. CASE chat' = chat
  BY <1>1 DEF OldMessage
<1>2. ASSUME NEW g \in Generations, Reserve(g)
      PROVE  OldMessage(chat'.messages[i]) \/ NewMessage(chat'.messages[i])
  <2>1. /\ Base.messages \in Seq(Message) /\ Question(g) \in Message
        /\ chat'.messages = Append(Base.messages, Question(g))
    BY <1>0, <1>2, ReservedChat DEF Chats
  <2>2. \/ i \in DOMAIN Base.messages /\ chat'.messages[i] = Base.messages[i]
        \/ chat'.messages[i] = Question(g)
    BY <2>1, AppendMessage
  <2>3. CASE chat = None
    <3>1. Base.messages = <<>>
      BY <2>3 DEF Base
    <3>2. chat'.messages[i] = Question(g)
      BY <2>2, <3>1
    <3> QED BY <1>2, <3>2, QuestionIs DEF NewMessage
  <2>4. CASE chat # None
    <3>1. Base = chat
      BY <2>4 DEF Base
    <3> QED BY <1>2, <2>2, <2>4, <3>1, QuestionIs DEF NewMessage, OldMessage
  <2> QED BY <2>3, <2>4
<1>3. ASSUME NEW g \in Generations, NEW kind \in Terminal, NEW content \in Seq(Piece),
             Appends(g, kind, content), chat # None, chat' = SettleChat(g, kind)
      PROVE  OldMessage(chat'.messages[i]) \/ NewMessage(chat'.messages[i])
  <2>1. gen[g] # None /\ chat.messages \in Seq(Message)
    BY <1>0, <1>3, MessagesOf DEF Appends, Wrote
  <2>2. /\ chat'.messages = Append(Marked(g, kind, chat.messages), Answer(g, kind))
        /\ Marked(g, kind, chat.messages) \in Seq(Message) /\ Answer(g, kind) \in Message
    BY <1>0, <1>3, <2>1, SettleType, MarkedType, AnswerType
  <2>3. \/ /\ i \in DOMAIN Marked(g, kind, chat.messages)
           /\ chat'.messages[i] = Marked(g, kind, chat.messages)[i]
        \/ chat'.messages[i] = Answer(g, kind)
    BY <2>2, AppendMessage
  <2>4. CASE chat'.messages[i] = Answer(g, kind)
    BY <2>1, <2>4, AnswerIs DEF NewMessage
  <2>5. CASE /\ i \in DOMAIN Marked(g, kind, chat.messages)
             /\ chat'.messages[i] = Marked(g, kind, chat.messages)[i]
    BY <1>3, <2>1, <2>5, MarkedIs DEF OldMessage
  <2> QED BY <2>3, <2>4, <2>5
<1>4. CASE EditSave /\ SameRevision
  <2>1. edit # None /\ edit \in Chats
    BY <1>0, <1>4, MessagesOf DEF EditSave
  <2>2. chat'.messages = edit.messages
    BY <1>4, <2>1 DEF EditSave, Chats
  <2> QED BY <2>1, <2>2 DEF OldMessage
<1> QED BY <1>0, <1>1, <1>2, <1>3, <1>4 DEF ChatMoves

LEMMA MessagesStep ==
    ASSUME Shapes, Lifecycle, Revisions, Sourced, Messages, [Next]_vars
    PROVE  Messages'
<1>0. TypeOK /\ TypeOK' /\ Framed
  BY ShapesStep, RoomFrame DEF Shapes
<1>1. ASSUME NEW x, OldMessage(x)
      PROVE  /\ sender'[x.gen].pc \notin {"idle", "prepared"}
             /\ \A j \in DOMAIN x.text : Upon(x.text[j].from, x.evidence)
  <2>1. PICK m : /\ \/ chat # None /\ m = chat.messages
                    \/ edit # None /\ m = edit.messages
                 /\ \E i \in DOMAIN m : /\ x.gen = m[i].gen /\ x.text = m[i].text
                                        /\ x.evidence = m[i].evidence
    BY <1>1 DEF OldMessage
  <2>2. m \in Seq(Message) /\ SpokenIn(m) /\ CoveredIn(m)
    BY <1>0, <2>1, MessagesOf DEF Messages
  <2>3. \A i \in DOMAIN m : sender'[m[i].gen].pc \notin {"idle", "prepared"}
    BY <2>2, SpokenInStays
  <2> QED BY <2>1, <2>2, <2>3 DEF CoveredIn
<1>2. ASSUME NEW x, NewMessage(x)
      PROVE  /\ sender'[x.gen].pc \notin {"idle", "prepared"}
             /\ \A j \in DOMAIN x.text : Upon(x.text[j].from, x.evidence)
  <2>1. PICK g \in Generations :
          /\ x.gen = g
          /\ \/ Reserve(g) /\ x.text = <<>>
             \/ /\ gen[g] # None
                /\ x.text = Text(output[g]) /\ x.evidence = gen[g].evidence
    BY <1>2 DEF NewMessage
  <2>2. CASE Reserve(g) /\ x.text = <<>>
    <3>1. /\ sender \in [Generations -> Senders] /\ sender[g] \in Senders
          /\ sender' = [sender EXCEPT ![g].pc = "reserved"]
      BY <1>0, <2>2 DEF TypeOK, Reserve
    <3>2. sender'[g].pc = "reserved"
      BY <3>1 DEF Senders
    <3> QED BY <2>1, <2>2, <3>2
  <2>3. CASE gen[g] # None /\ x.text = Text(output[g]) /\ x.evidence = gen[g].evidence
    <3>1. sender'[g].pc \notin {"idle", "prepared"}
      BY <2>3, LifecycleOf, SpokenStays
    <3> QED BY <2>1, <2>3, <3>1, SourcedOf DEF FromIn
  <2> QED BY <2>1, <2>2, <2>3
<1>3. chat' # None => (SpokenIn(chat.messages) /\ CoveredIn(chat.messages))'
  BY <1>1, <1>2, ChatMessages DEF SpokenIn, CoveredIn, Upon
<1>4. edit' # None => (SpokenIn(edit.messages) /\ CoveredIn(edit.messages))'
  <2>1. CASE edit' = edit /\ edit # None
    <3>1. \A i \in DOMAIN edit.messages : OldMessage(edit.messages[i])
      BY <2>1 DEF OldMessage
    <3> QED BY <1>1, <2>1, <3>1 DEF SpokenIn, CoveredIn, Upon
  <2>2. CASE EditRead
    <3>1. PICK p \in Projects : edit' = [chat EXCEPT !.project = p]
      BY <2>2 DEF EditRead
    <3>2. chat # None /\ chat \in Chats
      BY <1>0, <2>2, MessagesOf DEF EditRead, ChatVisible
    <3>3. edit'.messages = chat.messages
      BY <3>1, <3>2 DEF Chats
    <3>4. \A i \in DOMAIN chat.messages : OldMessage(chat.messages[i])
      BY <3>2 DEF OldMessage
    <3> QED BY <1>1, <3>3, <3>4 DEF SpokenIn, CoveredIn, Upon
  <2>3. CASE EditSave
    BY <2>3 DEF EditSave
  <2> QED BY <1>0, <2>1, <2>2, <2>3 DEF Framed
<1> QED BY <1>3, <1>4 DEF Messages

\* The history handed to the agent rests on the evidence stored with it.
LEMMA HistoryCovers ==
    ASSUME TypeOK, Messages
    PROVE  Upon(Basis, History)
<1> SUFFICES ASSUME NEW m \in Past, NEW p \in Range(m.text), NEW x \in p.from \ Unrecorded
             PROVE  x \in m.evidence
  BY DEF Upon, Basis, History
<1>1. PICK i \in DOMAIN chat.messages : m = chat.messages[i]
  BY PastMessages
<1>2. PICK j \in DOMAIN m.text : p = m.text[j]
  BY DEF Range
<1>3. CoveredIn(chat.messages)
  BY PastMessages DEF Messages
<1> QED BY <1>1, <1>2, <1>3 DEF CoveredIn, Upon

LEMMA GroundedStep ==
    ASSUME Shapes, Messages, Grounded, [Next]_vars
    PROVE  Grounded'
<1> SUFFICES ASSUME NEW h \in Generations PROVE Upon(sender'[h].basis, sender'[h].sources)
  BY DEF Grounded, Upon
<1>0. SendMoves(h) /\ TypeOK /\ Upon(sender[h].basis, sender[h].sources)
  BY SendStep DEF Shapes, Grounded
<1>1. CASE sender'[h] = sender[h] \/ SameInput(h)
  BY <1>0, <1>1 DEF SameInput
<1>2. CASE sender'[h].sources = History \cup {h} /\ sender'[h].basis = Basis \cup {h}
  <2>1. Upon(Basis, History \cup {h})
    BY <1>0, HistoryCovers, UponMore
  <2> QED BY <1>2, <2>1, UponOneMore
<1>3. CASE sender'[h] = NoSender \/ sender'[h].basis = {}
  BY <1>3, UponNothing DEF NoSender
<1>4. CASE Quits(h)
  BY <1>0, <1>4, UponNothing DEF Quits
<1> QED BY <1>0, <1>1, <1>2, <1>3, <1>4 DEF SendMoves, Sends

---------------------------------------------------------------------------
(* One question and one answer for each generation.                        *)

LEMMA SaysOnceMarked ==
    ASSUME NEW m \in Seq(Message), NEW g \in Generations, NEW kind \in Terminal,
           NEW role \in {"user", "assistant"}, NEW h \in Generations, NEW text, NEW status,
           SaysOnce(m, role, h, text, status)
    PROVE  SaysOnce(Marked(g, kind, m), role, h, text,
                    IF role = "user" /\ h = g THEN kind ELSE status)
<1>1. PICK q \in DOMAIN m :
        /\ m[q].status = status
        /\ role = "assistant" => m[q].text = text
        /\ \A i \in DOMAIN m : m[i].role = role /\ m[i].gen = h <=> i = q
  BY DEF SaysOnce
<1>2. m[q].role = role /\ m[q].gen = h
  BY <1>1
<1> DEFINE d == Marked(g, kind, m)
<1>3. /\ DOMAIN d = DOMAIN m
      /\ \A i \in DOMAIN m : /\ d[i].role = m[i].role /\ d[i].gen = m[i].gen
                             /\ d[i].text = m[i].text
                             /\ d[i].status = IF m[i].role = "user" /\ m[i].gen = g
                                              THEN kind ELSE m[i].status
  BY MarkedIs
<1> HIDE DEF d
<1>4. d[q].status = IF role = "user" /\ h = g THEN kind ELSE status
  BY <1>1, <1>2, <1>3
<1>5. SaysOnce(d, role, h, text, IF role = "user" /\ h = g THEN kind ELSE status)
  BY <1>1, <1>3, <1>4 DEF SaysOnce
<1> QED BY <1>5 DEF d

LEMMA SaysOnceAppend ==
    ASSUME NEW m \in Seq(Message), NEW x \in Message, NEW role, NEW h, NEW text, NEW status,
           SaysOnce(m, role, h, text, status), x.role # role \/ x.gen # h
    PROVE  SaysOnce(Append(m, x), role, h, text, status)
<1>1. PICK q \in DOMAIN m :
        /\ m[q].status = status
        /\ role = "assistant" => m[q].text = text
        /\ \A i \in DOMAIN m : m[i].role = role /\ m[i].gen = h <=> i = q
  BY DEF SaysOnce
<1> DEFINE d == Append(m, x)
<1>2. /\ DOMAIN d = 1..(Len(m) + 1) /\ DOMAIN m = 1..Len(m) /\ Len(m) \in Nat
      /\ \A i \in 1..Len(m) : d[i] = m[i]
      /\ d[Len(m) + 1] = x
  BY AppendedParts
<1> HIDE DEF d
<1>3. \A i \in DOMAIN d : d[i].role = role /\ d[i].gen = h <=> i = q
  BY <1>1, <1>2
<1>4. SaysOnce(d, role, h, text, status)
  BY <1>1, <1>2, <1>3 DEF SaysOnce
<1> QED BY <1>4 DEF d

LEMMA SaysOnceNew ==
    ASSUME NEW m \in Seq(Message), NEW x \in Message,
           \A i \in DOMAIN m : ~(m[i].role = x.role /\ m[i].gen = x.gen)
    PROVE  SaysOnce(Append(m, x), x.role, x.gen, x.text, x.status)
<1> DEFINE d == Append(m, x)
           q == Len(m) + 1
<1>2. /\ DOMAIN d = 1..(Len(m) + 1) /\ DOMAIN m = 1..Len(m) /\ Len(m) \in Nat
      /\ \A i \in 1..Len(m) : d[i] = m[i]
      /\ d[q] = x
  BY AppendedParts
<1> HIDE DEF d
<1>3. q \in DOMAIN d /\ \A i \in DOMAIN d : d[i].role = x.role /\ d[i].gen = x.gen <=> i = q
  BY <1>2
<1>4. SaysOnce(d, x.role, x.gen, x.text, x.status)
  BY <1>2, <1>3 DEF SaysOnce
<1> QED BY <1>4 DEF d

\* No message of this role speaks for h.
Silent(messages, role, h) ==
    \A i \in DOMAIN messages : ~(messages[i].role = role /\ messages[i].gen = h)

LEMMA SilentAppend ==
    ASSUME NEW m \in Seq(Message), NEW x \in Message, NEW role, NEW h,
           Silent(m, role, h), x.role # role \/ x.gen # h
    PROVE  Silent(Append(m, x), role, h)
BY AppendedParts DEF Silent

LEMMA SilentMarked ==
    ASSUME NEW m \in Seq(Message), NEW g \in Generations, NEW kind \in Terminal, NEW role, NEW h,
           Silent(m, role, h)
    PROVE  Silent(Marked(g, kind, m), role, h)
BY MarkedIs DEF Silent

LEMMA ToldIs ==
    ASSUME NEW m, NEW h, NEW status, NEW text
    PROVE  Told(m, h, status, text) <=>
              IF status \in Active
              THEN SaysOnce(m, "user", h, text, "pending") /\ Silent(m, "assistant", h)
              ELSE /\ SaysOnce(m, "user", h, text, status)
                   /\ SaysOnce(m, "assistant", h, text, status)
BY DEF Told, Silent

\* A message about another generation changes nothing.
LEMMA ToldAppend ==
    ASSUME NEW m \in Seq(Message), NEW x \in Message, NEW h, NEW status, NEW text,
           Told(m, h, status, text), x.gen # h
    PROVE  Told(Append(m, x), h, status, text)
<1>1. \A role, t, s : SaysOnce(m, role, h, t, s) => SaysOnce(Append(m, x), role, h, t, s)
  BY SaysOnceAppend
<1>2. Silent(m, "assistant", h) => Silent(Append(m, x), "assistant", h)
  BY SilentAppend
<1> QED BY <1>1, <1>2, ToldIs

LEMMA ToldMarked ==
    ASSUME NEW m \in Seq(Message), NEW g \in Generations, NEW kind \in Terminal,
           NEW h \in Generations, h # g, NEW status, NEW text, Told(m, h, status, text)
    PROVE  Told(Marked(g, kind, m), h, status, text)
<1>1. ASSUME NEW role \in {"user", "assistant"}, NEW s, SaysOnce(m, role, h, text, s)
      PROVE  SaysOnce(Marked(g, kind, m), role, h, text, s)
  <2> DEFINE z == IF role = "user" /\ h = g THEN kind ELSE s
  <2>1. SaysOnce(Marked(g, kind, m), role, h, text, z)
    BY <1>1, SaysOnceMarked
  <2>2. z = s
    OBVIOUS
  <2> QED BY <2>1, <2>2
<1>2. Silent(m, "assistant", h) => Silent(Marked(g, kind, m), "assistant", h)
  BY SilentMarked
<1> QED BY <1>1, <1>2, ToldIs

\* A turn is opened by a question,
LEMMA ToldNew ==
    ASSUME NEW m \in Seq(Message), NEW g \in Generations, \A i \in DOMAIN m : m[i].gen # g,
           NEW text
    PROVE  Told(Append(m, Question(g)), g, "pending", text)
<1>1. /\ Question(g) \in Message /\ Question(g).role = "user" /\ Question(g).gen = g
      /\ Question(g).status = "pending"
  BY DEF Question, Message, Active
<1>2. Silent(m, "user", g) /\ Silent(m, "assistant", g)
  BY DEF Silent
<1>3. SaysOnce(Append(m, Question(g)), "user", g, Question(g).text, "pending")
  BY <1>1, <1>2, SaysOnceNew DEF Silent
<1>4. SaysOnce(Append(m, Question(g)), "user", g, text, "pending")
  BY <1>3 DEF SaysOnce
<1>5. Silent(Append(m, Question(g)), "assistant", g)
  BY <1>1, <1>2, SilentAppend
<1> QED BY <1>4, <1>5, ToldIs DEF Active

\* and settled by an answer.
LEMMA ToldSettled ==
    ASSUME NEW m \in Seq(Message), NEW g \in Generations, NEW kind \in Terminal,
           NEW status \in Active, NEW old, Told(m, g, status, old),
           NEW x \in Message, x.role = "assistant", x.gen = g, x.status = kind
    PROVE  Told(Append(Marked(g, kind, m), x), g, kind, x.text)
<1>1. SaysOnce(m, "user", g, old, "pending") /\ Silent(m, "assistant", g)
  BY ToldIs
<1> DEFINE d == Marked(g, kind, m)
<1>2. d \in Seq(Message) /\ Silent(d, "assistant", g)
  BY <1>1, MarkedType, SilentMarked
<1>3. SaysOnce(d, "user", g, old, kind)
  <2> DEFINE z == IF "user" = "user" /\ g = g THEN kind ELSE "pending"
  <2>1. SaysOnce(d, "user", g, old, z)
    BY <1>1, SaysOnceMarked
  <2>2. z = kind
    OBVIOUS
  <2> HIDE DEF z, d
  <2> QED BY <2>1, <2>2
<1> HIDE DEF d
<1>4. SaysOnce(Append(d, x), "user", g, old, kind)
  BY <1>2, <1>3, SaysOnceAppend
<1>5. SaysOnce(Append(d, x), "user", g, x.text, kind)
  BY <1>4 DEF SaysOnce
<1>6. SaysOnce(Append(d, x), "assistant", g, x.text, kind)
  BY <1>2, SaysOnceNew DEF Silent
<1>7. kind \notin Active
  BY DEF Active, Terminal
<1> QED BY <1>5, <1>6, <1>7, ToldIs DEF d

\* While a turn is open it does not matter how far it is.
LEMMA ToldOpen ==
    ASSUME NEW m, NEW h, NEW s \in Active, NEW t \in Active, NEW a, NEW b, Told(m, h, s, a)
    PROVE  Told(m, h, t, b)
<1>1. SaysOnce(m, "user", h, a, "pending") => SaysOnce(m, "user", h, b, "pending")
  BY DEF SaysOnce
<1> QED BY <1>1, ToldIs

LEMMA AnsweredStep ==
    ASSUME Core, EmptyEnds, Messages, Answered, [Next]_vars
    PROVE  Answered'
<1> SUFFICES ASSUME Undisturbed', ChatVisible', NEW h \in Generations, gen'[h] # None
             PROVE  Told(chat'.messages, h, gen'[h].status, Text(output'[h]))
  BY DEF Answered, Told, SaysOnce, Text
<1>0. /\ Shapes /\ TypeOK /\ TypeOK' /\ Framed /\ StoreMoves /\ Lifecycle /\ Revisions /\ Rooms
      /\ Undisturbed /\ EditIsFresh
  BY ShapesStep, RoomFrame, StoreStep, UndisturbedBack DEF Core, Shapes, Turns
<1>b. chat' # None /\ ~expired'
  BY DEF ChatVisible
<1>a. ChatVisible /\ gen[h] # None => Told(chat.messages, h, gen[h].status, Text(output[h]))
  BY <1>0 DEF Answered
<1>m. chat # None => chat.messages \in Seq(Message) /\ SpokenIn(chat.messages)
  BY <1>0, MessagesOf DEF Messages
<1>1. CASE /\ UNCHANGED <<chat, expired>> /\ output'[h] = output[h]
           /\ gen[h] # None /\ gen'[h].status = gen[h].status
  BY <1>1, <1>a, <1>b DEF ChatVisible
<1>2. ASSUME NEW g \in Generations, Fresh(g), \A k \in Generations \ {g} : gen'[k] = gen[k]
      PROVE  Told(chat'.messages, h, gen'[h].status, Text(output'[h]))
  <2>1. /\ Reserve(g) /\ Base \in Chats /\ Question(g) \in Message /\ UNCHANGED output
        /\ chat'.messages = Append(Base.messages, Question(g)) /\ gen'[g].status = "pending"
    <3>1. Reserve(g) /\ gen'[g].status = "pending"
      BY <1>2 DEF Fresh
    <3>2. UNCHANGED output
      BY <3>1 DEF Reserve
    <3> QED BY <1>0, <3>1, <3>2, ReservedChat
  <2>2. Base.messages \in Seq(Message)
    BY <2>1 DEF Chats
  <2>3. CASE chat = None
    <3>1. \A k \in Generations : gen[k] = None
      BY <1>0, <2>1, <2>3 DEF Reserve, CanReserve, Rooms
    <3>2. h = g
      BY <1>2, <3>1
    <3>3. \A i \in DOMAIN Base.messages : Base.messages[i].gen # g
      BY <2>3 DEF Base
    <3> QED BY <2>1, <2>2, <3>2, <3>3, ToldNew
  <2>4. CASE chat # None /\ h # g
    <3>1. ChatVisible /\ Base = chat /\ gen'[h] = gen[h] /\ Question(g).gen = g
      BY <1>2, <2>1, <2>4, QuestionIs DEF Reserve, CanReserve, ChatVisible, Base
    <3> QED BY <1>a, <1>m, <2>1, <2>4, <3>1, ToldAppend
  <2>5. CASE chat # None /\ h = g
    <3>1. \A i \in DOMAIN chat.messages : chat.messages[i].gen # g
      BY <1>m, <2>1, <2>5 DEF SpokenIn, Reserve
    <3>2. Base = chat
      BY <2>5 DEF Base
    <3> QED BY <2>1, <2>2, <2>5, <3>1, <3>2, ToldNew
  <2> QED BY <2>3, <2>4, <2>5
<1>3. ASSUME NEW g \in Generations, UNCHANGED <<chat, expired, output>>,
             \A k \in Generations \ {g} : gen'[k] = gen[k],
             Saved(g) \/ (\E s : Grown(g, s))
      PROVE  Told(chat'.messages, h, gen'[h].status, Text(output'[h]))
  <2>1. gen[h] # None /\ gen'[h].status = gen[h].status
    BY <1>0, <1>3, SavedSame DEF Saved, Grown
  <2> QED BY <1>1, <1>3, <2>1
<1>4. ASSUME NEW g \in Generations, NEW kind \in Appendable, NEW content \in Seq(Piece),
             Appends(g, kind, content), UNCHANGED expired,
             \A k \in Generations \ {g} : gen'[k] = gen[k] /\ output'[k] = output[k]
      PROVE  Told(chat'.messages, h, gen'[h].status, Text(output'[h]))
  <2>1. Wrote(g, kind, content) /\ gen[g] # None /\ gen[g].status \in Active
    BY <1>4 DEF Appends, Wrote
  <2>0. gen[h] # None
    BY <1>4, <2>1
  <2>2. CASE Stops(kind) /\ chat # None
    <3> DEFINE d == Marked(g, kind, chat.messages)
               x == Answer(g, kind)
    <3>1. chat' = SettleChat(g, kind) /\ kind \in Terminal /\ ChatVisible
      BY <1>0, <1>4, <1>b, <2>2, AppendsChat DEF Stops, ChatVisible
    <3>2. /\ chat'.messages = Append(d, x) /\ d \in Seq(Message) /\ x \in Message
          /\ x.gen = g /\ x.role = "assistant" /\ x.status = kind /\ x.text = Text(output[g])
      BY <1>0, <1>m, <2>1, <2>2, <3>1, SettleType, MarkedType, AnswerType, AnswerIs
    <3>3. CASE h # g
      <4>1. Told(d, h, gen[h].status, Text(output[h]))
        BY <1>a, <1>m, <2>0, <2>2, <3>1, <3>3, ToldMarked
      <4> HIDE DEF d, x
      <4>2. Told(Append(d, x), h, gen[h].status, Text(output[h]))
        BY <3>2, <3>3, <4>1, ToldAppend
      <4> QED BY <1>4, <3>2, <3>3, <4>2
    <3>4. CASE h = g
      <4>1. content = <<>>
        <5>1. kind # "content" /\ kind # "heartbeat"
          BY <3>1 DEF Terminal
        <5> QED BY <1>4, <5>1 DEF Appends, EmptyEnds
      <4>2. Text(output'[g]) = Text(output[g])
        <5>1. /\ Text(output[g]) \in Seq(Piece)
              /\ Text(output'[g]) = Text(output[g]) \o content
          BY <1>0, <2>1, <4>1, TextAfter
        <5> QED BY <4>1, <5>1
      <4>3. gen'[g].status = kind
        BY <2>1, <2>2 DEF Wrote
      <4>4. Told(chat.messages, g, gen[g].status, Text(output[g]))
        BY <1>a, <2>0, <3>1, <3>4
      <4> HIDE DEF x
      <4>5. Told(Append(Marked(g, kind, chat.messages), x), g, kind, x.text)
        BY <1>m, <2>1, <2>2, <3>1, <3>2, <4>4, ToldSettled
      <4> QED BY <3>2, <3>4, <4>2, <4>3, <4>5
    <3> QED BY <3>3, <3>4
  <2>3. CASE ~(Stops(kind) /\ chat # None)
    <3>1. chat' = chat /\ chat # None /\ ~Stops(kind) /\ ChatVisible
      BY <1>0, <1>4, <1>b, <2>3, AppendsChat DEF ChatVisible
    <3>2. CASE h # g
      BY <1>1, <1>4, <2>0, <3>1, <3>2
    <3>3. CASE h = g
      <4>1. gen'[g].status \in Active
        BY <2>1, <3>1 DEF Wrote, Active
      <4> QED BY <1>a, <2>0, <2>1, <3>1, <3>3, <4>1, ToldOpen
    <3> QED BY <3>2, <3>3
  <2> QED BY <2>2, <2>3
<1>5. ASSUME NEW g \in Generations, LeaseLapses(g)
      PROVE  Told(chat'.messages, h, gen'[h].status, Text(output'[h]))
  <2>1. UNCHANGED <<chat, expired, output>>
    BY <1>5 DEF LeaseLapses
  <2>2. gen[h] # None /\ gen'[h].status = gen[h].status
    <3>1. gen[g] \in Records /\ gen' = [gen EXCEPT ![g].leased = FALSE]
          /\ gen \in [Generations -> Records \cup {None}]
      BY <1>0, <1>5 DEF LeaseLapses, TypeOK
    <3>2. CASE h = g
      <4>1. gen'[h] = [gen[h] EXCEPT !.leased = FALSE]
        BY <3>1, <3>2
      <4> QED BY <1>5, <3>1, <3>2, <4>1 DEF Records, LeaseLapses
    <3>3. CASE h # g
      BY <3>1, <3>3
    <3> QED BY <3>2, <3>3
  <2> QED BY <1>1, <2>1, <2>2
<1>6. ASSUME NEW g \in Generations, RemoveGeneration(g) PROVE FALSE
  BY <1>b, <1>6 DEF RemoveGeneration
<1>7. ~CloseTemporary /\ ~RemoveChat
  BY <1>b DEF CloseTemporary, RemoveChat
<1>8. CASE Restart
  BY <1>1, <1>8, <1>b DEF Restart
<1>9. CASE EditSave
  <2>1. CASE SameRevision
    <3>1. edit # None /\ ~temporary /\ ~expired /\ chat # None /\ edit \in Chats /\ ChatVisible
      BY <1>0, <1>9, <2>1 DEF EditSave, Rooms, Undisturbed, SameRevision, TypeOK, ChatVisible
    <3>2. edit.messages = chat.messages
      BY <1>0, <2>1, <3>1 DEF EditIsFresh, SameRevision
    <3>3. chat'.messages = edit.messages /\ UNCHANGED output
      BY <1>9, <2>1, <3>1 DEF EditSave, Chats
    <3>4. gen[h] # None /\ gen'[h].status = gen[h].status
      <4>1. gen[h] # None
        BY <1>9, <2>1 DEF EditSave
      <4>2. gen'[h] = [gen[h] EXCEPT !.project = edit.project] /\ gen[h] \in Records
        BY <1>0, <1>9, <2>1, <4>1 DEF EditSave, TypeOK
      <4>3. edit.project \in Projects
        BY <3>1 DEF Chats
      <4> QED BY <4>1, <4>2, <4>3 DEF Records
    <3> QED BY <1>a, <3>1, <3>2, <3>3, <3>4
  <2>2. CASE ~SameRevision
    BY <1>1, <1>9, <2>2 DEF EditSave
  <2> QED BY <2>1, <2>2
<1>10. CASE UNCHANGED <<chat, expired, gen, output>>
  BY <1>1, <1>10
<1> QED BY <1>0, <1>2, <1>3, <1>4, <1>5, <1>6, <1>7, <1>8, <1>9, <1>10 DEF StoreMoves

\* The positions that speak for a generation, counted.
LEMMA SaidOnce ==
    ASSUME NEW m, NEW role, NEW g, NEW text, NEW status, SaysOnce(m, role, g, text, status)
    PROVE  LET said == {i \in DOMAIN m : m[i].role = role /\ m[i].gen = g}
           IN /\ Cardinality(said) = 1
              /\ \A i \in said : /\ m[i].status = status
                                 /\ role = "assistant" => m[i].text = text
<1>1. PICK q \in DOMAIN m :
        /\ m[q].status = status
        /\ role = "assistant" => m[q].text = text
        /\ \A i \in DOMAIN m : m[i].role = role /\ m[i].gen = g <=> i = q
  BY DEF SaysOnce
<1> DEFINE said == {i \in DOMAIN m : m[i].role = role /\ m[i].gen = g}
<1>2. said = {q}
  BY <1>1
<1> HIDE DEF said
<1>3. Cardinality(said) = 1
  BY <1>2, FS_Singleton
<1> QED BY <1>1, <1>2, <1>3 DEF said

LEMMA SaidNever ==
    ASSUME NEW m, NEW role, NEW g, Silent(m, role, g)
    PROVE  LET said == {i \in DOMAIN m : m[i].role = role /\ m[i].gen = g}
           IN Cardinality(said) = 0 /\ said = {}
<1> DEFINE said == {i \in DOMAIN m : m[i].role = role /\ m[i].gen = g}
<1>1. said = {}
  BY DEF Silent
<1> HIDE DEF said
<1>2. Cardinality(said) = 0
  BY <1>1, FS_EmptySet
<1> QED BY <1>1, <1>2 DEF said

LEMMA AnsweredOnce ==
    ASSUME Answered, Undisturbed
    PROVE  OneAnswer
<1> SUFFICES ASSUME ChatVisible, NEW g \in Generations, gen[g] # None
             PROVE  LET said(role) == {i \in DOMAIN chat.messages :
                                         chat.messages[i].role = role /\ chat.messages[i].gen = g}
                    IN /\ Cardinality(said("user")) = 1
                       /\ \A i \in said("user") : chat.messages[i].status =
                              IF gen[g].status \in Active THEN "pending" ELSE gen[g].status
                       /\ Cardinality(said("assistant")) =
                              IF gen[g].status \in Active THEN 0 ELSE 1
                       /\ \A i \in said("assistant") :
                              /\ chat.messages[i].status = gen[g].status
                              /\ chat.messages[i].text = Text(output[g])
  BY DEF OneAnswer
<1> DEFINE m == chat.messages
           said(role) == {i \in DOMAIN m : m[i].role = role /\ m[i].gen = g}
           s == gen[g].status
           t == Text(output[g])
<1>1. Told(m, g, s, t)
  BY DEF Answered
<1> HIDE DEF m, s, t
<1>2. CASE s \in Active
  <2>1. SaysOnce(m, "user", g, t, "pending") /\ Silent(m, "assistant", g)
    BY <1>1, <1>2, ToldIs
  <2>2. Cardinality(said("user")) = 1 /\ \A i \in said("user") : m[i].status = "pending"
    BY <2>1, SaidOnce
  <2>3. Cardinality(said("assistant")) = 0 /\ said("assistant") = {}
    BY <2>1, SaidNever
  <2> HIDE DEF said
  <2>4. /\ Cardinality(said("user")) = 1
        /\ \A i \in said("user") : m[i].status = IF s \in Active THEN "pending" ELSE s
        /\ Cardinality(said("assistant")) = IF s \in Active THEN 0 ELSE 1
        /\ \A i \in said("assistant") : m[i].status = s /\ m[i].text = t
    BY <1>2, <2>2, <2>3
  <2> QED BY <2>4 DEF m, s, t, said
<1>3. CASE s \notin Active
  <2>1. SaysOnce(m, "user", g, t, s) /\ SaysOnce(m, "assistant", g, t, s)
    BY <1>1, <1>3, ToldIs
  <2>2. Cardinality(said("user")) = 1 /\ \A i \in said("user") : m[i].status = s
    BY <2>1, SaidOnce
  <2>3. /\ Cardinality(said("assistant")) = 1
        /\ \A i \in said("assistant") : m[i].status = s /\ m[i].text = t
    BY <2>1, SaidOnce
  <2> HIDE DEF said
  <2>4. /\ Cardinality(said("user")) = 1
        /\ \A i \in said("user") : m[i].status = IF s \in Active THEN "pending" ELSE s
        /\ Cardinality(said("assistant")) = IF s \in Active THEN 0 ELSE 1
        /\ \A i \in said("assistant") : m[i].status = s /\ m[i].text = t
    BY <1>3, <2>2, <2>3
  <2> QED BY <2>4 DEF m, s, t, said
<1> QED BY <1>2, <1>3

\* What the chat says.
Said == EmptyEnds /\ Grounded /\ Sourced /\ Messages /\ Answered

LEMMA SaidInit == Init => Said
<1> SUFFICES ASSUME Init PROVE Said
  OBVIOUS
<1>1. calls = {} /\ chat = None /\ edit = None /\ \A g \in Generations : gen[g] = None
  BY DEF Init
<1>2. Grounded
  BY UponNothing DEF Init, NoSender, Grounded
<1> QED BY <1>1, <1>2 DEF Said, EmptyEnds, Sourced, Messages, Answered, ChatVisible

LEMMA SaidStep == Core /\ Said /\ [Next]_vars => Said'
BY EmptyEndsStep, GroundedStep, SourcedStep, MessagesStep, AnsweredStep DEF Core, Said

LEMMA SaidHolds == Spec => []Said
BY CoreHolds, SaidInit, SaidStep, PTL DEF Spec

\* append pushes an answer with the evidence recorded for it; the attachments
\* and the evidence of the history are recorded before the agent is started,
\* and a tool that records does so before its result is returned.  So whatever
\* mail, web pages and compiler jobs the agent has seen besides, of which
\* nothing is recorded, the rest of what a text in the chat is based on,
\* through any number of earlier answers, is in the evidence of its message.
THEOREM AnswersAreCovered == Spec => []EvidenceCovers
<1>1. Said => EvidenceCovers
  BY DEF Said, Messages, CoveredIn, Upon, EvidenceCovers
<1> QED BY <1>1, SaidHolds, PTL

\* A turn is settled once, whoever settles it: one question and one answer,
\* with the status and the text stored, unless a temporary chat was edited.
THEOREM TurnsAreAnsweredOnce == Spec => [](Undisturbed => OneAnswer)
<1>1. Said => (Undisturbed => OneAnswer)
  BY AnsweredOnce DEF Said
<1> QED BY <1>1, SaidHolds, PTL

---------------------------------------------------------------------------
(* Delivery: what is posted, repeated, lost and acknowledged.              *)

LEMMA DeliveryAt ==
    ASSUME Delivery, NEW g \in Generations, Alive(g)
    PROVE  /\ worker[g].out \in {"tool", "completed", "failed"} => worker[g].pending = <<>>
           /\ worker[g].pc = "start" => worker[g].out = None
           /\ worker[g].pc = "failing" => worker[g].failAt <= worker[g].cursor + 1
           /\ \A c \in calls : c.gen = g => DeliveryOf(worker[g], c.seq, c.kind, c.content)
BY DEF Delivery

LEMMA DeliveryStep ==
    ASSUME Shapes, Lifecycle, Delivery, [Next]_vars
    PROVE  Delivery'
<1> DEFINE Good(h) ==
             /\ worker'[h].out \in {"tool", "completed", "failed"} => worker'[h].pending = <<>>
             /\ worker'[h].pc = "start" => worker'[h].out = None
             /\ worker'[h].pc = "failing" => worker'[h].failAt <= worker'[h].cursor + 1
             /\ \A c \in calls' : c.gen = h => DeliveryOf(worker'[h], c.seq, c.kind, c.content)
<1> SUFFICES ASSUME NEW h \in Generations, Alive(h)' PROVE Good(h)
  BY DEF Delivery, DeliveryOf
<1> DEFINE w == worker[h]
           v == worker'[h]
<1>0. /\ TypeOK /\ WorkMoves(h) /\ v.pc \in {"start", "run", "closing", "failing"}
      /\ w \in Tasks /\ w.cursor \in Nat /\ w.out \in Outs \cup {None} /\ w.failAt \in Nat
      /\ \A c \in calls : c.seq \in Nat
      /\ None \notin Outs /\ Outs = {"content", "tool", "completed", "failed"}
  BY WorkStep, TaskFields, NoneAssumption DEF Shapes, TypeOK, Alive, Callbacks, Tasks, Outs
<1>1. CASE Begins(h)
  <2>1. ~Alive(h) /\ w.pc = "none"
    BY <1>1, BeginsOnce, LifecycleOf DEF Alive
  <2>2. \A c \in calls' : c.gen # h
    BY <1>1, <2>1, LifecycleOf DEF Begins, OldCalls, Alike
  <2>3. v.pc = "start" /\ v.out = None
    BY <1>1 DEF Begins, Started, NoWorker
  <2> QED BY <1>0, <2>2, <2>3
<1>2. CASE Rests(h) /\ ~Alive(h)
  BY <1>0, <1>2 DEF Rests, Alive
<1>3. CASE Alive(h) /\ ~Begins(h)
  <2>0. /\ w.out \in {"tool", "completed", "failed"} => w.pending = <<>>
        /\ w.pc = "start" => w.out = None
        /\ w.pc = "failing" => w.failAt <= w.cursor + 1
        /\ \A c \in calls : c.gen = h => DeliveryOf(w, c.seq, c.kind, c.content)
    BY <1>3, DeliveryAt
  <2>a. ASSUME NEW seq, NEW kind, NEW content, NewCall(h, seq, kind, content),
               DeliveryOf(v, seq, kind, content),
               \A c \in calls : c.gen = h => DeliveryOf(v, c.seq, c.kind, c.content)
        PROVE  \A c \in calls' : c.gen = h => DeliveryOf(v, c.seq, c.kind, c.content)
    BY <2>a DEF NewCall, Alike
  <2>b. ASSUME OldCalls(h), \A c \in calls : c.gen = h => DeliveryOf(v, c.seq, c.kind, c.content)
        PROVE  \A c \in calls' : c.gen = h => DeliveryOf(v, c.seq, c.kind, c.content)
    BY <2>b DEF OldCalls, Alike
  <2>1. CASE Rests(h)
    BY <2>0, <2>1, <2>b DEF Rests
  <2>2. CASE Ends(h)
    BY <1>0, <2>2 DEF Ends, Ended, NoWorker
  <2>3. CASE Shifts(h)
    <3>1. \A c \in calls : c.gen = h => DeliveryOf(v, c.seq, c.kind, c.content)
      BY <2>0, <2>3 DEF Shifts, SameText, DeliveryOf
    <3> QED BY <1>0, <2>0, <2>3, <2>b, <3>1 DEF Shifts, SameText
  <2>4. CASE Learns(h)
    <3>1. \A c \in calls : c.gen = h => DeliveryOf(v, c.seq, c.kind, c.content)
      BY <2>0, <2>4 DEF Learns, DeliveryOf
    <3> QED BY <1>0, <2>0, <2>4, <2>b, <3>1 DEF Learns
  <2>5. CASE Produces(h)
    <3>1. \A c \in calls : c.gen = h => DeliveryOf(v, c.seq, c.kind, c.content)
      BY <2>0, <2>5 DEF Produces, DeliveryOf
    <3> QED BY <1>0, <2>0, <2>5, <2>b, <3>1 DEF Produces
  <2>6. ASSUME NEW kind \in Outs, NEW content \in Seq(Piece), Posts(h, kind, content)
        PROVE  Good(h)
    <3>1. \A c \in calls : c.gen = h => DeliveryOf(v, c.seq, c.kind, c.content)
      BY <1>0, <2>0, <2>6 DEF Posts, SameText, DeliveryOf
    <3>2. DeliveryOf(v, w.cursor + 1, kind, content)
      BY <1>0, <2>6 DEF Posts, SameText, DeliveryOf
    <3>3. NewCall(h, w.cursor + 1, kind, content)
      BY <2>6 DEF Posts
    <3>4. \A c \in calls' : c.gen = h => DeliveryOf(v, c.seq, c.kind, c.content)
      BY <2>a, <3>1, <3>2, <3>3
    <3> QED BY <1>0, <2>0, <2>6, <3>4 DEF Posts, SameText
  <2>7. CASE Repeats(h)
    <3> DEFINE content == IF w.out = "content" THEN w.pending ELSE <<>>
    <3>1. \A c \in calls : c.gen = h => DeliveryOf(v, c.seq, c.kind, c.content)
      BY <2>0, <2>7 DEF Repeats, SameText, DeliveryOf
    <3>2. DeliveryOf(v, w.cursor + 1, w.out, content)
      BY <1>0, <2>0, <2>7 DEF Repeats, SameText, DeliveryOf
    <3>3. NewCall(h, w.cursor + 1, w.out, content)
      BY <2>7 DEF Repeats
    <3> HIDE DEF content
    <3>4. \A c \in calls' : c.gen = h => DeliveryOf(v, c.seq, c.kind, c.content)
      BY <2>a, <3>1, <3>2, <3>3
    <3> QED BY <1>0, <2>0, <2>7, <3>4 DEF Repeats, SameText
  <2>8. CASE Breaks(h)
    <3>1. \A c \in calls : c.gen = h => DeliveryOf(v, c.seq, c.kind, c.content)
      BY <2>0, <2>8 DEF Breaks, SameText, DeliveryOf
    <3>2. DeliveryOf(v, w.cursor + 1, "failed", <<>>)
      BY <1>0, <2>8 DEF Breaks, SameText, DeliveryOf
    <3>4. \A c \in calls' : c.gen = h => DeliveryOf(v, c.seq, c.kind, c.content)
      BY <2>8, <2>a, <3>1, <3>2 DEF Breaks
    <3> QED BY <1>0, <2>0, <2>8, <3>4 DEF Breaks, SameText
  <2>9. CASE Refails(h)
    <3>1. \A c \in calls : c.gen = h => DeliveryOf(v, c.seq, c.kind, c.content)
      BY <2>0, <2>9 DEF Refails, SameText, DeliveryOf
    <3>2. DeliveryOf(v, w.failAt, "failed", <<>>)
      BY <1>0, <2>0, <2>9 DEF Refails, SameText, DeliveryOf
    <3>4. \A c \in calls' : c.gen = h => DeliveryOf(v, c.seq, c.kind, c.content)
      BY <2>9, <2>a, <3>1, <3>2 DEF Refails
    <3> QED BY <1>0, <2>0, <2>9, <3>4 DEF Refails, SameText
  <2>10. ASSUME NEW c \in calls, Advances(h, c) PROVE Good(h)
    <3>1. \A d \in calls : d.gen = h => DeliveryOf(v, d.seq, d.kind, d.content)
      BY <1>0, <2>0, <2>10 DEF Advances, DeliveryOf
    <3> QED BY <1>0, <2>0, <2>10, <2>b, <3>1 DEF Advances
  <2> HIDE DEF Good
  <2> QED BY <1>0, <1>3, <2>1, <2>2, <2>3, <2>4, <2>5, <2>6, <2>7, <2>8, <2>9, <2>10 DEF WorkMoves
<1> HIDE DEF Good
<1>4. ~Alive(h) => Rests(h) \/ Begins(h)
  BY <1>0, Living
<1> QED BY <1>1, <1>2, <1>3, <1>4

---------------------------------------------------------------------------
(* The order of the text.                                                  *)

LEMMA ContinuesNothing == \A n : Continues(<<>>, n)
BY DEF Continues

LEMMA ContinuesAppend ==
    ASSUME NEW pieces \in Seq(Piece), NEW p \in Piece, NEW n \in Nat, Continues(pieces, n),
           p.n = n + Len(pieces) + 1
    PROVE  Continues(Append(pieces, p), n)
BY AppendedParts DEF Continues

\* A text numbered from its start, continued.
LEMMA NumberedConcat ==
    ASSUME NEW a \in Seq(Piece), NEW b \in Seq(Piece), Continues(a, 0), Continues(b, Len(a))
    PROVE  Continues(a \o b, 0) /\ Len(a \o b) = Len(a) + Len(b)
<1>1. /\ Len(a) \in Nat /\ Len(b) \in Nat /\ DOMAIN a = 1..Len(a) /\ DOMAIN b = 1..Len(b)
      /\ DOMAIN (a \o b) = 1..(Len(a) + Len(b)) /\ Len(a \o b) = Len(a) + Len(b)
  OBVIOUS
<1>2. ASSUME NEW i \in DOMAIN (a \o b) PROVE (a \o b)[i].n = 0 + i
  <2>0. (a \o b)[i] = IF i <= Len(a) THEN a[i] ELSE b[i - Len(a)]
    BY <1>1
  <2>1. CASE i <= Len(a)
    BY <1>1, <2>0, <2>1 DEF Continues
  <2>2. CASE ~(i <= Len(a))
    <3>1. i - Len(a) \in DOMAIN b /\ Len(a) + (i - Len(a)) = 0 + i
      BY <1>1, <2>2
    <3> QED BY <2>0, <2>2, <3>1 DEF Continues
  <2> QED BY <2>1, <2>2
<1> QED BY <1>1, <1>2 DEF Continues

Numbered == \A g \in Generations : Continues(Text(output[g]), 0)

LEMMA NumberedIsPrefix ==
    ASSUME Shapes, Numbered
    PROVE  TextIsPrefix
<1> SUFFICES ASSUME NEW g \in Generations, NEW i \in DOMAIN Text(output[g])
             PROVE  Text(output[g])[i].n = i
  BY DEF TextIsPrefix
<1>1. Text(output[g]) \in Seq(Piece)
  BY TextType DEF Shapes, TypeOK
<1>2. i \in Nat
  BY <1>1, SeqParts
<1>3. Text(output[g])[i].n = 0 + i
  BY DEF Numbered, Continues
<1> QED BY <1>2, <1>3

\* A callback that extends the output of an open turn continues its text.
LEMMA NumberedStep ==
    ASSUME Shapes, Lifecycle, Revisions, InOrder, EmptyEnds, Numbered, [Next]_vars
    PROVE  Numbered'
<1> SUFFICES ASSUME NEW h \in Generations PROVE Continues(Text(output'[h]), 0)
  BY Zenon DEF Numbered, Continues, Text
<1>0. TypeOK /\ GenMoves(h) /\ Continues(Text(output[h]), 0)
  BY GenStep DEF Shapes, Numbered
<1>1. CASE output'[h] = output[h]
  BY <1>0, <1>1
<1>2. CASE Gone(h)
  BY <1>2, TextOfNothing, ContinuesNothing DEF Gone
<1>3. ASSUME NEW kind \in Appendable, NEW content \in Seq(Piece), Appends(h, kind, content)
      PROVE  Continues(Text(output'[h]), 0)
  <2>1. Wrote(h, kind, content) /\ Opened(h)
    BY <1>3 DEF Appends, Wrote, Opened
  <2>2. CASE kind = "heartbeat"
    BY <1>1, <2>1, <2>2 DEF Wrote
  <2>3. CASE kind # "heartbeat"
    <3>1. /\ Text(output[h]) \in Seq(Piece)
          /\ Text(output'[h]) = Text(output[h]) \o content
      BY <1>0, <2>1, <2>3, TextAfter
    <3>2. Continues(content, Len(Text(output[h])))
      <4>1. CASE content = <<>>
        BY <4>1, ContinuesNothing
      <4>2. ASSUME NEW c \in calls, c.gen = h, content = c.content, Extends(h, c.seq)
            PROVE  Continues(content, Len(Text(output[h])))
        BY <2>1, <4>2 DEF InOrder, Follows, Extends
      <4> QED BY <1>3, <4>1, <4>2 DEF Appends
    <3> QED BY <1>0, <3>1, <3>2, NumberedConcat
  <2> QED BY <2>2, <2>3
<1> QED BY <1>0, <1>1, <1>2, <1>3 DEF GenMoves, Kept, Fresh, Saved, Grown

\* The worker and its callbacks, while the output of the turn stays.
LEMMA OrderKept ==
    ASSUME Shapes, Lifecycle, Delivery, InOrder, [Next]_vars, NEW h \in Generations,
           Opened(h), output'[h] = output[h]
    PROVE  LET n == Len(output[h])
               t == Len(Text(output[h]))
           IN /\ Alive(h)' => Stored(worker'[h], n, t)
              /\ \A c \in calls' : c.gen = h => Follows(c.seq, c.content, n, t)
<1> DEFINE w == worker[h]
           v == worker'[h]
           n == Len(output[h])
           t == Len(Text(output[h]))
           Good(k) == /\ Alive(k)' => Stored(worker'[k], n, t)
                      /\ \A c \in calls' : c.gen = k => Follows(c.seq, c.content, n, t)
<1> SUFFICES Good(h)
  OBVIOUS
<1>0. /\ TypeOK /\ WorkMoves(h) /\ n \in Nat /\ t \in Nat /\ Text(output[h]) \in Seq(Piece)
      /\ w \in Tasks /\ w.cursor \in Nat /\ w.out \in Outs \cup {None} /\ w.failAt \in Nat
      /\ w.pending \in Seq(Piece) /\ Len(w.pending) \in Nat /\ w.made \in 0..Pieces
      /\ \A c \in calls : c.seq \in Nat
      /\ None \notin Outs /\ Outs = {"content", "tool", "completed", "failed"}
  <2>1. output[h] \in Seq(Events) /\ TypeOK /\ w \in Tasks
    BY DEF Shapes, TypeOK
  <2>2. Text(output[h]) \in Seq(Piece) /\ n \in Nat /\ t \in Nat
    BY <2>1, TextType
  <2> HIDE DEF n, t
  <2>3. WorkMoves(h)
    BY WorkStep
  <2>4. /\ w.cursor \in Nat /\ w.out \in Outs \cup {None} /\ w.failAt \in Nat
        /\ w.pending \in Seq(Piece) /\ w.made \in 0..Pieces
    BY <2>1 DEF Tasks
  <2>5. Len(w.pending) \in Nat
    BY <2>4
  <2>6. \A c \in calls : c.seq \in Nat
    BY <2>1 DEF TypeOK, Callbacks
  <2>7. None \notin Outs /\ Outs = {"content", "tool", "completed", "failed"}
    BY NoneAssumption DEF Outs
  <2> QED BY <2>1, <2>2, <2>3, <2>4, <2>5, <2>6, <2>7
<1>a. /\ Alive(h) => Stored(w, n, t)
      /\ \A c \in calls : c.gen = h => Follows(c.seq, c.content, n, t)
  BY DEF InOrder
<1>n. output[h] \in Seq(Events) /\ n = Len(output[h])
  BY <1>0 DEF TypeOK
<1> HIDE DEF n, t
<1>b. ASSUME OldCalls(h) PROVE \A c \in calls' : c.gen = h => Follows(c.seq, c.content, n, t)
  BY <1>a, <1>b DEF OldCalls, Alike
<1>c. ASSUME NEW seq, NEW kind, NEW content, NewCall(h, seq, kind, content),
             Follows(seq, content, n, t)
      PROVE  \A c \in calls' : c.gen = h => Follows(c.seq, c.content, n, t)
  BY <1>a, <1>c DEF NewCall, Alike
<1>1. CASE Begins(h)
  <2>1. w.pc = "none" /\ output[h] = <<>>
    BY <1>1, BeginsOnce, LifecycleOf
  <2>2. n = 0 /\ t = 0
    BY <2>1, TextOfNothing DEF n, t
  <2>3. v.cursor = 0 /\ v.made = 0 /\ v.pending = <<>> /\ v.out = None
    BY <1>1 DEF Begins, Started, NoWorker
  <2>4. Stored(v, n, t)
    BY <2>2, <2>3, ContinuesNothing DEF Stored
  <2> QED BY <1>1, <1>b, <2>4 DEF Begins
<1>2. CASE ~Alive(h) /\ Rests(h)
  BY <1>2, <1>b DEF Rests, Alive
<1>3. CASE Alive(h) /\ ~Begins(h)
  <2>0. /\ Stored(w, n, t)
        /\ w.out \in {"tool", "completed", "failed"} => w.pending = <<>>
        /\ w.pc = "failing" => w.failAt <= w.cursor + 1
    BY <1>3, <1>a, DeliveryAt
  <2>1. CASE Rests(h)
    BY <2>0, <2>1, <1>b DEF Rests
  <2>2. CASE Ends(h)
    BY <2>2, <1>b DEF Ends, Ended, NoWorker, Alive
  <2>3. CASE Shifts(h)
    <3>1. Stored(v, n, t)
      BY <2>0, <2>3 DEF Shifts, SameText, Stored
    <3> QED BY <2>3, <1>b, <3>1 DEF Shifts
  <2>4. CASE Learns(h)
    <3>1. Stored(v, n, t)
      BY <2>0, <2>4 DEF Learns, Stored
    <3> QED BY <2>4, <1>b, <3>1 DEF Learns
  <2>5. CASE Produces(h)
    <3> DEFINE p == [n |-> w.made + 1, from |-> w.known]
    <3>1. p.n = w.made + 1 /\ v.pending = Append(w.pending, p) /\ v.made = w.made + 1
          /\ v.cursor = w.cursor
      BY <2>5 DEF Produces
    <3>2. p \in Piece
      <4>1. v \in Tasks
        BY ShapesStep DEF Shapes, TypeOK
      <4>2. v.made \in 0..Pieces /\ w.known \in SUBSET Evidence
        BY <1>0, <4>1 DEF Tasks
      <4>3. w.made + 1 \in 1..Pieces
        BY <1>0, <3>1, <4>2, PengoloAssumption
      <4> QED BY <4>2, <4>3 DEF Piece
    <3> HIDE DEF p
    <3>3. n = w.cursor /\ w.made = t + Len(w.pending) /\ Continues(w.pending, t)
      BY <2>0, <2>5 DEF Stored, Produces
    <3>4. Continues(v.pending, t) /\ Len(v.pending) = Len(w.pending) + 1
      BY <1>0, <3>1, <3>2, <3>3, ContinuesAppend
    <3>5. Stored(v, n, t)
      BY <1>0, <3>1, <3>3, <3>4 DEF Stored
    <3> QED BY <2>5, <1>b, <3>5 DEF Produces
  <2>6. ASSUME NEW kind \in Outs, NEW content \in Seq(Piece), Posts(h, kind, content)
        PROVE  Good(h)
    <3>1. Stored(v, n, t)
      BY <1>0, <2>0, <2>6 DEF Posts, SameText, Stored
    <3>2. Follows(w.cursor + 1, content, n, t)
      BY <1>0, <2>0, <2>6, ContinuesNothing DEF Posts, Stored, Follows
    <3> QED BY <2>6, <1>c, <3>1, <3>2 DEF Posts
  <2>7. CASE Repeats(h)
    <3> DEFINE content == IF w.out = "content" THEN w.pending ELSE <<>>
    <3>1. Stored(v, n, t)
      BY <2>0, <2>7 DEF Repeats, SameText, Stored
    <3>2. Follows(w.cursor + 1, content, n, t)
      BY <1>0, <2>0, ContinuesNothing DEF Stored, Follows
    <3>3. NewCall(h, w.cursor + 1, w.out, content)
      BY <2>7 DEF Repeats
    <3> HIDE DEF content
    <3> QED BY <1>c, <3>1, <3>2, <3>3
  <2>8. CASE Breaks(h)
    <3>1. Stored(v, n, t)
      BY <2>0, <2>8 DEF Breaks, SameText, Stored
    <3>2. Follows(w.cursor + 1, <<>>, n, t)
      BY <1>0, <2>0, ContinuesNothing DEF Stored, Follows
    <3> QED BY <1>c, <2>8, <3>1, <3>2 DEF Breaks
  <2>9. CASE Refails(h)
    <3>1. Stored(v, n, t)
      BY <2>0, <2>9 DEF Refails, SameText, Stored
    <3>2. Follows(w.failAt, <<>>, n, t)
      <4>1. w.failAt <= w.cursor + 1 /\ n \in {w.cursor, w.cursor + 1}
        BY <2>0, <2>9 DEF Stored, Refails
      <4>2. w.failAt <= n + 1
        BY <1>0, <4>1
      <4> QED BY <4>2, ContinuesNothing DEF Follows
    <3> QED BY <1>c, <2>9, <3>1, <3>2 DEF Refails
  <2>10. ASSUME NEW c \in calls, Advances(h, c) PROVE Good(h)
    <3>1. ~(Visible(h) /\ Extends(h, c.seq))
      <4> SUFFICES ASSUME Visible(h), Extends(h, c.seq) PROVE FALSE
        OBVIOUS
      <4>1. Write(h, c.kind, c.content) /\ c \in Callbacks
        BY <1>0, <2>10 DEF Advances, Accept, TypeOK
      <4>2. c.kind # "heartbeat" /\ c.kind \in Appendable /\ c.content \in Seq(Piece)
        BY <4>1 DEF Callbacks, Outs, Appendable, Terminal
      <4> DEFINE e == [kind |-> c.kind, content |-> c.content]
      <4>3. e \in Events
        BY <4>2, EventType
      <4>4. output' = [output EXCEPT ![h] = Append(output[h], e)]
        BY <4>1, <4>2 DEF Write
      <4> HIDE DEF e
      <4>5. output'[h] = Append(output[h], e)
        BY <1>0, <4>4 DEF TypeOK
      <4>6. Len(output'[h]) = n + 1
        BY <1>n, <4>3, <4>5, AppendedParts
      <4> QED BY <1>0, <1>n, <4>6
    <3>2. w.cursor + 1 \in 1..n
      BY <1>n, <2>10, <3>1 DEF Advances, Replays
    <3>3. n = w.cursor + 1 /\ w.made = t
      BY <1>0, <2>0, <3>2 DEF Stored
    <3>4. v.cursor = n /\ v.made = t /\ v.pending = <<>>
      <4>1. c.kind \in Outs
        BY <1>0 DEF TypeOK, Callbacks
      <4> QED BY <1>0, <2>0, <2>10, <3>3, <4>1 DEF Advances
    <3>5. Stored(v, n, t)
      BY <1>0, <3>4, ContinuesNothing DEF Stored
    <3> QED BY <1>b, <2>10, <3>5 DEF Advances
  <2> HIDE DEF Good
  <2> QED BY <1>0, <1>3, <2>1, <2>2, <2>3, <2>4, <2>5, <2>6, <2>7, <2>8, <2>9, <2>10 DEF WorkMoves
<1>4. ~Alive(h) => Rests(h) \/ Begins(h)
  BY <1>0, Living
<1> HIDE DEF Good
<1> QED BY <1>1, <1>2, <1>3, <1>4

\* What the answer to an accepted callback does to the worker.
LEMMA AcceptedWork ==
    ASSUME TypeOK, NEW c \in calls, Reply(c, TRUE)
    PROVE  LET w == worker[c.gen]
               v == worker'[c.gen]
           IN /\ calls' \subseteq calls
              /\ \/ v = w
                 \/ v = Ended
                 \/ /\ w.cursor + 1 = c.seq /\ w.out = c.kind
                    /\ v.cursor = w.cursor + 1 /\ v.made = w.made /\ v.pc = w.pc
                    /\ v.pending = IF c.kind = "content" THEN <<>> ELSE w.pending
<1> DEFINE h == c.gen
           w == worker[h]
           v == worker'[h]
<1>0. worker \in [Generations -> Tasks] /\ h \in Generations /\ w \in Tasks
  BY DEF TypeOK, Callbacks
<1>1. CASE Acknowledge(c) /\ calls' = calls \ {c} /\ Awaited(c)
  <2>1. v = Acknowledged(w, c)
    BY <1>0, <1>1 DEF Acknowledge
  <2>2. CASE c.slot = "fail" \/ w.pc = "closing"
    BY <1>1, <2>1, <2>2 DEF Acknowledged
  <2>3. CASE ~(c.slot = "fail" \/ w.pc = "closing")
    <3> DEFINE p == IF c.kind = "content" THEN <<>> ELSE w.pending
    <3>1. v = [w EXCEPT !.cursor = w.cursor + 1, !.out = None, !.tries = 0, !.pending = p]
      BY <2>1, <2>3 DEF Acknowledged
    <3> HIDE DEF p
    <3>2. v.cursor = w.cursor + 1 /\ v.made = w.made /\ v.pc = w.pc /\ v.pending = p
      BY <1>0, <3>1 DEF Tasks
    <3>3. w.cursor + 1 = c.seq /\ w.out = c.kind
      BY <1>1, <2>3 DEF Awaited
    <3> QED BY <1>1, <3>2, <3>3 DEF p
  <2> QED BY <2>2, <2>3
<1>2. CASE UNCHANGED worker /\ calls' = calls \ {c}
  BY <1>2
<1> QED BY <1>1, <1>2 DEF Reply

\* An accepted event is the one the worker is delivering.
LEMMA OrderAppended ==
    ASSUME Shapes, Delivery, InOrder, EmptyEnds, NEW h \in Generations, Opened(h),
           NEW c \in calls, c.gen = h, Reply(c, TRUE), Extends(h, c.seq),
           c.kind \in {"content", "tool"}, Wrote(h, c.kind, c.content)
    PROVE  LET n == Len(output'[h])
               t == Len(Text(output'[h]))
           IN /\ Alive(h)' => Stored(worker'[h], n, t)
              /\ \A d \in calls' : d.gen = h => Follows(d.seq, d.content, n, t)
<1> DEFINE w == worker[h]
           v == worker'[h]
           n == Len(output[h])
           t == Len(Text(output[h]))
           m == Len(output'[h])
           u == Len(Text(output'[h]))
           Good(k) == /\ Alive(k)' => Stored(worker'[k], m, u)
                      /\ \A d \in calls' : d.gen = k => Follows(d.seq, d.content, m, u)
<1> SUFFICES Good(h)
  OBVIOUS
<1>0. /\ TypeOK /\ w \in Tasks /\ w.cursor \in Nat /\ w.pending \in Seq(Piece)
      /\ Len(w.pending) \in Nat /\ w.made \in 0..Pieces
  <2>1. TypeOK /\ w \in Tasks
    BY DEF Shapes, TypeOK
  <2>2. w.cursor \in Nat /\ w.pending \in Seq(Piece) /\ w.made \in 0..Pieces
    BY <2>1 DEF Tasks
  <2> QED BY <2>1, <2>2
<1>1. /\ n \in Nat /\ t \in Nat /\ m = n + 1 /\ c.content \in Seq(Piece)
      /\ u = t + Len(c.content) /\ Len(c.content) \in Nat
  <2> DEFINE e == [kind |-> c.kind, content |-> c.content]
  <2>1. c.content \in Seq(Piece) /\ c.kind \in Appendable /\ c.kind # "heartbeat"
        /\ output[h] \in Seq(Events)
    BY <1>0 DEF TypeOK, Callbacks, Appendable
  <2>2. e \in Events
    BY <2>1, EventType
  <2>3. output'[h] = Append(output[h], e)
    BY <2>1 DEF Wrote
  <2> HIDE DEF e
  <2>4. n \in Nat /\ m = n + 1
    BY <2>1, <2>2, <2>3, AppendedParts
  <2>5. /\ Text(output[h]) \in Seq(Piece)
        /\ Text(output'[h]) = Text(output[h]) \o c.content
    BY <1>0, <2>1, TextAfter
  <2>6. u = t + Len(c.content) /\ t \in Nat /\ Len(c.content) \in Nat
    BY <2>1, <2>5
  <2> QED BY <2>1, <2>4, <2>6
<1>2. c.seq = n + 1
  BY DEF Extends
<1>3. /\ Alive(h) => Stored(w, n, t)
      /\ \A d \in calls : d.gen = h => Follows(d.seq, d.content, n, t)
  BY DEF InOrder
<1>4. \A d \in calls : d.seq \in Nat
  BY <1>0 DEF TypeOK, Callbacks
<1> HIDE DEF n, t, m, u
<1>5. \A d \in calls' : d.gen = h => Follows(d.seq, d.content, m, u)
  <2>1. calls' \subseteq calls
    BY <1>0, AcceptedWork
  <2>2. ASSUME NEW d \in calls, d.gen = h PROVE Follows(d.seq, d.content, m, u)
    <3>1. d.seq <= n + 1 /\ d.seq \in Nat
      BY <1>3, <1>4, <2>2 DEF Follows
    <3>2. d.seq <= m + 1 /\ d.seq # m + 1
      BY <1>1, <3>1
    <3> QED BY <3>2 DEF Follows
  <2> QED BY <2>1, <2>2
<1>6. ASSUME Alive(h)'
      PROVE  Stored(v, m, u)
  <2>0. v.pc # "done"
    BY <1>6 DEF Alive
  <2>1. \/ v = w
        \/ /\ w.cursor + 1 = c.seq /\ w.out = c.kind
           /\ v.cursor = w.cursor + 1 /\ v.made = w.made /\ v.pc = w.pc
           /\ v.pending = IF c.kind = "content" THEN <<>> ELSE w.pending
    BY <1>0, <2>0, AcceptedWork DEF Ended, NoWorker
  <2>2. Alive(h)
    BY <1>6, <2>1 DEF Alive
  <2>3. Stored(w, n, t) /\ DeliveryOf(w, c.seq, c.kind, c.content)
    BY <1>3, <2>2, DeliveryAt
  <2>4. n = w.cursor /\ c.seq = w.cursor + 1
    BY <1>0, <1>1, <1>2, <2>3 DEF Stored, DeliveryOf
  <2>5. /\ w.made = t + Len(w.pending)
        /\ w.out = None => w.pc = "failing"
        /\ c.kind = "content" => c.content = w.pending
        /\ c.kind = "tool" => w.pending = <<>> /\ c.content = <<>>
    BY <2>3, <2>4 DEF Stored, DeliveryOf, EmptyEnds
  <2>6. w.made = u /\ m = w.cursor + 1
    BY <1>0, <1>1, <2>4, <2>5
  <2>7. CASE v = w
    BY <1>0, <2>5, <2>6, <2>7 DEF Stored
  <2>8. CASE /\ v.cursor = w.cursor + 1 /\ v.made = w.made /\ v.pc = w.pc
             /\ v.pending = IF c.kind = "content" THEN <<>> ELSE w.pending
    <3>1. v.pending = <<>>
      BY <2>5, <2>8
    <3>2. Len(v.pending) = 0 /\ Continues(v.pending, u)
      BY <3>1, ContinuesNothing
    <3>3. u \in Nat /\ v.made = u + 0 /\ m = v.cursor /\ m # v.cursor + 1
      BY <1>0, <1>1, <2>6, <2>8
    <3> QED BY <3>2, <3>3 DEF Stored
  <2> QED BY <2>1, <2>7, <2>8
<1> QED BY <1>5, <1>6

LEMMA InOrderStep ==
    ASSUME Shapes, Lifecycle, Revisions, Delivery, InOrder, EmptyEnds, [Next]_vars
    PROVE  InOrder'
<1> DEFINE n(k) == Len(output'[k])
           t(k) == Len(Text(output'[k]))
           Good(k) == /\ Alive(k)' => Stored(worker'[k], n(k), t(k))
                      /\ \A c \in calls' : c.gen = k => Follows(c.seq, c.content, n(k), t(k))
<1> SUFFICES ASSUME NEW h \in Generations, Opened(h)' PROVE Good(h)
  BY Zenon DEF InOrder, Stored, Follows, Continues, Text
<1>0. TypeOK /\ GenMoves(h)
  BY GenStep DEF Shapes
<1>1. CASE output'[h] = output[h] /\ Opened(h)
  BY <1>1, OrderKept
<1>2. CASE Gone(h)
  BY <1>2 DEF Gone, Opened
<1>3. CASE Fresh(h)
  <2>1. /\ sender[h].pc = "prepared" /\ worker[h] = NoWorker /\ ~Alive(h)
        /\ \A c \in calls : c.gen # h
    BY <1>3, LifecycleOf DEF Fresh, Reserve, Early, Alive
  <2>2. Rests(h)
    BY <2>1, WorkStep, Living, BeginsOnce DEF Early
  <2>3. ~Alive(h)' /\ \A c \in calls' : c.gen # h
    BY <2>1, <2>2 DEF Rests, OldCalls, Alike, Alive, NoWorker
  <2> QED BY <2>3
<1>4. ASSUME NEW kind \in Appendable, NEW content \in Seq(Piece), Appends(h, kind, content)
      PROVE  Good(h)
  <2>1. Wrote(h, kind, content) /\ Opened(h)
    BY <1>4 DEF Appends, Wrote, Opened
  <2>2. CASE kind = "heartbeat"
    BY <1>1, <2>1, <2>2 DEF Wrote
  <2>3. ~Stops(kind)
    BY <2>1 DEF Wrote, Opened, Stops, Active, Terminal
  <2>4. CASE kind # "heartbeat"
    <3>1. kind \in {"content", "tool"}
      BY <2>3, <2>4 DEF Appendable, Stops
    <3>2. PICK c \in calls : /\ Accept(c) /\ Reply(c, TRUE) /\ c.gen = h /\ kind = c.kind
                             /\ content = c.content /\ Extends(h, c.seq)
      BY <1>4, <3>1 DEF Appends
    <3> QED BY <2>1, <3>1, <3>2, OrderAppended
  <2> QED BY <2>2, <2>4
<1>5. CASE Saved(h) \/ Kept(h) \/ \E s : Grown(h, s)
  <2>1. Opened(h) /\ output'[h] = output[h]
    BY <1>5, OpenedKept DEF Saved, Kept, Grown
  <2> QED BY <1>1, <2>1
<1> HIDE DEF Good
<1> QED BY <1>0, <1>2, <1>3, <1>4, <1>5 DEF GenMoves

\* What is delivered.
Delivered == Delivery /\ InOrder /\ Numbered

LEMMA DeliveredInit == Init => Delivered
<1> SUFFICES ASSUME Init PROVE Delivered
  OBVIOUS
<1>1. \A g \in Generations : gen[g] = None /\ output[g] = <<>> /\ worker[g].pc = "none"
  BY DEF Init, NoWorker
<1> QED BY <1>1, TextOfNothing, ContinuesNothing
        DEF Delivered, Delivery, InOrder, Numbered, Opened, Alive

LEMMA DeliveredStep == Core /\ Said /\ Delivered /\ [Next]_vars => Delivered'
BY DeliveryStep, InOrderStep, NumberedStep DEF Core, Said, Delivered

LEMMA DeliveredHolds == Spec => []Delivered
BY CoreHolds, SaidHolds, DeliveredInit, DeliveredStep, PTL DEF Spec

\* Scribe repeats an event until it is acknowledged and numbers it by its
\* cursor, and append takes only the next position: whatever is retried,
\* duplicated, reordered or lost, the stored text has no gap, no repetition
\* and no piece out of order.
THEOREM TextIsInOrder == Spec => []TextIsPrefix
<1>1. Core /\ Delivered => TextIsPrefix
  BY NumberedIsPrefix DEF Core, Delivered
<1> QED BY <1>1, CoreHolds, DeliveredHolds, PTL

---------------------------------------------------------------------------
(* The replay: pages put together are the output they were cut from.       *)

LEMMA SubSeqGrows ==
    ASSUME NEW E, NEW s \in Seq(E), NEW a \in Nat, NEW n \in Nat, a < n, n <= Len(s)
    PROVE  /\ SubSeq(s, a + 1, n - 1) \in Seq(E) /\ s[n] \in E
           /\ SubSeq(s, a + 1, n) = Append(SubSeq(s, a + 1, n - 1), s[n])
<1> DEFINE p == SubSeq(s, a + 1, n - 1)
           q == SubSeq(s, a + 1, n)
<1>1. /\ p \in Seq(E) /\ q \in Seq(E) /\ s[n] \in E
      /\ Len(p) = n - 1 - a /\ Len(q) = n - a
  OBVIOUS
<1>2. /\ \A i \in 1..(n - 1 - a) : p[i] = s[a + i]
      /\ \A i \in 1..(n - a) : q[i] = s[a + i]
  OBVIOUS
<1> HIDE DEF p, q
<1>3. /\ Append(p, s[n]) \in Seq(E) /\ Len(Append(p, s[n])) = n - a
      /\ \A i \in 1..(n - a) : Append(p, s[n])[i] = s[a + i]
  BY <1>1, <1>2
<1>4. q = Append(p, s[n])
  BY <1>1, <1>2, <1>3, SeqEqual
<1> QED BY <1>1, <1>4 DEF p, q

LEMMA TextOfParts ==
    ASSUME NEW s \in Seq(Events), NEW a \in Nat, NEW b \in Nat, a <= b, b <= Len(s)
    PROVE  Text(SubSeq(s, 1, b)) = Text(SubSeq(s, 1, a)) \o Text(SubSeq(s, a + 1, b))
<1> DEFINE Good(n) == Text(SubSeq(s, 1, n)) = Text(SubSeq(s, 1, a)) \o Text(SubSeq(s, a + 1, n))
           T == {n \in a..b : ~Good(n)}
<1>0. Len(s) \in Nat
  OBVIOUS
<1>1. \A n \in a..b : n \in Nat /\ n <= Len(s) /\ a <= n
  BY <1>0
<1>2. Text(SubSeq(s, 1, a)) \in Seq(Piece)
  <2>1. SubSeq(s, 1, a) \in Seq(Events)
    BY <1>0
  <2> QED BY <2>1, TextType
<1>3. Good(a)
  <2>1. SubSeq(s, a + 1, a) = <<>>
    BY <1>0
  <2>2. Text(SubSeq(s, 1, a)) \o <<>> = Text(SubSeq(s, 1, a))
    BY Zenon, <1>2, ConcatEmptySeq
  <2> QED BY <2>1, <2>2, TextOfNothing
<1>4. ASSUME NEW n \in a..b, n # a, Good(n - 1)
      PROVE  Good(n)
  <2>0. n \in Nat /\ n <= Len(s) /\ a < n /\ 0 < n
    BY <1>1, <1>4
  <2> DEFINE u == SubSeq(s, 1, n - 1)
             v == SubSeq(s, a + 1, n - 1)
  <2>1. u \in Seq(Events) /\ s[n] \in Events /\ SubSeq(s, 1, n) = Append(u, s[n])
    <3>1. 0 \in Nat
      OBVIOUS
    <3>2. /\ SubSeq(s, 0 + 1, n - 1) \in Seq(Events) /\ s[n] \in Events
          /\ SubSeq(s, 0 + 1, n) = Append(SubSeq(s, 0 + 1, n - 1), s[n])
      BY <2>0, <3>1, SubSeqGrows
    <3>3. 0 + 1 = 1
      OBVIOUS
    <3> QED BY <3>2, <3>3
  <2>2. v \in Seq(Events) /\ SubSeq(s, a + 1, n) = Append(v, s[n])
    BY <2>0, SubSeqGrows
  <2>3. Text(u) = Text(SubSeq(s, 1, a)) \o Text(v)
    BY <1>4
  <2> DEFINE t == Text(SubSeq(s, 1, a))
  <2>4. /\ Text(SubSeq(s, 1, n)) = Text(u) \o s[n].content
        /\ Text(SubSeq(s, a + 1, n)) = Text(v) \o s[n].content
        /\ Text(v) \in Seq(Piece) /\ s[n].content \in Seq(Piece)
    BY <2>1, <2>2, TextGrows, TextType DEF Events
  <2> HIDE DEF t, u, v
  <2>5. (t \o Text(v)) \o s[n].content = t \o (Text(v) \o s[n].content)
    <3>1. t \in Seq(Piece)
      BY <1>2 DEF t
    <3> DEFINE x == Text(v)
               y == s[n].content
    <3>2. x \in Seq(Piece) /\ y \in Seq(Piece)
      BY <2>4
    <3> HIDE DEF x, y
    <3>3. (t \o x) \o y = t \o (x \o y)
      BY <3>1, <3>2, ConcatAssociative
    <3> QED BY <3>3 DEF x, y
  <2> QED BY <2>3, <2>4, <2>5 DEF t
<1>5. T = {}
  <2> HIDE DEF Good
  <2> SUFFICES ASSUME T # {} PROVE FALSE
    OBVIOUS
  <2>1. PICK n \in T : \A m \in T : n <= m
    <3>1. T \subseteq Nat
      BY <1>1
    <3> HIDE DEF T
    <3> QED BY <3>1, LeastNumber
  <2>2. n \in a..b /\ ~Good(n) /\ n # a
    BY <1>3
  <2>3. n - 1 \in a..b /\ ~(n <= n - 1)
    BY <2>2
  <2>4. Good(n - 1)
    BY <2>1, <2>3
  <2> QED BY <1>4, <2>2, <2>4
<1>6. Good(b)
  <2> HIDE DEF Good
  <2> QED BY <1>5
<1> QED BY <1>6

LEMMA PageOfNothing ==
    ASSUME NEW g, NEW after \in Nat, output[g] = <<>>
    PROVE  PageAfter(g, after) = <<>>
<1>1. after + Page \in Nat /\ Len(output[g]) = 0 /\ after + Page > 0
  BY PengoloAssumption
<1>2. Min({after + Page, 0}) = 0
  BY <1>1, MinOfTwo
<1>3. SubSeq(<<>>, after + 1, 0) = <<>>
  OBVIOUS
<1> QED BY <1>1, <1>2, <1>3 DEF PageAfter

\* A page continues what was sent before it.
LEMMA PageContinues ==
    ASSUME TypeOK, NEW g \in Generations, NEW after \in Nat, after <= Len(output[g])
    PROVE  LET sent == after + Len(PageAfter(g, after))
           IN /\ sent \in Nat /\ sent <= Len(output[g])
              /\ Text(SubSeq(output[g], 1, sent)) =
                    Text(SubSeq(output[g], 1, after)) \o Text(PageAfter(g, after))
<1> DEFINE s == output[g]
           sent == after + Len(PageAfter(g, after))
<1>1. s \in Seq(Events) /\ Len(s) \in Nat /\ Page \in Nat /\ Page > 0
  BY PengoloAssumption DEF TypeOK
<1>2. sent = IF after + Page <= Len(s) THEN after + Page ELSE Len(s)
  BY PageType
<1>3. PageAfter(g, after) = SubSeq(s, after + 1, sent)
  <2>1. Min({after + Page, Len(s)}) = sent
    BY <1>1, <1>2, MinOfTwo
  <2> QED BY <2>1 DEF PageAfter
<1>4. sent \in Nat /\ after <= sent /\ sent <= Len(s)
  BY <1>1, <1>2
<1>5. Text(SubSeq(s, 1, sent)) = Text(SubSeq(s, 1, after)) \o Text(SubSeq(s, after + 1, sent))
  <2> HIDE DEF sent
  <2> QED BY <1>1, <1>4, TextOfParts
<1> QED BY <1>3, <1>4, <1>5

\* The output of a generation that was reserved is only added to.
LEMMA OutputStep ==
    ASSUME Shapes, [Next]_vars, NEW h \in Generations, gen'[h] # None,
           sender[h].pc \notin {"idle", "prepared"}
    PROVE  /\ gen[h] # None
           /\ \/ output'[h] = output[h]
              \/ \E e \in Events : output'[h] = Append(output[h], e)
<1>1. GenMoves(h)
  BY GenStep
<1>2. CASE Kept(h) \/ Saved(h) \/ \E s : Grown(h, s)
  BY <1>2 DEF Kept, Saved, Grown
<1>3. CASE Fresh(h)
  BY <1>3 DEF Fresh, Reserve
<1>4. ASSUME NEW kind \in Appendable, NEW content \in Seq(Piece), Appends(h, kind, content)
      PROVE  /\ gen[h] # None
             /\ \/ output'[h] = output[h]
                \/ \E e \in Events : output'[h] = Append(output[h], e)
  <2>1. /\ gen[h] # None
        /\ output'[h] = IF kind = "heartbeat" THEN output[h]
                        ELSE Append(output[h], [kind |-> kind, content |-> content])
    BY <1>4 DEF Appends, Wrote
  <2>2. kind # "heartbeat" => [kind |-> kind, content |-> content] \in Events
    BY EventType
  <2> QED BY <2>1, <2>2
<1> QED BY <1>1, <1>2, <1>3, <1>4 DEF GenMoves, Gone

LEMMA PrefixKept ==
    ASSUME NEW E, NEW s \in Seq(E), NEW e \in E, NEW n \in Nat, n <= Len(s)
    PROVE  SubSeq(Append(s, e), 1, n) = SubSeq(s, 1, n)
<1> DEFINE t == Append(s, e)
<1>1. t \in Seq(E) /\ Len(t) = Len(s) + 1 /\ \A i \in 1..Len(s) : t[i] = s[i]
  BY AppendedParts
<1> HIDE DEF t
<1>2. /\ SubSeq(t, 1, n) \in Seq(E) /\ SubSeq(s, 1, n) \in Seq(E)
      /\ Len(SubSeq(t, 1, n)) = n /\ Len(SubSeq(s, 1, n)) = n
  BY <1>1
<1>3. \A i \in 1..n : SubSeq(t, 1, n)[i] = SubSeq(s, 1, n)[i]
  BY <1>1
<1>4. SubSeq(t, 1, n) = SubSeq(s, 1, n)
  BY <1>2, <1>3, SeqEqual
<1> QED BY <1>4 DEF t

LEMMA ReplayedStep ==
    ASSUME Shapes, Lifecycle, Replayed, [Next]_vars
    PROVE  Replayed'
<1> DEFINE Good(h) ==
              /\ view'.after <= Len(output'[h])
              /\ view'.text = Text(SubSeq(output'[h], 1, view'.after))
<1> SUFFICES /\ view'.gen = None => view'.after = 0 /\ view'.text = <<>>
             /\ view'.gen # None =>
                   /\ sender'[view'.gen].pc \notin {"idle", "prepared"}
                   /\ gen'[view'.gen] # None => Good(view'.gen)
  BY Zenon DEF Replayed, Text
<1>0. /\ TypeOK /\ view.gen \in Generations \cup {None} /\ view.after \in Nat
      /\ None \notin Generations /\ \A g \in Generations : output[g] \in Seq(Events)
  BY ViewFields, PengoloAssumption DEF Shapes, TypeOK
<1>1. CASE UNCHANGED view
  <2>1. CASE view.gen = None
    BY <1>1, <2>1 DEF Replayed
  <2>2. CASE view.gen # None
    <3> DEFINE h == view.gen
    <3>1. h \in Generations /\ sender[h].pc \notin {"idle", "prepared"}
      BY <1>0, <2>2 DEF Replayed
    <3>2. sender'[h].pc \notin {"idle", "prepared"}
      BY <3>1, SpokenStays
    <3>3. ASSUME gen'[h] # None PROVE Good(h)
      <4>1. /\ gen[h] # None
            /\ \/ output'[h] = output[h]
               \/ \E e \in Events : output'[h] = Append(output[h], e)
        BY <3>1, <3>3, OutputStep
      <4>2. /\ view.after <= Len(output[h])
            /\ view.text = Text(SubSeq(output[h], 1, view.after))
        BY <2>2, <4>1 DEF Replayed
      <4>3. CASE output'[h] = output[h]
        BY <1>1, <4>2, <4>3
      <4>4. ASSUME NEW e \in Events, output'[h] = Append(output[h], e) PROVE Good(h)
        <5>1. output[h] \in Seq(Events)
          BY <1>0, <3>1
        <5>2. Len(output'[h]) = Len(output[h]) + 1 /\ Len(output[h]) \in Nat
          BY <4>4, <5>1, AppendedParts
        <5>3. SubSeq(output'[h], 1, view.after) = SubSeq(output[h], 1, view.after)
          BY <1>0, <4>2, <4>4, <5>1, PrefixKept
        <5>4. Text(SubSeq(output'[h], 1, view.after)) = Text(SubSeq(output[h], 1, view.after))
          BY <5>3
        <5>5. view.after <= Len(output'[h])
          BY <1>0, <4>2, <5>2
        <5>6. view'.after = view.after /\ view'.text = view.text
          BY <1>1
        <5> QED BY <4>2, <5>4, <5>5, <5>6
      <4> QED BY <4>1, <4>3, <4>4
    <3> QED BY <1>1, <2>2, <3>2, <3>3
  <2> QED BY <2>1, <2>2
<1>2. CASE ViewPage
  <2> DEFINE h == view.gen
             events == PageAfter(h, view.after)
             sent == view.after + Len(events)
  <2>1. h \in Generations /\ view'.gen = h /\ h # None
    BY <1>0, <1>2, PageEffect
  <2>2. \/ view'.after = view.after /\ view'.text = view.text
        \/ view'.after = sent /\ view'.text = view.text \o Text(events)
    BY <1>2, PageEffect
  <2>3. UNCHANGED <<gen, output, sender>>
    BY <1>2 DEF ViewPage, store
  <2>4. sender'[h].pc \notin {"idle", "prepared"}
    BY <2>1, <2>3 DEF Replayed
  <2>5. ASSUME gen[h] # None PROVE Good(h)
    <3>1. /\ view.after <= Len(output[h])
          /\ view.text = Text(SubSeq(output[h], 1, view.after))
      BY <2>1, <2>5 DEF Replayed
    <3>2. /\ sent \in Nat /\ sent <= Len(output[h])
          /\ Text(SubSeq(output[h], 1, sent)) =
                Text(SubSeq(output[h], 1, view.after)) \o Text(events)
      BY <1>0, <2>1, <3>1, PageContinues
    <3> HIDE DEF sent, events
    <3> QED BY <2>2, <2>3, <3>1, <3>2
  <2> HIDE DEF Good
  <2> QED BY <2>1, <2>3, <2>4, <2>5
<1>3. ASSUME NEW g \in Generations, ViewRead(g)
      PROVE  /\ view'.gen = g /\ g # None
             /\ sender'[g].pc \notin {"idle", "prepared"}
             /\ gen'[g] # None => Good(g)
  <2>1. /\ view'.gen = g /\ g # None
        /\ view'.after = view.after /\ view'.text = view.text
    BY <1>0, <1>3, ReadEffect
  <2>2. UNCHANGED <<gen, output, sender>> /\ gen[g] # None /\ view.gen \in {None, g}
    BY <1>3 DEF ViewRead, store, Authorized, Visible
  <2>3. sender'[g].pc \notin {"idle", "prepared"}
    BY <2>2, LifecycleOf
  <2>4. CASE view.gen = g
    BY <2>1, <2>2, <2>3, <2>4 DEF Replayed
  <2>5. CASE view.gen = None
    <3>1. view.after = 0 /\ view.text = <<>>
      BY <2>5 DEF Replayed
    <3>2. Len(output[g]) \in Nat /\ SubSeq(output[g], 1, 0) = <<>>
      BY <1>0
    <3>3. Text(SubSeq(output[g], 1, 0)) = <<>>
      BY <3>2, TextOfNothing
    <3> QED BY <2>1, <2>2, <2>3, <3>1, <3>2, <3>3
  <2> QED BY <2>2, <2>4, <2>5
<1> HIDE DEF Good
<1> QED BY <1>1, <1>2, <1>3, ViewFrame

\* The chat is searched for the answer, and there is one.
LEMMA AnswerFound ==
    ASSUME TypeOK, chat # None, NEW g \in Generations, NEW text, NEW status,
           SaysOnce(chat.messages, "assistant", g, text, status)
    PROVE  AnswerOf(g) # None /\ AnswerOf(g).status = status /\ AnswerOf(g).text = text
<1> DEFINE m == chat.messages
           found == {x \in Range(m) : x.role = "assistant" /\ x.gen = g}
<1>1. PICK q \in DOMAIN m :
         /\ m[q].status = status /\ m[q].text = text
         /\ \A i \in DOMAIN m : m[i].role = "assistant" /\ m[i].gen = g <=> i = q
  BY DEF SaysOnce
<1>2. m[q] \in found /\ \A x \in found : x = m[q]
  BY <1>1 DEF Range
<1>3. m[q] # None
  BY <1>1, MessagesOf, NoneAssumption
<1>4. AnswerOf(g) = IF found = {} THEN None ELSE CHOOSE x \in found : TRUE
  BY DEF AnswerOf
<1> HIDE DEF found
<1>5. AnswerOf(g) = m[q]
  BY <1>2, <1>4
<1> QED BY <1>1, <1>3, <1>5

\* What the messages of the chat say of a settled generation.
LEMMA SettledAnswer ==
    ASSUME Shapes, Answered, Undisturbed, ChatVisible, NEW g \in Generations,
           gen[g] # None, gen[g].status \in Terminal
    PROVE  /\ AnswerOf(g) # None /\ AnswerOf(g).status = gen[g].status
           /\ AnswerOf(g).text = Text(output[g])
<1>1. Told(chat.messages, g, gen[g].status, Text(output[g]))
  BY DEF Answered
<1>2. gen[g].status \notin Active
  BY DEF Active, Terminal
<1>3. SaysOnce(chat.messages, "assistant", g, Text(output[g]), gen[g].status)
  BY <1>1, <1>2, ToldIs
<1> HIDE DEF Shapes
<1>4. TypeOK /\ chat # None
  BY DEF Shapes, ChatVisible
<1> QED BY <1>3, <1>4, AnswerFound

\* Whoever has been sent every event has been sent the whole text.
LEMMA WholeText ==
    ASSUME TypeOK, NEW g \in Generations, NEW n \in Nat,
           n <= Len(output[g]), n >= Len(output[g])
    PROVE  n = Len(output[g]) /\ Text(SubSeq(output[g], 1, n)) = Text(output[g])
<1>1. output[g] \in Seq(Events) /\ Len(output[g]) \in Nat
  BY DEF TypeOK
<1>2. n = Len(output[g])
  BY <1>1
<1>3. SubSeq(output[g], 1, Len(output[g])) = output[g]
  BY <1>1, SubSeqFull
<1> QED BY <1>2, <1>3

LEMMA SnapshotStep ==
    ASSUME Core, Said, Replayed, Undisturbed, Snapshot, [Next]_vars
    PROVE  Snapshot'
<1> DEFINE Good(h) ==
              /\ view'.message # None
              /\ view'.message.status = view'.status
              /\ view'.after >= view'.sequence => view'.text = view'.message.text
              /\ gen'[h] # None =>
                    /\ gen'[h].status = view'.status
                    /\ Len(output'[h]) = view'.sequence
                    /\ view'.message.text = Text(output'[h])
<1> SUFFICES ASSUME view'.pc = "read", view'.status \in Terminal PROVE Good(view'.gen)
  BY Zenon DEF Snapshot, Text, Terminal
<1>0. /\ Shapes /\ Lifecycle /\ Revisions /\ Answered /\ TypeOK
      /\ view.gen \in Generations \cup {None}
      /\ view.pc = "read" => view.gen # None
  BY ViewFields DEF Core, Said, Shapes, TypeOK
<1>1. CASE UNCHANGED view
  <2> DEFINE h == view.gen
  <2>1. view.pc = "read" /\ view.status \in Terminal /\ h \in Generations
    BY <1>0, <1>1
  <2>2. sender[h].pc \notin {"idle", "prepared"}
    BY <1>0, <2>1 DEF Replayed
  <2>3. /\ view.message # None /\ view.message.status = view.status
        /\ view.after >= view.sequence => view.text = view.message.text
    BY <2>1 DEF Snapshot
  <2>4. ASSUME gen'[h] # None
        PROVE  /\ gen'[h].status = view.status /\ Len(output'[h]) = view.sequence
               /\ view.message.text = Text(output'[h])
    <3>1. gen[h] # None
      BY <1>0, <2>1, <2>2, <2>4, OutputStep
    <3>2. /\ gen[h].status = view.status /\ Len(output[h]) = view.sequence
          /\ view.message.text = Text(output[h])
      BY <2>1, <3>1 DEF Snapshot
    <3>3. gen'[h].status = gen[h].status /\ output'[h] = output[h]
      BY <1>0, <2>1, <2>4, <3>1, <3>2, SettledStep
    <3> QED BY <3>2, <3>3
  <2> QED BY <1>1, <2>3, <2>4
<1>2. CASE ViewPage
  BY <1>0, <1>2, PageEffect
<1>3. ASSUME NEW g \in Generations, ViewRead(g) PROVE Good(view'.gen)
  <2>1. /\ view'.gen = g /\ view'.status = gen[g].status
        /\ view'.sequence = Len(output[g]) /\ view'.message = AnswerOf(g)
        /\ view'.after \in Nat
    BY <1>0, <1>3, ReadEffect, ViewFields
  <2>2. UNCHANGED <<gen, output>> /\ gen[g] # None /\ ChatVisible
    BY <1>3 DEF ViewRead, store, Authorized, Visible
  <2>3. /\ AnswerOf(g) # None /\ AnswerOf(g).status = gen[g].status
        /\ AnswerOf(g).text = Text(output[g])
    BY <1>0, <2>1, <2>2, SettledAnswer
  <2>4. /\ view'.after <= Len(output[g])
        /\ view'.text = Text(SubSeq(output[g], 1, view'.after))
    <3>1. Replayed'
      BY <1>0, ReplayedStep
    <3>2. view'.gen # None /\ gen'[view'.gen] # None
      BY <2>1, <2>2, PengoloAssumption
    <3>3. /\ view'.after <= Len(output'[view'.gen])
          /\ view'.text = Text(SubSeq(output'[view'.gen], 1, view'.after))
      BY Zenon, <3>1, <3>2 DEF Replayed, Text
    <3> QED BY <2>1, <2>2, <3>3
  <2>5. view'.after >= Len(output[g]) => view'.text = Text(output[g])
    BY <1>0, <2>1, <2>4, WholeText
  <2> QED BY <2>1, <2>2, <2>3, <2>5
<1> HIDE DEF Good
<1> QED BY <1>1, <1>2, <1>3, ViewFrame

LEMMA CompleteStep ==
    ASSUME Core, Said, Replayed, Undisturbed, Snapshot, ReplayIsComplete, [Next]_vars
    PROVE  ReplayIsComplete'
<1> SUFFICES ASSUME view'.pc = "told", view'.status \in Terminal
             PROVE  /\ view'.message # None /\ view'.message.status = view'.status
                    /\ view'.message.text = view'.text
  BY Zenon DEF ReplayIsComplete, Terminal
<1>0. /\ Shapes /\ Lifecycle /\ EndsLast /\ Answered /\ TypeOK
      /\ view.after \in Nat /\ view.text \in Seq(Piece) /\ view.sequence \in Nat
      /\ \A g \in Generations : output[g] \in Seq(Events)
  BY ViewFields DEF Core, Said, Shapes, TypeOK
<1>1. CASE UNCHANGED view
  BY <1>1 DEF ReplayIsComplete
<1>2. CASE \E g \in Generations : ViewRead(g)
  BY <1>0, <1>2, ReadEffect
<1>3. CASE ViewPage
  <2> DEFINE h == view.gen
             events == PageAfter(h, view.after)
             sent == view.after + Len(events)
             ends == events # <<>> /\ Stops(events[Len(events)].kind)
  <2>1. h \in Generations /\ h # None /\ view.pc = "read"
    BY <1>0, <1>3, PageEffect, PengoloAssumption DEF ViewPage
  <2>2. /\ ends => ChatVisible
        /\ view'.status = (IF ends THEN events[Len(events)].kind
                           ELSE IF sent >= view.sequence THEN view.status ELSE "running")
        /\ view'.text = view.text \o Text(events)
        /\ view'.message = IF ends THEN AnswerOf(h) ELSE view.message
    <3>1. view'.status # None
      BY NoneAssumption DEF Terminal
    <3> QED BY <1>0, <1>3, <3>1, PageEffect
  <2>3. events \in Seq(Events) /\ Len(events) \in Nat
    BY <1>0, <2>1, PageType
  <2>4. ASSUME gen[h] # None
        PROVE  /\ sent \in Nat /\ sent <= Len(output[h])
               /\ sent >= Len(output[h]) => view'.text = Text(output[h])
               /\ \A i \in 1..Len(events) : events[i] = output[h][view.after + i]
    <3>1. /\ view.after <= Len(output[h])
          /\ view.text = Text(SubSeq(output[h], 1, view.after))
      BY <2>1, <2>4 DEF Replayed
    <3>2. /\ sent \in Nat /\ sent <= Len(output[h])
          /\ Text(SubSeq(output[h], 1, sent)) =
                Text(SubSeq(output[h], 1, view.after)) \o Text(events)
      BY <1>0, <2>1, <3>1, PageContinues
    <3>3. \A i \in 1..Len(events) : events[i] = output[h][view.after + i]
      BY <1>0, <2>1, <3>1, PageType
    <3>4. sent >= Len(output[h]) => Text(SubSeq(output[h], 1, sent)) = Text(output[h])
      <4> HIDE DEF sent
      <4> QED BY <1>0, <2>1, <3>2, WholeText
    <3>5. view'.text = Text(SubSeq(output[h], 1, sent))
      BY <2>2, <3>1, <3>2
    <3> QED BY <3>2, <3>3, <3>4, <3>5
  <2>5. gen[h] = None => events = <<>>
    BY <1>0, <2>1, LifecycleOf, PageOfNothing
  <2>6. CASE ends
    <3>1. gen[h] # None /\ Len(events) \in 1..Len(events) /\ ChatVisible
      <4>1. events # <<>>
        BY <2>6
      <4> HIDE DEF events
      <4>2. Len(events) # 0
        BY <2>3, <4>1
      <4> QED BY <2>2, <2>3, <2>5, <2>6, <4>1, <4>2
    <3>2. events[Len(events)] = output[h][sent]
      BY <2>4, <3>1
    <3>3. sent \in DOMAIN output[h]
      <4>1. DOMAIN output[h] = 1..Len(output[h]) /\ Len(output[h]) \in Nat
        BY <1>0, <2>1
      <4>2. sent >= 1 /\ sent <= Len(output[h]) /\ sent \in Nat
        <5> HIDE DEF events
        <5> QED BY <1>0, <2>3, <2>4, <3>1
      <4> QED BY <4>1, <4>2
    <3>4. sent = Len(output[h]) /\ gen[h].status = output[h][sent].kind
      BY <1>0, <2>1, <2>6, <3>1, <3>2, <3>3 DEF EndsLast
    <3>5. view'.status = gen[h].status
      BY <2>2, <2>6, <3>2, <3>4
    <3>6. /\ AnswerOf(h) # None /\ AnswerOf(h).status = gen[h].status
          /\ AnswerOf(h).text = Text(output[h])
      BY <1>0, <2>1, <3>1, <3>5, SettledAnswer
    <3>7. view'.text = Text(output[h])
      BY <2>4, <3>1, <3>4
    <3> QED BY <2>2, <2>6, <3>5, <3>6, <3>7
  <2>7. CASE ~ends
    <3>1. sent >= view.sequence /\ view'.status = view.status
      BY <2>2, <2>7 DEF Terminal
    <3>2. /\ view.message # None /\ view.message.status = view.status
          /\ view.after >= view.sequence => view.text = view.message.text
          /\ gen[h] # None => /\ Len(output[h]) = view.sequence
                              /\ view.message.text = Text(output[h])
      BY <2>1, <3>1 DEF Snapshot
    <3>3. view'.message = view.message
      BY <2>2, <2>7
    <3>4. CASE gen[h] # None
      BY <2>4, <3>1, <3>2, <3>3, <3>4
    <3>5. CASE gen[h] = None
      <4>1. events = <<>>
        BY <2>5, <3>5
      <4> HIDE DEF events
      <4>2. view.after >= view.sequence
        BY <1>0, <3>1, <4>1
      <4>3. view.text \o <<>> = view.text
        BY <1>0, ConcatEmptySeq
      <4>4. view'.text = view.text
        BY <2>2, <4>1, <4>3, TextOfNothing
      <4> QED BY <3>1, <3>2, <3>3, <4>2, <4>4
    <3> QED BY <3>4, <3>5
  <2> QED BY <2>6, <2>7
<1> QED BY <1>1, <1>2, <1>3, ViewFrame

LEMMA WatchingInit == Init => Watching
BY DEF Init, Watching, Replayed, Snapshot, ReplayIsComplete

LEMMA WatchingStep == Core /\ Said /\ Watching /\ [Next]_vars => Watching'
<1> SUFFICES ASSUME Core, Said, Watching, [Next]_vars PROVE Watching'
  OBVIOUS
<1>1. Shapes /\ Lifecycle /\ Replayed
  BY DEF Core, Watching
<1>2. Replayed'
  BY <1>1, ReplayedStep
<1>3. ASSUME Undisturbed' PROVE Snapshot' /\ ReplayIsComplete'
  <2>1. Undisturbed
    BY <1>1, <1>3, UndisturbedBack
  <2>2. Snapshot /\ ReplayIsComplete
    BY <2>1 DEF Watching
  <2> QED BY <1>1, <2>1, <2>2, SnapshotStep, CompleteStep
<1> QED BY <1>2, <1>3 DEF Watching

\* events reports the end of a generation only when every event its snapshot
\* covers has been sent, and reads the answer again when the page itself ends
\* the generation: a subscriber told that a generation ended has received its
\* whole text and the message that carries it, even if the chat was removed
\* between the two reads.
THEOREM ReplaysAreComplete == Spec => [](Undisturbed => ReplayIsComplete)
<1>1. Watching => (Undisturbed => ReplayIsComplete)
  BY DEF Watching
<1> QED BY <1>1, CoreHolds, SaidHolds, WatchingInit, WatchingStep, PTL DEF Spec

===========================================================================
