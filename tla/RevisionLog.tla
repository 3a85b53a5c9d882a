---------------------------- MODULE RevisionLog ----------------------------
(***************************************************************************)
(* What a tenant's revision store promises to the commands above it: a     *)
(* linear history.  A revision is a whole state, made from the revision    *)
(* before it; the history is created once, grows one revision at a time,   *)
(* and is given up as a whole.                                             *)
(***************************************************************************)
EXTENDS Naturals, Sequences

CONSTANT Ids            \* names of revisions
CONSTANT States         \* whole states: pipelines, bindings and ontologies
CONSTANT Initial        \* the state of a new tenant
CONSTANT MadeFrom(_)    \* the revision a state was computed from

VARIABLE history        \* the tenant's revisions, << >> when it has none

Latest == history[Len(history)]

Init == history = << >>

Create == history = << >> /\ \E id \in Ids : history' = << [id |-> id, state |-> Initial] >>

Append1 ==
    /\ history # << >>
    /\ \E id \in Ids, s \in States :
          /\ MadeFrom(s) = Latest.id
          /\ history' = Append(history, [id |-> id, state |-> s])

Purge == history' = << >>

Spec == Init /\ [][Create \/ Append1 \/ Purge]_history
=============================================================================
