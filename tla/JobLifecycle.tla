--------------------------- MODULE JobLifecycle ---------------------------
(***************************************************************************)
(* What the compilation queue promises about one submission, without       *)
(* leases, clocks, workers or cleaners: a job is admitted at most once,    *)
(* executed at most MaxAttempts times, ends at most once, and never comes  *)
(* back once it is gone.                                                   *)
(***************************************************************************)
EXTENDS Naturals

CONSTANTS Jobs, MaxAttempts

VARIABLES stage, tries

lifecycle == <<stage, tries>>

Ended == {"completed", "failed", "cancelled"}

Init == /\ stage = [j \in Jobs |-> "new"]
        /\ tries = [j \in Jobs |-> 0]

Move(j, s) == stage' = [stage EXCEPT ![j] = s]

Admit(j) == stage[j] = "new" /\ Move(j, "queued") /\ UNCHANGED tries

Start(j) == /\ stage[j] \in {"queued", "running"}
            /\ tries[j] < MaxAttempts
            /\ Move(j, "running")
            /\ tries' = [tries EXCEPT ![j] = @ + 1]

End(j) == /\ \/ stage[j] = "running" /\ \E s \in Ended : Move(j, s)
             \/ stage[j] = "queued" /\ Move(j, "cancelled")
          /\ UNCHANGED tries

\* The submission window of some jobs closes before they were submitted.
Close == /\ \E S \in SUBSET {j \in Jobs : stage[j] = "new"} :
                stage' = [j \in Jobs |-> IF j \in S THEN "gone" ELSE stage[j]]
         /\ UNCHANGED tries

Drop(j) == /\ stage[j] \in Ended
           /\ Move(j, "gone")
           /\ tries' = [tries EXCEPT ![j] = 0]

Next == \/ \E j \in Jobs : Admit(j) \/ Start(j) \/ End(j) \/ Drop(j)
        \/ Close

Spec == Init /\ [][Next]_lifecycle
=============================================================================
