----------------------------- MODULE RepairLoop -----------------------------
(***************************************************************************)
(* What a run promises the person who reads its report in the morning: a   *)
(* bounded number of attempts at the code, a verdict that is given once,   *)
(* and READY_FOR_HUMAN_REVIEW only over evidence earned by the last        *)
(* attempt.  Orchestrator implements it.                                   *)
(***************************************************************************)
EXTENDS Naturals

CONSTANT MaxAttempts    \* a natural number

VARIABLES attempts, earned, verdict

vars == <<attempts, earned, verdict>>

Init ==
    /\ attempts = 0
    /\ earned = FALSE
    /\ verdict = "none"

\* Editing the code throws away what was shown about it.
Attempt ==
    /\ verdict = "none"
    /\ attempts < MaxAttempts
    /\ attempts' = attempts + 1
    /\ earned' = FALSE
    /\ UNCHANGED verdict

Verify ==
    /\ verdict = "none"
    /\ attempts > 0
    /\ earned' = TRUE
    /\ UNCHANGED <<attempts, verdict>>

Accept ==
    /\ verdict = "none"
    /\ earned
    /\ verdict' = "READY_FOR_HUMAN_REVIEW"
    /\ UNCHANGED <<attempts, earned>>

GiveUp ==
    /\ verdict = "none"
    /\ verdict' = "BLOCKED"
    /\ UNCHANGED <<attempts, earned>>

\* The run is killed or crashes, in the middle of an attempt or a check.
Abandon ==
    /\ verdict = "none"
    /\ attempts' \in {attempts, attempts + 1} \cap 0..MaxAttempts
    /\ earned' \in BOOLEAN
    /\ verdict' = "lost"

Next == Attempt \/ Verify \/ Accept \/ GiveUp \/ Abandon

Spec == Init /\ [][Next]_vars
=============================================================================
