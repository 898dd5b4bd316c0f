---------------------------- MODULE StateMachine ----------------------------
(***************************************************************************)
(* The states of one task and the transition tables of                     *)
(* agent/state_machine.py.  The tables are functions; next_state raises    *)
(* where CanMove is false, so a caller models a call only under CanMove.   *)
(***************************************************************************)

TERMINAL_STATES == {"PASS", "BLOCKED"}

\* The stages that check the Coder's work; only these have a failure edge.
VerifyingStates ==
    {"STATIC_TEST", "BUILD", "START_APP", "BROWSER_TEST", "VISUAL_REVIEW", "REVIEW"}

CoderStates == {"IMPLEMENT", "IMPLEMENT_FIX"}

State == TERMINAL_STATES \cup VerifyingStates \cup CoderStates \cup
         {"INIT", "INSPECT", "PLAN", "ANALYZE_FAILURE", "CREATE_FIX_PLAN"}

SuccessTransitions ==
    [s \in State \ TERMINAL_STATES |->
        CASE s = "INIT"            -> "INSPECT"
          [] s = "INSPECT"         -> "PLAN"
          [] s = "PLAN"            -> "IMPLEMENT"
          [] s = "IMPLEMENT"       -> "STATIC_TEST"
          [] s = "STATIC_TEST"     -> "BUILD"
          [] s = "BUILD"           -> "START_APP"
          [] s = "START_APP"       -> "BROWSER_TEST"
          [] s = "BROWSER_TEST"    -> "VISUAL_REVIEW"
          [] s = "VISUAL_REVIEW"   -> "REVIEW"
          [] s = "REVIEW"          -> "PASS"
          [] s = "ANALYZE_FAILURE" -> "CREATE_FIX_PLAN"
          [] s = "CREATE_FIX_PLAN" -> "IMPLEMENT_FIX"
          [] s = "IMPLEMENT_FIX"   -> "STATIC_TEST"]

FailureTransitions == [s \in VerifyingStates |-> "ANALYZE_FAILURE"]

CanMove(current, success) ==
    IF success THEN current \in DOMAIN SuccessTransitions
               ELSE current \in DOMAIN FailureTransitions

\* Mutant of NextState: the visual review is left out of the pipeline.
NextStateUnseen(current, success) ==
    IF success /\ current = "BROWSER_TEST" THEN "REVIEW"
    ELSE IF success THEN SuccessTransitions[current] ELSE FailureTransitions[current]

NextState(current, success) ==
    IF success THEN SuccessTransitions[current] ELSE FailureTransitions[current]
=============================================================================
