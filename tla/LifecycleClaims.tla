-------------------------- MODULE LifecycleClaims --------------------------
(***************************************************************************)
(* What cmd_stop's own guard says of a finished task and the code does not *)
(* keep: a run of its own expects TLC to refute it.                        *)
(***************************************************************************)
EXTENDS RunLifecycle

\* A task that is not RUNNING is left alone by `stop`: a run that finished and
\* saved its verdict does not end up STOPPED.
FinishedRunStaysFinished ==
    \A r \in Runs :
        code[r] \in {"0", "2"} => file # Saved("STOPPED", pid[r])
=============================================================================
