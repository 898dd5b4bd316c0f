---------------------------- MODULE ManagerClaims ----------------------------
(***************************************************************************)
(* What stop_all's own comment says of the processes a run starts and the  *)
(* code does not keep: a run of its own expects TLC to refute it.          *)
(***************************************************************************)
EXTENDS ProcessManager

\* After the cleanup of an iteration no dev server of it is left: when the
\* manager tracks nothing any more, who answers at the URL, and so passes for the
\* next iteration's server, is none that it started.
NoServerSurvivesCleanup ==
    at = "idle" /\ (\A n \in Names : processes[n] = NoProc) /\ AnswersReady
        => port = "foreign"
=============================================================================
