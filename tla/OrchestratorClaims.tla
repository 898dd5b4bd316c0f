------------------------- MODULE OrchestratorClaims -------------------------
(***************************************************************************)
(* What the repository's documents and comments say of a run and the code  *)
(* does not keep.  Each property is checked alone, by a run that expects   *)
(* TLC to refute it; PROJECT.json quotes the sentence each one states.     *)
(***************************************************************************)
EXTENDS Orchestrator

\* The recorded failures that asked for a change of strategy.
RepeatedFailures ==
    {k \in DOMAIN history : ForceNow(SubSeq(history, 1, k))}

\* The early BLOCKED comes after max_strategy_changes changes of strategy that
\* still failed identically, so after at least as many repeated failures.
\* (The code counts a change after every step while the latest failure is a
\* repeated one.)
BlockedOnlyAfterTheChanges ==
    blockReason = "repeated_failures" =>
        Cardinality(RepeatedFailures) >= MaxStrategyChanges
=============================================================================
