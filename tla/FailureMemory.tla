---------------------------- MODULE FailureMemory ----------------------------
(***************************************************************************)
(* agent/failure_memory.py as operators over its two fields, the history   *)
(* of recorded outcomes and the count of strategy changes, so that the     *)
(* orchestrator's model can read and update them within one step.          *)
(***************************************************************************)
EXTENDS Naturals, Sequences, FiniteSets

\* An outcome is [iteration |-> n, signature |-> s].  Two signatures are equal
\* when the failed names and the first 300 characters of their error texts are:
\* a signature is kept as that data, not as its hash.
Recorded(history, iteration, signature) ==
    Append(history, [iteration |-> iteration, signature |-> signature])

\* How often the latest signature occurs anywhere in the history: the
\* occurrences need not be consecutive.
RepeatCountForLatest(history) ==
    Cardinality({i \in DOMAIN history :
                    history[i].signature = history[Len(history)].signature})

ShouldForceStrategyChange(history, threshold) ==
    RepeatCountForLatest(history) >= threshold

ExceededMaxStrategyChanges(changes, maxChanges) == changes >= maxChanges

\* summary_for_prompt is empty before the first failure; afterwards it carries
\* the WARNING exactly when the latest signature has repeated.
SummaryWarns(history, threshold) ==
    /\ history # <<>>
    /\ ShouldForceStrategyChange(history, threshold)
=============================================================================
