----------------------------- MODULE RunReport -----------------------------
(***************************************************************************)
(* agent/report_generator.py: what the report of a run shows, read off     *)
(* result.iterations when run() has returned.  The orchestrator's          *)
(* iterations are numbers; kept holds, for each iteration before the       *)
(* current one, what the report reads of its record, which is the revision *)
(* of the code each piece of evidence was taken of (0 if it was not).      *)
(***************************************************************************)
EXTENDS Orchestrator

Sets == INSTANCE FiniteSetsExt

VARIABLE kept

reportVars == <<vars, kept>>

\* The part of an IterationRecord that the report reads.  An empty list of
\* browser results is none.
Shown(r) ==
    [tests  |-> r.tested,
     pages  |-> IF Viewports = {} THEN 0 ELSE r.browsed,
     review |-> r.reviewed]

ShownOf(n) == IF n = record.iteration THEN Shown(record) ELSE kept[n]

\* result.iterations, as a sequence of what is shown of each.
Listed == [i \in DOMAIN iterations |-> ShownOf(iterations[i])]

\* The places of the records that have a Tester report, and browser results.
WithTests == {i \in DOMAIN Listed : Listed[i].tests # 0}
WithPages == {i \in DOMAIN Listed : Listed[i].pages # 0}

\* Mutant of LastTesterReport: the first iteration that has a report.
FirstTesterReport ==
    IF WithTests = {} THEN 0 ELSE Listed[Sets!Min(WithTests)].tests

\* _last_tester_report and _last_browser_results, each with its own search.
LastTesterReport ==
    IF WithTests = {} THEN 0 ELSE Listed[Sets!Max(WithTests)].tests

\* Mutant of LastBrowserResults: looks at the last iteration only.
BrowserResultsOfLast ==
    IF iterations = <<>> THEN 0 ELSE Listed[Len(iterations)].pages

LastBrowserResults ==
    IF WithPages = {} THEN 0 ELSE Listed[Sets!Max(WithPages)].pages

\* The risks shown are those of the last iteration's review, if it has one.
FinalVerdict ==
    IF iterations = <<>> THEN 0 ELSE Listed[Len(iterations)].review

\* A run refused before its branch exists has a report too, without results.
ReportWritten == phase = "RETURNED"

ReportInit == Init /\ kept = <<>>

\* A new iteration's record leaves the one before it in result.iterations.
ReportNext ==
    /\ Next
    /\ kept' = IF record.iteration \notin {0, record'.iteration}
               THEN Append(kept, Shown(record)) ELSE kept

ReportSpec == ReportInit /\ [][ReportNext]_reportVars /\ Fairness

-----------------------------------------------------------------------------
(* Properties *)

\* The tests, the pages and the risks in the report of a READY run are all of
\* the code it leaves for review: each is searched in the list on its own, the
\* list holds an iteration for every attempt, and the last attempt is the one
\* that has all three.
ReadyReportIsCurrent ==
    (ReportWritten /\ finalStatus = "READY_FOR_HUMAN_REVIEW") =>
        /\ LastTesterReport = codeRev
        /\ Viewports # {} => LastBrowserResults = codeRev
        /\ FinalVerdict = codeRev

\* The report of a BLOCKED run shows the newest tests and the newest pages any
\* iteration took, though the last one may have raised before it had any, and
\* never pages of code newer than the tests beside them.
ReportShowsNewest ==
    ReportWritten =>
        /\ \A n \in 1..record.iteration :
               /\ ShownOf(n).tests <= LastTesterReport
               /\ ShownOf(n).pages <= LastBrowserResults
        /\ LastBrowserResults <= LastTesterReport
=============================================================================
