-------------------------- MODULE RunReportProofs --------------------------
(***************************************************************************)
(* Theorems about RunReport: what a report shows, for every number of      *)
(* checks, viewports and error classes and every value of the limits.      *)
(***************************************************************************)
EXTENDS RunReport, OrchestratorProofs, WellFoundedInduction

Showings == [tests : Nat, pages : Nat, review : Nat]

\* The evidence of a record is of the one revision its iteration made, pages
\* are taken after tests, and a build that passed has been tested.
Timely(r) ==
    /\ r.tested \in {0, r.iteration}
    /\ r.browsed \in {0, r.iteration}
    /\ r.browsed # 0 => r.tested # 0
    /\ BuildOk(r) => r.tested # 0

\* The same of what is kept of iteration n.
Fits(s, n) ==
    /\ s \in Showings
    /\ s.tests \in {0, n}
    /\ s.pages \in {0, n}
    /\ s.pages # 0 => s.tests # 0

\* Exactly the iterations before the current one are kept.
Past ==
    /\ kept \in Seq(Showings)
    /\ Len(kept) = IF record.iteration = 0 THEN 0 ELSE record.iteration - 1
    /\ \A n \in 1..Len(kept) : Fits(kept[n], n)

ReportInv == IInv /\ Timely(record) /\ Past

LEMMA TimelyFits ==
    ASSUME NEW r \in Records, Timely(r)
    PROVE  Fits(Shown(r), r.iteration)
BY DEF Fits, Timely, Shown, Showings, Records

\* A handler runs on the revision its iteration's Coder made.
LEMMA BodyRevision ==
    ASSUME IInv, phase = "BODY", state \notin CoderStates
    PROVE  codeRev = record.iteration /\ codeRev # 0
BY DEF IInv, Counting, InLoop, CoderToRun, TypeOK

\* What any step does to the record: nothing, a new one for the next iteration,
\* or evidence of the current revision.
LEMMA TimelyNext ==
    ASSUME IInv, Timely(record), [Next]_vars
    PROVE  /\ Timely(record')
           /\ \/ record'.iteration = record.iteration
              \/ record'.iteration = record.iteration + 1
<1> DEFINE Goal == /\ Timely(record')
                   /\ \/ record'.iteration = record.iteration
                      \/ record'.iteration = record.iteration + 1
<1>0. record \in Records /\ record.iteration \in Nat /\ codeRev \in Nat
    BY DEF IInv, TypeOK, Records
<1>1. CASE record' = record
    BY <1>1
<1>2. CASE StartIteration
  <2>1. iteration = record.iteration /\ record' = NewRecord(iteration + 1)
      BY <1>2 DEF StartIteration, IInv, Counting, InLoop
  <2>2. record'.iteration = record.iteration + 1
      BY <2>1 DEF NewRecord
  <2>3. Timely(record')
      BY <2>1 DEF NewRecord, Timely, BuildOk, AllChecks
  <2> QED
      BY <2>2, <2>3
<1>3. ASSUME InBody("STATIC_TEST"), NEW r \in TesterReports,
             record' = [record EXCEPT !.tested = codeRev, !.checks = r]
      PROVE  Goal
  <2>1. codeRev = record.iteration /\ codeRev # 0
      BY <1>3, BodyRevision DEF InBody, CoderStates
  <2> QED
      BY <1>0, <1>3, <2>1 DEF Timely, Records
<1>4. ASSUME InBody("REVIEW"), NEW v,
             record' = [record EXCEPT !.reviewed = codeRev, !.verdict = v]
      PROVE  Goal
    BY <1>0, <1>4 DEF Timely, Records, BuildOk
<1>5. CASE StaticTest
    BY <1>3, <1>5 DEF StaticTest
<1>6. CASE BrowserTest
  <2>1. codeRev = record.iteration /\ codeRev # 0
      BY <1>6, BodyRevision DEF BrowserTest, InBody, CoderStates
  <2>2. record.tested = codeRev
      BY <1>6 DEF BrowserTest, InBody, IInv, Evidence, InLoop, VerifyingStates
  <2>3. PICK results : record' = [record EXCEPT !.browsed = codeRev, !.pages = results]
      BY <1>6 DEF BrowserTest
  <2> QED
      BY <1>0, <2>1, <2>2, <2>3 DEF Timely, Records, BuildOk
<1>7. CASE VisualReview
    BY <1>0, <1>7 DEF VisualReview, Timely, Records, BuildOk
<1>8. CASE Review
    BY <1>4, <1>8 DEF Review
<1>9. ASSUME phase = "BODY", PartialEffects
      PROVE  Goal
    BY <1>1, <1>3, <1>4, <1>9 DEF PartialEffects, PartialRecords, InBody
<1>10. CASE StepRaises
    BY <1>9, <1>10 DEF StepRaises
<1>11. CASE Interrupt
    BY <1>1, <1>9, <1>11 DEF Interrupt
<1>12. CASE Preamble
    BY <1>1, <1>12 DEF Preamble, InitRepoFails, RefuseDirty, CreateBranchFails, RefuseToStart,
        CreateBranch, PlannerPlans, PlannerFails, PlannerRaises, loopVars
<1>13. CASE ExhaustBudget \/ ContinueIteration \/ TripSafetyValve
    BY <1>1, <1>13 DEF ExhaustBudget, ContinueIteration, TripSafetyValve
<1>14. CASE Implement \/ Build \/ StartApp \/ AnalyzeFailure \/ CreateFixPlan
    BY <1>1, <1>14 DEF Implement, Build, StartApp, AnalyzeFailure, CreateFixPlan
<1>15. CASE Return \/ CrashOutsideTry \/ ServerExits \/ UNCHANGED vars
    BY <1>1, <1>15 DEF Return, CrashOutsideTry, CrashOpeningLogs, CrashInCleanup, ServerExits,
        loopVars, vars
<1> QED
    BY <1>2, <1>5, <1>6, <1>7, <1>8, <1>10, <1>11, <1>12, <1>13, <1>14, <1>15
       DEF Next, Run, LoopHead, Step

LEMMA InitReport == ReportInit => ReportInv
<1> SUFFICES ASSUME ReportInit PROVE ReportInv
    OBVIOUS
<1>1. IInv
    BY InitIInv DEF ReportInit
<1>2. record = NewRecord(0) /\ kept = <<>>
    BY DEF ReportInit, Init
<1>3. Timely(record)
    BY <1>2 DEF Timely, NewRecord, BuildOk, AllChecks
<1>4. Past
    BY <1>2 DEF Past, NewRecord
<1> QED
    BY <1>1, <1>3, <1>4 DEF ReportInv

LEMMA NextReport == ReportInv /\ [ReportNext]_reportVars => ReportInv'
<1> SUFFICES ASSUME ReportInv, [ReportNext]_reportVars PROVE ReportInv'
    OBVIOUS
<1>1. [Next]_vars
    BY DEF ReportNext, reportVars
<1>2. IInv'
    BY <1>1, NextIInv DEF ReportInv
<1>3. /\ Timely(record)'
      /\ \/ record'.iteration = record.iteration
         \/ record'.iteration = record.iteration + 1
    BY <1>1, TimelyNext DEF ReportInv, Timely, BuildOk
<1>4. record \in Records /\ record.iteration \in Nat
    BY DEF ReportInv, IInv, TypeOK, Records
<1>5. Past'
  <2>1. CASE kept' = kept /\ (record'.iteration = record.iteration \/ record.iteration = 0)
      BY <1>3, <1>4, <2>1 DEF Past, ReportInv
  <2>2. CASE /\ kept' = Append(kept, Shown(record))
             /\ record.iteration # 0
             /\ record'.iteration = record.iteration + 1
    <3>1. Fits(Shown(record), record.iteration)
        BY <1>4, TimelyFits DEF ReportInv
    <3>2. Shown(record) \in Showings
        BY <3>1 DEF Fits
    <3>3. kept \in Seq(Showings) /\ Len(kept) = record.iteration - 1
        BY <2>2 DEF ReportInv, Past
    <3>4. /\ kept' \in Seq(Showings)
          /\ Len(kept') = record.iteration
          /\ \A n \in 1..Len(kept) : kept'[n] = kept[n]
          /\ kept'[record.iteration] = Shown(record)
        BY <1>4, <2>2, <3>2, <3>3
    <3>5. \A n \in 1..Len(kept') : Fits(kept'[n], n)
        BY <1>4, <3>1, <3>3, <3>4 DEF ReportInv, Past
    <3> QED
        BY <1>4, <2>2, <3>4, <3>5 DEF Past
  <2>3. CASE ReportNext
      BY <1>3, <1>4, <2>1, <2>2, <2>3 DEF ReportNext
  <2>4. CASE UNCHANGED reportVars
      BY <2>1, <2>4 DEF reportVars, vars, loopVars
  <2> QED
      BY <2>3, <2>4
<1> QED
    BY <1>2, <1>3, <1>5 DEF ReportInv

\* The records a report is made of are of the iterations they stand for.
THEOREM ReportInvariant == ReportSpec => []ReportInv
BY InitReport, NextReport, PTL DEF ReportSpec

-----------------------------------------------------------------------------
(* What the searches of the report find *)

\* A set of places in a list has a last one.
LEMMA LastPlace ==
    ASSUME NEW n \in Nat, NEW I, I # {}, \A i \in I : i \in 1..n
    PROVE  /\ Sets!Max(I) \in I
           /\ \A i \in I : i <= Sets!Max(I)
<1> DEFINE T == {k \in Nat : n - k \in I}
<1>1. PICK j \in I : TRUE
    OBVIOUS
<1>2. n - j \in Nat /\ n - (n - j) = j
    OBVIOUS
<1>3. T \subseteq Nat /\ T # {}
  <2>1. n - j \in T
      BY <1>2
  <2> QED
      BY <2>1
<1> HIDE DEF T
<1>4. PICK x \in T : \A y \in T : ~ (<<y, x>> \in OpToRel(<, Nat))
    BY <1>3, NatLessThanWellFounded, WFMin
<1>5. \A y \in T : <<y, x>> \in Nat \X Nat /\ <<y, x>>[1] = y /\ <<y, x>>[2] = x
    BY <1>3, <1>4
<1>6. \A y \in T : ~ (y < x)
    BY <1>4, <1>5 DEF OpToRel
<1>7. x \in Nat /\ n - x \in I
    BY <1>4 DEF T
<1>8. ASSUME NEW i \in I
      PROVE  n - x >= i
  <2>1. n - i \in Nat /\ n - (n - i) = i /\ i \in Nat
      OBVIOUS
  <2>2. n - i \in T
      BY <2>1 DEF T
  <2>3. ~ (n - i < x)
      BY <1>6, <2>2
  <2> QED
      BY <1>7, <2>1, <2>3
<1>9. /\ Sets!Max(I) \in I
      /\ \A i \in I : Sets!Max(I) >= i
    BY <1>7, <1>8 DEF Sets!Max
<1> QED
    BY <1>9

\* When run() has returned, the list names the iterations from 1 to the last
\* one, in order.
LEMMA ListIsComplete ==
    ASSUME ReportInv, ReportWritten
    PROVE  /\ iterations \in Seq(Nat) /\ record.iteration \in Nat
           /\ \A i \in 1..Len(iterations) : iterations[i] \in 1..record.iteration
           /\ \A n \in 1..record.iteration : \E i \in 1..Len(iterations) : iterations[i] = n
           /\ \A i, j \in 1..Len(iterations) : i < j => iterations[i] <= iterations[j]
<1>1. iterations \in Seq(Nat) /\ record.iteration \in Nat
    BY DEF ReportInv, IInv, TypeOK, Records
<1>2. ResultKeepsEveryIteration /\ phase = "RETURNED"
    BY DEF ReportInv, IInv, Results, ReportWritten
<1> QED
    BY <1>1, <1>2 DEF ResultKeepsEveryIteration

\* What is shown of an iteration fits it.
LEMMA ShownFits ==
    ASSUME ReportInv, NEW n \in 1..record.iteration
    PROVE  Fits(ShownOf(n), n)
<1>1. record \in Records /\ record.iteration \in Nat
    BY DEF ReportInv, IInv, TypeOK, Records
<1>2. CASE n = record.iteration
    BY <1>1, <1>2, TimelyFits DEF ReportInv, ShownOf
<1>3. CASE n # record.iteration
  <2>1. n \in 1..Len(kept)
      BY <1>1, <1>3 DEF ReportInv, Past
  <2> QED
      BY <1>3, <2>1 DEF ReportInv, Past, ShownOf
<1> QED
    BY <1>2, <1>3

LEMMA ListedFits ==
    ASSUME ReportInv, ReportWritten
    PROVE  /\ DOMAIN Listed = 1..Len(iterations) /\ Len(iterations) \in Nat
           /\ \A i \in DOMAIN Listed : /\ Listed[i] = ShownOf(iterations[i])
                                       /\ Fits(Listed[i], iterations[i])
<1>1. DOMAIN Listed = 1..Len(iterations) /\ Len(iterations) \in Nat
    BY ListIsComplete DEF Listed
<1>2. \A i \in DOMAIN Listed : Listed[i] = ShownOf(iterations[i])
    BY DEF Listed
<1> QED
    BY <1>1, <1>2, ListIsComplete, ShownFits

\* The searches find the newest revision there is, or nothing.
LEMMA NewestTests ==
    ASSUME ReportInv, ReportWritten
    PROVE  /\ LastTesterReport \in Nat
           /\ \A n \in 1..record.iteration : ShownOf(n).tests <= LastTesterReport
<1> DEFINE m == Sets!Max(WithTests)
<1>1. WithTests \in SUBSET (1..Len(iterations)) /\ Len(iterations) \in Nat
    BY ListedFits DEF WithTests
<1>2. ASSUME NEW n \in 1..record.iteration, ShownOf(n).tests # 0
      PROVE  LastTesterReport \in Nat /\ ShownOf(n).tests <= LastTesterReport
  <2>1. PICK i \in 1..Len(iterations) : iterations[i] = n
      BY ListIsComplete
  <2>2. i \in WithTests
      BY <1>2, <2>1, ListedFits DEF WithTests
  <2>3. m \in WithTests /\ i <= m /\ m \in 1..Len(iterations)
      BY <1>1, <2>2, LastPlace
  <2>4. iterations[i] <= iterations[m]
      BY <1>1, <2>3, ListIsComplete
  <2>5. LastTesterReport = Listed[m].tests /\ Listed[m].tests # 0
      BY <2>2, <2>3 DEF LastTesterReport, WithTests
  <2>6. Listed[m].tests = iterations[m] /\ iterations[m] \in Nat
      BY <1>1, <2>3, <2>5, ListedFits, ListIsComplete DEF Fits
  <2>7. ShownOf(n).tests = n
      BY <1>2, ShownFits DEF Fits
  <2> QED
      BY <2>1, <2>4, <2>5, <2>6, <2>7
<1>3. LastTesterReport \in Nat
  <2>1. CASE WithTests = {}
      BY <2>1 DEF LastTesterReport
  <2>2. CASE WithTests # {}
    <3>1. m \in WithTests
        BY <1>1, <2>2, LastPlace
    <3>2. Fits(Listed[m], iterations[m])
        BY <1>1, <3>1, ListedFits
    <3> QED
        BY <2>2, <3>2 DEF LastTesterReport, Fits, Showings
  <2> QED
      BY <2>1, <2>2
<1>4. \A n \in 1..record.iteration : ShownOf(n).tests = 0 \/ ShownOf(n).tests <= LastTesterReport
    BY <1>2
<1> QED
    BY <1>3, <1>4

LEMMA NewestPages ==
    ASSUME ReportInv, ReportWritten
    PROVE  /\ LastBrowserResults \in Nat
           /\ \A n \in 1..record.iteration : ShownOf(n).pages <= LastBrowserResults
           /\ LastBrowserResults # 0 =>
                 \E n \in 1..record.iteration : ShownOf(n).tests = LastBrowserResults
<1> DEFINE m == Sets!Max(WithPages)
<1>1. WithPages \in SUBSET (1..Len(iterations)) /\ Len(iterations) \in Nat
    BY ListedFits DEF WithPages
<1>2. ASSUME WithPages # {}
      PROVE  /\ m \in WithPages /\ \A i \in WithPages : i <= m
             /\ LastBrowserResults = iterations[m]
             /\ iterations[m] \in 1..record.iteration
             /\ ShownOf(iterations[m]).tests = iterations[m]
  <2>1. m \in WithPages /\ \A i \in WithPages : i <= m
      BY <1>1, <1>2, LastPlace
  <2>2. /\ Fits(Listed[m], iterations[m]) /\ Listed[m] = ShownOf(iterations[m])
        /\ Listed[m].pages # 0
      BY <1>1, <2>1, ListedFits DEF WithPages
  <2>3. Listed[m].pages = iterations[m] /\ Listed[m].tests = iterations[m]
      BY <2>2 DEF Fits
  <2>4. LastBrowserResults = Listed[m].pages
      BY <1>2 DEF LastBrowserResults
  <2>5. iterations[m] \in 1..record.iteration
      BY <1>1, <2>1, ListIsComplete
  <2> QED
      BY <2>1, <2>2, <2>3, <2>4, <2>5
<1>3. ASSUME NEW n \in 1..record.iteration, ShownOf(n).pages # 0
      PROVE  WithPages # {} /\ ShownOf(n).pages <= LastBrowserResults
  <2>1. PICK i \in 1..Len(iterations) : iterations[i] = n
      BY ListIsComplete
  <2>2. i \in WithPages
      BY <1>3, <2>1, ListedFits DEF WithPages
  <2>3. m \in 1..Len(iterations) /\ i <= m
      BY <1>1, <1>2, <2>2
  <2>4. iterations[i] <= iterations[m]
      BY <1>1, <2>3, ListIsComplete
  <2>5. ShownOf(n).pages = n
      BY <1>3, ShownFits DEF Fits
  <2> QED
      BY <1>2, <2>1, <2>2, <2>4, <2>5
<1>4. LastBrowserResults \in Nat
  <2>1. CASE WithPages = {}
      BY <2>1 DEF LastBrowserResults
  <2>2. CASE WithPages # {}
      BY <1>2, <2>2, ListIsComplete
  <2> QED
      BY <2>1, <2>2
<1>5. LastBrowserResults # 0 =>
          \E n \in 1..record.iteration : ShownOf(n).tests = LastBrowserResults
  <2>1. LastBrowserResults # 0 => WithPages # {}
      BY DEF LastBrowserResults
  <2> QED
      BY <1>2, <2>1
<1>6. \A n \in 1..record.iteration :
          ShownOf(n).pages = 0 \/ ShownOf(n).pages <= LastBrowserResults
    BY <1>3
<1> QED
    BY <1>4, <1>5, <1>6

-----------------------------------------------------------------------------
(* The theorems *)

\* The report of a BLOCKED run shows the newest tests and pages there are, and
\* no pages newer than its tests (_last_tester_report, _last_browser_results).
THEOREM NewestIsShown == ReportSpec => []ReportShowsNewest
<1>1. ReportInv => ReportShowsNewest
  <2> SUFFICES ASSUME ReportInv, ReportWritten
               PROVE  /\ \A n \in 1..record.iteration :
                            /\ ShownOf(n).tests <= LastTesterReport
                            /\ ShownOf(n).pages <= LastBrowserResults
                      /\ LastBrowserResults <= LastTesterReport
      BY DEF ReportShowsNewest
  <2>1. LastBrowserResults <= LastTesterReport
      BY NewestTests, NewestPages
  <2> QED
      BY <2>1, NewestTests, NewestPages
<1> QED
    BY <1>1, ReportInvariant, PTL

\* Tests, pages and risks in the report of a READY run are of the code it
\* leaves for review (generate_report).
THEOREM ReadyReportHolds == ReportSpec => []ReadyReportIsCurrent
<1>1. ReportInv => ReadyReportIsCurrent
  <2> SUFFICES ASSUME ReportInv, ReportWritten, finalStatus = "READY_FOR_HUMAN_REVIEW"
               PROVE  /\ LastTesterReport = codeRev
                      /\ Viewports # {} => LastBrowserResults = codeRev
                      /\ FinalVerdict = codeRev
      BY DEF ReadyReportIsCurrent
  <2> DEFINE n == record.iteration
             last == Len(iterations)
  <2>1. Earned
      BY DEF ReportInv, IInv, Evidence
  <2>2. record.tested = codeRev /\ codeRev = n /\ n # 0 /\ n \in Nat
      BY <2>1, ListIsComplete DEF Earned, ReportInv, Timely
  <2>3. n \in 1..n
      BY <2>2
  <2>4. last \in 1..last /\ last \in Nat /\ iterations # <<>>
    <3>1. PICK i \in 1..last : iterations[i] = n
        BY <2>3, ListIsComplete
    <3> QED
        BY <3>1, ListIsComplete
  <2>5. iterations[last] = n
    <3>1. PICK i \in 1..last : iterations[i] = n
        BY <2>3, ListIsComplete
    <3>2. i = last \/ n <= iterations[last]
        BY <2>4, <3>1, ListIsComplete
    <3>3. iterations[last] \in 1..n
        BY <2>4, ListIsComplete
    <3> QED
        BY <2>2, <3>1, <3>2, <3>3
  <2>6. Listed[last] = Shown(record)
      BY <2>4, <2>5, ListedFits DEF ShownOf
  <2>7. FinalVerdict = codeRev
      BY <2>1, <2>4, <2>6 DEF FinalVerdict, Earned, Shown
  <2>8. ShownOf(n) = Shown(record)
      BY DEF ShownOf
  <2>9. LastTesterReport = codeRev
    <3>1. last \in WithTests /\ \A i \in WithTests : i \in 1..last
        BY <2>2, <2>4, <2>6, ListedFits DEF WithTests, Shown
    <3>2. /\ Sets!Max(WithTests) \in 1..last
          /\ last <= Sets!Max(WithTests)
        BY <2>4, <3>1, LastPlace
    <3>3. Sets!Max(WithTests) = last
        BY <2>4, <3>2
    <3> QED
        BY <2>2, <2>6, <3>1, <3>3 DEF LastTesterReport, Shown
  <2>10. ASSUME Viewports # {}
         PROVE  LastBrowserResults = codeRev
    <3>1. last \in WithPages /\ \A i \in WithPages : i \in 1..last
        BY <2>1, <2>2, <2>4, <2>6, <2>10, ListedFits DEF WithPages, Shown, Earned
    <3>2. /\ Sets!Max(WithPages) \in 1..last
          /\ last <= Sets!Max(WithPages)
        BY <2>4, <3>1, LastPlace
    <3>3. Sets!Max(WithPages) = last
        BY <2>4, <3>2
    <3> QED
        BY <2>1, <2>6, <2>10, <3>1, <3>3 DEF LastBrowserResults, Shown, Earned
  <2> QED
      BY <2>7, <2>9, <2>10
<1> QED
    BY <1>1, ReportInvariant, PTL
=============================================================================
