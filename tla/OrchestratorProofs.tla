------------------------- MODULE OrchestratorProofs -------------------------
(***************************************************************************)
(* Theorems about Orchestrator for every number of checks, viewports and   *)
(* error classes and every value of the limits.                            *)
(***************************************************************************)
EXTENDS Orchestrator, TLAPS

\* The transition tables as equations, so that no proof has to expand them.
LEMMA Transitions ==
    /\ NextState("IMPLEMENT", TRUE) = "STATIC_TEST"
    /\ NextState("IMPLEMENT_FIX", TRUE) = "STATIC_TEST"
    /\ NextState("STATIC_TEST", TRUE) = "BUILD"
    /\ NextState("BUILD", TRUE) = "START_APP"
    /\ NextState("START_APP", TRUE) = "BROWSER_TEST"
    /\ NextState("BROWSER_TEST", TRUE) = "VISUAL_REVIEW"
    /\ NextState("VISUAL_REVIEW", TRUE) = "REVIEW"
    /\ NextState("REVIEW", TRUE) = "PASS"
    /\ NextState("ANALYZE_FAILURE", TRUE) = "CREATE_FIX_PLAN"
    /\ NextState("CREATE_FIX_PLAN", TRUE) = "IMPLEMENT_FIX"
    /\ \A s \in VerifyingStates : NextState(s, FALSE) = "ANALYZE_FAILURE"
BY DEF NextState, SuccessTransitions, FailureTransitions, State, TERMINAL_STATES,
       VerifyingStates, CoderStates

\* The signature of a record is a signature: its parts are functions on the
\* failed checks and pages.
LEMMA SignatureType ==
    ASSUME NEW r \in Records
    PROVE  FailureSignature(r) \in Signatures
<1> DEFINE c == [x \in FailedChecks(r) |-> r.checks[x]]
           p == [v \in FailedPages(r) |-> r.pages[v]]
           w == IF r.verdict = "PASS" THEN "NOT_RUN" ELSE r.verdict
<1>1. FailedChecks(r) \in SUBSET AllChecks /\ c \in [FailedChecks(r) -> Errors]
    BY DEF FailedChecks
<1>2. FailedPages(r) \in SUBSET Viewports /\ p \in [FailedPages(r) -> {"BARE"} \cup Errors]
    BY DEF FailedPages
<1>3. w \in {"NOT_RUN"} \cup ReviewVerdicts
    BY DEF Records
<1>4. c \in UNION {[S -> Errors] : S \in SUBSET AllChecks}
    BY <1>1
<1>5. p \in UNION {[S -> {"BARE"} \cup Errors] : S \in SUBSET Viewports}
    BY <1>2
<1> QED
    BY <1>3, <1>4, <1>5 DEF FailureSignature, Signatures

\* A recorded history is a history, and records the iteration it is given.
LEMMA RecordedType ==
    ASSUME NEW h \in Seq(Outcomes), NEW n \in Nat, NEW s \in Signatures
    PROVE  /\ Recorded(h, n, s) \in Seq(Outcomes)
           /\ Len(Recorded(h, n, s)) = Len(h) + 1
           /\ \A i \in 1..Len(h) : Recorded(h, n, s)[i] = h[i]
           /\ Recorded(h, n, s)[Len(h) + 1].iteration = n
BY DEF Recorded, Outcomes

LEMMA HardFailType ==
    ASSUME NEW r, NEW v \in ReviewVerdicts
    PROVE  HardFail(v, r) \in ReviewVerdicts
BY DEF HardFail, ReviewVerdicts

LEMMA NewRecordType ==
    ASSUME NEW n \in Nat
    PROVE  NewRecord(n) \in Records
BY DEF NewRecord, Records

-----------------------------------------------------------------------------
(* The type invariant *)

\* What follows every handler keeps the types.
LEMMA AfterStepType ==
    ASSUME TypeOK, NEW next \in State, NEW h \in Seq(Outcomes), AfterStep(next, h)
    PROVE  /\ phase' \in {"HEAD", "EXIT"}
           /\ repo' \in {"none", "clean", "dirty"}
           /\ state' \in State
           /\ iteration' \in Nat
           /\ steps' \in Nat
           /\ iterations' \in Seq(Nat)
           /\ history' \in Seq(Outcomes)
           /\ changes' \in Nat
           /\ forced' \in BOOLEAN
           /\ blockReason' \in BlockReasons
           /\ finalStatus' \in {"READY_FOR_HUMAN_REVIEW", "BLOCKED"}
<1>1. record.iteration \in Nat
    BY DEF TypeOK, Records
<1>2. iterations' \in Seq(Nat)
  <2>1. iterations' \in {iterations, Append(iterations, record.iteration)}
      BY DEF AfterStep, Tracked
  <2>2. iterations \in Seq(Nat)
      BY DEF TypeOK
  <2>3. Append(iterations, record.iteration) \in Seq(Nat)
      BY <1>1, <2>2
  <2> QED
      BY <2>1, <2>2, <2>3
<1>3. ForceNow(h) \in BOOLEAN
    BY DEF ForceNow, ShouldForceStrategyChange
<1>4. changes' \in Nat
  <2>1. changes' \in {changes, changes + 1}
      BY DEF AfterStep
  <2> QED
      BY <2>1 DEF TypeOK
<1>5. forced' \in {FALSE, ForceNow(h)}
    BY DEF AfterStep
<1>6. forced' \in BOOLEAN
    BY <1>3, <1>5
<1>7. /\ phase' \in {"HEAD", "EXIT"}
      /\ state' \in {"BLOCKED", next}
      /\ blockReason' \in {"repeated_failures", blockReason}
      /\ history' = h
      /\ UNCHANGED <<repo, iteration, steps, finalStatus>>
    BY DEF AfterStep
<1>8. blockReason' \in BlockReasons
    BY <1>7 DEF TypeOK, BlockReasons
<1>9. state' \in State
    BY <1>7 DEF State, TERMINAL_STATES
<1> QED
    BY <1>2, <1>4, <1>6, <1>7, <1>8, <1>9 DEF TypeOK

LEMMA PartialEffectsType ==
    ASSUME TypeOK, PartialEffects
    PROVE  codeRev' \in Nat /\ record' \in Records /\ servers' \in SUBSET Nat
<1>1. codeRev' \in Nat
  <2>1. codeRev' \in {codeRev, codeRev + 1}
      BY DEF PartialEffects
  <2> QED
      BY <2>1 DEF TypeOK
<1>2. servers' \in SUBSET Nat
  <2>1. servers' \in {servers, servers \cup {record.iteration}}
      BY DEF PartialEffects
  <2> QED
      BY <2>1 DEF TypeOK, Records
<1>3. ASSUME NEW r \in TesterReports
      PROVE  [record EXCEPT !.tested = codeRev, !.checks = r] \in Records
    BY DEF TypeOK, Records, TesterReports
<1>4. ASSUME NEW a \in ReviewVerdicts
      PROVE  [record EXCEPT !.reviewed = codeRev, !.verdict = HardFail(a, record)] \in Records
    BY HardFailType DEF TypeOK, Records
<1>5. record' \in Records
    BY <1>3, <1>4 DEF PartialEffects, PartialRecords, TypeOK
<1> QED
    BY <1>1, <1>2, <1>5

LEMMA InitType == Init => TypeOK
<1> SUFFICES ASSUME Init PROVE TypeOK
    OBVIOUS
<1>1. record \in Records
    BY NewRecordType DEF Init
<1>2. iterations \in Seq(Nat) /\ history \in Seq(Outcomes)
  <2>1. <<>> \in Seq(Nat) /\ <<>> \in Seq(Outcomes)
      OBVIOUS
  <2> QED
      BY <2>1 DEF Init
<1>3. state \in State
    BY DEF Init, State, CoderStates
<1>4. instruction \in [from : {"PLAN"} \cup VerifyingStates, warned : BOOLEAN]
    BY DEF Init
<1>5. blockReason \in BlockReasons
    BY DEF Init, BlockReasons
<1> QED
    BY <1>1, <1>2, <1>3, <1>4, <1>5 DEF Init, TypeOK

LEMMA FixInstructionType ==
    ASSUME NEW s \in VerifyingStates
    PROVE  FixInstruction(s) \in [from : {"PLAN"} \cup VerifyingStates, warned : BOOLEAN]
BY DEF FixInstruction, Warns, SummaryWarns

LEMMA StepType ==
    ASSUME TypeOK, Step
    PROVE  TypeOK'
<1> USE Transitions DEF InBody
<1> DEFINE Instructions == [from : {"PLAN"} \cup VerifyingStates, warned : BOOLEAN]
<1>1. \A s \in {"IMPLEMENT", "IMPLEMENT_FIX", "STATIC_TEST", "BUILD", "START_APP",
                "BROWSER_TEST", "VISUAL_REVIEW", "REVIEW", "ANALYZE_FAILURE",
                "CREATE_FIX_PLAN"} : NextState(s, TRUE) \in State
    BY DEF State, VerifyingStates, CoderStates, TERMINAL_STATES
<1>2. \A s \in VerifyingStates, ok \in BOOLEAN : NextState(s, ok) \in State
    BY <1>1 DEF State, VerifyingStates
<1>3. history \in Seq(Outcomes) /\ instruction \in Instructions /\ record \in Records
      /\ codeRev \in Nat /\ servers \in SUBSET Nat /\ record.iteration \in Nat
    BY DEF TypeOK, Records
<1>4. \A s \in VerifyingStates : FixInstruction(s) \in Instructions
    BY FixInstructionType
<1>5. ASSUME NEW next \in State, NEW h \in Seq(Outcomes), AfterStep(next, h),
             record' \in Records, instruction' \in Instructions, codeRev' \in Nat,
             servers' \in SUBSET Nat
      PROVE  TypeOK'
    BY <1>5, AfterStepType DEF TypeOK
<1>6. CASE Implement
  <2>1. instruction' \in Instructions
    <3>1. (instruction.warned \/ (forced /\ Warns(history))) \in BOOLEAN
        BY DEF Warns, SummaryWarns
    <3> QED
        BY <1>3, <1>6, <3>1 DEF Implement
  <2>2. NextState(state, TRUE) \in State
      BY <1>1, <1>6 DEF Implement, CoderStates
  <2>3. AfterStep(NextState(state, TRUE), history)
      BY <1>6 DEF Implement
  <2>4. codeRev' \in Nat /\ record' \in Records /\ servers' \in SUBSET Nat
      BY <1>3, <1>6 DEF Implement
  <2> QED
      BY <1>3, <1>5, <2>1, <2>2, <2>3, <2>4
<1>7. CASE StaticTest
  <2>1. record' \in Records
      BY <1>3, <1>7 DEF StaticTest, Records, TesterReports
  <2>2. instruction' \in Instructions
      BY <1>3, <1>4, <1>7 DEF StaticTest, VerifyingStates
  <2>3. StaticChecksOk(record') \in BOOLEAN
      BY DEF StaticChecksOk
  <2>4. NextState("STATIC_TEST", StaticChecksOk(record')) \in State
      BY <1>2, <2>3 DEF VerifyingStates
  <2> QED
      BY <1>3, <1>5, <1>7, <2>1, <2>2, <2>4 DEF StaticTest
<1>8. CASE Build
  <2>1. instruction' \in Instructions
      BY <1>3, <1>4, <1>8 DEF Build, VerifyingStates
  <2>2. NextState("BUILD", BuildOk(record)) \in State
      BY <1>2 DEF VerifyingStates, BuildOk
  <2> QED
      BY <1>3, <1>5, <1>8, <2>1, <2>2 DEF Build
<1>9. CASE StartApp
  <2> PICK started \in BOOLEAN, ready \in BOOLEAN :
          /\ servers' = IF started THEN servers \cup {record.iteration} ELSE servers
          /\ instruction' = IF ready THEN instruction ELSE FixInstruction("START_APP")
          /\ AfterStep(NextState("START_APP", ready), history)
      BY <1>9 DEF StartApp
  <2>1. servers' \in SUBSET Nat
      BY <1>3
  <2>2. instruction' \in Instructions
      BY <1>3, <1>4 DEF VerifyingStates
  <2>3. NextState("START_APP", ready) \in State
      BY <1>2 DEF VerifyingStates
  <2> QED
      BY <1>3, <1>5, <1>9, <2>1, <2>2, <2>3 DEF StartApp
<1>10. CASE BrowserTest
  <2>1. record' \in Records
      BY <1>3, <1>10 DEF BrowserTest, Records, BrowserResults
  <2>2. instruction' \in Instructions
      BY <1>3, <1>4, <1>10 DEF BrowserTest, VerifyingStates
  <2>3. NextState("BROWSER_TEST", BrowserOk(record')) \in State
      BY <1>2 DEF VerifyingStates, BrowserOk
  <2> QED
      BY <1>3, <1>5, <1>10, <2>1, <2>2, <2>3 DEF BrowserTest
<1>11. CASE VisualReview
  <2> PICK outcome \in {"CLEAN", "ISSUES", "SKIPPED"} :
          /\ record' = [record EXCEPT !.visual = outcome]
          /\ instruction' = IF outcome = "ISSUES" THEN FixInstruction("VISUAL_REVIEW")
                                                  ELSE instruction
          /\ AfterStep(NextState("VISUAL_REVIEW", outcome # "ISSUES"), history)
      BY <1>11 DEF VisualReview
  <2>1. record' \in Records
      BY <1>3 DEF Records
  <2>2. instruction' \in Instructions
      BY <1>3, <1>4 DEF VerifyingStates
  <2>3. NextState("VISUAL_REVIEW", outcome # "ISSUES") \in State
      BY <1>2 DEF VerifyingStates
  <2> QED
      BY <1>3, <1>5, <1>11, <2>1, <2>2, <2>3 DEF VisualReview
<1>12. CASE Review
  <2> PICK answer \in ReviewVerdicts \ {"OVERRULED"} :
          LET verdict == HardFail(answer, record) IN
          /\ record' = [record EXCEPT !.reviewed = codeRev, !.verdict = verdict]
          /\ instruction' = IF verdict \in {"PASS", "BLOCKED"} THEN instruction
                                                               ELSE FixInstruction("REVIEW")
          /\ AfterStep(IF verdict = "BLOCKED" THEN "BLOCKED"
                       ELSE NextState("REVIEW", verdict = "PASS"), history)
      BY <1>12 DEF Review
  <2> DEFINE verdict == HardFail(answer, record)
             next == IF verdict = "BLOCKED" THEN "BLOCKED"
                     ELSE NextState("REVIEW", verdict = "PASS")
  <2>1. verdict \in ReviewVerdicts
      BY HardFailType
  <2>2. record' \in Records
      BY <1>3, <2>1 DEF Records
  <2>3. instruction' \in Instructions
      BY <1>3, <1>4 DEF VerifyingStates
  <2>4. next \in State
      BY <1>2 DEF VerifyingStates, State, TERMINAL_STATES
  <2>5. AfterStep(next, history)
      OBVIOUS
  <2> HIDE DEF next
  <2> QED
      BY <1>3, <1>5, <1>12, <2>2, <2>3, <2>4, <2>5 DEF Review
<1>13. CASE AnalyzeFailure
  <2>1. Recorded(history, record.iteration, FailureSignature(record)) \in Seq(Outcomes)
      BY <1>3, SignatureType, RecordedType
  <2> QED
      BY <1>1, <1>3, <1>5, <1>13, <2>1 DEF AnalyzeFailure
<1>14. CASE CreateFixPlan
    BY <1>1, <1>3, <1>5, <1>14 DEF CreateFixPlan
<1>15. CASE StepRaises
  <2>1. codeRev' \in Nat /\ record' \in Records /\ servers' \in SUBSET Nat
      BY <1>15, PartialEffectsType DEF StepRaises
  <2>2. iterations' \in Seq(Nat)
    <3>1. iterations \in Seq(Nat)
        BY DEF TypeOK
    <3>2. Append(iterations, record.iteration) \in Seq(Nat)
        BY <1>3, <3>1
    <3> QED
        BY <1>15, <3>2 DEF StepRaises
  <2>3. blockReason' \in BlockReasons /\ state' \in State /\ phase' = "EXIT"
      BY <1>15 DEF StepRaises, BlockReasons, State, TERMINAL_STATES
  <2> QED
      BY <1>15, <2>1, <2>2, <2>3 DEF StepRaises, TypeOK, memory
<1> QED
    BY <1>6, <1>7, <1>8, <1>9, <1>10, <1>11, <1>12, <1>13, <1>14, <1>15 DEF Step

\* Every action keeps the types: the handlers by StepType, the others touch few
\* variables each.
LEMMA NextType == TypeOK /\ [Next]_vars => TypeOK'
<1> SUFFICES ASSUME TypeOK, [Next]_vars PROVE TypeOK'
    OBVIOUS
<1>0. iteration \in Nat /\ steps \in Nat
    BY DEF TypeOK
<1>1. CASE Preamble
    BY <1>1 DEF TypeOK, Preamble, InitRepoFails, RefuseDirty, CreateBranchFails,
        RefuseToStart, InitialisedRepo, CreateBranch, PlannerPlans, PlannerFails, PlannerRaises,
        memory, loopVars, BlockReasons, Ended
<1>2. CASE StartIteration
  <2>1. record' \in Records
      BY <1>2, NewRecordType DEF StartIteration, TypeOK
  <2>2. servers' \in SUBSET Nat
      BY <1>2 DEF StartIteration, ServersAfterBoundary, TypeOK
  <2> QED
      BY <1>2, <2>1, <2>2 DEF StartIteration, TypeOK, memory
<1>3. CASE ExhaustBudget
  <2>1. servers' \in SUBSET Nat
      BY <1>3 DEF ExhaustBudget, ServersAfterBoundary, TypeOK
  <2>2. iteration' \in Nat /\ steps' \in Nat
      BY <1>0, <1>3 DEF ExhaustBudget
  <2>3. blockReason' \in BlockReasons /\ state' \in State
      BY <1>3 DEF ExhaustBudget, BlockReasons, State, TERMINAL_STATES
  <2> QED
      BY <1>3, <2>1, <2>2, <2>3 DEF ExhaustBudget, TypeOK, memory
<1>4. CASE ContinueIteration
  <2>1. steps' \in Nat
      BY <1>4 DEF ContinueIteration, TypeOK
  <2> QED
      BY <1>4, <2>1 DEF ContinueIteration, TypeOK, memory
<1>5. CASE TripSafetyValve
  <2>1. blockReason' \in BlockReasons /\ state' \in State
      BY <1>5 DEF TripSafetyValve, BlockReasons, State, TERMINAL_STATES
  <2>2. steps' \in Nat
      BY <1>0, <1>5 DEF TripSafetyValve
  <2> QED
      BY <1>5, <2>1, <2>2 DEF TripSafetyValve, TypeOK, memory
<1>6. CASE Step
    BY <1>6, StepType
<1>7. CASE Return
    BY <1>7 DEF Return, TypeOK, memory, loopVars, Ended
<1>8. CASE CrashOutsideTry
  <2>1. servers' \in SUBSET Nat
      BY <1>8 DEF CrashOutsideTry, CrashOpeningLogs, CrashInCleanup, ServersAfterBoundary, TypeOK
  <2> QED
      BY <1>8, <2>1 DEF CrashOutsideTry, CrashOpeningLogs, CrashInCleanup, TypeOK, memory,
          loopVars, Ended
<1>9. CASE Interrupt
  <2>1. codeRev' \in Nat /\ record' \in Records /\ servers' \in SUBSET Nat
      BY <1>9, PartialEffectsType DEF Interrupt, TypeOK
  <2> QED
      BY <1>9, <2>1 DEF Interrupt, TypeOK, memory, Ended
<1>10. CASE ServerExits
  <2>1. servers' \in SUBSET Nat
      BY <1>10 DEF ServerExits, TypeOK
  <2> QED
      BY <1>10, <2>1 DEF ServerExits, TypeOK, memory, loopVars
<1>11. CASE UNCHANGED vars
    BY <1>11 DEF TypeOK, vars, memory, loopVars
<1> QED
    BY <1>1, <1>2, <1>3, <1>4, <1>5, <1>6, <1>7, <1>8, <1>9, <1>10, <1>11
       DEF Next, Run, LoopHead

\* The types of all fifteen variables, for every run.
THEOREM TypeCorrect == Spec => []TypeOK
<1>1. Init => TypeOK
    BY InitType
<1>2. TypeOK /\ [Next]_vars => TypeOK'
    BY NextType
<1> QED
    BY <1>1, <1>2, PTL DEF Spec

-----------------------------------------------------------------------------
(* The inductive invariant, in named parts *)

LoopStates == CoderStates \cup VerifyingStates \cup {"ANALYZE_FAILURE", "CREATE_FIX_PLAN"}

\* The longest way from the start of an iteration to a state, in steps.
Rank(s) ==
    CASE s \in CoderStates       -> 1
      [] s = "STATIC_TEST"       -> 2
      [] s = "BUILD"             -> 3
      [] s = "START_APP"         -> 4
      [] s = "BROWSER_TEST"      -> 5
      [] s = "VISUAL_REVIEW"     -> 6
      [] s = "REVIEW"            -> 7
      [] s = "ANALYZE_FAILURE"   -> 8
      [] s = "CREATE_FIX_PLAN"   -> 9

InLoop == phase \in {"HEAD", "BODY"}

\* The Coder of this iteration has not run yet.
CoderToRun == phase = "BODY" /\ state \in CoderStates

\* Nothing has happened yet.
Fresh ==
    /\ state = "IMPLEMENT" /\ steps = 0 /\ iteration = 0 /\ codeRev = 0
    /\ record.iteration = 0 /\ history = <<>> /\ iterations = <<>> /\ servers = {}
    /\ blockReason = ""

Control ==
    /\ phase \in {"START", "PLAN"} => Fresh
    /\ phase = "HEAD" /\ (state = "IMPLEMENT" \/ steps = 0) => Fresh
    /\ InLoop => state \in LoopStates
    /\ phase = "BODY" => steps <= Rank(state) /\ steps # 0
    /\ phase = "HEAD" /\ state \notin CoderStates => steps + 1 <= Rank(state)
    /\ ValveNeverTrips

Counting ==
    /\ InLoop => /\ iteration = record.iteration
                 /\ iteration <= MaxIterations
                 /\ iteration = IF CoderToRun THEN codeRev + 1 ELSE codeRev
                 /\ iteration = 0 => phase = "HEAD" /\ state = "IMPLEMENT"
    /\ CoderWithinBudget

Ledger ==
    /\ EachFailureRecordedOnce
    /\ InLoop => Len(history) = IF state = "CREATE_FIX_PLAN" \/
                                   (phase = "HEAD" /\ state \in CoderStates)
                                THEN iteration ELSE iteration - 1

\* What each stage may rely on, and what is left of it at the end.
Evidence ==
    /\ InLoop /\ state \in VerifyingStates \ {"STATIC_TEST"} =>
          record.tested = codeRev /\ FailedChecks(record) \subseteq {"build"}
    /\ InLoop /\ state \in VerifyingStates \ {"STATIC_TEST", "BUILD"} => BuildOk(record)
    /\ InLoop /\ state \in {"VISUAL_REVIEW", "REVIEW"} =>
          record.browsed = codeRev /\ \A v \in Viewports : record.pages[v] = "OK"
    /\ InLoop /\ state = "REVIEW" => record.visual \in {"CLEAN", "SKIPPED"}
    /\ phase = "EXIT" /\ state = "PASS" => Earned
    /\ finalStatus = "READY_FOR_HUMAN_REVIEW" => phase = "RETURNED" /\ Earned

\* The loop's flag never lags behind the memory when the Coder reads it.
FlagIsCurrent == InLoop /\ state # "IMPLEMENT" => forced = ForceNow(history)

\* While the loop runs, the result holds iteration i at place i.
Results ==
    /\ InLoop => /\ Len(iterations) = codeRev
                 /\ \A i \in 1..Len(iterations) : iterations[i] = i
    /\ ResultKeepsEveryIteration

IInv ==
    /\ TypeOK /\ Control /\ Counting /\ Ledger /\ ServersContained
    /\ Evidence /\ FlagIsCurrent /\ Results

\* What AfterStep decides: back to the head in state next, or out of the loop.
LEMMA AfterStepFlow ==
    ASSUME NEW next, NEW h, AfterStep(next, h)
    PROVE  /\ phase' \in {"HEAD", "EXIT"}
           /\ phase' = "HEAD" => state' = next /\ next \notin TERMINAL_STATES
                                   /\ forced' = ForceNow(h)
           /\ phase' = "EXIT" => state' = "BLOCKED" \/ state' = next
           /\ blockReason' \in {blockReason, "repeated_failures"}
           /\ history' = h /\ iterations' = Tracked
           /\ iteration' = iteration /\ steps' = steps /\ finalStatus' = finalStatus
BY DEF AfterStep, TERMINAL_STATES

\* A handler that returns: where it goes, and what it leaves of the counters.
Handler ==
    Implement \/ StaticTest \/ Build \/ StartApp \/ BrowserTest \/ VisualReview
        \/ Review \/ AnalyzeFailure \/ CreateFixPlan

LEMMA Ranks ==
    /\ \A s \in CoderStates : Rank(s) = 1
    /\ Rank("STATIC_TEST") = 2 /\ Rank("BUILD") = 3 /\ Rank("START_APP") = 4
    /\ Rank("BROWSER_TEST") = 5 /\ Rank("VISUAL_REVIEW") = 6 /\ Rank("REVIEW") = 7
    /\ Rank("ANALYZE_FAILURE") = 8 /\ Rank("CREATE_FIX_PLAN") = 9
BY DEF Rank, CoderStates

LEMMA HandlerFlow ==
    ASSUME TypeOK, Handler
    PROVE  /\ phase = "BODY" /\ state \in LoopStates
           /\ phase' \in {"HEAD", "EXIT"}
           /\ phase' = "HEAD" =>
                 /\ state' \in LoopStates \ {"IMPLEMENT"}
                 /\ state' \in CoderStates => state = "CREATE_FIX_PLAN"
                 /\ state = "CREATE_FIX_PLAN" => state' = "IMPLEMENT_FIX"
                 /\ state' = "CREATE_FIX_PLAN" <=> state = "ANALYZE_FAILURE"
                 /\ state' \notin CoderStates => Rank(state) + 1 <= Rank(state')
                 /\ forced' = ForceNow(history')
           /\ history' = IF state = "ANALYZE_FAILURE"
                         THEN Recorded(history, record.iteration, FailureSignature(record))
                         ELSE history
           /\ codeRev' = IF state \in CoderStates THEN codeRev + 1 ELSE codeRev
           /\ blockReason' \in {blockReason, "repeated_failures"}
           /\ iterations' = Tracked
           /\ iteration' = iteration /\ steps' = steps /\ finalStatus' = finalStatus
           /\ record'.iteration = record.iteration
           /\ servers' \subseteq servers \cup {record.iteration}
<1> USE Transitions, Ranks DEF InBody
<1> USE DEF LoopStates, CoderStates, VerifyingStates, TERMINAL_STATES
<1>0. record \in Records
    BY DEF TypeOK
<1>1. CASE Implement
  <2>1. AfterStep("STATIC_TEST", history)
      BY <1>1 DEF Implement
  <2> QED
      BY <1>1, <2>1, AfterStepFlow DEF Implement
<1>2. CASE StaticTest
  <2>1. PICK ok \in BOOLEAN : AfterStep(NextState("STATIC_TEST", ok), history)
      BY <1>2 DEF StaticTest, StaticChecksOk
  <2>2. record'.iteration = record.iteration
      BY <1>0, <1>2 DEF StaticTest, Records
  <2>3. NextState("STATIC_TEST", ok) \in {"BUILD", "ANALYZE_FAILURE"}
      OBVIOUS
  <2> QED
      BY <1>2, <2>1, <2>2, <2>3, AfterStepFlow DEF StaticTest
<1>3. CASE Build
  <2>1. PICK ok \in BOOLEAN : AfterStep(NextState("BUILD", ok), history)
      BY <1>3 DEF Build, BuildOk
  <2>2. NextState("BUILD", ok) \in {"START_APP", "ANALYZE_FAILURE"}
      OBVIOUS
  <2> QED
      BY <1>3, <2>1, <2>2, AfterStepFlow DEF Build
<1>4. CASE StartApp
  <2>1. PICK ok \in BOOLEAN : AfterStep(NextState("START_APP", ok), history)
      BY <1>4 DEF StartApp
  <2>2. NextState("START_APP", ok) \in {"BROWSER_TEST", "ANALYZE_FAILURE"}
      OBVIOUS
  <2>3. servers' \subseteq servers \cup {record.iteration}
      BY <1>4 DEF StartApp
  <2> QED
      BY <1>4, <2>1, <2>2, <2>3, AfterStepFlow DEF StartApp
<1>5. CASE BrowserTest
  <2>1. PICK ok \in BOOLEAN : AfterStep(NextState("BROWSER_TEST", ok), history)
      BY <1>5 DEF BrowserTest, BrowserOk
  <2>2. record'.iteration = record.iteration
      BY <1>0, <1>5 DEF BrowserTest, Records
  <2>3. NextState("BROWSER_TEST", ok) \in {"VISUAL_REVIEW", "ANALYZE_FAILURE"}
      OBVIOUS
  <2> QED
      BY <1>5, <2>1, <2>2, <2>3, AfterStepFlow DEF BrowserTest
<1>6. CASE VisualReview
  <2>1. PICK ok \in BOOLEAN : AfterStep(NextState("VISUAL_REVIEW", ok), history)
      BY <1>6 DEF VisualReview
  <2>2. record'.iteration = record.iteration
      BY <1>0, <1>6 DEF VisualReview, Records
  <2>3. NextState("VISUAL_REVIEW", ok) \in {"REVIEW", "ANALYZE_FAILURE"}
      OBVIOUS
  <2> QED
      BY <1>6, <2>1, <2>2, <2>3, AfterStepFlow DEF VisualReview
<1>7. CASE Review
  <2>1. PICK next \in {"BLOCKED", "PASS", "ANALYZE_FAILURE"} : AfterStep(next, history)
      BY <1>7 DEF Review
  <2>2. record'.iteration = record.iteration
      BY <1>0, <1>7 DEF Review, Records
  <2> QED
      BY <1>7, <2>1, <2>2, AfterStepFlow DEF Review
<1>8. CASE AnalyzeFailure
  <2>1. AfterStep("CREATE_FIX_PLAN",
                  Recorded(history, record.iteration, FailureSignature(record)))
      BY <1>8 DEF AnalyzeFailure
  <2> QED
      BY <1>8, <2>1, AfterStepFlow DEF AnalyzeFailure
<1>9. CASE CreateFixPlan
  <2>1. AfterStep("IMPLEMENT_FIX", history)
      BY <1>9 DEF CreateFixPlan
  <2> QED
      BY <1>9, <2>1, AfterStepFlow DEF CreateFixPlan
<1> QED
    BY <1>1, <1>2, <1>3, <1>4, <1>5, <1>6, <1>7, <1>8, <1>9 DEF Handler

\* A handler that raises, and what an interrupted one has already done.
LEMMA PartialFlow ==
    ASSUME TypeOK, PartialEffects
    PROVE  /\ record'.iteration = record.iteration
           /\ codeRev' = IF state \in CoderStates THEN codeRev + 1 ELSE codeRev
           /\ servers' \subseteq servers \cup {record.iteration}
<1>1. record \in Records
    BY DEF TypeOK
<1>2. \A r \in PartialRecords : r.iteration = record.iteration
    BY <1>1 DEF PartialRecords, Records
<1> QED
    BY <1>2 DEF PartialEffects

LEMMA RaiseFlow ==
    ASSUME TypeOK, StepRaises
    PROVE  /\ phase = "BODY" /\ phase' = "EXIT" /\ state' = "BLOCKED"
           /\ history' = history /\ finalStatus' = finalStatus
           /\ iterations' = Append(iterations, record.iteration)
           /\ blockReason' \in {"agent_failure", "unexpected_error"}
           /\ record'.iteration = record.iteration
           /\ codeRev' = IF state \in CoderStates THEN codeRev + 1 ELSE codeRev
           /\ servers' \subseteq servers \cup {record.iteration}
BY PartialFlow DEF StepRaises, memory

-----------------------------------------------------------------------------
(* Each part is preserved *)

LEMMA ControlNext == TypeOK /\ Control /\ [Next]_vars => Control'
<1> SUFFICES ASSUME TypeOK, Control, [Next]_vars PROVE Control'
    OBVIOUS
<1> USE DEF Control, InLoop, ValveNeverTrips
<1>0. steps \in Nat /\ MaxStepsPerIteration \in Nat
    BY LimitsAssumption DEF TypeOK
<1>1. \A s \in LoopStates : Rank(s) \in 1..9
    BY Ranks DEF LoopStates, CoderStates, VerifyingStates
<1>2. CASE Preamble
    BY <1>2 DEF Preamble, InitRepoFails, RefuseDirty, CreateBranchFails, RefuseToStart,
        InitialisedRepo, CreateBranch, PlannerPlans, PlannerFails, PlannerRaises, memory, loopVars,
        Fresh, LoopStates, CoderStates
<1>3. CASE StartIteration
  <2>1. state \in CoderStates
      BY <1>3 DEF StartIteration, StartsIteration, AtBoundary, Fresh, CoderStates
  <2>2. phase' = "BODY" /\ steps' = 1 /\ state' = state /\ blockReason' = blockReason
      BY <1>3 DEF StartIteration
  <2> QED
      BY <2>1, <2>2, <1>1, Ranks DEF LoopStates
<1>4. CASE ExhaustBudget
    BY <1>4 DEF ExhaustBudget
<1>5. CASE ContinueIteration
  <2>1. state \in LoopStates \ CoderStates /\ steps # 0
      BY <1>5 DEF ContinueIteration, StartsIteration, AtBoundary
  <2>2. phase' = "BODY" /\ steps' = steps + 1 /\ state' = state /\ blockReason' = blockReason
        /\ phase = "HEAD"
      BY <1>5 DEF ContinueIteration
  <2> QED
      BY <2>1, <2>2, <1>0
<1>6. CASE TripSafetyValve
  <2>1. state \in LoopStates \ CoderStates /\ phase = "HEAD"
      BY <1>6 DEF TripSafetyValve, StartsIteration, AtBoundary
  <2>2. ~(MaxStepsPerIteration >= 9)
      BY <1>0, <1>1, <1>6, <2>1 DEF TripSafetyValve
  <2> QED
      BY <1>6, <2>2 DEF TripSafetyValve
<1>7. CASE Handler
  <2>1. steps' # 0 /\ (phase' = "HEAD" /\ state' \notin CoderStates => steps' + 1 <= Rank(state'))
      BY <1>0, <1>1, <1>7, HandlerFlow
  <2> QED
      BY <1>7, <2>1, HandlerFlow
<1>8. CASE StepRaises
    BY <1>8, RaiseFlow
<1>9. CASE Return \/ CrashOutsideTry \/ Interrupt
    BY <1>9 DEF Return, CrashOutsideTry, CrashOpeningLogs, CrashInCleanup, Interrupt
<1>10. CASE ServerExits
    BY <1>10 DEF ServerExits, Fresh, memory, loopVars
<1>11. CASE UNCHANGED vars
    BY <1>11 DEF vars, memory, loopVars, Fresh
<1> QED
    BY <1>2, <1>3, <1>4, <1>5, <1>6, <1>7, <1>8, <1>9, <1>10, <1>11
       DEF Next, Run, LoopHead, Step, Handler

LEMMA CountingNext == TypeOK /\ Control /\ Counting /\ [Next]_vars => Counting'
<1> SUFFICES ASSUME TypeOK, Control, Counting, [Next]_vars PROVE Counting'
    OBVIOUS
<1> USE DEF Counting, InLoop, CoderToRun, CoderWithinBudget
<1>0. /\ iteration \in Nat /\ codeRev \in Nat /\ MaxIterations \in Nat
      /\ record.iteration \in Nat
    BY LimitsAssumption DEF TypeOK, Records
<1>1. CASE Preamble
    BY <1>0, <1>1 DEF Preamble, InitRepoFails, RefuseDirty, CreateBranchFails, RefuseToStart,
        InitialisedRepo, CreateBranch, PlannerPlans, PlannerFails, PlannerRaises, memory, loopVars,
        Control, Fresh
<1>2. CASE StartIteration
  <2>1. state \in CoderStates /\ codeRev = iteration
      BY <1>2 DEF StartIteration, StartsIteration, AtBoundary, Fresh, CoderStates, Control
  <2>2. record'.iteration = iteration + 1
      BY <1>2 DEF StartIteration, NewRecord
  <2> QED
      BY <1>0, <1>2, <2>1, <2>2 DEF StartIteration
<1>3. CASE ExhaustBudget \/ TripSafetyValve \/ Return \/ CrashOutsideTry
    BY <1>3 DEF ExhaustBudget, TripSafetyValve, Return, CrashOutsideTry, CrashOpeningLogs,
              CrashInCleanup
<1>4. CASE ContinueIteration
    BY <1>4 DEF ContinueIteration, StartsIteration, AtBoundary, CoderStates
<1>5. CASE Handler
  <2>1. codeRev' <= iteration /\ (phase' = "HEAD" => codeRev' = iteration)
      BY <1>0, <1>5, HandlerFlow
  <2> QED
      BY <1>0, <1>5, <2>1, HandlerFlow
<1>6. CASE StepRaises
    BY <1>0, <1>6, RaiseFlow
<1>7. CASE Interrupt
  <2>1. codeRev' <= MaxIterations
      BY <1>0, <1>7, PartialFlow DEF Interrupt
  <2> QED
      BY <1>7, <2>1 DEF Interrupt
<1>8. CASE ServerExits
    BY <1>8 DEF ServerExits, memory, loopVars
<1>9. CASE UNCHANGED vars
    BY <1>9 DEF vars, memory, loopVars
<1> QED
    BY <1>1, <1>2, <1>3, <1>4, <1>5, <1>6, <1>7, <1>8, <1>9
       DEF Next, Run, LoopHead, Step, Handler

LEMMA LedgerNext ==
    TypeOK /\ Control /\ Counting /\ Ledger /\ [Next]_vars => Ledger'
<1> SUFFICES ASSUME TypeOK, Control, Counting, Ledger, [Next]_vars PROVE Ledger'
    OBVIOUS
<1> USE DEF Ledger, InLoop, EachFailureRecordedOnce
<1>0. /\ iteration \in Nat /\ codeRev \in Nat /\ history \in Seq(Outcomes)
      /\ record \in Records /\ record.iteration \in Nat /\ Len(history) \in Nat
      /\ DOMAIN history = 1..Len(history)
    BY DEF TypeOK, Records
<1>1. CASE Preamble
  <2>1. UNCHANGED <<history, iteration, record, state>> /\ phase' # "BODY"
      BY <1>1 DEF Preamble, InitRepoFails, RefuseDirty, CreateBranchFails, RefuseToStart,
          InitialisedRepo, CreateBranch, PlannerPlans, PlannerFails, PlannerRaises, memory, loopVars
  <2>2. phase' = "HEAD" => Fresh
      BY <1>1 DEF Preamble, InitRepoFails, RefuseDirty, CreateBranchFails, RefuseToStart,
          InitialisedRepo, CreateBranch, PlannerPlans, PlannerFails, PlannerRaises, Control
  <2>3. phase' = "HEAD" => Len(history) = 0 /\ iteration = 0 /\ state \in CoderStates
      BY <2>2 DEF Fresh, CoderStates
  <2> QED
      BY <2>1, <2>3
<1>2. CASE StartIteration
  <2>1. state \in CoderStates /\ Len(history) = iteration
      BY <1>0, <1>2 DEF StartIteration, StartsIteration, AtBoundary, Fresh, CoderStates, Control
  <2>2. record'.iteration = iteration + 1 /\ history' = history /\ iteration' = iteration + 1
        /\ state' = state /\ phase' = "BODY"
      BY <1>2 DEF StartIteration, NewRecord, memory
  <2>3. state # "CREATE_FIX_PLAN"
      BY <2>1 DEF CoderStates
  <2> QED
      BY <1>0, <2>1, <2>2, <2>3
<1>3. CASE ExhaustBudget \/ TripSafetyValve \/ Return \/ CrashOutsideTry
    BY <1>3 DEF ExhaustBudget, TripSafetyValve, Return, CrashOutsideTry, CrashOpeningLogs,
              CrashInCleanup, memory, loopVars
<1>4. CASE ContinueIteration
  <2>1. state \notin CoderStates /\ state' = state /\ phase = "HEAD" /\ phase' = "BODY"
      BY <1>4 DEF ContinueIteration, StartsIteration, AtBoundary
  <2>2. UNCHANGED <<history, iteration, record>>
      BY <1>4 DEF ContinueIteration, memory
  <2> QED
      BY <2>1, <2>2
<1>5. CASE Handler /\ state = "ANALYZE_FAILURE"
  <2> DEFINE h == Recorded(history, record.iteration, FailureSignature(record))
  <2>1. phase = "BODY" /\ history' = h /\ phase' \in {"HEAD", "EXIT"}
        /\ (phase' = "HEAD" => state' = "CREATE_FIX_PLAN")
        /\ iteration' = iteration /\ record'.iteration = record.iteration
      BY <1>5, HandlerFlow
  <2>2. /\ h \in Seq(Outcomes) /\ Len(h) = Len(history) + 1
        /\ \A i \in 1..Len(history) : h[i] = history[i]
        /\ h[Len(history) + 1].iteration = record.iteration
      BY <1>0, SignatureType, RecordedType
  <2>3. Len(history) = iteration - 1 /\ iteration = record.iteration
      BY <1>5, <2>1 DEF Counting
  <2> HIDE DEF h
  <2>4. DOMAIN h = 1..Len(h)
      BY <2>2
  <2>5. \A i \in DOMAIN h : h[i].iteration = i
      BY <1>0, <2>2, <2>3, <2>4
  <2> QED
      BY <1>0, <2>1, <2>2, <2>3, <2>5
<1>6. CASE Handler /\ state # "ANALYZE_FAILURE"
  <2>1. /\ phase = "BODY" /\ history' = history /\ phase' \in {"HEAD", "EXIT"}
        /\ iteration' = iteration /\ record'.iteration = record.iteration
        /\ (phase' = "HEAD" => (state' \in CoderStates \/ state' = "CREATE_FIX_PLAN")
                                 <=> state = "CREATE_FIX_PLAN")
      BY <1>6, HandlerFlow DEF LoopStates, CoderStates
  <2> QED
      BY <1>0, <2>1
<1>7. CASE StepRaises
    BY <1>7, RaiseFlow
<1>8. CASE Interrupt
  <2>1. record'.iteration = record.iteration
      BY <1>8, PartialFlow DEF Interrupt
  <2> QED
      BY <1>8, <2>1 DEF Interrupt, memory
<1>9. CASE ServerExits
    BY <1>9 DEF ServerExits, memory, loopVars
<1>10. CASE UNCHANGED vars
    BY <1>10 DEF vars, memory, loopVars
<1> QED
    BY <1>1, <1>2, <1>3, <1>4, <1>5, <1>6, <1>7, <1>8, <1>9, <1>10
       DEF Next, Run, LoopHead, Step, Handler

LEMMA ServersNext == TypeOK /\ Control /\ ServersContained /\ [Next]_vars => ServersContained'
<1> SUFFICES ASSUME TypeOK, Control, ServersContained, [Next]_vars PROVE ServersContained'
    OBVIOUS
<1> USE DEF ServersContained
<1>1. CASE Preamble
  <2>1. Fresh /\ UNCHANGED <<servers, record>>
      BY <1>1 DEF Preamble, InitRepoFails, RefuseDirty, CreateBranchFails, RefuseToStart,
          InitialisedRepo, CreateBranch, PlannerPlans, PlannerFails, PlannerRaises, loopVars,
          Control
  <2> QED
      BY <2>1 DEF Fresh
<1>2. CASE StartIteration
  <2>1. servers' = {} /\ phase' = "BODY"
      BY <1>2 DEF StartIteration, ServersAfterBoundary, StartsIteration, AtBoundary,
          Control, Fresh
  <2> QED
      BY <2>1
<1>3. CASE ExhaustBudget
    BY <1>3 DEF ExhaustBudget, ServersAfterBoundary
<1>4. CASE ContinueIteration \/ TripSafetyValve
    BY <1>4 DEF ContinueIteration, TripSafetyValve
<1>5. CASE Handler
    BY <1>5, HandlerFlow
<1>6. CASE StepRaises
    BY <1>6, RaiseFlow
<1>7. CASE Return
    BY <1>7 DEF Return, loopVars
<1>8. CASE CrashOutsideTry
    BY <1>8 DEF CrashOutsideTry, CrashOpeningLogs, CrashInCleanup, ServersAfterBoundary, loopVars
<1>9. CASE Interrupt
  <2>1. record'.iteration = record.iteration /\ servers' \subseteq servers \cup {record.iteration}
      BY <1>9, PartialFlow DEF Interrupt
  <2> QED
      BY <1>9, <2>1 DEF Interrupt
<1>10. CASE ServerExits
    BY <1>10 DEF ServerExits, loopVars
<1>11. CASE UNCHANGED vars
    BY <1>11 DEF vars, loopVars
<1> QED
    BY <1>1, <1>2, <1>3, <1>4, <1>5, <1>6, <1>7, <1>8, <1>9, <1>10, <1>11
       DEF Next, Run, LoopHead, Step, Handler

LEMMA FlagNext == TypeOK /\ Control /\ FlagIsCurrent /\ [Next]_vars => FlagIsCurrent'
<1> SUFFICES ASSUME TypeOK, Control, FlagIsCurrent, [Next]_vars PROVE FlagIsCurrent'
    OBVIOUS
<1> USE DEF FlagIsCurrent, InLoop, ForceNow
<1>1. CASE Preamble
    BY <1>1 DEF Preamble, InitRepoFails, RefuseDirty, CreateBranchFails, RefuseToStart,
        InitialisedRepo, CreateBranch, PlannerPlans, PlannerFails, PlannerRaises, loopVars,
        memory, Control, Fresh
<1>2. CASE LoopHead
    BY <1>2 DEF LoopHead, StartIteration, ExhaustBudget, ContinueIteration, TripSafetyValve, memory
<1>3. CASE Handler
    BY <1>3, HandlerFlow
<1>4. CASE StepRaises
    BY <1>4, RaiseFlow
<1>5. CASE Return \/ CrashOutsideTry \/ Interrupt
    BY <1>5 DEF Return, CrashOutsideTry, CrashOpeningLogs, CrashInCleanup, Interrupt
<1>6. CASE ServerExits
    BY <1>6 DEF ServerExits, loopVars, memory
<1>7. CASE UNCHANGED vars
    BY <1>7 DEF vars, loopVars, memory
<1> QED
    BY <1>1, <1>2, <1>3, <1>4, <1>5, <1>6, <1>7 DEF Next, Run, Step, Handler

\* What ResultKeepsEveryIteration asks of a list, and the two lists that give
\* it: 1..n in order, and that list with n appended once more.
AllInOrder(t, n) ==
    /\ {t[i] : i \in DOMAIN t} = 1..n
    /\ \A i, j \in DOMAIN t : i < j => t[i] <= t[j]

LEMMA CountedInOrder ==
    ASSUME NEW t \in Seq(Nat), \A i \in 1..Len(t) : t[i] = i
    PROVE  AllInOrder(t, Len(t))
<1>1. Len(t) \in Nat /\ DOMAIN t = 1..Len(t)
    OBVIOUS
<1> QED
    BY <1>1 DEF AllInOrder

LEMMA AppendInOrder ==
    ASSUME NEW t \in Seq(Nat), NEW n \in Nat \ {0}, Len(t) \in {n, n - 1},
           \A i \in 1..Len(t) : t[i] = i
    PROVE  AllInOrder(Append(t, n), n)
<1> DEFINE u == Append(t, n)
<1>1. Len(t) \in Nat /\ DOMAIN u = 1..(Len(t) + 1)
      /\ (\A i \in 1..Len(t) : u[i] = i) /\ u[Len(t) + 1] = n
    OBVIOUS
<1> HIDE DEF u
<1>2. \A i, j \in DOMAIN u : i < j => u[i] <= u[j]
    BY <1>1
<1>3. \A i \in DOMAIN u : u[i] \in 1..n
    BY <1>1
<1>4. \A k \in 1..n : k \in DOMAIN u /\ u[k] = k
    BY <1>1
<1>5. {u[i] : i \in DOMAIN u} = 1..n
    BY <1>3, <1>4
<1> QED
    BY <1>2, <1>5 DEF AllInOrder, u

LEMMA ResultsNext ==
    TypeOK /\ Control /\ Counting /\ Results /\ [Next]_vars => Results'
<1> SUFFICES ASSUME TypeOK, Control, Counting, Results, [Next]_vars PROVE Results'
    OBVIOUS
<1> USE DEF Results, InLoop, ResultKeepsEveryIteration
<1>0. /\ iteration \in Nat /\ codeRev \in Nat /\ record.iteration \in Nat
      /\ iterations \in Seq(Nat) /\ Len(iterations) \in Nat
      /\ DOMAIN iterations = 1..Len(iterations)
    BY DEF TypeOK, Records
<1>1. CASE Preamble
  <2>1. Fresh /\ UNCHANGED <<iterations, record, codeRev>> /\ phase' # "EXIT"
      BY <1>1 DEF Preamble, InitRepoFails, RefuseDirty, CreateBranchFails, RefuseToStart,
          InitialisedRepo, CreateBranch, PlannerPlans, PlannerFails, PlannerRaises, loopVars,
          Control
  <2>2. iterations = <<>> /\ codeRev = 0 /\ record.iteration = 0 /\ Len(iterations) = 0
      BY <2>1 DEF Fresh
  <2>3. {iterations[i] : i \in DOMAIN iterations} = 1..record.iteration
      BY <1>0, <2>2
  <2> QED
      BY <1>0, <2>1, <2>2, <2>3
<1>2. CASE StartIteration
    BY <1>2 DEF StartIteration
<1>3. ASSUME phase = "HEAD"
      PROVE  AllInOrder(iterations, record.iteration)
  <2>1. Len(iterations) = record.iteration
      BY <1>3 DEF Counting, CoderToRun
  <2> QED
      BY <1>0, <1>3, <2>1, CountedInOrder
<1>4. CASE ExhaustBudget \/ TripSafetyValve
    BY <1>3, <1>4 DEF ExhaustBudget, TripSafetyValve, AllInOrder
<1>5. CASE ContinueIteration
    BY <1>5 DEF ContinueIteration
<1>6. ASSUME phase = "BODY"
      PROVE  /\ record.iteration # 0
             /\ Len(iterations) = IF state \in CoderStates THEN record.iteration - 1
                                                           ELSE record.iteration
             /\ \A i \in 1..Len(iterations) : iterations[i] = i
    BY <1>0, <1>6 DEF Counting, CoderToRun
<1>7. CASE Handler
  <2>1. /\ phase = "BODY" /\ iterations' = Tracked /\ record'.iteration = record.iteration
        /\ phase' \in {"HEAD", "EXIT"}
        /\ codeRev' = IF state \in CoderStates THEN codeRev + 1 ELSE codeRev
      BY <1>7, HandlerFlow
  <2>2. CASE state \in CoderStates
    <3>1. iterations' = Append(iterations, record.iteration)
        BY <1>0, <1>6, <2>1, <2>2 DEF Tracked
    <3>2. AllInOrder(iterations', record.iteration)
        BY <1>0, <1>6, <2>1, <2>2, <3>1, AppendInOrder
    <3>3. Len(iterations') = codeRev'
          /\ \A i \in 1..Len(iterations') : iterations'[i] = i
        BY <1>0, <1>6, <2>1, <2>2, <3>1
    <3> QED
        BY <2>1, <3>2, <3>3 DEF AllInOrder
  <2>3. CASE state \notin CoderStates
    <3>1. iterations' = iterations
        BY <1>0, <1>6, <2>1, <2>3 DEF Tracked
    <3>2. AllInOrder(iterations, record.iteration)
        BY <1>0, <1>6, <2>1, <2>3, CountedInOrder
    <3> QED
        BY <2>1, <2>3, <3>1, <3>2 DEF AllInOrder
  <2> QED
      BY <2>2, <2>3
<1>8. CASE StepRaises
  <2>1. /\ phase = "BODY" /\ phase' = "EXIT" /\ record'.iteration = record.iteration
        /\ iterations' = Append(iterations, record.iteration)
      BY <1>8, RaiseFlow
  <2>2. AllInOrder(iterations', record.iteration)
      BY <1>0, <1>6, <2>1, AppendInOrder
  <2> QED
      BY <2>1, <2>2 DEF AllInOrder
<1>9. CASE Return
    BY <1>9 DEF Return, loopVars
<1>10. CASE CrashOutsideTry \/ Interrupt
    BY <1>10 DEF CrashOutsideTry, CrashOpeningLogs, CrashInCleanup, Interrupt
<1>11. CASE ServerExits
    BY <1>11 DEF ServerExits, loopVars
<1>12. CASE UNCHANGED vars
    BY <1>12 DEF vars, loopVars
<1> QED
    BY <1>1, <1>2, <1>4, <1>5, <1>7, <1>8, <1>9, <1>10, <1>11, <1>12
       DEF Next, Run, LoopHead, Step, Handler

LEMMA EvidenceNext == TypeOK /\ Control /\ Evidence /\ [Next]_vars => Evidence'
<1> SUFFICES ASSUME TypeOK, Control, Evidence, [Next]_vars PROVE Evidence'
    OBVIOUS
<1> USE Transitions DEF Evidence, InLoop, InBody
<1>0. record \in Records
    BY DEF TypeOK
<1>1. finalStatus = "READY_FOR_HUMAN_REVIEW" => phase = "RETURNED"
    OBVIOUS
<1>2. CASE Preamble
    BY <1>2 DEF Preamble, InitRepoFails, RefuseDirty, CreateBranchFails, RefuseToStart,
        InitialisedRepo, CreateBranch, PlannerPlans, PlannerFails, PlannerRaises, loopVars,
        Control, Fresh,
        VerifyingStates
<1>3. CASE StartIteration
  <2>1. state \in CoderStates /\ state' = state /\ phase' = "BODY" /\ finalStatus' = finalStatus
      BY <1>3 DEF StartIteration, StartsIteration, AtBoundary, Fresh, CoderStates, Control
  <2> QED
      BY <1>3, <2>1 DEF StartIteration, CoderStates, VerifyingStates
<1>4. CASE ExhaustBudget \/ TripSafetyValve
    BY <1>4 DEF ExhaustBudget, TripSafetyValve
<1>5. CASE ContinueIteration
  <2>1. UNCHANGED <<state, record, codeRev, finalStatus>> /\ phase = "HEAD" /\ phase' = "BODY"
      BY <1>5 DEF ContinueIteration
  <2> QED
      BY <2>1 DEF BuildOk, FailedChecks
<1>6. CASE Handler
  <2>1. finalStatus' # "READY_FOR_HUMAN_REVIEW" /\ phase = "BODY" /\ phase' \in {"HEAD", "EXIT"}
      BY <1>6, HandlerFlow
  <2>2. ASSUME NEW next, NEW h, AfterStep(next, h)
        PROVE  (phase' = "HEAD" \/ state' = "PASS") => state' = next
      BY <2>2, AfterStepFlow
  <2> USE DEF VerifyingStates
  <2>3. CASE Implement
    <3>1. AfterStep("STATIC_TEST", history)
        BY <2>3 DEF Implement, CoderStates
    <3> QED
        BY <2>1, <2>2, <3>1
  <2>4. CASE StaticTest
    <3>1. AfterStep(NextState("STATIC_TEST", StaticChecksOk(record')), history)
        BY <2>4 DEF StaticTest
    <3>2. record'.tested = codeRev /\ codeRev' = codeRev
        BY <1>0, <2>4 DEF StaticTest, Records
    <3>3. StaticChecksOk(record') \/ NextState("STATIC_TEST", StaticChecksOk(record')) = "ANALYZE_FAILURE"
        BY DEF StaticChecksOk
    <3>4. NextState("STATIC_TEST", StaticChecksOk(record')) \in {"BUILD", "ANALYZE_FAILURE"}
        BY DEF StaticChecksOk
    <3> QED
        BY <2>1, <2>2, <3>1, <3>2, <3>3, <3>4 DEF StaticChecksOk
  <2>5. CASE Build
    <3>1. AfterStep(NextState("BUILD", BuildOk(record)), history)
          /\ record' = record /\ codeRev' = codeRev /\ state = "BUILD"
        BY <2>5 DEF Build
    <3>2. NextState("BUILD", BuildOk(record)) = IF BuildOk(record) THEN "START_APP"
                                                                  ELSE "ANALYZE_FAILURE"
        BY DEF BuildOk
    <3> QED
        BY <2>1, <2>2, <3>1, <3>2 DEF BuildOk, FailedChecks
  <2>6. CASE StartApp
    <3>1. PICK ok \in BOOLEAN : AfterStep(NextState("START_APP", ok), history)
        BY <2>6 DEF StartApp
    <3>2. record' = record /\ codeRev' = codeRev /\ state = "START_APP"
        BY <2>6 DEF StartApp
    <3>3. NextState("START_APP", ok) \in {"BROWSER_TEST", "ANALYZE_FAILURE"}
        OBVIOUS
    <3> QED
        BY <2>1, <2>2, <3>1, <3>2, <3>3 DEF BuildOk, FailedChecks
  <2>7. CASE BrowserTest
    <3>1. AfterStep(NextState("BROWSER_TEST", BrowserOk(record')), history)
          /\ codeRev' = codeRev /\ state = "BROWSER_TEST"
        BY <2>7 DEF BrowserTest
    <3>2. PICK results \in BrowserResults :
             record' = [record EXCEPT !.browsed = codeRev, !.pages = results]
        BY <2>7 DEF BrowserTest
    <3>3. record'.browsed = codeRev /\ record'.pages = results
          /\ record'.tested = record.tested /\ record'.checks = record.checks
        BY <1>0, <3>2 DEF Records
    <3>4. BrowserOk(record') => \A v \in Viewports : record'.pages[v] = "OK"
        BY <3>3 DEF BrowserOk, FailedPages, BrowserResults
    <3>5. NextState("BROWSER_TEST", BrowserOk(record')) = IF BrowserOk(record')
                                                         THEN "VISUAL_REVIEW" ELSE "ANALYZE_FAILURE"
        BY DEF BrowserOk
    <3>6. FailedChecks(record') = FailedChecks(record) /\ BuildOk(record') = BuildOk(record)
        BY <3>3 DEF FailedChecks, BuildOk
    <3> QED
        BY <2>1, <2>2, <3>1, <3>3, <3>4, <3>5, <3>6
  <2>8. CASE VisualReview
    <3>1. PICK outcome \in {"CLEAN", "ISSUES", "SKIPPED"} :
             /\ record' = [record EXCEPT !.visual = outcome]
             /\ AfterStep(NextState("VISUAL_REVIEW", outcome # "ISSUES"), history)
        BY <2>8 DEF VisualReview
    <3>2. codeRev' = codeRev /\ state = "VISUAL_REVIEW"
        BY <2>8 DEF VisualReview
    <3>3. record'.visual = outcome
          /\ record'.browsed = record.browsed /\ record'.pages = record.pages
          /\ record'.tested = record.tested /\ record'.checks = record.checks
        BY <1>0, <3>1 DEF Records
    <3>4. NextState("VISUAL_REVIEW", outcome # "ISSUES") = IF outcome # "ISSUES"
                                                         THEN "REVIEW" ELSE "ANALYZE_FAILURE"
        OBVIOUS
    <3>5. FailedChecks(record') = FailedChecks(record) /\ BuildOk(record') = BuildOk(record)
        BY <3>3 DEF FailedChecks, BuildOk
    <3> QED
        BY <2>1, <2>2, <3>1, <3>2, <3>3, <3>4, <3>5
  <2>9. CASE Review
    <3>1. PICK answer \in ReviewVerdicts \ {"OVERRULED"} :
             LET verdict == HardFail(answer, record) IN
             /\ record' = [record EXCEPT !.reviewed = codeRev, !.verdict = verdict]
             /\ AfterStep(IF verdict = "BLOCKED" THEN "BLOCKED"
                          ELSE NextState("REVIEW", verdict = "PASS"), history)
        BY <2>9 DEF Review
    <3> DEFINE verdict == HardFail(answer, record)
               next == IF verdict = "BLOCKED" THEN "BLOCKED"
                       ELSE NextState("REVIEW", verdict = "PASS")
    <3>2. codeRev' = codeRev /\ state = "REVIEW"
        BY <2>9 DEF Review
    <3>3. record'.reviewed = codeRev /\ record'.verdict = verdict
          /\ record'.visual = record.visual
          /\ record'.browsed = record.browsed /\ record'.pages = record.pages
          /\ record'.tested = record.tested /\ record'.checks = record.checks
        BY <1>0, <3>1 DEF Records
    <3>4. next \in {"BLOCKED", "PASS", "ANALYZE_FAILURE"} /\ (next = "PASS" => verdict = "PASS")
        OBVIOUS
    <3>5. BuildOk(record) => "build" \notin FailedChecks(record)
        BY DataAssumption DEF BuildOk, FailedChecks, Marks
    <3>6. FailedChecks(record') = FailedChecks(record) /\ BuildOk(record') = BuildOk(record)
        BY <3>3 DEF FailedChecks, BuildOk
    <3>7. AfterStep(next, history)
        BY <3>1
    <3> HIDE DEF next, verdict
    <3>8. verdict = "PASS" => Earned'
        BY <2>1, <3>2, <3>3, <3>5, <3>6 DEF Earned
    <3> QED
        BY <2>1, <2>2, <3>4, <3>7, <3>8
  <2>10. CASE AnalyzeFailure
    <3>1. PICK h : AfterStep("CREATE_FIX_PLAN", h)
        BY <2>10 DEF AnalyzeFailure
    <3> QED
        BY <2>1, <2>2, <3>1
  <2>11. CASE CreateFixPlan
    <3>1. AfterStep("IMPLEMENT_FIX", history)
        BY <2>11 DEF CreateFixPlan
    <3> QED
        BY <2>1, <2>2, <3>1
  <2> QED
      BY <1>6, <2>3, <2>4, <2>5, <2>6, <2>7, <2>8, <2>9, <2>10, <2>11 DEF Handler
<1>7. CASE StepRaises
    BY <1>1, <1>7, RaiseFlow
<1>8. CASE Return
  <2>1. record' = record /\ codeRev' = codeRev /\ phase = "EXIT" /\ phase' = "RETURNED"
        /\ (finalStatus' = "READY_FOR_HUMAN_REVIEW" => state = "PASS")
      BY <1>8 DEF Return, loopVars
  <2> QED
      BY <2>1 DEF Earned, BuildOk, FailedChecks
<1>9. CASE CrashOutsideTry \/ Interrupt
    BY <1>1, <1>9 DEF CrashOutsideTry, CrashOpeningLogs, CrashInCleanup, Interrupt, Ended
<1>10. CASE ServerExits \/ UNCHANGED vars
  <2>1. UNCHANGED <<phase, state, record, codeRev, finalStatus>>
      BY <1>10 DEF ServerExits, vars, loopVars
  <2> QED
      BY <2>1 DEF Earned, BuildOk, FailedChecks
<1> QED
    BY <1>2, <1>3, <1>4, <1>5, <1>6, <1>7, <1>8, <1>9, <1>10
       DEF Next, Run, LoopHead, Step, Handler

-----------------------------------------------------------------------------
(* The theorems *)

LEMMA InitIInv == Init => IInv
<1> SUFFICES ASSUME Init PROVE IInv
    OBVIOUS
<1>1. TypeOK
    BY InitType
<1>2. record.iteration = 0
    BY DEF Init, NewRecord
<1>3. Fresh /\ phase = "START" /\ finalStatus = "BLOCKED"
    BY <1>2 DEF Init, Fresh
<1>4. ~InLoop /\ phase # "EXIT" /\ phase # "RETURNED"
    BY <1>3 DEF InLoop
<1>5. Control
    BY <1>3, <1>4 DEF Control, ValveNeverTrips, Fresh, InLoop
<1>6. ServersContained /\ FlagIsCurrent
    BY <1>3, <1>4 DEF ServersContained, FlagIsCurrent, Fresh
<1>7. Evidence
    BY <1>3, <1>4 DEF Evidence
<1>8. Results
    BY <1>4 DEF Results, ResultKeepsEveryIteration
<1>9. Counting
  <2>1. 0 <= MaxIterations
      BY LimitsAssumption
  <2>2. codeRev = 0
      BY DEF Init
  <2> QED
      BY <1>4, <2>1, <2>2 DEF Counting, CoderWithinBudget
<1>10. Ledger
  <2>1. history = <<>>
      BY DEF Init
  <2>2. Len(history) = 0 /\ \A i : i \notin DOMAIN history
      BY <2>1
  <2> QED
      BY <1>2, <1>4, <2>2 DEF Ledger, EachFailureRecordedOnce
<1> QED
    BY <1>1, <1>5, <1>6, <1>7, <1>8, <1>9, <1>10 DEF IInv

LEMMA NextIInv == IInv /\ [Next]_vars => IInv'
BY NextType, ControlNext, CountingNext, LedgerNext, ServersNext, EvidenceNext, FlagNext,
   ResultsNext DEF IInv

\* The inductive invariant holds of every run.
THEOREM Invariance == Spec => []IInv
<1> QED
    BY InitIInv, NextIInv, PTL DEF Spec

\* READY_FOR_HUMAN_REVIEW is only ever reported over a full set of passing
\* evidence for the code as the Coder left it, whatever the checks, viewports
\* and limits.
THEOREM ReadyIsEarnedHolds == Spec => []ReadyIsEarned
<1>1. IInv => ReadyIsEarned
    BY DEF IInv, Evidence, ReadyIsEarned
<1> QED
    BY <1>1, Invariance, PTL

\* With a valve of nine steps or more (the code's is twelve) no run is ended by it.
THEOREM ValveNeverTripsHolds == Spec => []ValveNeverTrips
<1>1. IInv => ValveNeverTrips
    BY DEF IInv, Control
<1> QED
    BY <1>1, Invariance, PTL

\* The failure memory holds one outcome per failed iteration, in order.
THEOREM EachFailureRecordedOnceHolds == Spec => []EachFailureRecordedOnce
<1>1. IInv => EachFailureRecordedOnce
    BY DEF IInv, Ledger
<1> QED
    BY <1>1, Invariance, PTL

\* The Coder runs at most max_iterations times.
THEOREM CoderWithinBudgetHolds == Spec => []CoderWithinBudget
<1>1. IInv => CoderWithinBudget
    BY DEF IInv, Counting
<1> QED
    BY <1>1, Invariance, PTL

\* No iteration is missing from the result of a run that left its loop.
THEOREM ResultKeepsEveryIterationHolds == Spec => []ResultKeepsEveryIteration
<1>1. IInv => ResultKeepsEveryIteration
    BY DEF IInv, Results
<1> QED
    BY <1>1, Invariance, PTL

\* At most one dev server is tracked, and none after run() returns.
THEOREM ServersContainedHolds == Spec => []ServersContained
<1>1. IInv => ServersContained
    BY DEF IInv
<1> QED
    BY <1>1, Invariance, PTL

\* A Coder attempt after a repeated failure is told so: every step that leaves
\* IMPLEMENT_FIX for STATIC_TEST is Implement, and the flag it reads is current.
THEOREM RepeatReachesCoderHolds == Spec => RepeatReachesCoder
<1> DEFINE Told == (phase = "BODY" /\ state = "IMPLEMENT_FIX" /\ state' = "STATIC_TEST"
                      /\ Warns(history)) => instruction'.warned
<1>1. IInv /\ [Next]_vars => [Told]_vars
  <2> SUFFICES ASSUME IInv, Next, phase = "BODY", state = "IMPLEMENT_FIX",
                      state' = "STATIC_TEST", Warns(history)
               PROVE  instruction'.warned
      OBVIOUS
  <2>1. forced
      BY DEF IInv, FlagIsCurrent, InLoop, Warns, SummaryWarns, ForceNow
  <2>2. ~Preamble /\ ~LoopHead /\ ~Return /\ ~CrashOutsideTry
      BY DEF Preamble, InitRepoFails, RefuseDirty, CreateBranchFails, RefuseToStart,
          InitialisedRepo, CreateBranch, PlannerPlans, PlannerFails, PlannerRaises, LoopHead,
          StartIteration,
          ExhaustBudget, ContinueIteration, TripSafetyValve, Return, CrashOutsideTry,
          CrashOpeningLogs, CrashInCleanup
  <2>3. ~StepRaises /\ ~Interrupt /\ ~ServerExits
      BY DEF StepRaises, Interrupt, ServerExits, loopVars
  <2>4. ~(StaticTest \/ Build \/ StartApp \/ BrowserTest \/ VisualReview \/ Review
             \/ AnalyzeFailure \/ CreateFixPlan)
      BY DEF StaticTest, Build, StartApp, BrowserTest, VisualReview, Review,
          AnalyzeFailure, CreateFixPlan, InBody
  <2>5. Implement
      BY <2>2, <2>3, <2>4 DEF Next, Run, Step
  <2>6. instruction' = [instruction EXCEPT !.warned = @ \/ (forced /\ Warns(history))]
      BY <2>5 DEF Implement
  <2>7. instruction \in [from : {"PLAN"} \cup VerifyingStates, warned : BOOLEAN]
      BY DEF IInv, TypeOK
  <2> QED
      BY <2>1, <2>6, <2>7
<1> QED
    BY <1>1, Invariance, PTL DEF Spec, RepeatReachesCoder
-----------------------------------------------------------------------------
(* How long a run can be.  RunEnds needs the fairness of the thread; that    *)
(* the loop cannot go on for ever needs none.                                *)

\* At most how many steps of run() are left: two in each state of an iteration,
\* its head and its handler, and what is before and after the loop.
StepsLeft ==
    CASE phase \in Ended   -> 0
      [] phase = "EXIT"    -> 1
      [] phase = "START"   -> 18 * MaxIterations + 4
      [] phase = "PLAN"    -> 18 * MaxIterations + 3
      [] phase = "HEAD" /\ state \in CoderStates ->
            18 * (MaxIterations - iteration) + 2
      [] phase = "HEAD" /\ state \notin CoderStates ->
            18 * (MaxIterations - iteration) + 2 * (9 - Rank(state)) + 4
      [] phase = "BODY"    ->
            18 * (MaxIterations - iteration) + 2 * (9 - Rank(state)) + 3

\* Only the exit of a dev server is a step of the system that does not bring the
\* end of run() nearer, and it does not put it off.
EachStepCounts ==
    [][StepsLeft' < StepsLeft \/ (ServerExits /\ StepsLeft' = StepsLeft)]_vars

\* Only in the Coder's states an iteration is at its first place.
LEMMA LoopStateRanks == \A s \in LoopStates : Rank(s) \in 1..9 /\ (s \in CoderStates <=> Rank(s) = 1)
BY Ranks DEF LoopStates, CoderStates, VerifyingStates

\* The cases of StepsLeft, one by one.
LEMMA StepsLeftCases ==
    /\ phase \in Ended => StepsLeft = 0
    /\ phase = "EXIT" => StepsLeft = 1
    /\ phase = "START" => StepsLeft = 18 * MaxIterations + 4
    /\ phase = "PLAN" => StepsLeft = 18 * MaxIterations + 3
    /\ phase = "HEAD" /\ state \in CoderStates =>
          StepsLeft = 18 * (MaxIterations - iteration) + 2
    /\ phase = "HEAD" /\ state \notin CoderStates =>
          StepsLeft = 18 * (MaxIterations - iteration) + 2 * (9 - Rank(state)) + 4
    /\ phase = "BODY" =>
          StepsLeft = 18 * (MaxIterations - iteration) + 2 * (9 - Rank(state)) + 3
BY DEF StepsLeft, Ended

\* The steps left are within the bound, and only an ended run has none.
LEMMA StepsLeftType ==
    ASSUME IInv
    PROVE  /\ StepsLeft \in 0..18 * MaxIterations + 4
           /\ phase \notin Ended => StepsLeft # 0
           /\ phase \in {"START", "PLAN", "HEAD", "BODY"} => StepsLeft > 1
<1>1. MaxIterations \in Nat /\ iteration \in Nat
    BY LimitsAssumption DEF IInv, TypeOK
<1>2. phase \in {"START", "PLAN", "HEAD", "BODY", "EXIT"} \cup Ended
    BY DEF IInv, TypeOK
<1>3. CASE phase \in {"HEAD", "BODY"}
  <2>1. state \in LoopStates /\ iteration <= MaxIterations
      BY <1>3 DEF IInv, Control, Counting, InLoop
  <2>2. Rank(state) \in 1..9
      BY <2>1, LoopStateRanks
  <2>3. state \in CoderStates => Rank(state) = 1
      BY <2>1, LoopStateRanks
  <2>4. phase = "BODY" => iteration # 0
      BY <1>3 DEF IInv, Counting, InLoop
  <2>5. phase = "HEAD" /\ state \notin CoderStates => iteration # 0 /\ Rank(state) # 1
      BY <1>3, <2>1, LoopStateRanks DEF IInv, Counting, InLoop, CoderStates
  <2> QED
      BY <1>1, <1>3, <2>1, <2>2, <2>4, <2>5, StepsLeftCases DEF Ended
<1>4. CASE phase \notin {"HEAD", "BODY"}
    BY <1>1, <1>2, <1>4, StepsLeftCases DEF Ended
<1> QED
    BY <1>3, <1>4

\* Each step of the orchestrator leaves fewer steps.
LEMMA StepDescends ==
    ASSUME IInv, Next
    PROVE  StepsLeft' < StepsLeft \/ ServerExits
<1>1. MaxIterations \in Nat /\ iteration \in Nat
    BY LimitsAssumption DEF IInv, TypeOK
<1>2. IInv'
    BY NextIInv
<1>3. /\ phase' \in Ended => StepsLeft' = 0
      /\ phase' = "EXIT" => StepsLeft' = 1
      /\ phase' = "PLAN" => StepsLeft' = 18 * MaxIterations + 3
      /\ phase' = "HEAD" /\ state' \in CoderStates =>
            StepsLeft' = 18 * (MaxIterations - iteration') + 2
      /\ phase' = "HEAD" /\ state' \notin CoderStates =>
            StepsLeft' = 18 * (MaxIterations - iteration') + 2 * (9 - Rank(state')) + 4
      /\ phase' = "BODY" =>
            StepsLeft' = 18 * (MaxIterations - iteration') + 2 * (9 - Rank(state')) + 3
    BY DEF StepsLeft, Ended
<1>4. StepsLeft \in Nat
    BY <1>1, StepsLeftType
<1>5. CASE phase \notin Ended /\ phase' \in Ended
    BY <1>3, <1>4, <1>5, StepsLeftType
<1>6. CASE phase \in {"START", "PLAN", "HEAD", "BODY"} /\ phase' = "EXIT"
    BY <1>3, <1>4, <1>6, StepsLeftType
<1>7. CASE Preamble
  <2>1. CASE phase' \in Ended
    <3>1. phase \notin Ended
        BY <1>7 DEF Preamble, InitRepoFails, RefuseDirty, CreateBranchFails, RefuseToStart,
            CreateBranch, PlannerPlans, PlannerFails, PlannerRaises, Ended
    <3> QED
        BY <1>5, <2>1, <3>1
  <2>2. CASE CreateBranch
    <3>1. phase = "START" /\ phase' = "PLAN"
        BY <2>2 DEF CreateBranch
    <3> QED
        BY <1>1, <1>3, <3>1, StepsLeftCases
  <2>3. CASE PlannerPlans
    <3>1. phase = "PLAN" /\ phase' = "HEAD" /\ state' = state /\ iteration' = iteration
        BY <2>3 DEF PlannerPlans, loopVars
    <3>2. state \in CoderStates /\ iteration = 0
        BY <3>1 DEF IInv, Control, Fresh, CoderStates
    <3> QED
        BY <1>1, <1>3, <3>1, <3>2, StepsLeftCases
  <2> QED
      BY <1>7, <2>1, <2>2, <2>3 DEF Preamble, InitRepoFails, RefuseDirty, CreateBranchFails,
         RefuseToStart, PlannerFails, PlannerRaises, Ended
<1>8. CASE StartIteration
  <2>1. phase = "HEAD" /\ phase' = "BODY" /\ iteration' = iteration + 1 /\ state' = state
      BY <1>8 DEF StartIteration
  <2>2. state \in CoderStates
      BY <1>8, <2>1 DEF StartIteration, StartsIteration, AtBoundary, IInv, Control, Fresh, CoderStates
  <2>3. Rank(state) = 1
      BY <2>2, Ranks
  <2> QED
      BY <1>1, <1>3, <2>1, <2>2, <2>3, StepsLeftCases
<1>9. CASE ContinueIteration
  <2>1. phase = "HEAD" /\ phase' = "BODY" /\ iteration' = iteration /\ state' = state
      BY <1>9 DEF ContinueIteration
  <2>2. state \notin CoderStates
      BY <1>9 DEF ContinueIteration, StartsIteration, AtBoundary
  <2>3. Rank(state) \in 1..9
      BY <2>1, LoopStateRanks DEF IInv, Control, InLoop
  <2> QED
      BY <1>1, <1>3, <2>1, <2>2, <2>3, StepsLeftCases
<1>10. CASE ExhaustBudget \/ TripSafetyValve \/ StepRaises
    BY <1>6, <1>10 DEF ExhaustBudget, TripSafetyValve, StepRaises
<1>11. CASE Handler
  <2>1. /\ phase = "BODY" /\ state \in LoopStates /\ phase' \in {"HEAD", "EXIT"}
        /\ iteration' = iteration
        /\ phase' = "HEAD" =>
              /\ state' \in LoopStates
              /\ state' \in CoderStates => state = "CREATE_FIX_PLAN"
              /\ state' \notin CoderStates => Rank(state) + 1 <= Rank(state')
      BY <1>11, HandlerFlow DEF IInv
  <2>2. CASE phase' = "HEAD"
    <3>1. Rank(state) \in 1..9 /\ Rank(state') \in 1..9
        BY <2>1, <2>2, LoopStateRanks
    <3> QED
        BY <1>1, <1>3, <2>1, <2>2, <3>1, StepsLeftCases
  <2> QED
      BY <1>6, <2>1, <2>2
<1>12. CASE Return \/ CrashOutsideTry \/ Interrupt
    BY <1>5, <1>12 DEF Return, CrashOutsideTry, CrashOpeningLogs, CrashInCleanup, Interrupt, Ended
<1> QED
    BY <1>7, <1>8, <1>9, <1>10, <1>11, <1>12 DEF Next, Run, LoopHead, Step, Handler

\* A dev server's exit changes nothing the steps left depend on.
LEMMA ServerExitsKeepsCount == ServerExits => StepsLeft' = StepsLeft
  BY DEF ServerExits, loopVars, StepsLeft

\* No run takes more than 18 * max_iterations + 4 steps, whatever the LLM, the
\* checks and the browser say: each step of the orchestrator leaves fewer, the exit of
\* a dev server as many, and only an ended run has none.
THEOREM RunIsBounded ==
    Spec => /\ [](StepsLeft \in 0..18 * MaxIterations + 4)
            /\ [](StepsLeft = 0 => phase \in Ended)
            /\ EachStepCounts
<1>1. IInv => StepsLeft \in 0..18 * MaxIterations + 4 /\ (StepsLeft = 0 => phase \in Ended)
    BY StepsLeftType
<1>2. IInv /\ [Next]_vars =>
        [StepsLeft' < StepsLeft \/ (ServerExits /\ StepsLeft' = StepsLeft)]_vars
    BY StepDescends, ServerExitsKeepsCount
<1> QED
    BY <1>1, <1>2, Invariance, PTL DEF Spec, EachStepCounts
=============================================================================
