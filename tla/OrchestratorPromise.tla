------------------------ MODULE OrchestratorPromise ------------------------
(***************************************************************************)
(* Orchestrator implements RepairLoop, for every value of the constants:   *)
(* the initial state maps to RepairLoop's, and every step to one of its    *)
(* steps or to none.                                                       *)
(***************************************************************************)
EXTENDS OrchestratorProofs

\* Before the loop is left nothing is earned, for want of a Reviewer's PASS, and
\* no evidence is newer than the code.
Unearned ==
    /\ record.tested <= codeRev
    /\ phase \in {"START", "PLAN", "HEAD", "BODY"} => record.verdict # "PASS"

\* What a handler cut short leaves of the evidence.
LEMMA PartialEvidence ==
    ASSUME TypeOK, PartialEffects
    PROVE  /\ record'.tested \in {record.tested, codeRev}
           /\ codeRev' \in {codeRev, codeRev + 1}
<1>1. record \in Records
    BY DEF TypeOK
<1>2. \A r \in PartialRecords : r.tested \in {record.tested, codeRev}
    BY <1>1 DEF PartialRecords, Records
<1> QED
    BY <1>2 DEF PartialEffects

LEMMA UnearnedHandler == TypeOK /\ Unearned /\ Handler => Unearned'
<1> SUFFICES ASSUME TypeOK, Unearned, Handler PROVE Unearned'
    OBVIOUS
<1> USE Transitions DEF Unearned, InBody
<1>0. record \in Records /\ codeRev \in Nat /\ record.tested \in Nat
    BY DEF TypeOK, Records
<1>1. phase = "BODY"
    BY HandlerFlow
<1>2. CASE Implement
    BY <1>0, <1>1, <1>2 DEF Implement
<1>3. CASE StaticTest
  <2>1. record'.tested = codeRev /\ record'.verdict = record.verdict /\ codeRev' = codeRev
      BY <1>0, <1>3 DEF StaticTest, Records
  <2> QED
      BY <1>0, <1>1, <2>1
<1>4. CASE Build \/ StartApp \/ AnalyzeFailure \/ CreateFixPlan
    BY <1>1, <1>4 DEF Build, StartApp, AnalyzeFailure, CreateFixPlan
<1>5. CASE BrowserTest \/ VisualReview
  <2>1. record'.tested = record.tested /\ record'.verdict = record.verdict /\ codeRev' = codeRev
      BY <1>0, <1>5 DEF BrowserTest, VisualReview, Records
  <2> QED
      BY <1>1, <2>1
<1>6. CASE Review
  <2> PICK answer \in ReviewVerdicts \ {"OVERRULED"} :
          LET verdict == HardFail(answer, record) IN
          /\ record' = [record EXCEPT !.reviewed = codeRev, !.verdict = verdict]
          /\ instruction' = IF verdict \in {"PASS", "BLOCKED"} THEN instruction
                                                               ELSE FixInstruction("REVIEW")
          /\ AfterStep(IF verdict = "BLOCKED" THEN "BLOCKED"
                       ELSE NextState("REVIEW", verdict = "PASS"), history)
      BY <1>6 DEF Review
  <2> DEFINE verdict == HardFail(answer, record)
             next == IF verdict = "BLOCKED" THEN "BLOCKED"
                     ELSE NextState("REVIEW", verdict = "PASS")
  <2>1. record'.tested = record.tested /\ record'.verdict = verdict
      BY <1>0 DEF Records
  <2>2. AfterStep(next, history) /\ codeRev' = codeRev
      BY <1>6 DEF Review
  <2>3. verdict = "PASS" => next = "PASS"
      OBVIOUS
  <2> HIDE DEF next, verdict
  <2>4. verdict = "PASS" => phase' = "EXIT"
      BY <2>2, <2>3, AfterStepFlow DEF TERMINAL_STATES
  <2> QED
      BY <2>1, <2>2, <2>4
<1> QED
    BY <1>2, <1>3, <1>4, <1>5, <1>6 DEF Handler

LEMMA UnearnedNext == TypeOK /\ Unearned /\ [Next]_vars => Unearned'
<1> SUFFICES ASSUME TypeOK, Unearned, [Next]_vars PROVE Unearned'
    OBVIOUS
<1>0. codeRev \in Nat /\ record.tested \in Nat
    BY DEF TypeOK, Records
<1>1. CASE Handler
    BY <1>1, UnearnedHandler
<1>2. CASE StartIteration
    BY <1>0, <1>2 DEF StartIteration, NewRecord, Unearned
<1>3. CASE StepRaises \/ Interrupt
  <2>1. record'.tested \in {record.tested, codeRev} /\ codeRev' \in {codeRev, codeRev + 1}
      BY <1>3, PartialEvidence DEF StepRaises, Interrupt
  <2>2. phase' \in {"EXIT", "INTERRUPTED"}
      BY <1>3 DEF StepRaises, Interrupt
  <2> QED
      BY <1>0, <2>1, <2>2 DEF Unearned
<1>4. CASE Preamble
    BY <1>4 DEF Preamble, InitRepoFails, RefuseDirty, CreateBranchFails, RefuseToStart,
        InitialisedRepo, CreateBranch, PlannerPlans, PlannerFails, PlannerRaises, loopVars, Unearned
<1>5. CASE ExhaustBudget \/ ContinueIteration \/ TripSafetyValve \/ Return \/ CrashOutsideTry
    BY <1>5 DEF ExhaustBudget, ContinueIteration, TripSafetyValve, Return, CrashOutsideTry,
        CrashOpeningLogs, CrashInCleanup, loopVars, Unearned
<1>6. CASE ServerExits \/ UNCHANGED vars
    BY <1>6 DEF ServerExits, vars, loopVars, Unearned
<1> QED
    BY <1>1, <1>2, <1>3, <1>4, <1>5, <1>6 DEF Next, Run, LoopHead, Step, Handler

-----------------------------------------------------------------------------
(* The mapping *)

LEMMA EarnedType == Earned \in BOOLEAN
BY DEF Earned

LEMMA PromiseInit == Init => Promise!Init
<1> SUFFICES ASSUME Init PROVE Promise!Init
    OBVIOUS
<1>1. Earned = FALSE
    BY DEF Init, NewRecord, Earned, BuildOk, AllChecks
<1> QED
    BY <1>1 DEF Init, Promise!Init, Verdict

\* A handler that returned or raised: an attempt, evidence gained, or nothing.
LEMMA PromiseStep ==
    ASSUME IInv, Unearned, Unearned', Step
    PROVE  Promise!Next \/ UNCHANGED <<codeRev, Earned, Verdict>>
<1>1. phase = "BODY" /\ phase' \in {"HEAD", "EXIT"}
      /\ codeRev' = IF state \in CoderStates THEN codeRev + 1 ELSE codeRev
    BY HandlerFlow, RaiseFlow DEF Step, Handler, IInv
<1>2. Verdict = "none" /\ Verdict' = "none"
    BY <1>1 DEF Verdict
<1>3. ~Earned
    BY <1>1 DEF Unearned, Earned
<1>4. codeRev \in Nat /\ iteration \in Nat /\ MaxIterations \in Nat
    BY LimitsAssumption DEF IInv, TypeOK
<1>5. CASE state \in CoderStates
  <2>1. codeRev < MaxIterations
      BY <1>1, <1>4, <1>5 DEF IInv, Counting, InLoop, CoderToRun
  <2>2. record'.tested # codeRev'
    <3>1. CASE Implement
        BY <1>1, <1>4, <1>5, <3>1 DEF Implement, Unearned, IInv, TypeOK, Records
    <3>2. CASE StepRaises
      <4>1. record'.tested \in {record.tested, codeRev}
          BY <3>2, PartialEvidence DEF StepRaises, IInv
      <4>2. record.tested \in Nat /\ record.tested <= codeRev
          BY DEF Unearned, IInv, TypeOK, Records
      <4> QED
          BY <1>1, <1>4, <1>5, <4>1, <4>2
    <3> QED
        BY <1>5, <3>1, <3>2 DEF Step, StaticTest, Build, StartApp, BrowserTest, VisualReview,
            Review, AnalyzeFailure, CreateFixPlan, InBody, CoderStates
  <2>3. ~Earned'
      BY <2>2 DEF Earned
  <2> QED
      BY <1>1, <1>2, <1>3, <1>5, <2>1, <2>3, EarnedType DEF Promise!Next, Promise!Attempt
<1>6. CASE state \notin CoderStates
  <2>1. codeRev > 0
      BY <1>1, <1>4, <1>6 DEF IInv, Counting, InLoop, CoderToRun
  <2>2. CASE Earned'
    <3>1. Earned' = TRUE
        BY <2>2 DEF Earned
    <3> QED
        BY <1>1, <1>2, <1>6, <2>1, <3>1 DEF Promise!Next, Promise!Verify
  <2>3. CASE ~Earned'
    <3>1. Earned' = FALSE /\ Earned = FALSE
        BY <1>3, <2>3 DEF Earned
    <3> QED
        BY <1>1, <1>2, <1>6, <3>1
  <2> QED
      BY <2>2, <2>3
<1> QED
    BY <1>5, <1>6

LEMMA PromiseNext ==
    ASSUME IInv, Unearned, Unearned', [Next]_vars
    PROVE  Promise!Next \/ UNCHANGED <<codeRev, Earned, Verdict>>
<1>0. codeRev \in Nat /\ MaxIterations \in Nat /\ codeRev <= MaxIterations
    BY LimitsAssumption DEF IInv, TypeOK, Counting, CoderWithinBudget
<1>1. CASE Step
    BY <1>1, PromiseStep
<1>2. CASE Return
  <2>1. Verdict = "none" /\ Verdict' \in {"READY_FOR_HUMAN_REVIEW", "BLOCKED"}
        /\ UNCHANGED <<codeRev, record>>
      BY <1>2 DEF Return, Verdict, loopVars
  <2>2. Verdict' = "READY_FOR_HUMAN_REVIEW" => Earned
      BY <1>2 DEF Return, Verdict, IInv, Evidence
  <2>3. Earned' = Earned
      BY <2>1 DEF Earned, BuildOk, FailedChecks
  <2> QED
      BY <2>1, <2>2, <2>3 DEF Promise!Next, Promise!Accept, Promise!GiveUp
<1>3. CASE CrashOutsideTry \/ PlannerRaises
  <2>1. Verdict = "none" /\ Verdict' = "lost" /\ codeRev' = codeRev
      BY <1>3 DEF CrashOutsideTry, CrashOpeningLogs, CrashInCleanup, PlannerRaises, Verdict
  <2>2. codeRev' \in {codeRev, codeRev + 1} \cap 0..MaxIterations
      BY <1>0, <2>1
  <2>3. Earned' \in BOOLEAN
      BY DEF Earned
  <2> QED
      BY <2>1, <2>2, <2>3 DEF Promise!Next, Promise!Abandon
<1>4. CASE Interrupt
  <2>1. Verdict = "none" /\ Verdict' = "lost"
      BY <1>4 DEF Interrupt, Verdict, Ended
  <2>2. codeRev' \in {codeRev, codeRev + 1} /\ codeRev' <= MaxIterations
    <3>1. CASE phase = "BODY"
      <4>1. codeRev' = IF state \in CoderStates THEN codeRev + 1 ELSE codeRev
          BY <1>4, <3>1, PartialFlow DEF Interrupt, IInv
      <4>2. state \in CoderStates => codeRev + 1 <= MaxIterations
          BY <1>0, <3>1 DEF IInv, Counting, InLoop, CoderToRun
      <4> QED
          BY <1>0, <4>1, <4>2
    <3>2. CASE phase # "BODY"
        BY <1>0, <1>4, <3>2 DEF Interrupt
    <3> QED
        BY <3>1, <3>2
  <2>3. codeRev' \in {codeRev, codeRev + 1} \cap 0..MaxIterations
      BY <1>0, <2>2
  <2>4. Earned' \in BOOLEAN
      BY DEF Earned
  <2> QED
      BY <2>1, <2>3, <2>4 DEF Promise!Next, Promise!Abandon
<1>5. CASE InitRepoFails \/ RefuseDirty \/ CreateBranchFails \/ PlannerFails
  <2>1. phase \in {"START", "PLAN"} /\ phase' = "RETURNED"
        /\ UNCHANGED <<codeRev, record, finalStatus>>
      BY <1>5 DEF InitRepoFails, RefuseDirty, CreateBranchFails, RefuseToStart, PlannerFails,
          loopVars
  <2>2. finalStatus = "BLOCKED"
      BY <2>1 DEF IInv, Evidence, TypeOK
  <2>3. Earned' = Earned
      BY <2>1 DEF Earned, BuildOk, FailedChecks
  <2> QED
      BY <2>1, <2>2, <2>3 DEF Verdict, Promise!Next, Promise!GiveUp
<1>6. CASE StartIteration
  <2>1. ~Earned /\ ~Earned'
      BY <1>6 DEF StartIteration, Unearned, Earned
  <2>2. Earned' = FALSE /\ Earned = FALSE
      BY <2>1 DEF Earned
  <2>3. codeRev' = codeRev /\ Verdict' = Verdict
      BY <1>6 DEF StartIteration, Verdict
  <2> QED
      BY <2>2, <2>3
<1>7. CASE CreateBranch \/ PlannerPlans \/ ExhaustBudget \/ ContinueIteration \/ TripSafetyValve
  <2>1. UNCHANGED <<codeRev, record>> /\ Verdict = "none" /\ Verdict' = "none"
      BY <1>7 DEF CreateBranch, PlannerPlans, ExhaustBudget, ContinueIteration,
          TripSafetyValve, loopVars, Verdict
  <2> QED
      BY <2>1 DEF Earned, BuildOk, FailedChecks
<1>8. CASE ServerExits \/ UNCHANGED vars
  <2>1. UNCHANGED <<codeRev, record, phase, finalStatus>>
      BY <1>8 DEF ServerExits, vars, loopVars
  <2> QED
      BY <2>1 DEF Earned, BuildOk, FailedChecks, Verdict
<1> QED
    BY <1>1, <1>2, <1>3, <1>4, <1>5, <1>6, <1>7, <1>8 DEF Next, Run, Preamble, LoopHead

\* Orchestrator's runs are runs of RepairLoop under the mapping.
THEOREM KeepsPromiseHolds == Spec => KeepsPromise
<1>0. Init => Unearned
  <2> SUFFICES ASSUME Init PROVE Unearned
      OBVIOUS
  <2>1. record.tested = 0 /\ record.verdict = "NOT_RUN" /\ codeRev = 0
      BY DEF Init, NewRecord
  <2> QED
      BY <2>1 DEF Unearned
<1>1. Init => Promise!Init
    BY PromiseInit
<1>2. TypeOK /\ Unearned /\ [Next]_vars => Unearned'
    BY UnearnedNext
<1>3. IInv => TypeOK
    BY DEF IInv
<1>4. IInv /\ Unearned /\ Unearned' /\ [Next]_vars => [Promise!Next]_(Promise!vars)
    BY PromiseNext DEF Promise!vars
<1> QED
    BY <1>0, <1>1, <1>2, <1>3, <1>4, Invariance, PTL DEF Spec, KeepsPromise, Promise!Spec
=============================================================================
