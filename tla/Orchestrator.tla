---------------------------- MODULE Orchestrator ----------------------------
(***************************************************************************)
(* Orchestrator.run and _run_one_iteration of agent/orchestrator.py, with  *)
(* the Tester's report, the browser's results and the Reviewer's verdict   *)
(* as far as the run loop reads them.                                      *)
(*                                                                         *)
(* phase says where run() stands: START (before the branch exists), PLAN   *)
(* (the planner phase), HEAD (top of the while loop), BODY (about to call  *)
(* _run_one_iteration), EXIT (left the loop, cleanup still to do),         *)
(* RETURNED, CRASHED (an exception left run()) and INTERRUPTED (SystemExit *)
(* or KeyboardInterrupt left it).  One pass of the loop is two steps, the  *)
(* loop head and the handler with everything after it, so that a signal    *)
(* or a dying dev server can fall between them.                            *)
(***************************************************************************)
EXTENDS Naturals, Sequences, FiniteSets, StateMachine, FailureMemory

CONSTANTS
    Checks,                   \* the Tester's checks other than "build"
    Viewports,                \* config.browser.viewports
    Errors,                   \* classes of error text (equal first 300 characters)
    MaxIterations,            \* agent.max_iterations
    RepeatedFailureThreshold, \* agent.repeated_failure_threshold
    MaxStrategyChanges,       \* agent.max_strategy_changes
    MaxStepsPerIteration      \* MAX_STEPS_PER_ITERATION, 12 in the code

Marks == {"PASS", "SKIPPED", "NOT_RUN", "OK", "BARE", "BLOCKED", "OVERRULED"}

ASSUME LimitsAssumption ==
    /\ MaxIterations \in Nat
    /\ RepeatedFailureThreshold \in Nat
    /\ MaxStrategyChanges \in Nat
    /\ MaxStepsPerIteration \in Nat \ {0}

ASSUME DataAssumption ==
    /\ "build" \notin Checks
    /\ Errors \cap Marks = {}

VARIABLES
    phase, repo, state, iteration, steps, record, iterations,
    history, changes, forced, instruction, codeRev, servers,
    blockReason, finalStatus

memory == <<history, changes>>
loopVars == <<state, iteration, steps, record, iterations, forced, instruction>>
vars == <<phase, repo, loopVars, memory, codeRev, servers, blockReason, finalStatus>>

AllChecks == Checks \cup {"build"}

\* What a check, a page and a review can be in a record.  A failed check is its
\* error; a page is BARE when it failed without console error or overflow text
\* (navigation or page error), and a FAIL verdict is its required fixes.
TesterReports == [AllChecks -> {"PASS", "SKIPPED"} \cup Errors]
BrowserResults == [Viewports -> {"OK", "BARE"} \cup Errors]
ReviewVerdicts == {"PASS", "BLOCKED", "OVERRULED"} \cup Errors

NewRecord(n) ==
    [iteration |-> n,
     tested    |-> 0, checks  |-> [c \in AllChecks |-> "NOT_RUN"],
     browsed   |-> 0, pages   |-> [v \in Viewports |-> "NOT_RUN"],
     visual    |-> "NOT_RUN",
     reviewed  |-> 0, verdict |-> "NOT_RUN"]

FailedChecks(r) == {c \in AllChecks : r.checks[c] \in Errors}
FailedPages(r) == {v \in Viewports : r.pages[v] \in {"BARE"} \cup Errors}

\* Mutant of FailureSignature: a SKIPPED check counts as a failed one.
SignatureOfAllNotPassed(r) ==
    [checks  |-> [c \in {c \in AllChecks : r.checks[c] # "PASS"} |-> r.checks[c]],
     pages   |-> [v \in FailedPages(r) |-> r.pages[v]],
     verdict |-> IF r.verdict = "PASS" THEN "NOT_RUN" ELSE r.verdict]

\* _extract_failure_signature: the Tester's failed checks, the failed pages and
\* a verdict that is not PASS.  A dev server that did not start, a build that
\* was SKIPPED and the visual issues leave no trace in it.
FailureSignature(r) ==
    [checks  |-> [c \in FailedChecks(r) |-> r.checks[c]],
     pages   |-> [v \in FailedPages(r) |-> r.pages[v]],
     verdict |-> IF r.verdict = "PASS" THEN "NOT_RUN" ELSE r.verdict]

StaticChecksOk(r) == FailedChecks(r) \subseteq {"build"}
BuildOk(r) == r.checks["build"] = "PASS"

\* Mutant of BrowserOk: looks at the collected errors and not at the page's own.
BrowserQuiet(r) == \A v \in Viewports : r.pages[v] \notin Errors

BrowserOk(r) == FailedPages(r) = {}

\* _hard_fail_if_missing_required_checks: a PASS over a missing or failed check
\* becomes a FAIL whose fixes the code writes.
HardFail(verdict, r) ==
    IF verdict = "PASS" /\ (~BuildOk(r) \/ FailedChecks(r) # {})
    THEN "OVERRULED" ELSE verdict

\* Mutant of ForceNow: one repetition more than the threshold.
ForceLater(h) == RepeatCountForLatest(h) > RepeatedFailureThreshold

ForceNow(h) == ShouldForceStrategyChange(h, RepeatedFailureThreshold)
Warns(h) == SummaryWarns(h, RepeatedFailureThreshold)

\* The instruction a failing stage leaves for the Coder.  Its failure context
\* is the memory's summary before the failure itself is recorded.
FixInstruction(stage) == [from |-> stage, warned |-> Warns(history)]

Init ==
    /\ phase = "START"
    /\ repo \in {"none", "clean", "dirty"}
    /\ state = "IMPLEMENT"
    /\ iteration = 0
    /\ steps = 0
    /\ record = NewRecord(0)
    /\ iterations = <<>>
    /\ history = <<>>
    /\ changes = 0
    /\ forced = FALSE
    /\ instruction = [from |-> "PLAN", warned |-> FALSE]
    /\ codeRev = 0
    /\ servers = {}
    /\ blockReason = ""
    /\ finalStatus = "BLOCKED"

-----------------------------------------------------------------------------
(* Before the loop *)

RefuseToStart(reason) ==
    /\ phase = "START"
    /\ phase' = "RETURNED"
    /\ blockReason' = reason
    /\ UNCHANGED <<loopVars, memory, codeRev, servers, finalStatus>>

\* `git init`, `add` and `commit`: the first that fails leaves what the ones
\* before it did.
InitRepoFails ==
    /\ repo = "none"
    /\ repo' \in {"none", "clean", "dirty"}
    /\ RefuseToStart("git_init_failed")

RefuseDirty ==
    /\ repo = "dirty"
    /\ RefuseToStart("uncommitted_changes")
    /\ UNCHANGED repo

\* A missing repository is initialised before the branch is created.  A dirty
\* one gets here when `git status` itself fails, which has_uncommitted_changes
\* reads as clean.
InitialisedRepo == IF repo = "none" THEN "clean" ELSE repo

CreateBranchFails ==
    /\ RefuseToStart("no_branch")
    /\ repo' = InitialisedRepo

CreateBranch ==
    /\ phase = "START"
    /\ phase' = "PLAN"
    /\ repo' = InitialisedRepo
    /\ UNCHANGED <<loopVars, memory, codeRev, servers, blockReason, finalStatus>>

PlannerPlans ==
    /\ phase = "PLAN"
    /\ phase' = "HEAD"
    /\ UNCHANGED <<repo, loopVars, memory, codeRev, servers, blockReason, finalStatus>>

PlannerFails ==
    /\ phase = "PLAN"
    /\ phase' = "RETURNED"
    /\ blockReason' = "planner_failed"
    /\ UNCHANGED <<repo, loopVars, memory, codeRev, servers, finalStatus>>

\* The planner's answer is JSON but not an object: `.get` raises in run_planner,
\* and _run_planner_phase catches only AgentResponseError and LLMError.
PlannerRaises ==
    /\ phase = "PLAN"
    /\ phase' = "CRASHED"
    /\ UNCHANGED <<repo, loopVars, memory, codeRev, servers, blockReason, finalStatus>>

-----------------------------------------------------------------------------
(* The head of the loop *)

\* Mutant of AtBoundary: only IMPLEMENT begins an iteration.
AtFirstCoderOnly == state = "IMPLEMENT" /\ steps # 0

AtBoundary == state \in CoderStates /\ steps # 0

StartsIteration == AtBoundary \/ steps = 0

\* Mutant of ServersAfterBoundary: the finished iteration is not cleaned up.
ServersLeftAtBoundary == servers

\* executor.cleanup() of the finished iteration, at a boundary only.
ServersAfterBoundary ==
    IF AtBoundary THEN servers \ {record.iteration} ELSE servers

\* Mutant of StartIteration: the budget is compared before the counter is raised.
StartIterationOneMore ==
    /\ phase = "HEAD"
    /\ StartsIteration
    /\ iteration <= MaxIterations
    /\ iteration' = iteration + 1
    /\ record' = NewRecord(iteration + 1)
    /\ steps' = 1
    /\ servers' = ServersAfterBoundary
    /\ phase' = "BODY"
    /\ UNCHANGED <<repo, state, iterations, memory, forced, instruction,
                   codeRev, blockReason, finalStatus>>

StartIteration ==
    /\ phase = "HEAD"
    /\ StartsIteration
    /\ iteration + 1 <= MaxIterations
    /\ iteration' = iteration + 1
    /\ record' = NewRecord(iteration + 1)
    /\ steps' = 1
    /\ servers' = ServersAfterBoundary
    /\ phase' = "BODY"
    /\ UNCHANGED <<repo, state, iterations, memory, forced, instruction,
                   codeRev, blockReason, finalStatus>>

\* Mutant of ExhaustBudget: the exceeded budget is logged, the loop continues.
ReportBudgetOnly ==
    /\ phase = "HEAD"
    /\ StartsIteration
    /\ iteration + 1 > MaxIterations
    /\ blockReason' = "max_iterations"
    /\ UNCHANGED <<phase, repo, loopVars, memory, codeRev, servers, finalStatus>>

ExhaustBudget ==
    /\ phase = "HEAD"
    /\ StartsIteration
    /\ iteration + 1 > MaxIterations
    /\ iteration' = iteration + 1
    /\ steps' = 0
    /\ servers' = ServersAfterBoundary
    /\ blockReason' = "max_iterations"
    /\ state' = "BLOCKED"
    /\ phase' = "EXIT"
    /\ UNCHANGED <<repo, record, iterations, memory, forced, instruction,
                   codeRev, finalStatus>>

ContinueIteration ==
    /\ phase = "HEAD"
    /\ ~StartsIteration
    /\ steps + 1 <= MaxStepsPerIteration
    /\ steps' = steps + 1
    /\ phase' = "BODY"
    /\ UNCHANGED <<repo, state, iteration, record, iterations, memory, forced,
                   instruction, codeRev, servers, blockReason, finalStatus>>

TripSafetyValve ==
    /\ phase = "HEAD"
    /\ ~StartsIteration
    /\ steps + 1 > MaxStepsPerIteration
    /\ steps' = steps + 1
    /\ blockReason' = "too_many_steps"
    /\ state' = "BLOCKED"
    /\ phase' = "EXIT"
    /\ UNCHANGED <<repo, iteration, record, iterations, memory, forced,
                   instruction, codeRev, servers, finalStatus>>

-----------------------------------------------------------------------------
(* _run_one_iteration, and what the loop does after every step of it *)

\* Mutant of Tracked: only the first iteration's record is appended.
TrackedFirst == IF iterations # <<>> THEN iterations ELSE <<record.iteration>>

Tracked ==
    IF iterations # <<>> /\ iterations[Len(iterations)] = record.iteration
    THEN iterations ELSE Append(iterations, record.iteration)

\* The step succeeded and the handler chose next; h is the history it leaves.
\* The repeated-failure check runs after every step, not only after the one
\* that recorded a failure, and its BLOCKED replaces next whatever next is.
AfterStep(next, h) ==
    /\ iterations' = Tracked
    /\ history' = h
    /\ IF ForceNow(h) /\ ExceededMaxStrategyChanges(changes, MaxStrategyChanges)
       THEN /\ state' = "BLOCKED"
            /\ blockReason' = "repeated_failures"
            /\ phase' = "EXIT"
            /\ forced' = FALSE
            /\ UNCHANGED changes
       ELSE /\ state' = next
            /\ phase' = IF next \in TERMINAL_STATES THEN "EXIT" ELSE "HEAD"
            /\ forced' = ForceNow(h)
            /\ changes' = IF ForceNow(h) THEN changes + 1 ELSE changes
            /\ UNCHANGED blockReason
    /\ UNCHANGED <<repo, iteration, steps, finalStatus>>

InBody(s) == phase = "BODY" /\ state = s

\* The Coder may rewrite the workspace whenever it runs; each of its runs is a
\* new revision.  A forced strategy change appends the memory's summary.
Implement ==
    /\ phase = "BODY"
    /\ state \in CoderStates
    /\ codeRev' = codeRev + 1
    /\ instruction' = [instruction EXCEPT !.warned = @ \/ (forced /\ Warns(history))]
    /\ AfterStep(NextState(state, TRUE), history)
    /\ UNCHANGED <<record, servers>>

StaticTest ==
    /\ InBody("STATIC_TEST")
    /\ \E report \in TesterReports :
          record' = [record EXCEPT !.tested = codeRev, !.checks = report]
    /\ instruction' = IF StaticChecksOk(record') THEN instruction
                                                 ELSE FixInstruction("STATIC_TEST")
    /\ AfterStep(NextState("STATIC_TEST", StaticChecksOk(record')), history)
    /\ UNCHANGED <<codeRev, servers>>

\* The build ran with the Tester; this step only reads its result, and takes
\* SKIPPED for a failure.
Build ==
    /\ InBody("BUILD")
    /\ instruction' = IF BuildOk(record) THEN instruction ELSE FixInstruction("BUILD")
    /\ AfterStep(NextState("BUILD", BuildOk(record)), history)
    /\ UNCHANGED <<record, codeRev, servers>>

\* The process may fail to start; once started it is tracked whether or not
\* anything answered at the URL within the timeout.
StartApp ==
    /\ InBody("START_APP")
    /\ \E started \in BOOLEAN, ready \in BOOLEAN :
          /\ ready => started
          /\ servers' = IF started THEN servers \cup {record.iteration} ELSE servers
          /\ instruction' = IF ready THEN instruction ELSE FixInstruction("START_APP")
          /\ AfterStep(NextState("START_APP", ready), history)
    /\ UNCHANGED <<record, codeRev>>

BrowserTest ==
    /\ InBody("BROWSER_TEST")
    /\ \E results \in BrowserResults :
          record' = [record EXCEPT !.browsed = codeRev, !.pages = results]
    /\ instruction' = IF BrowserOk(record') THEN instruction
                                            ELSE FixInstruction("BROWSER_TEST")
    /\ AfterStep(NextState("BROWSER_TEST", BrowserOk(record')), history)
    /\ UNCHANGED <<codeRev, servers>>

\* No screenshot is looked at without viewports; a model without vision skips
\* the stage, which then counts as passed.
VisualReview ==
    /\ InBody("VISUAL_REVIEW")
    /\ \E outcome \in {"CLEAN", "ISSUES", "SKIPPED"} :
          /\ outcome # "CLEAN" => Viewports # {}
          /\ record' = [record EXCEPT !.visual = outcome]
          /\ instruction' = IF outcome = "ISSUES" THEN FixInstruction("VISUAL_REVIEW")
                                                  ELSE instruction
          /\ AfterStep(NextState("VISUAL_REVIEW", outcome # "ISSUES"), history)
    /\ UNCHANGED <<codeRev, servers>>

\* The Reviewer's BLOCKED ends the run and sets no block_reason.
Review ==
    /\ InBody("REVIEW")
    /\ \E answer \in ReviewVerdicts \ {"OVERRULED"} :
          LET verdict == HardFail(answer, record) IN
          /\ record' = [record EXCEPT !.reviewed = codeRev, !.verdict = verdict]
          /\ instruction' = IF verdict \in {"PASS", "BLOCKED"} THEN instruction
                                                               ELSE FixInstruction("REVIEW")
          /\ AfterStep(IF verdict = "BLOCKED" THEN "BLOCKED"
                       ELSE NextState("REVIEW", verdict = "PASS"), history)
    /\ UNCHANGED <<codeRev, servers>>

AnalyzeFailure ==
    /\ InBody("ANALYZE_FAILURE")
    /\ AfterStep(NextState("ANALYZE_FAILURE", TRUE),
                 Recorded(history, record.iteration, FailureSignature(record)))
    /\ UNCHANGED <<record, instruction, codeRev, servers>>

\* Mutant of CreateFixPlan: the failure is recorded here a second time.
CreateFixPlanRecords ==
    /\ InBody("CREATE_FIX_PLAN")
    /\ AfterStep(NextState("CREATE_FIX_PLAN", TRUE),
                 Recorded(history, record.iteration, FailureSignature(record)))
    /\ UNCHANGED <<record, instruction, codeRev, servers>>

CreateFixPlan ==
    /\ InBody("CREATE_FIX_PLAN")
    /\ AfterStep(NextState("CREATE_FIX_PLAN", TRUE), history)
    /\ UNCHANGED <<record, instruction, codeRev, servers>>

\* What a handler has already done when something in it raises: the report is
\* in the record before its file is written, the Coder has edited files, the
\* dev server runs.
PartialRecords ==
    IF state = "STATIC_TEST"
    THEN {[record EXCEPT !.tested = codeRev, !.checks = r] : r \in TesterReports}
    ELSE IF state = "REVIEW"
    THEN {[record EXCEPT !.reviewed = codeRev, !.verdict = HardFail(a, record)] :
             a \in ReviewVerdicts \ {"OVERRULED"}}
    ELSE {}

PartialEffects ==
    /\ record' \in {record} \cup PartialRecords
    /\ codeRev' = IF state \in CoderStates THEN codeRev + 1 ELSE codeRev
    /\ \/ servers' = servers
       \/ state = "START_APP" /\ servers' = servers \cup {record.iteration}

\* The LLM gives up (AgentResponseError, LLMError) or anything else raises.
\* The record is appended again even when it is the last one already.
StepRaises ==
    /\ phase = "BODY"
    /\ state \notin {"BUILD", "CREATE_FIX_PLAN"}
    /\ PartialEffects
    /\ iterations' = Append(iterations, record.iteration)
    /\ blockReason' \in {"agent_failure", "unexpected_error"}
    /\ state' = "BLOCKED"
    /\ phase' = "EXIT"
    /\ UNCHANGED <<repo, iteration, steps, memory, forced, instruction, finalStatus>>

-----------------------------------------------------------------------------
(* The end of the run *)

Return ==
    /\ phase = "EXIT"
    /\ servers' = servers \ {record.iteration}
    /\ finalStatus' = IF state = "PASS" THEN "READY_FOR_HUMAN_REVIEW" ELSE "BLOCKED"
    /\ phase' = "RETURNED"
    /\ UNCHANGED <<repo, loopVars, memory, codeRev, blockReason>>

\* Exceptions outside the try.  A log directory that cannot be made, before the
\* branch or at an iteration's start, when the boundary's cleanup is done:
CrashOpeningLogs ==
    /\ phase = "START" \/ (phase = "HEAD" /\ StartsIteration /\ iteration + 1 <= MaxIterations)
    /\ servers' = ServersAfterBoundary
    /\ phase' = "CRASHED"
    /\ UNCHANGED <<repo, loopVars, memory, codeRev, blockReason, finalStatus>>

\* ... and a cleanup whose dev server is still there after SIGKILL and its wait.
CrashInCleanup ==
    /\ phase = "EXIT" \/ (phase = "HEAD" /\ AtBoundary)
    /\ record.iteration \in servers
    /\ phase' = "CRASHED"
    /\ UNCHANGED <<repo, loopVars, memory, codeRev, servers, blockReason, finalStatus>>

Ended == {"RETURNED", "CRASHED", "INTERRUPTED"}

\* SIGTERM's handler raises SystemExit, Ctrl-C KeyboardInterrupt: neither is an
\* Exception, so nothing of run() catches them and nothing is cleaned up.  (A
\* handler whose write of the state fails raises an OSError instead: one of
\* StepRaises, or a tool's failed answer.)
Interrupt ==
    /\ phase \notin Ended
    /\ IF phase = "BODY" THEN PartialEffects
                         ELSE UNCHANGED <<record, codeRev, servers>>
    /\ phase' = "INTERRUPTED"
    /\ UNCHANGED <<repo, state, iteration, steps, iterations, memory, forced,
                   instruction, blockReason, finalStatus>>

\* A dev server's leader process exits on its own.
ServerExits ==
    /\ \E n \in servers : servers' = servers \ {n}
    /\ UNCHANGED <<phase, repo, loopVars, memory, codeRev, blockReason, finalStatus>>

Preamble ==
    InitRepoFails \/ RefuseDirty \/ CreateBranchFails \/ CreateBranch
        \/ PlannerPlans \/ PlannerFails \/ PlannerRaises

LoopHead == StartIteration \/ ExhaustBudget \/ ContinueIteration \/ TripSafetyValve

Step ==
    Implement \/ StaticTest \/ Build \/ StartApp \/ BrowserTest \/ VisualReview
        \/ Review \/ AnalyzeFailure \/ CreateFixPlan \/ StepRaises

CrashOutsideTry == CrashOpeningLogs \/ CrashInCleanup

Run == Preamble \/ LoopHead \/ Step \/ Return \/ CrashOutsideTry

Next == Run \/ Interrupt \/ ServerExits

Spec == Init /\ [][Next]_vars

\* run() is one thread whose every call returns: LLM requests, shell commands,
\* page loads, readiness polls and process waits all have timeouts.
Fairness == WF_vars(Run)

FairSpec == Spec /\ Fairness

-----------------------------------------------------------------------------
(* Properties *)

Signatures ==
    [checks  : UNION {[S -> Errors] : S \in SUBSET AllChecks},
     pages   : UNION {[S -> {"BARE"} \cup Errors] : S \in SUBSET Viewports},
     verdict : {"NOT_RUN"} \cup ReviewVerdicts]

Outcomes == [iteration : Nat, signature : Signatures]

Records ==
    [iteration : Nat,
     tested    : Nat, checks  : [AllChecks -> {"NOT_RUN", "PASS", "SKIPPED"} \cup Errors],
     browsed   : Nat, pages   : [Viewports -> {"NOT_RUN", "OK", "BARE"} \cup Errors],
     visual    : {"NOT_RUN", "CLEAN", "ISSUES", "SKIPPED"},
     reviewed  : Nat, verdict : {"NOT_RUN"} \cup ReviewVerdicts]

BlockReasons ==
    {"", "git_init_failed", "uncommitted_changes", "no_branch", "planner_failed",
     "max_iterations", "too_many_steps", "repeated_failures",
     "agent_failure", "unexpected_error"}

\* The shape of the state.
TypeOK ==
    /\ phase \in {"START", "PLAN", "HEAD", "BODY", "EXIT"} \cup Ended
    /\ repo \in {"none", "clean", "dirty"}
    /\ state \in State
    /\ iteration \in Nat
    /\ steps \in Nat
    /\ record \in Records
    /\ iterations \in Seq(Nat)
    /\ history \in Seq(Outcomes)
    /\ changes \in Nat
    /\ forced \in BOOLEAN
    /\ instruction \in [from : {"PLAN"} \cup VerifyingStates, warned : BOOLEAN]
    /\ codeRev \in Nat
    /\ servers \in SUBSET Nat
    /\ blockReason \in BlockReasons
    /\ finalStatus \in {"READY_FOR_HUMAN_REVIEW", "BLOCKED"}

\* Every gate passed, and on the revision the Coder left: the build, every
\* other check that ran, every viewport, no visual issue, the Reviewer.
Earned ==
    /\ record.tested = codeRev /\ BuildOk(record) /\ FailedChecks(record) = {}
    /\ record.browsed = codeRev /\ \A v \in Viewports : record.pages[v] = "OK"
    /\ record.visual \in {"CLEAN", "SKIPPED"}
    /\ record.reviewed = codeRev /\ record.verdict = "PASS"

\* A run reported READY_FOR_HUMAN_REVIEW has earned it: the evidence of each
\* gate is there, it passed, and none of it is older than the Coder's last
\* edit.  (The gates are spread over six handlers and a record that outlives
\* each of them.)
ReadyIsEarned == finalStatus = "READY_FOR_HUMAN_REVIEW" => Earned

\* The safety valve is never what ends a run: no path through one iteration
\* takes more steps than the valve allows, as the comment at the constant
\* says ("a single iteration should never need more").
ValveNeverTrips ==
    MaxStepsPerIteration >= 9 => blockReason # "too_many_steps"

\* A failed iteration is remembered once, in order: by the time the next
\* iteration starts the memory holds exactly one outcome for each one before
\* it, and never two of the same (the double count ANALYZE_FAILURE's comment
\* warns of would force a strategy change after a single failure).
EachFailureRecordedOnce ==
    /\ \A i \in DOMAIN history : history[i].iteration = i
    /\ record.iteration \in {Len(history), Len(history) + 1}

\* agent.max_iterations bounds the Coder, not only the counter: no run edits
\* the workspace more often than that, on whatever path it loops.
CoderWithinBudget == codeRev <= MaxIterations

\* No iteration is missing from the result: when the loop has ended and when
\* run() has returned, each iteration begun has its record in
\* result.iterations, in order, also when its step raised.
ResultKeepsEveryIteration ==
    phase \in {"EXIT", "RETURNED"} =>
        /\ {iterations[i] : i \in DOMAIN iterations} = 1..record.iteration
        /\ \A i, j \in DOMAIN iterations : i < j => iterations[i] <= iterations[j]

\* Two dev servers are never tracked at once, and none is left when run()
\* returns: the executor whose cleanup runs is the one that started it.
\* (The leader process only; its children are the process manager's matter.)
ServersContained ==
    /\ servers \subseteq {record.iteration}
    /\ phase = "RETURNED" => servers = {}

\* When the latest failure has repeated, the Coder's next fix attempt is told
\* to change strategy, through the flag of the loop and whatever steps lie
\* between the failure and the attempt.
RepeatReachesCoder ==
    [][(phase = "BODY" /\ state = "IMPLEMENT_FIX" /\ state' = "STATIC_TEST"
          /\ Warns(history)) => instruction'.warned]_vars

\* Every run comes to an end, whatever the LLM, the checks and the browser say.
RunEnds == <>(phase \in Ended)

\* The verdict on a run: what run() returned, or that it never did.
Verdict ==
    IF phase \in {"CRASHED", "INTERRUPTED"} THEN "lost"
    ELSE IF phase = "RETURNED" THEN finalStatus
    ELSE "none"

\* The run keeps the promise of RepairLoop: an attempt is a run of the Coder,
\* the evidence is the record's.  (It is dropped by the next edit, and no edit
\* follows the verdict.)
Promise ==
    INSTANCE RepairLoop WITH
        MaxAttempts <- MaxIterations,
        attempts <- codeRev,
        earned   <- Earned,
        verdict  <- Verdict

KeepsPromise == Promise!Spec
=============================================================================
