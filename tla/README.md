# Verification of doc-llama

doc-llama is a coding agent that works overnight without a person: it plans a
task, lets an LLM edit a workspace, tests, builds and starts the result, looks at
it in a browser, reviews it, and tries again until the task is
`READY_FOR_HUMAN_REVIEW` or the run is `BLOCKED`. This directory holds TLA+
models of the parts of it that decide, count, start, stop and remember; the TLC
runs that check them on small instances; and proofs, checked by TLAPS, of their
safety properties for every value of the parameters.

`PROJECT.json` is the index: the components, the runs, the line ranges every
definition models (`map`), a mutant for every property of a passing run, the
findings, the hazards and the theorems.

Contents: 1 the system; 2 modules and code; 3 the runs; 4 what the runs refute;
5 bounds; 6 fairness; 7 proofs; 8 abstractions; 9 other disagreements; 10 not
modelled; 11 plan.

## 1. The system

| component | state it keeps | operations | what makes it correct |
|---|---|---|---|
| state machine, `agent/state_machine.py` | none: two tables | `next_state`, `is_terminal` | every path ends; a failure of any check goes to the fix loop |
| failure memory, `agent/failure_memory.py` | outcomes in order, count of strategy changes | `record`, repeat count, thresholds, `summary_for_prompt` | a failure is remembered once; equal signatures are equal failures |
| orchestrator, `agent/orchestrator.py` | state, iteration, steps, the iteration's record, fix instruction, the flag that forces a strategy change, the result | `run`, one handler for each state | `READY` rests on evidence for the last edit; bounded attempts; every end cleans up and reports |
| Tester, Reviewer, Planner, Coder, `agent/agents/*` | none | build a prompt or run scripts, return a report | a PASS over a failed check is overruled; the Planner and the Reviewer write nothing |
| role loop, `agent/role_loop.py` | transcript, turn, retries | `run_role_loop` | each tool call gets its reply; requests are bounded; it ends |
| LLM clients, `agent/llm/*` | none | `chat`, `vision`, `health_check`, with retries | a failure surfaces as `LLMError` |
| tool executor, `agent/tool_executor.py` | its process manager, its allowed tools | `execute`, `cleanup` | no tool outside the role's list runs |
| process manager, `tools/process_manager.py` | the Popen objects by name | start, wait until ready, stop, stop all, tail logs | it stops what it started and nothing else |
| run and stop, `cli/main.py`, `cli/run_state.py` | `run_state.json`, signal handler, exit code | `cmd_run`, `cmd_stop`, `status`, `logs`, `report`, `resume` | the file, the report and the exit code tell one story |
| report generator, `agent/report_generator.py` | the report file | `generate_report`, `write_report` | what it shows is the newest there is, and for READY that of the code left |
| git tools, `tools/git_tools.py` | `.git`, HEAD, branches, index, tree | `is_repo`, `init_repo_if_needed`, `has_uncommitted_changes`, `create_branch` | each run has its own branch with its own changes; nobody's work is committed or lost |
| file tools and sandbox, `tools/filesystem.py`, `tools/sandbox.py` | the workspace's files | list, read, search, write, edit, delete | nothing outside the root or denied is changed; read, search and edit see one text |
| browser, visual review | pages; screenshots | outcomes read by the orchestrator | see the orchestrator |
| shell, task parser, config, logging, doctor | none | single calls on text | pure or read-only |

How they interact. `cmd_run` makes a `RunState`, installs a SIGTERM handler and
calls `Orchestrator.run`, which is one thread. It calls the state machine after
every handler, and the handlers call the roles, each a conversation of its own
in the role loop. The Coder and the dev server go through a tool executor that
is made anew for every iteration and owns a process manager. Results travel in
one mutable `IterationRecord` which several steps fill, and in the failure
memory. Other processes reach a run in three ways: signals (`ai-agent stop`, Ctrl-C),
the file `run_state.json`, and the operating system's pids and ports.

What is hard about it:

* one record and one instruction are filled by six handlers over several passes
  of the loop, so evidence can be older than the code it is taken for;
* four counters (iteration, step, repeated failure, strategy change) are
  incremented and reset at different places of the loop;
* a handler can raise halfway; SIGTERM and Ctrl-C go through `run()` as
  exceptions that `except Exception` does not catch;
* the state file is read, decided on and written back by two processes, and a
  write is a truncation followed by a fill that a signal can divide;
* a child process outlives its parent, its pid is given to another program,
  and what `is_running()` said is old when the signal is sent;
* a run's start is up to eight git processes with the workspace open to others
  between any two, and each of them may fail, before or after its work;
* the path that is checked, the path that is opened and the path that was asked
  for differ; three tools decode and split the same file each in their own way.

## 2. Modules and code

| module | stands for |
|---|---|
| `StateMachine` | `state_machine.py`: the two tables as functions, `NextState` over them |
| `FailureMemory` | `failure_memory.py`, operators over a history and a count |
| `Orchestrator` | `run()` and `_run_one_iteration`; extends the two above |
| `RepairLoop` | the abstract specification: bounded attempts, one verdict, `READY` only over evidence earned by the last attempt |
| `RunLifecycle` | `cmd_run`, its handler and `cmd_stop` over one `run_state.json`, for any number of processes of each |
| `ProcessManager` | the process manager, call by call and, where a process can change in between, system call by system call |
| `RoleLoop` | `run_role_loop`, the HTTP retries of `chat()` under it and `ToolExecutor.execute` |
| `RunReport` | the searches of `report_generator.py` through `result.iterations`; extends `Orchestrator` by what is kept of past records |
| `Workspace` | the git repository of one workspace under several runs and people: `git_tools.py` as the start of `run()` calls it, the Coder's writes and commits |
| `FileTools`, `MCFileTools` | `filesystem.py` and `sandbox.py` over a tree of directories, files and links; the tree, texts and requests its run uses |
| `OrchestratorClaims`, `LifecycleClaims`, `ManagerClaims`, `WorkspaceClaims` | sentences of documents and comments that the code does not keep |
| `OrchestratorProofs`, `OrchestratorPromise`, `LifecycleProofs`, `ManagerProofs`, `RoleLoopProofs`, `WorkspaceProofs`, `RunReportProofs`, `FileToolsProofs` | the theorems |

**Orchestrator.** `phase` is the place in `run()`: `START`, `PLAN`, `HEAD` (top
of the `while`), `BODY` (about to run the handler), `EXIT`, and three ends. A
pass of the loop is two steps, the head (boundary, counters, budget, valve) and
the handler with everything the loop does after it (`AfterStep`: append the
record, check repeated failures, choose the next state). `codeRev` counts the
Coder's runs, and the record notes for which revision each piece of evidence was
taken: the code has no such stamp, and it is how the model can say "stale".
`servers` holds the iterations whose dev-server leader is tracked. `StepRaises`
is the `except` branches, with what the handler had already done
(`PartialEffects`). `Interrupt` is SystemExit or KeyboardInterrupt at any point.

**RunLifecycle.** A run is `idle`, in the two halves of `write_state` (`open`,
`write`), at its health check, before or behind the installation of the handler,
in the orchestrator, or at its report. `TakeSignal` enters the handler's own
`write_state` from wherever the run stands, also from within a `write_state`; `cut` remembers the
interrupted contents, which Python writes when the file object is
closed on the way out (`Abandoned`). `frame` says whose frame the handler was called from: an
exception of its write that is raised on top of the orchestrator's meets `except Exception` there
(`tool_executor.py:135`, `orchestrator.py:198`), and `Swallowed` takes the run back into the
orchestrator; on top of `cmd_run`'s, or where the orchestrator catches nothing, it ends the
process (`Raises`). A stop reads, sends, and on a missing process opens and
writes. `others` are programs that take pids that runs have left.

**ProcessManager.** A Popen has a leader (`running`, `zombie` until it is polled,
`reaped`) and a worker, npm's dev server, in the same process group. `stop_process`
is `BeginStop`, `SendTerm`, `Reap` or `WaitTimesOut`, `SendKill`, `ReapKilled` or
`ReapTimesOut`. `stop_all` is the same machine with the names to do in `todo`.

**RoleLoop.** One turn is one accepted answer of `chat()`; `attempt` and `post`
are the counters of the two nested retries; `pending` are the calls of the last
message not executed yet.

**RunReport.** `Orchestrator`'s `iterations` is a list of numbers, and its `record` is
the current one only. `kept` adds, for each earlier iteration, the three
revisions the report can tell apart: of its tests, its pages, its review. `Shown`,
`LastTesterReport`, `LastBrowserResults` and `FinalVerdict` read them the way the
report reads the records.

**Workspace.** `repo`, `head`, `tip`, `index` and `tree` are git's; a version of a
file is who wrote it last. A run stands at the git process it calls next:
`Look`, then `Status`, or `LookAgain`, `GitInit`, `GitAdd`, `GitCommit`, then
`CreateBranch`, then its work. Each may fail (`Fails`), and `is_repo` and
`has_uncommitted_changes` read a failure as "no". People write, commit and check out
at any time. `failed` and `disturbed` remember of which runs the properties may not
speak; nothing reads them but the properties.

**FileTools.** `tree` maps each path to a directory, a text or a link. `Resolved`
follows the names one by one as `Path.resolve(strict=False)` does, `Safe` is
`resolve_safe_path`. A text is a sequence of units among which line ends, bytes that
are not UTF-8 and characters UTF-8 cannot encode are told apart, since the tools
treat them differently; `Letters` are the rest. `Without` drops units (the "LF" of a
"CR" "LF", the bytes that do not decode), and `Starts` are the places where a line begins. `WriteText` is the end of a write and of an edit, with the file
emptied first.

## 3. The runs that pass

| run | asks |
|---|---|
| `core` | Over three iterations with the budget of `config.yaml`: is every READY earned, is each failure recorded once, does the Coder stay within its budget, does the result list every iteration, is no server left when `run()` returns, can the valve never trip, does the report show the newest evidence and, for READY, that of the code it leaves, and is all this an implementation of `RepairLoop`? |
| `repeats` | Over four iterations, with a valve of eight steps, which a Reviewer's rejection trips: does a repeated failure always reach the Coder as a forced change of strategy, when other failures come between; does every run end? |
| `lifecycle` | Two runs of the same task, a stop, reused pids: is a verdict on disk real, do exit code, report and verdict agree, does an orderly end leave the file RUNNING, is a SIGTERM always taken, and what can keep it from ending the run? |
| `manager` | Two names, three processes, two pids: is a foreign process group never signalled, is no process lost, does a running process have the log files of its name to itself, is `stop_all` complete for leaders, and does a stop return? |
| `role_loop` | Do replies match calls whatever is refused, unknown or raising; are requests bounded by `max_turns * max_response_retries * max_retries`; does the loop end? |
| `workspace` | Two runs that may start within one second, a person, a repository that may be missing or dirty, a git call that may fail: can runs share a branch, is work discarded or a branch lost, is a given repository committed to, what is on a run's branch? |
| `file_tools` | Any sequence of calls over names, links and `..`: what changes outside the workspace or behind a denied name; does an edit change one place; do read, search and edit agree? |

The properties, in the words of the code:

* `ReadyIsEarned`: when `final_status` is READY, the record of the last iteration
  holds a Tester report, browser results and a Reviewer PASS, all taken after the
  Coder's last run, with build and all other checks passed.
* `ValveNeverTrips`: an iteration takes at most nine steps, so
  `MAX_STEPS_PER_ITERATION = 12` is what its comment says, a guard for bugs.
* `EachFailureRecordedOnce`: `memory.history` has outcome *i* at place *i*.
  `ANALYZE_FAILURE` and `CREATE_FIX_PLAN` share a handler's region, and a second
  record would force a strategy change after a single failure.
* `CoderWithinBudget`: `max_iterations` bounds the Coder's runs.
* `ResultKeepsEveryIteration`: `result.iterations` has every iteration begun, in
  order. (It may hold one twice, see section 9.)
* `ServersContained`: the executor whose `cleanup()` runs is the one that
  started the server.
* `RepeatReachesCoder`: the flag set after a step survives to the Coder's step.
* `SavedVerdictIsReal`, `ExitCodeMatchesVerdict`, `OrderlyEndIsSaved`,
  `SignalEndsRun`: the file, the exit code and the signal handler, through
  signals inside a write, overlapping runs and reused pids. `SignalEndsRun` has two halves:
  a signal sent to a run is taken or the run has ended; and a handler ends the run, unless
  an exception of it was caught in the orchestrator. The exception is needed: see section 9.
* `OnlyOwnGroups`: between `is_running()` and `killpg` the leader stays
  unreaped, since nothing else polls it, so its pid cannot have been given away.
  `UntrackedIsReaped`, `CleanupIsComplete`, `StopReturns` concern the table.
  `LogsAreItsOwn`: the files are opened before the process is started, so a start may truncate
  them only when the last process of that name has gone, also when the start then fails.
* `RepliesMatchCalls`, `RequestsBounded`, `LoopEnds`: see the run.
* `ReadyReportIsCurrent`, `ReportShowsNewest`: the report searches tests and pages
  separately and backwards. That a READY run's results are all of one revision is
  not the search's doing but that of the gates; that a BLOCKED run's are the newest
  needs the list to hold every iteration in order, also after an exception.
* `OwnBranch`: two runs of a task in one second ask for one name, and the second is
  refused. `OnlyOwnChanges`: whichever of the two ways a start took, the tree and the branch
  are the base plus the run's own writes, unless a call failed or somebody else
  changed something. `NoCommitInGivenRepo`: one failing `rev-parse` is not enough to take a
  repository for none, because `init_repo_if_needed` asks again.
  `BranchesKept`, `UncommittedStays`: over all interleavings of starts.
* `OutsideKept`, `DeniedKept`: the check is on the resolved path, so links, `..` and
  absolute paths make no difference; a denied name goes only with a directory above it.
  `EditIsOnePlace`: what "exactly once" comes to, since matches may overlap.
  `ReadCanBeEdited`, `SearchAgreesWithRead`: in a file that is UTF-8, a range of lines
  copied from `read_file` is found by `edit_file`, and a query is in the lines
  `search_code` reports by `read_file`'s numbers. A query with a line end is the exception:
  `read_file` shows a line with its end, `search_code` looks at it without.

Every property of a passing run has a mutant: a definition of the model
changed as a plausible bug would change the code, under which TLC finds the
property violated.

## 4. What the runs refute

Five runs expect a violation. Each checks one sentence of the repository.

| run | the sentence | what the code does |
|---|---|---|
| `claim_strategy_budget` | `README.md:222`, `config.yaml:22`: BLOCKED early after `max_strategy_changes` changes that still failed | The check runs after every *step* while the latest failure is a repeated one; the steps of one fix attempt use up all four changes. It also runs after the step that returned PASS and can replace it. |
| `claim_finished` | `cli/main.py:147-149`: a task that is not running is left alone | `cmd_stop` writes STOPPED over a verdict saved after it read RUNNING. |
| `claim_survivor` | `process_manager.py:128-129`: "so a dev server never survives past its iteration" | When npm has exited, or obeys SIGTERM before its child, the child is left running, and answers at the URL where the next iteration's server is looked for. |
| `claim_refuses_dirty` | `README.md:263-265`, `orchestrator.py:115-116`: with uncommitted changes the agent refuses to start | `has_uncommitted_changes` answers no when `git status` fails or times out. |
| `claim_full_diff` | `report_generator.py:171`, `docs/HUONG_DAN.md:283`: `git diff main...branch` is the full diff | No code of a run commits anything (`add_all`, `commit` and `git.auto_commit` have no caller or reader), so that diff is empty of it. |

## 5. Bounds

* `core`: one check besides the build, one viewport, two error classes, three
  iterations. Two errors and two places to fail are what signatures need to be
  equal and unequal; three iterations are what two equal failures and a different one
  need; nothing in the loop looks back further than the latest signature's count.
* `repeats`: four iterations, so that a failure repeats, another follows, and the
  first returns; `MaxStrategyChanges = 18` so that the early BLOCKED does not hide
  them. Checks other than the build are dropped to pay for the fourth. The valve is
  eight, one less than an iteration can take, so that it does trip, after a Reviewer's
  rejection; whatever is shorter goes as under the shipped twelve.
* `lifecycle`: two runs over two pids reach overlap, succession and reuse; one stop
  is enough for each race of a stop with the runs. A handler that is interrupted by the next
  signal needs two stops: the proofs cover it, as they do any number of runs and pids, and
  so does TLC with one run and three stops (268,412 states, no run kept).
* `manager`: three Popen objects let a name be used twice while another is
  live; two pids force reuse.
* `role_loop`: three turns of at most two calls of three kinds of tool (allowed and
  writing, refused, unknown), two retries on each level. `MaxCalls` is a bound of
  the model only, the others are parameters of the code.
* `workspace`: one file that is new to the repository, two runs of one task, one
  person, two seconds and one failing call. Two runs reach every race of starts, two seconds
  the same name and two names; a second file would only be written independently. The
  proofs cover any number of each.
* `file_tools`: fourteen texts of up to three units hold every line end, a byte that is
  not UTF-8, a match that overlaps itself; one link leads outside, to a denied
  directory, to nothing, or back. `MaxLength = 3` bounds the texts edits store. One letter
  is enough, since no tool compares letters but for equality with the old text.
* `claim_strategy_budget` runs with the shipped values 8, 2 and 4.

No run uses a state constraint: iterations, turns, processes and runs are finite
because the code bounds them or because a Popen and a process are used once.
`CHECK_DEADLOCK FALSE` is set since a run returns, a conversation ends and processes are
used up: the systems do stop. That they stop only where they should is `RunEnds`,
`SignalEndsRun`, `StopReturns` and `LoopEnds`.

## 6. Fairness

* `Orchestrator`: weak fairness of `Run`. `run()` is one thread, and each call it
  makes has a timeout: LLM requests, shell commands, page loads, readiness polling,
  process waits. The exception is `page.evaluate` (`browser.py:132-133`), which has
  none: a page whose script never gives way holds a run for ever, and `RunEnds` is without
  such a page. Interrupts and exits of servers are not assumed.
* `RunLifecycle`: a run in a write goes on, and a sent signal is taken. Nothing is
  assumed of the orchestrator, the report, launches or stops.
* `ProcessManager`: weak fairness of the stopping thread; its waits have timeouts.
  Processes need not die.
* `RoleLoop`: one thread, with timeouts on requests and tools.
* `RunReport` has `Orchestrator`'s. `Workspace` and `FileTools` state safety only, without
  fairness: nothing there waits for anything.

## 7. Proofs

All theorems hold for every value of the constants, from the assumptions stated
in the modules: the limits are natural numbers, `"build"` is not among `Checks`, the
error classes are none of the marks, `"none"` is no process and no pid, paths are
sequences of names and texts sequences of units, and each file system a run may start in is
a tree with the workspace a directory in it, which `FilesystemTools.__init__` sees to
(`filesystem.py:37-41`).

**OrchestratorProofs** proves every safety property of `core`, and
`RepeatReachesCoder`, of `Spec`. None of them is inductive. The invariant is

    IInv == TypeOK /\ Control /\ Counting /\ Ledger /\ ServersContained
            /\ Evidence /\ FlagIsCurrent /\ Results

* `Control` gives each state a rank, the number of steps an iteration has taken
  at most when it gets there, whence the nine steps;
* `Counting` ties `iteration` to `codeRev` and says whether the Coder has run in
  it, whence the budget;
* `Ledger` ties the length of the memory to the iteration and the state;
* `Evidence` says what each stage may rely on because of the ones before it: this
  is the sequence of gates of which `ReadyIsEarned` is the end;
* `FlagIsCurrent` says that after the first step the flag is what the memory says;
* `Results` says that while the loop runs, iteration *i* is at place *i*.

One lemma for each conjunct goes through the actions; `AfterStepFlow` and
`AfterStepType` say once what follows every handler.

**OrchestratorPromise** proves `Spec => KeepsPromise`, that the orchestrator implements
`RepairLoop`, under the mapping attempts = `codeRev`, earned = `Earned`, verdict =
`Verdict`. Besides `IInv` it needs `Unearned`: no record holds a Reviewer's PASS
while the loop goes on, and no evidence is newer than the code.

**ManagerProofs** proves the type invariant and the four safety properties. The
invariant adds: distinct names track distinct started Popens (`Table`), the
target of a stop past its first test is unreaped (`TargetIsLive`, the reason why its pid
is its own), and `stop_all` has left only the names still in `todo` (`Remaining`).

**LifecycleProofs** proves the type invariant and the three safety properties of
`RunLifecycle`, for any number of runs, stops and pids. `RunOK` says that the status and
the interrupted contents of a run can only be the verdict it was given, that a run with a
verdict never goes back to the orchestrator, and that a handler called from the orchestrator's frames
interrupts a run that has none, so that `Swallowed` may take it back; `RunningIsWritten` that a file that says
RUNNING was written by a run with that pid that has not opened it since and has not ended
orderly; `StopsOK` that a stop that acts has read a pid. `StepOfRun` reduces each
action of a run to what it does to that run and to the file.

**RoleLoopProofs** proves the type invariant, `RepliesMatchCalls` and
`RequestsBounded`, for any tools, limits and lengths of tool lists. `RepliesMatchCalls`
is true of the transcript only between tool calls, so the invariant states it of
`Foreseen`, the transcript with the pending replies appended, which `RunTool` leaves
as it is. `Spent` counts the requests of the finished turns, attempts and posts
separately; `Multiples` is the arithmetic that carries one counter into the next.

**WorkspaceProofs** proves all six properties of `Workspace`, for any runs, people, files and
any number of failing calls. To `TypeOK` and `OwnBranch` the invariant adds
`BranchesExist`; `Mistaken`, that a given repository stays one and how many calls must have failed
where; and `Knowledge`, what a run that is neither `failed` nor `disturbed` knows at
each git process: no repository at `init`, everything staged at `commit`, a clean tree at
`branch`, its own work after it. `OthersDisturb` says that what others change
withdraws the knowledge, which is why one run at a time can be looked at.

**RunReportProofs** proves both properties of the report, over `Orchestrator`'s `IInv`.
`Timely` says that an iteration's evidence is of the one revision the iteration made, and that pages
come after tests; `Past` the same of what is kept of each earlier one.
`LastPlace` finds the newest place of a search, by well-founded descent on the naturals.

**FileToolsProofs** proves all six properties of `FileTools`, for any workspace, denied names,
requests, links and texts. The invariant is small,

    IInv == TypeOK /\ Placed(tree)

where `Placed` says that the directories the workspace is in are there, and the
workspace is a directory unless it was deleted as a whole. The work is in what the
operators compute:

* `Resolved`, `Without` and `Count` are recursive functions over the places of a
  sequence. `RecursionExists` shows such a function to exist, and `PlaceByPlace`
  carries a statement from place to place: a set of places with one where it fails has a least
  such place (`LeastPlace`, from the well-foundedness of the naturals), which is not
  the first, and whose predecessor makes it hold. So the induction is spelled out
  for a set, not taken from a theorem with an operator for a parameter.
* `ResolvedPath`: a resolved path has no link on the way. With it a path that
  is checked is the path that is opened (`SafePath`), whence `NothingOutside` and
  `NothingDenied`. `ParentsMade`, `FilePut` and `TreePruned` say that what `mkdir`, a write
  and `rmtree` leave is a tree again.
* `CountedOnce`: if `str.count` is one, any two places of a match overlap the
  one that was counted, whence `OneEditOnePlace`.
* `LineShape`: the lines of a text follow each other without a gap, and each ends
  with its "LF" or with the text. `LinesAreText` then says that the lines from one to another, joined, are
  the stretch of the text from the first's start to the last's end (`ReadIsFound`), and
  `StrippedLine` compares a line with and without its end, whence `ReadsCanBeEdited` and
  `SearchesAgree`.

**How long everything takes.** Liveness needs fairness and ENABLED, which the prover does not
handle, but fairness only says that a thread which can go on does. That it cannot go on for ever
is a safety property, and proved: each of four modules defines `StepsLeft`, at most how many
steps are left, and `EachStepCounts`, that a step of the thread leaves fewer and a step of
anyone else no more.

* `RunIsBounded`: `run()` takes at most `18 * max_iterations + 4` steps, a head and a handler
  for each of nine places of an iteration and what is around the loop. The bound is in the
  limits of the config alone, so no answer of the model makes a run longer.
* `StopIsBounded`: a stop of *k* names takes `5 * k + 1` steps. A process that dies, or starts
  workers, does not change how many are left, and `NeverStuck` says that where the stop
  waits its leader is running or is a zombie it may reap. Nothing here depends on how many names
  there are in all; that those in use are finitely many is part of the invariant.
* `EachRunIsBounded`: a process of `ai-agent run` takes at most 13 steps and three for each
  stop, from the hypothesis that there are finitely many stops. A signal lengthens the way of a run
  by the two steps that save `STOPPED` at most, or by an exception that takes it back to the
  orchestrator, and uses up one of the signals.
* `ConversationIsBounded`: a role takes at most
  `max_turns * (1 + max_response_retries * max_retries + c) + 1` steps, with *c* the longest
  list of calls a message may have (`MaxCalls`, a bound of the model and not of the code).

Only model-checked: that the four liveness properties (`RunEnds`, `SignalEndsRun`,
`StopReturns`, `LoopEnds`) follow from their fairness; and the refutations.

## 8. Abstractions

* Error texts are members of `Errors`: two texts are one class when their first
  300 characters agree, which is what a signature looks at. A signature is the data that is
  hashed, not the hash.
* The Tester's report is any marking of the checks; npm script detection is left
  out. SKIPPED is kept, since stages treat it differently.
* The workspace is its revision number. What the Coder writes, and whether a fix
  is right, appears as the nondeterministic outcome of the checks.
* `Orchestrator` sees one dev-server leader for each iteration, `ProcessManager` any
  number of names with leaders and workers; composing them is left (section 11).
* `RunLifecycle` makes everything `Orchestrator.run` does one step with either
  verdict. The two meet in the two values of `final_status`.
* A model's message is its list of called tools, and a result is a reply to a
  tool. That an executor refuses, knows or fails a call is kept, results are not.
* A SIGTERM whose handler fails and is swallowed appears in `Orchestrator` as what the
  orchestrator sees of it, a step that raises or a tool that failed, and not as an `Interrupt`.
* `Workspace`: a failing call of git that changes something has done nothing or, killed when its time was
  up, all of its work; a half-made `.git` is left out. People do not stash or delete branches, and of the git commands the allow-list
  lets a Coder run, `commit -a` stands for all. Before the first commit git refuses no
  branch name, so `OwnBranch` speaks of branches begun from a commit (`born`). The two
  `git config` calls, whose results nothing looks at, are left out.
* `FileTools`: sizes (`max_file_size_kb`, `max_results`), globs and skipped directories
  shorten what is shown and are left out. No tool makes a link, and those that
  exist lead to a path without links on the way. One call at a time: a role is one thread.
  `str.splitlines` also ends a line at a form feed, U+2028 and some more characters, in
  `read_file` and in `search_code` alike, which are left out: lines end at "LF" and "CR".
* Times are left out: a timeout may fire whenever the call may still be waiting.

## 9. Other disagreements met while modelling

These were seen in the models or in the code next to them; no run is kept for them.

* `cli/main.py:71`: when the handler's `write_state` fails, its OSError is raised in whatever
  the orchestrator was doing. `tool_executor.py:135` answers a tool call with it and the run goes on;
  `orchestrator.py:198` makes it BLOCKED. The SIGTERM is lost; `docs/HUONG_DAN.md:338` has `stop` stop a task that runs ("dừng task
  đang chạy").
* `cli/main.py:74`: a SIGTERM before the handler is installed kills the run, and the file
  stays RUNNING.
* `orchestrator.py:334`: a Reviewer's BLOCKED sets no `block_reason`;
  `docs/HUONG_DAN.md:291-293` says the report states it.
* `orchestrator.py:194,202`: the except branches append the record again,
  against "only append the first time" in lines 207-209: an iteration is listed twice.
* `planner.py:89`, `orchestrator.py:232`: a Planner answer that is a JSON list
  raises out of `run()`; `README.md:284` lists BLOCKED for a Planner failure.
* `orchestrator.py:387-422`: the failing stage writes the Coder's instruction
  before its failure is in the memory, so a new failure after a repeated one carries
  the WARNING, and a second equal one does not carry it there.
* `report_generator.py:193`: a text that holds a forbidden phrase, also in a task title
  or an error output, raises after the verdict is saved; `README.md:240` promises a
  report for every run.
* `cli/main.py:151`: `stop` signals the pid in the file without asking whose it is
  after a run was killed (`README.md:166`).
* `run_state.py:43`: a run that dies inside `write_state` leaves a file nothing can
  read, and the task is no longer listed (`README.md:236`).
* `process_manager.py:95`: `wait_until_ready` never looks at its process, so another
  program at the port makes a server that died "ready".
* `process_manager.py:70`, `tool_executor.py:88`: dev-server logs are in
  `logs/processes/`, truncated by each start; `README.md:235,285` has them in
  `logs/<task-id>/iteration-NNN/`.
* `orchestrator.py:372`: a dev server that does not start, visual issues and a SKIPPED
  build leave no name and no text in the signature, so these different failures count as one
  repeated; `failure_memory.py:4-8` has it detect "the exact same failure".
* `cli/main.py:72`: SystemExit from the SIGTERM handler and KeyboardInterrupt leave
  `run()` without a `finally`, and the dev server running, against `orchestrator.py:13-14`.
* `orchestrator.py:269`: BUILD takes SKIPPED for a failure, so a project without a build
  script never reaches the browser test `docs/HUONG_DAN.md:163-166` promises it.
* `report_generator.py:71`: the files listed are those of all iterations; the comment
  above says the last. `report_generator.py:141` and the files of a raising iteration
  are listed twice with it. Line 157 says "none flagged by the final review" also when
  there was no review.
* `report_generator.py:162`, `orchestrator.py:323`: `git diff` leaves out files git does not
  track, so neither the reader nor the Reviewer sees a file the Coder created.
* `agents/coder.py:5-7`: commits "happen outside the agent loop under Orchestrator
  control"; none do, and `git` is in `shell.allowed`, so a Coder can commit.
  `git.auto_commit` and `git.create_branch` are read by nothing.
* `git_tools.py:115`: HEAD is one for the workspace, so a run started while another works
  moves that one to its own branch (`docs/HUONG_DAN.md:130-132`: "hoàn toàn trên nhánh
  đó", entirely on that branch). `git_tools.py:66`: a workspace inside another repository counts as
  one, and the branch is created in the outer one.
* `cli/main.py:172-177`: a re-run will reuse "whatever work already exists in the workspace";
  it is uncommitted, so the re-run refuses to start.
* `filesystem.py:154`: "exactly once" lets through overlapping matches and an empty
  `old_text` in an empty file, and an edit rewrites CRLF as LF throughout.
  `filesystem.py:8`: "never raises", but a file that is not UTF-8 and a text that cannot be encoded
  do; `execute()` catches it, the file is left empty in the second case.
* `sandbox.py:54`: only the resolved path is compared with the denied names. A link that is named
  `.env` and leads to an ordinary file of the workspace is written through; `README.md:253-254` has denied
  names blocked "anywhere in the path". `DeniedKept` speaks of the files that are denied, and a link
  stays what it is.
* `sandbox.py:19-25`: the docstring has a dangling link "rejected when it was created", and one
  that leads outside not caught here. `resolve(strict=False)` follows it to its missing target, so it is
  caught, whoever made it.
* `filesystem.py:58,121`: skipped directories are looked for in the absolute path, so a
  workspace under a directory named `build`, `dist` or `venv` lists and finds nothing.
  `search_code` checks only the directory it starts in (`sandbox.py:4-8`: every path).
* `filesystem.py:180`: `delete_file(".")` removes the workspace with `.git`; deleting a
  link deletes what it leads to.
* `shell.py:166`: output that is not UTF-8 raises out of `run()`; a command that times out
  leaves the processes it started (line 185).
* `role_loop.py:124`: the nudge is repeated each turn; the comment says once.

## 10. Not modelled

The shell allow-list and the task parser are functions of text, one line or
one document at a time, without state or order: unit tests reach all of them.
The Tester's choice of npm scripts is one such function too; what the run makes of its
report is in `Orchestrator`. Configuration values are the modules' constants. Logging, prompts
and the layout of the report are wording. Doctor and the commands `status`, `logs`, `report` and
`resume` only read. Browser pages, HTTP servers and LLM answers are outside
the repository and appear as nondeterministic results.

## 11. Plan

Order of the whole project, and what is done:

1. done: `StateMachine`, `FailureMemory`, `Orchestrator`, `RepairLoop` and their
   runs; their invariant and the refinement proved.
2. done: `RunLifecycle` and `ProcessManager`, model-checked and proved.
3. done: `RoleLoop`, model-checked and proved.
4. done: `Workspace`, model-checked and proved.
5. done: `RunReport`, model-checked and proved.
6. done: `FileTools`, model-checked and proved.
7. left: compose `ProcessManager` with the servers of `Orchestrator`, so that the port a
   survivor holds reaches the next iteration's readiness check. The two modules agree on
   what `cleanup()` does to the leaders (`CleanupIsComplete`, `ServersContained`).
8. left: the shell allow-list and the Tester's script detection as operators over token
   sets, each against a reference definition.
