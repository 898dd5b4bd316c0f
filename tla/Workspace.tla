----------------------------- MODULE Workspace -----------------------------
(***************************************************************************)
(* The git repository of one workspace under several runs and people:      *)
(* tools/git_tools.py as Orchestrator.run uses it, the Coder's edits, and  *)
(* what a person may do to the same workspace meanwhile.                   *)
(*                                                                         *)
(* A run's start is one git process after the other, and anything may      *)
(* happen between two of them.  A version of a file is who wrote it last.  *)
(***************************************************************************)
EXTENDS Naturals, FiniteSets

CONSTANTS
    Runs,           \* processes `ai-agent run` on this workspace
    People,         \* who else edits it
    Tasks,          \* safe_task, what is left of a task's id in a branch name
    Files,
    NewFiles,       \* those that do not exist in the beginning
    ShellAllowsGit, \* "git" \in shell.allowed: the Coder may commit
    MaxSecond,      \* bound of the model: seconds the clock shows
    MaxFailures     \* bound of the model: git calls that fail without a reason in the repository

ASSUME WorkspaceAssumption ==
    /\ NewFiles \subseteq Files
    /\ ShellAllowsGit \in BOOLEAN
    /\ {MaxSecond, MaxFailures} \subseteq Nat
    /\ Runs \cap People = {}
    /\ {"base", "absent"} \cap (Runs \cup People) = {}
    /\ "main" \notin Tasks

VARIABLES
    repo,        \* .git is there
    head,        \* the branch HEAD names, which need not have a commit yet
    tip,         \* what the last commit of each branch contains
    index,       \* what is staged
    tree,        \* what is in the working tree
    now,         \* the clock, in seconds
    run,         \* each run: where it stands, its branch and what that began with
    failures,    \* git calls that failed so far
    given,       \* history: people had made the repository before any run
    failed,      \* history: runs one of whose calls failed
    disturbed,   \* history: runs during which somebody else changed something
    autoCommits  \* history: runs that made the initial commit

git == <<repo, head, tip, index>>
vars == <<git, tree, now, run, failures, given, failed, disturbed, autoCommits>>

Main == <<"main", 0>>
NoBranch == <<"none", 0>>

\* Mutant of BranchName: no timestamp.
BranchNameOfTask(task, second) == <<task>>

BranchName(task, second) == <<task, second>>

Nothing == [f \in Files |-> "absent"]
Base == [f \in Files |-> IF f \in NewFiles THEN "absent" ELSE "base"]

Born == head \in DOMAIN tip
LastCommit == IF Born THEN tip[head] ELSE Nothing

\* Mutant of Dirty: new files are not looked at.
DirtyTracked == \E f \in Files : index[f] # "absent" /\ tree[f] # LastCommit[f]

\* `git status --porcelain` has a line besides the branch header.
Dirty == tree # index \/ index # LastCommit

Active(r) == run[r].at \notin {"idle", "refused", "done"}

Init ==
    /\ repo \in BOOLEAN
    /\ head = Main
    /\ tip = IF repo THEN [b \in {Main} |-> Base] ELSE [b \in {} |-> Base]
    /\ index = IF repo THEN Base ELSE Nothing
    /\ tree \in {t \in [Files -> {"base", "absent"} \cup People] :
                    \A f \in Files : t[f] \in {Base[f]} \cup People}
    /\ now = 0
    /\ run = [r \in Runs |-> [at |-> "idle", branch |-> NoBranch, base |-> Nothing, born |-> FALSE]]
    /\ failures = 0
    /\ given = repo
    /\ failed = {}
    /\ disturbed = {}
    /\ autoCommits = {}

Goes(r, place) == run' = [run EXCEPT ![r].at = place]

\* A call that fails: a timeout, a lock, an owner git does not trust.  One that
\* was killed when its time was up may have done its work by then.
Fails(r) ==
    /\ failures < MaxFailures
    /\ failures' = failures + 1
    /\ failed' = failed \cup {r}

Works == UNCHANGED <<failures, failed>>

\* What an author changes, the runs under way did not expect.
Disturbs(authors) == disturbed' = disturbed \cup {r \in Runs \ authors : Active(r)}

-----------------------------------------------------------------------------
(* The start of a run *)

\* Orchestrator.run asks is_repo(), which a failing rev-parse answers with no.
Look(r) ==
    /\ run[r].at = "idle"
    /\ \/ repo /\ Goes(r, "status") /\ Works
       \/ ~repo /\ Goes(r, "init") /\ Works
       \/ repo /\ Goes(r, "init") /\ Fails(r)
    /\ UNCHANGED <<git, tree, now, given, disturbed, autoCommits>>

\* Mutant of LookAgain: init_repo_if_needed trusts its caller.
LookOnlyOnce(r) ==
    /\ run[r].at = "init"
    /\ Goes(r, "git_init") /\ Works
    /\ UNCHANGED <<git, tree, now, given, disturbed, autoCommits>>

\* init_repo_if_needed asks again, and leaves a repository as it is.
LookAgain(r) ==
    /\ run[r].at = "init"
    /\ \/ repo /\ Goes(r, "branch") /\ Works
       \/ ~repo /\ Goes(r, "git_init") /\ Works
       \/ repo /\ Goes(r, "git_init") /\ Fails(r)
    /\ UNCHANGED <<git, tree, now, given, disturbed, autoCommits>>

\* `git init -b main`, which does nothing to a repository that is there.
GitInit(r) ==
    /\ run[r].at = "git_init"
    /\ \/ repo' = TRUE /\ Goes(r, "add") /\ Works /\ Disturbs({r})
       \/ /\ Goes(r, "refused") /\ Fails(r)
          /\ \/ repo' = TRUE /\ Disturbs({r})
             \/ UNCHANGED <<repo, disturbed>>
    /\ UNCHANGED <<head, tip, index, tree, now, given, autoCommits>>

\* `git add -A`; the two calls of `git config` before it are not looked at.
GitAdd(r) ==
    /\ run[r].at = "add"
    /\ \/ index' = tree /\ Goes(r, "commit") /\ Works /\ Disturbs({r})
       \/ /\ Goes(r, "refused") /\ Fails(r)
          /\ \/ index' = tree /\ Disturbs({r})
             \/ UNCHANGED <<index, disturbed>>
    /\ UNCHANGED <<repo, head, tip, tree, now, given, autoCommits>>

\* Mutant of Committed: the commit goes to the protected branch.
CommittedToMain(content) ==
    [b \in DOMAIN tip \cup {Main} |-> IF b = Main THEN content ELSE tip[b]]

Committed(content) == [b \in DOMAIN tip \cup {head} |-> IF b = head THEN content ELSE tip[b]]

\* `git commit --allow-empty`, on whatever branch HEAD is.
GitCommit(r) ==
    /\ run[r].at = "commit"
    /\ \/ /\ Goes(r, "branch") /\ Works
          /\ tip' = Committed(index) /\ autoCommits' = autoCommits \cup {r} /\ Disturbs({r})
       \/ /\ Goes(r, "refused") /\ Fails(r)
          /\ \/ tip' = Committed(index) /\ autoCommits' = autoCommits \cup {r} /\ Disturbs({r})
             \/ UNCHANGED <<tip, autoCommits, disturbed>>
    /\ UNCHANGED <<repo, head, index, tree, now, given>>

\* has_uncommitted_changes(), which a failing status answers with no.
Status(r) ==
    /\ run[r].at = "status"
    /\ \/ Goes(r, IF Dirty THEN "refused" ELSE "branch") /\ Works
       \/ Goes(r, "branch") /\ Fails(r)
    /\ UNCHANGED <<git, tree, now, given, disturbed, autoCommits>>

\* A new branch begins at HEAD's commit; before the first commit there is none.
SwitchTo(branch) ==
    /\ tip' = [b \in DOMAIN tip \cup (IF Born THEN {branch} ELSE {}) |->
                 IF b = branch THEN LastCommit ELSE tip[b]]
    /\ head' = branch

Enters(r, branch) ==
    run' = [run EXCEPT ![r] = [at |-> "work", branch |-> branch, base |-> LastCommit, born |-> Born]]

\* Mutant of CreateBranch: `checkout -B` takes a branch that is there.
TakeBranch(r) ==
    /\ run[r].at = "branch"
    /\ \E task \in Tasks, second \in now..MaxSecond :
          LET branch == BranchName(task, second) IN
          /\ now' = second
          /\ SwitchTo(branch)
          /\ Enters(r, branch)
    /\ Works /\ Disturbs({r})
    /\ UNCHANGED <<repo, index, tree, given, autoCommits>>

\* Mutant of CreateBranch: `checkout -f -b` starts from a clean tree.
ForceBranch(r) ==
    /\ run[r].at = "branch"
    /\ \E task \in Tasks, second \in now..MaxSecond :
          LET branch == BranchName(task, second) IN
          /\ now' = second
          /\ branch \notin DOMAIN tip
          /\ SwitchTo(branch)
          /\ index' = LastCommit /\ tree' = LastCommit
          /\ Enters(r, branch)
    /\ Works /\ Disturbs({r})
    /\ UNCHANGED <<repo, given, autoCommits>>

\* `git checkout -b`: from HEAD, with index and tree as they are.
CreateBranch(r) ==
    /\ run[r].at = "branch"
    /\ \E task \in Tasks, second \in now..MaxSecond :
          LET branch == BranchName(task, second) IN
          /\ now' = second
          /\ branch \notin DOMAIN tip
          /\ SwitchTo(branch)
          /\ Enters(r, branch)
    /\ Works /\ Disturbs({r})
    /\ UNCHANGED <<repo, index, tree, given, autoCommits>>

\* The name is taken by a run of the same second, or git fails.
CreateBranchFails(r) ==
    /\ run[r].at = "branch"
    /\ Goes(r, "refused")
    /\ \/ /\ \E task \in Tasks, second \in now..MaxSecond :
                now' = second /\ BranchName(task, second) \in DOMAIN tip
          /\ Works /\ UNCHANGED <<head, tip, disturbed>>
       \/ /\ \E task \in Tasks, second \in now..MaxSecond :
                LET branch == BranchName(task, second) IN
                now' = second /\ branch \notin DOMAIN tip /\ SwitchTo(branch)
          /\ Fails(r) /\ Disturbs({r})
       \/ Fails(r) /\ UNCHANGED <<now, head, tip, disturbed>>
    /\ UNCHANGED <<repo, index, tree, given, autoCommits>>

-----------------------------------------------------------------------------
(* The run's work.  Nothing after the start calls add_all() or commit(). *)

CoderWrites(r) ==
    /\ run[r].at = "work"
    /\ \E f \in Files : tree[f] # r /\ tree' = [tree EXCEPT ![f] = r]
    /\ Disturbs({r})
    /\ UNCHANGED <<git, now, run, failures, given, failed, autoCommits>>

\* A Coder whose model runs `git commit` through run_command.
CoderCommits(r) ==
    /\ run[r].at = "work"
    /\ ShellAllowsGit
    /\ Dirty
    /\ index' = tree
    /\ tip' = Committed(tree)
    /\ Disturbs({r})
    /\ UNCHANGED <<repo, head, tree, now, run, failures, given, failed, autoCommits>>

\* Whatever the verdict, and also when the Planner fails.
Finish(r) ==
    /\ run[r].at = "work"
    /\ Goes(r, "done")
    /\ UNCHANGED <<git, tree, now, failures, given, failed, disturbed, autoCommits>>

-----------------------------------------------------------------------------
(* People *)

PersonWrites(p) ==
    /\ \E f \in Files : tree[f] # p /\ tree' = [tree EXCEPT ![f] = p]
    /\ Disturbs({})
    /\ UNCHANGED <<git, now, run, failures, given, failed, autoCommits>>

PersonCommits ==
    /\ repo /\ Dirty
    /\ index' = tree
    /\ tip' = Committed(tree)
    /\ Disturbs({})
    /\ UNCHANGED <<repo, head, tree, now, run, failures, given, failed, autoCommits>>

\* git keeps what is not committed, and refuses where it would be overwritten.
PersonChecksOut(b) ==
    /\ b \in DOMAIN tip \ {head}
    /\ LET differs == {f \in Files : tip[b][f] # LastCommit[f]} IN
       /\ \A f \in differs : index[f] = LastCommit[f] /\ tree[f] = LastCommit[f]
       /\ index' = [f \in Files |-> IF f \in differs THEN tip[b][f] ELSE index[f]]
       /\ tree' = [f \in Files |-> IF f \in differs THEN tip[b][f] ELSE tree[f]]
    /\ head' = b
    /\ Disturbs({})
    /\ UNCHANGED <<repo, tip, now, run, failures, given, failed, autoCommits>>

Start(r) ==
    Look(r) \/ LookAgain(r) \/ GitInit(r) \/ GitAdd(r) \/ GitCommit(r)
        \/ Status(r) \/ CreateBranch(r) \/ CreateBranchFails(r)

Work(r) == CoderWrites(r) \/ CoderCommits(r) \/ Finish(r)

Next ==
    \/ \E r \in Runs : Start(r) \/ Work(r)
    \/ \E p \in People : PersonWrites(p)
    \/ PersonCommits
    \/ \E b \in DOMAIN tip : PersonChecksOut(b)

Spec == Init /\ [][Next]_vars

-----------------------------------------------------------------------------
(* Properties *)

Authors == Runs \cup People
Versions == {"base", "absent"} \cup Authors
Contents == [Files -> Versions]
Branches == {Main} \cup (Tasks \X (0..MaxSecond))
Places == {"idle", "init", "git_init", "add", "commit", "status", "branch",
           "refused", "work", "done"}

\* The shape of the state.
TypeOK ==
    /\ {repo, given} \subseteq BOOLEAN
    /\ head \in Branches
    /\ DOMAIN tip \subseteq Branches /\ tip \in [DOMAIN tip -> Contents]
    /\ {index, tree} \subseteq Contents
    /\ now \in 0..MaxSecond
    /\ run \in [Runs -> [at : Places, branch : {NoBranch} \cup Branches,
                         base : Contents, born : BOOLEAN]]
    /\ failures \in 0..MaxFailures
    /\ {failed, disturbed, autoCommits} \subseteq SUBSET Runs

\* "Each run is a new branch": two runs never take the same one, not even runs
\* of one task started within the same second.  (In a repository with a commit:
\* before the first one git refuses no name.)
OwnBranch ==
    \A r, s \in Runs :
        run[r].born /\ run[s].born /\ run[r].branch = run[s].branch => r = s

\* The initial commit is for workspaces that had no repository.  In one that
\* people made, a run commits nothing at its start, and one call that fails is
\* not enough to make it: init_repo_if_needed asks again.
NoCommitInGivenRepo == given /\ failures < 2 => autoCommits = {}

\* The branch and the tree hold what the run started from and its own changes,
\* while nobody else changes anything and no call fails: whatever way its start
\* took, all else was committed or made it refuse.
OnlyOwnChanges ==
    \A r \in Runs \ (disturbed \cup failed) : run[r].at = "work" =>
        /\ head = run[r].branch
        /\ \A f \in Files :
              {tree[f], index[f], LastCommit[f]} \subseteq {run[r].base[f], r}

\* No branch disappears, and no branch but the one that HEAD is on changes,
\* through whatever runs are started at whatever moments.
BranchesKept ==
    [][\A b \in DOMAIN tip :
          b \in DOMAIN tip' /\ (b # head => tip'[b] = tip[b])]_vars

\* What is not committed leaves the tree only when a person or a Coder at work
\* writes the same file: no way of starting a run discards it.
UncommittedStays ==
    [][\A f \in Files :
          tree'[f] # tree[f] /\ tree[f] # LastCommit[f] =>
              tree'[f] \in People \cup {r \in Runs : run[r].at = "work"}]_vars
=============================================================================
