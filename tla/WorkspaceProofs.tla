-------------------------- MODULE WorkspaceProofs --------------------------
(***************************************************************************)
(* The safety properties of Workspace, for any number of runs, people and  *)
(* files, any clock and any number of failing calls.                       *)
(***************************************************************************)
EXTENDS Workspace, TLAPS

\* Each branch a run began from a commit is there.
BranchesExist == \A r \in Runs : run[r].born => run[r].branch \in DOMAIN tip

\* A repository made by people stays one, and a run takes it for none only
\* after failing calls: one to get to init_repo_if_needed, two to get past it.
Mistaken ==
    given =>
        /\ repo
        /\ \A r \in Runs :
              /\ run[r].at = "init" => failures >= 1
              /\ run[r].at \in {"git_init", "add", "commit"} => failures >= 2
        /\ autoCommits # {} => failures >= 2

Clean == tree = LastCommit /\ index = LastCommit

OwnWork(r) ==
    /\ head = run[r].branch
    /\ \A f \in Files : {tree[f], index[f], LastCommit[f]} \subseteq {run[r].base[f], r}

\* What a run whose calls all succeed knows of the repository while nobody
\* else changes it.
Knows(r) ==
    /\ run[r].at = "init" => ~repo
    /\ run[r].at = "commit" => index = tree
    /\ run[r].at = "branch" => Clean
    /\ run[r].at = "work" => OwnWork(r)

Knowledge == \A r \in Runs \ (disturbed \cup failed) : Knows(r)

IInv == TypeOK /\ BranchesExist /\ OwnBranch /\ Mistaken /\ Knowledge

-----------------------------------------------------------------------------
(* Types *)

LEMMA ContentType ==
    ASSUME TypeOK
    PROVE  /\ LastCommit \in Contents /\ Nothing \in Contents
           /\ index \in Contents /\ tree \in Contents
  BY DEF TypeOK, LastCommit, Born, Nothing, Contents, Versions

LEMMA CommittedType ==
    ASSUME TypeOK, NEW c \in Contents
    PROVE  /\ DOMAIN Committed(c) = DOMAIN tip \cup {head}
           /\ DOMAIN Committed(c) \subseteq Branches
           /\ Committed(c) \in [DOMAIN Committed(c) -> Contents]
           /\ Committed(c)[head] = c
           /\ \A b \in DOMAIN tip : b # head => Committed(c)[b] = tip[b]
  BY DEF TypeOK, Committed

\* A branch to be created is one of the names, and what SwitchTo does.
LEMMA SwitchType ==
    ASSUME TypeOK, NEW task \in Tasks, NEW second \in now..MaxSecond,
           SwitchTo(BranchName(task, second)), BranchName(task, second) \notin DOMAIN tip
    PROVE  /\ BranchName(task, second) \in Branches
           /\ second \in 0..MaxSecond
           /\ DOMAIN tip' \subseteq Branches /\ tip' \in [DOMAIN tip' -> Contents]
           /\ head' = BranchName(task, second)
           /\ LastCommit' = LastCommit
           /\ DOMAIN tip \subseteq DOMAIN tip'
           /\ Born => BranchName(task, second) \in DOMAIN tip'
           /\ \A b \in DOMAIN tip : tip'[b] = tip[b]
  <1> DEFINE branch == BranchName(task, second)
  <1>1. now \in Nat /\ MaxSecond \in Nat
    BY WorkspaceAssumption DEF TypeOK, WorkspaceAssumption
  <1>2. second \in 0..MaxSecond
    BY <1>1
  <1>3. branch \in Branches
    BY <1>2 DEF Branches, BranchName
  <1> HIDE DEF branch
  <1>4. /\ head' = branch
        /\ DOMAIN tip' = DOMAIN tip \cup (IF Born THEN {branch} ELSE {})
        /\ \A b \in DOMAIN tip' : tip'[b] = IF b = branch THEN LastCommit ELSE tip[b]
        /\ tip' = [b \in DOMAIN tip' |-> IF b = branch THEN LastCommit ELSE tip[b]]
    BY DEF SwitchTo, branch
  <1>5. branch \notin DOMAIN tip
    BY DEF branch
  <1>6. LastCommit \in Contents /\ DOMAIN tip \subseteq Branches
          /\ \A b \in DOMAIN tip : tip[b] \in Contents
    BY ContentType DEF TypeOK
  <1>7. \A b \in DOMAIN tip' : tip'[b] \in Contents
    BY <1>4, <1>6
  <1>8. LastCommit' = LastCommit
    <2>1. CASE Born
      BY <1>4, <2>1 DEF LastCommit, Born
    <2>2. CASE ~Born
      BY <1>4, <1>5, <2>2 DEF LastCommit, Born, Nothing
    <2> QED
      BY <2>1, <2>2
  <1>9. tip' \in [DOMAIN tip' -> Contents]
    BY <1>4, <1>7
  <1>10. /\ DOMAIN tip' \subseteq Branches /\ DOMAIN tip \subseteq DOMAIN tip'
         /\ Born => branch \in DOMAIN tip'
         /\ \A b \in DOMAIN tip : tip'[b] = tip[b]
    BY <1>3, <1>4, <1>5, <1>6
  <1> QED
    BY <1>2, <1>3, <1>4, <1>8, <1>9, <1>10 DEF branch

\* A run that only goes from place to place.
LEMMA GoesType ==
    ASSUME TypeOK, NEW r \in Runs, NEW place \in Places, Goes(r, place)
    PROVE  /\ run' \in [Runs -> [at : Places, branch : {NoBranch} \cup Branches,
                                 base : Contents, born : BOOLEAN]]
           /\ run'[r].at = place
           /\ \A s \in Runs \ {r} : run'[s] = run[s]
           /\ \A s \in Runs : /\ run'[s].branch = run[s].branch
                              /\ run'[s].base = run[s].base
                              /\ run'[s].born = run[s].born
  BY DEF TypeOK, Goes

LEMMA FailsType ==
    ASSUME TypeOK, NEW r \in Runs, Fails(r)
    PROVE  /\ failures' = failures + 1 /\ failures' \in 0..MaxFailures
           /\ failed' \in SUBSET Runs /\ r \in failed'
           /\ failed \subseteq failed'
  BY WorkspaceAssumption DEF TypeOK, Fails, WorkspaceAssumption

LEMMA EntersType ==
    ASSUME TypeOK, NEW r \in Runs, NEW branch \in Branches, Enters(r, branch)
    PROVE  /\ run' \in [Runs -> [at : Places, branch : {NoBranch} \cup Branches,
                                 base : Contents, born : BOOLEAN]]
           /\ run'[r] = [at |-> "work", branch |-> branch, base |-> LastCommit, born |-> Born]
           /\ \A s \in Runs \ {r} : run'[s] = run[s]
  BY ContentType DEF TypeOK, Enters, Places, Born

\* What `git checkout -b` does to the repository and to the run.
LEMMA BranchCreated ==
    ASSUME TypeOK, NEW r \in Runs, CreateBranch(r)
    PROVE  \E branch \in Branches :
             /\ branch \notin DOMAIN tip /\ head' = branch
             /\ LastCommit' = LastCommit
             /\ DOMAIN tip \subseteq DOMAIN tip' /\ \A b \in DOMAIN tip : tip'[b] = tip[b]
             /\ Born => branch \in DOMAIN tip'
             /\ run'[r].at = "work" /\ run'[r].branch = branch
             /\ run'[r].base = LastCommit /\ run'[r].born = Born
             /\ \A s \in Runs \ {r} : run'[s] = run[s]
  <1>1. PICK task \in Tasks, second \in now..MaxSecond :
           /\ BranchName(task, second) \notin DOMAIN tip
           /\ SwitchTo(BranchName(task, second)) /\ Enters(r, BranchName(task, second))
    BY DEF CreateBranch
  <1> DEFINE branch == BranchName(task, second)
  <1>2. /\ branch \in Branches /\ head' = branch /\ LastCommit' = LastCommit
        /\ DOMAIN tip \subseteq DOMAIN tip' /\ \A b \in DOMAIN tip : tip'[b] = tip[b]
        /\ Born => branch \in DOMAIN tip'
    BY <1>1, SwitchType
  <1>3. branch \notin DOMAIN tip /\ Enters(r, branch)
    BY <1>1
  <1> HIDE DEF branch
  <1>4. /\ run'[r] = [at |-> "work", branch |-> branch, base |-> LastCommit, born |-> Born]
        /\ \A s \in Runs \ {r} : run'[s] = run[s]
    BY <1>2, <1>3, EntersType
  <1> QED
    BY <1>2, <1>3, <1>4

LEMMA StepType ==
    ASSUME TypeOK, [Next]_vars
    PROVE  TypeOK'
  <1>0. disturbed \in SUBSET Runs /\ failed \in SUBSET Runs /\ autoCommits \in SUBSET Runs
    BY DEF TypeOK
  <1>1. ASSUME NEW r \in Runs, Look(r) \/ LookAgain(r) \/ Status(r)
        PROVE  TypeOK'
    <2>1. PICK place \in Places : Goes(r, place)
      BY <1>1 DEF Look, LookAgain, Status, Places
    <2>2. Fails(r) \/ Works
      BY <1>1 DEF Look, LookAgain, Status
    <2>3. failures' \in 0..MaxFailures /\ failed' \in SUBSET Runs
      BY <2>2, FailsType DEF TypeOK, Works
    <2>4. UNCHANGED <<git, tree, now, given, disturbed, autoCommits>>
      BY <1>1 DEF Look, LookAgain, Status
    <2> QED
      BY <2>1, <2>3, <2>4, GoesType DEF TypeOK, git
  <1>2. ASSUME NEW r \in Runs, GitInit(r) \/ GitAdd(r) \/ GitCommit(r)
        PROVE  TypeOK'
    <2>1. PICK place \in Places : Goes(r, place)
      BY <1>2 DEF GitInit, GitAdd, GitCommit, Places
    <2>2. Fails(r) \/ Works
      BY <1>2 DEF GitInit, GitAdd, GitCommit
    <2>3. failures' \in 0..MaxFailures /\ failed' \in SUBSET Runs
      BY <2>2, FailsType DEF TypeOK, Works
    <2>4. disturbed' \in SUBSET Runs /\ autoCommits' \in SUBSET Runs
      BY <1>0, <1>2 DEF GitInit, GitAdd, GitCommit, Disturbs
    <2>5. index' \in Contents /\ repo' \in BOOLEAN
      BY <1>2, ContentType DEF GitInit, GitAdd, GitCommit, TypeOK
    <2>6. DOMAIN tip' \subseteq Branches /\ tip' \in [DOMAIN tip' -> Contents]
      BY <1>2, ContentType, CommittedType DEF GitInit, GitAdd, GitCommit, TypeOK
    <2>7. UNCHANGED <<head, tree, now, given>>
      BY <1>2 DEF GitInit, GitAdd, GitCommit
    <2> QED
      BY <2>1, <2>3, <2>4, <2>5, <2>6, <2>7, GoesType DEF TypeOK
  <1>3. ASSUME NEW r \in Runs, CreateBranch(r)
        PROVE  TypeOK'
    <2>1. PICK task \in Tasks, second \in now..MaxSecond :
             /\ now' = second /\ BranchName(task, second) \notin DOMAIN tip
             /\ SwitchTo(BranchName(task, second)) /\ Enters(r, BranchName(task, second))
      BY <1>3 DEF CreateBranch
    <2>2. /\ disturbed' \in SUBSET Runs
          /\ UNCHANGED <<repo, index, tree, given, autoCommits, failures, failed>>
      BY <1>0, <1>3 DEF CreateBranch, Disturbs, Works
    <2>3. BranchName(task, second) \in Branches /\ head' \in Branches /\ now' \in 0..MaxSecond
      BY <2>1, SwitchType
    <2>4. DOMAIN tip' \subseteq Branches /\ tip' \in [DOMAIN tip' -> Contents]
      BY <2>1, SwitchType
    <2>5. run' \in [Runs -> [at : Places, branch : {NoBranch} \cup Branches,
                             base : Contents, born : BOOLEAN]]
      BY <2>1, <2>3, EntersType
    <2> QED
      BY <2>2, <2>3, <2>4, <2>5 DEF TypeOK
  <1>4. ASSUME NEW r \in Runs, CreateBranchFails(r)
        PROVE  TypeOK'
    <2>1. Goes(r, "refused") /\ "refused" \in Places
      BY <1>4 DEF CreateBranchFails, Places
    <2>2. failures' \in 0..MaxFailures /\ failed' \in SUBSET Runs
      BY <1>4, FailsType DEF CreateBranchFails, TypeOK, Works
    <2>3. now' \in 0..MaxSecond
      BY <1>4, WorkspaceAssumption DEF CreateBranchFails, TypeOK, WorkspaceAssumption
    <2>4. UNCHANGED <<repo, index, tree, given, autoCommits>> /\ disturbed' \in SUBSET Runs
      BY <1>0, <1>4 DEF CreateBranchFails, Disturbs
    <2>5. /\ head' \in Branches
          /\ DOMAIN tip' \subseteq Branches /\ tip' \in [DOMAIN tip' -> Contents]
      <3>1. CASE UNCHANGED <<head, tip>>
        BY <3>1 DEF TypeOK
      <3>2. ASSUME NEW task \in Tasks, NEW second \in now..MaxSecond,
                   BranchName(task, second) \notin DOMAIN tip,
                   SwitchTo(BranchName(task, second))
            PROVE  /\ head' \in Branches
                   /\ DOMAIN tip' \subseteq Branches /\ tip' \in [DOMAIN tip' -> Contents]
        BY <3>2, SwitchType
      <3> QED
        BY <1>4, <3>1, <3>2 DEF CreateBranchFails
    <2> QED
      BY <2>1, <2>2, <2>3, <2>4, <2>5, GoesType DEF TypeOK
  <1>5. ASSUME NEW a \in Authors, tree' \in {[tree EXCEPT ![f] = a] : f \in Files},
               disturbed' \in SUBSET Runs,
               UNCHANGED <<git, now, run, failures, given, failed, autoCommits>>
        PROVE  TypeOK'
    <2>1. tree' \in Contents
      BY <1>5 DEF TypeOK, Contents, Versions
    <2> QED
      BY <1>5, <2>1 DEF TypeOK, git
  <1>6. ASSUME NEW r \in Runs, CoderWrites(r)
        PROVE  TypeOK'
    BY <1>0, <1>5, <1>6 DEF CoderWrites, Disturbs, Authors
  <1>7. ASSUME NEW p \in People, PersonWrites(p)
        PROVE  TypeOK'
    BY <1>0, <1>5, <1>7 DEF PersonWrites, Disturbs, Authors
  <1>8. ASSUME \/ PersonCommits \/ \E r \in Runs : CoderCommits(r)
        PROVE  TypeOK'
    <2>1. /\ index' = tree /\ tip' = Committed(tree) /\ disturbed' \in SUBSET Runs
          /\ UNCHANGED <<repo, head, tree, now, run, failures, given, failed, autoCommits>>
      BY <1>0, <1>8 DEF PersonCommits, CoderCommits, Disturbs
    <2>2. DOMAIN tip' \subseteq Branches /\ tip' \in [DOMAIN tip' -> Contents]
      BY <2>1, ContentType, CommittedType
    <2> QED
      BY <2>1, <2>2 DEF TypeOK
  <1>9. ASSUME NEW r \in Runs, Finish(r)
        PROVE  TypeOK'
    <2>1. Goes(r, "done") /\ "done" \in Places
      BY <1>9 DEF Finish, Places
    <2>2. UNCHANGED <<git, tree, now, failures, given, failed, disturbed, autoCommits>>
      BY <1>9 DEF Finish
    <2> QED
      BY <2>1, <2>2, GoesType DEF TypeOK, git
  <1>10. ASSUME NEW b \in DOMAIN tip, PersonChecksOut(b)
         PROVE  TypeOK'
    <2>1. tip[b] \in Contents /\ b \in Branches
      BY DEF TypeOK
    <2>2. index' \in Contents /\ tree' \in Contents
      BY <1>10, <2>1 DEF PersonChecksOut, TypeOK, Contents
    <2>3. /\ head' = b /\ disturbed' \in SUBSET Runs
          /\ UNCHANGED <<repo, tip, now, run, failures, given, failed, autoCommits>>
      BY <1>0, <1>10 DEF PersonChecksOut, Disturbs
    <2> QED
      BY <2>1, <2>2, <2>3 DEF TypeOK
  <1>11. CASE UNCHANGED vars
    BY <1>11 DEF vars, git, TypeOK
  <1> QED
    BY <1>1, <1>2, <1>3, <1>4, <1>6, <1>7, <1>8, <1>9, <1>10, <1>11
       DEF Next, Start, Work

-----------------------------------------------------------------------------
(* Branches *)

\* What a step does to the branches: a commit to the one HEAD is on, or a new
\* one, or nothing.
LEMMA BranchesOfStep ==
    ASSUME TypeOK, [Next]_vars
    PROVE  \A b \in DOMAIN tip : b \in DOMAIN tip' /\ (b # head => tip'[b] = tip[b])
  <1>1. CASE \/ \E r \in Runs : GitCommit(r) \/ CoderCommits(r)
             \/ PersonCommits
    <2>1. tip' = tip \/ tip' = Committed(index) \/ tip' = Committed(tree)
      BY <1>1 DEF GitCommit, CoderCommits, PersonCommits
    <2> QED
      BY <2>1, ContentType, CommittedType
  <1>2. ASSUME NEW r \in Runs, CreateBranch(r)
        PROVE  \A b \in DOMAIN tip : b \in DOMAIN tip' /\ (b # head => tip'[b] = tip[b])
    <2>1. DOMAIN tip \subseteq DOMAIN tip' /\ \A b \in DOMAIN tip : tip'[b] = tip[b]
      BY <1>2, BranchCreated
    <2> QED
      BY <2>1
  <1>3. ASSUME NEW r \in Runs, CreateBranchFails(r)
        PROVE  \A b \in DOMAIN tip : b \in DOMAIN tip' /\ (b # head => tip'[b] = tip[b])
    <2>1. ASSUME NEW task \in Tasks, NEW second \in now..MaxSecond,
                 BranchName(task, second) \notin DOMAIN tip,
                 SwitchTo(BranchName(task, second))
          PROVE  DOMAIN tip \subseteq DOMAIN tip' /\ \A b \in DOMAIN tip : tip'[b] = tip[b]
      BY <2>1, SwitchType
    <2> QED
      BY <1>3, <2>1 DEF CreateBranchFails
  <1>4. CASE \/ \E r \in Runs :
                  \/ Look(r) \/ LookAgain(r) \/ GitInit(r) \/ GitAdd(r) \/ Status(r)
                  \/ CoderWrites(r) \/ Finish(r)
             \/ \E p \in People : PersonWrites(p)
             \/ \E b \in DOMAIN tip : PersonChecksOut(b)
             \/ UNCHANGED vars
    <2>1. tip' = tip
      BY <1>4 DEF Look, LookAgain, GitInit, GitAdd, Status, CoderWrites,
                  Finish, PersonWrites, PersonChecksOut, vars, git
    <2> QED
      BY <2>1
  <1> QED
    BY <1>1, <1>2, <1>3, <1>4 DEF Next, Start, Work

\* The steps after which the runs have the branches they had.
LEMMA RunKeepsBranch ==
    ASSUME TypeOK, [Next]_vars, NEW s \in Runs, ~CreateBranch(s)
    PROVE  run'[s].born = run[s].born /\ run'[s].branch = run[s].branch
  <1>1. ASSUME NEW r \in Runs,
               \/ Look(r) \/ LookAgain(r) \/ Status(r) \/ GitInit(r) \/ GitAdd(r)
               \/ GitCommit(r) \/ CreateBranchFails(r) \/ Finish(r)
        PROVE  run'[s].born = run[s].born /\ run'[s].branch = run[s].branch
    <2>1. PICK place \in Places : Goes(r, place)
      BY <1>1 DEF Look, LookAgain, Status, GitInit, GitAdd, GitCommit,
                  CreateBranchFails, Finish, Places
    <2> QED
      BY <2>1, GoesType
  <1>2. ASSUME NEW r \in Runs, CreateBranch(r)
        PROVE  run'[s] = run[s]
    <2>1. r # s /\ \A t \in Runs \ {r} : run'[t] = run[t]
      BY <1>2, BranchCreated
    <2> QED
      BY <2>1
  <1>3. CASE \/ \E r \in Runs : CoderWrites(r) \/ CoderCommits(r)
             \/ \E p \in People : PersonWrites(p)
             \/ PersonCommits
             \/ \E b \in DOMAIN tip : PersonChecksOut(b)
             \/ UNCHANGED vars
    BY <1>3 DEF CoderWrites, CoderCommits, PersonWrites, PersonCommits, PersonChecksOut, vars
  <1> QED
    BY <1>1, <1>2, <1>3 DEF Next, Start, Work

LEMMA StepOwnBranch ==
    ASSUME TypeOK, BranchesExist, OwnBranch, [Next]_vars
    PROVE  BranchesExist' /\ OwnBranch'
  <1>1. \A b \in DOMAIN tip : b \in DOMAIN tip'
    BY BranchesOfStep
  <1>2. CASE \E r \in Runs : CreateBranch(r)
    <2>1. PICK r \in Runs : CreateBranch(r)
      BY <1>2
    <2>2. PICK branch \in Branches :
             /\ branch \notin DOMAIN tip
             /\ Born => branch \in DOMAIN tip'
             /\ run'[r].branch = branch /\ run'[r].born = Born
             /\ \A s \in Runs \ {r} : run'[s] = run[s]
      BY <2>1, BranchCreated
    <2>3. Born => branch \in DOMAIN tip'
      BY <2>2
    <2>4. /\ run'[r].branch = branch /\ run'[r].born = Born
          /\ \A s \in Runs \ {r} : run'[s] = run[s]
      BY <2>2
    <2>5. branch \notin DOMAIN tip
      BY <2>2
    <2>6. BranchesExist'
      BY <1>1, <2>3, <2>4 DEF BranchesExist
    <2>7. \A s \in Runs \ {r} : run[s].born => run[s].branch # branch
      BY <2>5 DEF BranchesExist
    <2>8. OwnBranch'
      BY <2>4, <2>7 DEF OwnBranch
    <2> QED
      BY <2>6, <2>8
  <1>3. CASE ~\E r \in Runs : CreateBranch(r)
    <2>1. \A s \in Runs : run'[s].born = run[s].born /\ run'[s].branch = run[s].branch
      BY <1>3, RunKeepsBranch
    <2> QED
      BY <1>1, <2>1 DEF BranchesExist, OwnBranch
  <1> QED
    BY <1>2, <1>3

-----------------------------------------------------------------------------
(* The initial commit *)

LEMMA StepMistaken ==
    ASSUME TypeOK, Mistaken, [Next]_vars
    PROVE  Mistaken'
  <1>0. given' = given
    BY DEF Next, Start, Work, Look, LookAgain, Status, GitInit, GitAdd, GitCommit,
           CreateBranch, CreateBranchFails, Finish, CoderWrites, CoderCommits,
           PersonWrites, PersonCommits, PersonChecksOut, vars
  <1> SUFFICES ASSUME given
               PROVE  /\ repo'
                      /\ \A s \in Runs :
                            /\ run'[s].at = "init" => failures' >= 1
                            /\ run'[s].at \in {"git_init", "add", "commit"} => failures' >= 2
                      /\ autoCommits' # {} => failures' >= 2
    BY <1>0 DEF Mistaken
  <1>1. /\ repo
        /\ \A s \in Runs :
              /\ run[s].at = "init" => failures >= 1
              /\ run[s].at \in {"git_init", "add", "commit"} => failures >= 2
        /\ autoCommits # {} => failures >= 2
        /\ failures \in Nat
    BY DEF Mistaken, TypeOK
  <1>2. ASSUME NEW r \in Runs, Look(r) \/ LookAgain(r) \/ Status(r)
        PROVE  Mistaken'
    <2>1. repo' /\ autoCommits' = autoCommits
      BY <1>1, <1>2 DEF Look, LookAgain, Status, git
    <2>2. failures' = failures \/ (Fails(r) /\ failures' = failures + 1)
      BY <1>2, FailsType DEF Look, LookAgain, Status, Works
    <2>3. PICK place \in Places :
            /\ Goes(r, place)
            /\ place = "init" => Look(r) /\ Fails(r)
            /\ place = "git_init" => LookAgain(r) /\ Fails(r)
            /\ place \notin {"add", "commit"}
      BY <1>1, <1>2 DEF Look, LookAgain, Status, Places
    <2>4. run'[r].at = place /\ \A s \in Runs \ {r} : run'[s] = run[s]
      BY <2>3, GoesType
    <2>5. place = "init" => failures' >= 1
      BY <1>1, <2>3, FailsType
    <2>6. place = "git_init" => failures' >= 2
      <3>1. place = "git_init" => failures >= 1 /\ failures' = failures + 1
        BY <1>1, <2>3, FailsType DEF LookAgain
      <3> QED
        BY <1>1, <3>1
    <2>7. failures' >= failures /\ failures' \in Nat
      BY <1>1, <2>2
    <2>8. \A s \in Runs :
            /\ run'[s].at = "init" => failures' >= 1
            /\ run'[s].at \in {"git_init", "add", "commit"} => failures' >= 2
      BY <1>1, <2>3, <2>4, <2>5, <2>6, <2>7
    <2> QED
      BY <1>1, <2>1, <2>7, <2>8 DEF Mistaken
  <1>3. ASSUME NEW r \in Runs, GitInit(r) \/ GitAdd(r) \/ GitCommit(r)
        PROVE  Mistaken'
    <2>1. repo' /\ failures >= 2
      BY <1>1, <1>3 DEF GitInit, GitAdd, GitCommit
    <2>2. failures' = failures \/ failures' = failures + 1
      BY <1>3, FailsType DEF GitInit, GitAdd, GitCommit, Works
    <2>3. failures' >= 2 /\ failures' >= 1
      BY <1>1, <2>1, <2>2
    <2> QED
      BY <2>1, <2>2, <2>3 DEF Mistaken
  <1>4. ASSUME NEW r \in Runs, CreateBranch(r)
        PROVE  Mistaken'
    <2>2. run'[r].at = "work" /\ \A s \in Runs \ {r} : run'[s] = run[s]
      BY <1>4, BranchCreated
    <2>3. repo' = repo /\ failures' = failures /\ autoCommits' = autoCommits
      BY <1>4 DEF CreateBranch, Works
    <2> QED
      BY <1>1, <2>2, <2>3 DEF Mistaken
  <1>5. ASSUME NEW r \in Runs, CreateBranchFails(r) \/ Finish(r)
        PROVE  Mistaken'
    <2>1. PICK place \in {"refused", "done"} : Goes(r, place)
      BY <1>5 DEF CreateBranchFails, Finish
    <2>2. run'[r].at \in {"refused", "done"} /\ \A s \in Runs \ {r} : run'[s] = run[s]
      BY <2>1, GoesType DEF Places
    <2>3. repo' = repo /\ autoCommits' = autoCommits
      BY <1>5 DEF CreateBranchFails, Finish, git
    <2>4. failures' = failures \/ failures' = failures + 1
      BY <1>5, FailsType DEF CreateBranchFails, Finish, Works
    <2> QED
      BY <1>1, <2>2, <2>3, <2>4 DEF Mistaken
  <1>6. CASE \/ \E r \in Runs : CoderWrites(r) \/ CoderCommits(r)
             \/ \E p \in People : PersonWrites(p)
             \/ PersonCommits
             \/ \E b \in DOMAIN tip : PersonChecksOut(b)
             \/ UNCHANGED vars
    <2>1. repo' = repo /\ run' = run /\ failures' = failures /\ autoCommits' = autoCommits
      BY <1>6 DEF CoderWrites, CoderCommits, PersonWrites, PersonCommits, PersonChecksOut,
                  vars, git
    <2> QED
      BY <1>1, <2>1 DEF Mistaken
  <1> QED
    BY <1>0, <1>2, <1>3, <1>4, <1>5, <1>6 DEF Next, Start, Work, Mistaken

-----------------------------------------------------------------------------
(* What a run knows *)

\* Who acts in a step: a run or a person.
StepOf(r) == Start(r) \/ Work(r)

StepOfPerson ==
    \/ \E p \in People : PersonWrites(p)
    \/ PersonCommits
    \/ \E b \in DOMAIN tip : PersonChecksOut(b)

\* A step of somebody else leaves a run where it is; if it is under way, it is
\* disturbed by the step, or the step changes nothing it sees.
LEMMA OthersDisturb ==
    ASSUME TypeOK, NEW r \in Runs,
           \/ StepOfPerson \/ UNCHANGED vars
           \/ \E s \in Runs \ {r} : StepOf(s)
    PROVE  /\ run'[r] = run[r]
           /\ Active(r) => r \in disturbed' \/ UNCHANGED <<git, tree>>
  <1>1. CASE StepOfPerson
    <2>1. (Active(r) => r \in disturbed') /\ run' = run
      BY <1>1 DEF StepOfPerson, PersonWrites, PersonCommits, PersonChecksOut, Disturbs
    <2> QED
      BY <2>1
  <1>2. CASE UNCHANGED vars
    BY <1>2 DEF vars
  <1>3. ASSUME NEW s \in Runs \ {r}, StepOf(s)
        PROVE  /\ run'[r] = run[r]
               /\ Active(r) => r \in disturbed' \/ UNCHANGED <<git, tree>>
    <2>1. CASE \/ Look(s) \/ LookAgain(s) \/ GitInit(s) \/ GitAdd(s) \/ GitCommit(s)
               \/ Status(s) \/ CreateBranchFails(s) \/ Finish(s)
      <3>1. PICK place \in Places : Goes(s, place)
        BY <2>1 DEF Look, LookAgain, Status, GitInit, GitAdd, GitCommit,
                    CreateBranchFails, Finish, Places
      <3>2. run'[r] = run[r]
        BY <3>1, GoesType
      <3>3. Active(r) => r \in disturbed' \/ UNCHANGED <<git, tree>>
        BY <2>1 DEF Look, LookAgain, Status, GitInit, GitAdd, GitCommit,
                    CreateBranchFails, Finish, Disturbs, git
      <3> QED
        BY <3>2, <3>3
    <2>2. CASE CreateBranch(s)
      <3>1. Active(r) => r \in disturbed'
        BY <2>2 DEF CreateBranch, Disturbs
      <3>2. run'[r] = run[r]
        BY <2>2, BranchCreated
      <3> QED
        BY <3>1, <3>2
    <2>3. CASE CoderWrites(s) \/ CoderCommits(s)
      BY <2>3 DEF CoderWrites, CoderCommits, Disturbs
    <2> QED
      BY <1>3, <2>1, <2>2, <2>3 DEF StepOf, Start, Work
  <1> QED
    BY <1>1, <1>2, <1>3

\* A run whose calls succeeded learns from its own steps what it claims to know.
LEMMA OwnStepKnows ==
    ASSUME TypeOK, NEW r \in Runs, StepOf(r), Knows(r), r \notin failed'
    PROVE  Knows(r)'
  <1>0. ~Fails(r)
    BY FailsType
  <1>1. CASE Look(r)
    <2>1. Goes(r, "status") \/ (~repo /\ Goes(r, "init"))
      BY <1>0, <1>1 DEF Look
    <2>2. run'[r].at = "status" \/ (~repo' /\ run'[r].at = "init")
      BY <1>1, <2>1, GoesType DEF Places, Look, git
    <2> QED
      BY <2>2 DEF Knows
  <1>2. CASE LookAgain(r)
    <2>1. ~repo
      BY <1>2 DEF LookAgain, Knows
    <2>2. Goes(r, "git_init")
      BY <1>0, <1>2, <2>1 DEF LookAgain
    <2>3. run'[r].at = "git_init"
      BY <2>2, GoesType DEF Places
    <2> QED
      BY <2>3 DEF Knows
  <1>3. CASE GitInit(r)
    <2>1. Goes(r, "add")
      BY <1>0, <1>3 DEF GitInit
    <2>2. run'[r].at = "add"
      BY <2>1, GoesType DEF Places
    <2> QED
      BY <2>2 DEF Knows
  <1>4. CASE GitAdd(r)
    <2>1. Goes(r, "commit") /\ index' = tree /\ tree' = tree
      BY <1>0, <1>4 DEF GitAdd
    <2>2. run'[r].at = "commit"
      BY <2>1, GoesType DEF Places
    <2> QED
      BY <2>1, <2>2 DEF Knows
  <1>5. CASE GitCommit(r)
    <2>1. /\ Goes(r, "branch") /\ tip' = Committed(index)
          /\ head' = head /\ index' = index /\ tree' = tree
      BY <1>0, <1>5 DEF GitCommit
    <2>4. index = tree
      BY <1>5 DEF GitCommit, Knows
    <2>2. run'[r].at = "branch"
      BY <2>1, GoesType DEF Places
    <2>3. LastCommit' = index
      BY <2>1, CommittedType, ContentType DEF LastCommit, Born
    <2> QED
      BY <2>1, <2>2, <2>3, <2>4 DEF Knows, Clean
  <1>6. CASE Status(r)
    <2>1. Goes(r, IF Dirty THEN "refused" ELSE "branch") /\ UNCHANGED <<git, tree>>
      BY <1>0, <1>6 DEF Status
    <2>2. run'[r].at = IF Dirty THEN "refused" ELSE "branch"
      BY <2>1, GoesType DEF Places
    <2>3. LastCommit' = LastCommit /\ tree' = tree /\ index' = index
      BY <2>1 DEF git, LastCommit, Born
    <2>4. ~Dirty => Clean
      BY DEF Dirty, Clean
    <2> QED
      BY <2>2, <2>3, <2>4 DEF Knows, Clean
  <1>7. CASE CreateBranch(r)
    <2>1. tree = LastCommit /\ index = LastCommit
      BY <1>7 DEF CreateBranch, Knows, Clean
    <2>2. /\ tree' = tree /\ index' = index /\ LastCommit' = LastCommit
          /\ run'[r].at = "work" /\ head' = run'[r].branch /\ run'[r].base = LastCommit
      BY <1>7, BranchCreated DEF CreateBranch
    <2>3. OwnWork(r)'
      BY <2>1, <2>2 DEF OwnWork
    <2> QED
      BY <2>2, <2>3 DEF Knows
  <1>8. CASE CreateBranchFails(r) \/ Finish(r)
    <2>1. PICK place \in {"refused", "done"} : Goes(r, place)
      BY <1>8 DEF CreateBranchFails, Finish
    <2>2. run'[r].at \in {"refused", "done"}
      BY <2>1, GoesType DEF Places
    <2> QED
      BY <2>2 DEF Knows
  <1>9. CASE CoderWrites(r)
    <2>1. PICK f \in Files : tree' = [tree EXCEPT ![f] = r]
      BY <1>9 DEF CoderWrites
    <2>2. run' = run /\ UNCHANGED git /\ OwnWork(r) /\ run[r].at = "work"
      BY <1>9 DEF CoderWrites, Knows
    <2>3. head' = head /\ index' = index /\ LastCommit' = LastCommit
      BY <2>2 DEF git, LastCommit, Born
    <2>4. \A g \in Files : tree'[g] \in {tree[g], r}
      BY <2>1 DEF TypeOK, Contents
    <2>5. OwnWork(r)'
      BY <2>2, <2>3, <2>4 DEF OwnWork
    <2> QED
      BY <2>2, <2>5 DEF Knows
  <1>10. CASE CoderCommits(r)
    <2>1. /\ run' = run /\ head' = head /\ tree' = tree /\ index' = tree
          /\ tip' = Committed(tree) /\ OwnWork(r) /\ run[r].at = "work"
      BY <1>10 DEF CoderCommits, Knows
    <2>2. LastCommit' = tree
      BY <2>1, CommittedType, ContentType DEF LastCommit, Born
    <2>3. OwnWork(r)'
      BY <2>1, <2>2 DEF OwnWork
    <2> QED
      BY <2>1, <2>3 DEF Knows
  <1> QED
    BY <1>1, <1>2, <1>3, <1>4, <1>5, <1>6, <1>7, <1>8, <1>9, <1>10 DEF StepOf, Start, Work

\* Failures and disturbances are not forgotten.
LEMMA MarksStay ==
    ASSUME TypeOK, [Next]_vars
    PROVE  failed \subseteq failed' /\ disturbed \subseteq disturbed'
  <1>1. failed \subseteq failed'
    BY DEF Next, Start, Work, Look, LookAgain, Status, GitInit, GitAdd, GitCommit,
           CreateBranch, CreateBranchFails, Finish, CoderWrites, CoderCommits,
           PersonWrites, PersonCommits, PersonChecksOut, vars, Fails, Works
  <1>2. disturbed \subseteq disturbed'
    BY DEF Next, Start, Work, Look, LookAgain, Status, GitInit, GitAdd, GitCommit,
           CreateBranch, CreateBranchFails, Finish, CoderWrites, CoderCommits,
           PersonWrites, PersonCommits, PersonChecksOut, vars, Disturbs
  <1> QED
    BY <1>1, <1>2

LEMMA StepKnowledge ==
    ASSUME TypeOK, Knowledge, [Next]_vars
    PROVE  Knowledge'
  <1> SUFFICES ASSUME NEW r \in Runs, r \notin disturbed', r \notin failed'
               PROVE  Knows(r)'
    BY DEF Knowledge
  <1>1. Knows(r)
    BY MarksStay DEF Knowledge
  <1>2. StepOfPerson \/ UNCHANGED vars \/ \E s \in Runs : StepOf(s)
    BY DEF Next, StepOf, StepOfPerson
  <1>3. CASE StepOf(r)
    BY <1>1, <1>3, OwnStepKnows
  <1>4. CASE \/ StepOfPerson \/ UNCHANGED vars
             \/ \E s \in Runs \ {r} : StepOf(s)
    <2>1. CASE Active(r)
      <3>1. run'[r] = run[r] /\ UNCHANGED <<git, tree>>
        BY <1>4, <2>1, OthersDisturb
      <3>2. LastCommit' = LastCommit /\ UNCHANGED <<repo, head, index, tree>>
        BY <3>1 DEF git, LastCommit, Born
      <3> QED
        BY <1>1, <3>1, <3>2 DEF Knows, Clean, OwnWork
    <2>2. CASE ~Active(r)
      <3>1. run'[r] = run[r]
        BY <1>4, OthersDisturb
      <3> QED
        BY <2>2, <3>1 DEF Active, Knows
    <2> QED
      BY <2>1, <2>2
  <1> QED
    BY <1>2, <1>3, <1>4

-----------------------------------------------------------------------------
(* Theorems *)

LEMMA InitInvariant == Init => IInv
  <1> SUFFICES ASSUME Init PROVE IInv
    OBVIOUS
  <1>1. TypeOK
    <2>1. Base \in Contents /\ Nothing \in Contents
      BY DEF Base, Nothing, Contents, Versions
    <2>2. tree \in Contents
      BY DEF Init, Contents, Versions, Authors
    <2>3. Main \in Branches
      BY DEF Branches
    <2>4. DOMAIN tip \subseteq Branches /\ tip \in [DOMAIN tip -> Contents]
      BY <2>1, <2>3 DEF Init
    <2>5. index \in Contents
      BY <2>1 DEF Init
    <2>6. now \in 0..MaxSecond /\ failures \in 0..MaxFailures
      BY WorkspaceAssumption DEF Init, WorkspaceAssumption
    <2>7. run \in [Runs -> [at : Places, branch : {NoBranch} \cup Branches,
                            base : Contents, born : BOOLEAN]]
      BY <2>1 DEF Init, Places
    <2> QED
      BY <2>2, <2>3, <2>4, <2>5, <2>6, <2>7 DEF Init, TypeOK
  <1>2. \A r \in Runs : run[r].at = "idle" /\ run[r].born = FALSE
    BY DEF Init
  <1>3. BranchesExist /\ OwnBranch /\ Knowledge
    BY <1>2 DEF BranchesExist, OwnBranch, Knowledge, Knows
  <1>4. Mistaken
    BY <1>2 DEF Init, Mistaken
  <1> QED
    BY <1>1, <1>3, <1>4 DEF IInv

\* The invariant holds of every state.
THEOREM WorkspaceInvariant == Spec => []IInv
  <1>1. IInv /\ [Next]_vars => IInv'
    BY StepType, StepOwnBranch, StepMistaken, StepKnowledge DEF IInv
  <1> QED
    BY <1>1, InitInvariant, PTL DEF Spec

\* The type invariant of the run workspace.
THEOREM WorkspaceTypeCorrect == Spec => []TypeOK
  <1>1. IInv => TypeOK
    BY DEF IInv
  <1> QED
    BY <1>1, WorkspaceInvariant, PTL

\* Any number of runs of any tasks, whenever they start: no two on one branch.
THEOREM RunsDoNotShareBranches == Spec => []OwnBranch
  <1>1. IInv => OwnBranch
    BY DEF IInv
  <1> QED
    BY <1>1, WorkspaceInvariant, PTL

\* However many git calls may fail, it takes two before a run commits in a
\* repository that people made.
THEOREM GivenRepoIsNotCommittedTo == Spec => []NoCommitInGivenRepo
  <1>1. IInv => NoCommitInGivenRepo
    BY DEF IInv, TypeOK, Mistaken, NoCommitInGivenRepo
  <1> QED
    BY <1>1, WorkspaceInvariant, PTL

\* Without interference and failing calls a run's branch and tree hold its base
\* and its own changes.
THEOREM BranchHoldsOwnChanges == Spec => []OnlyOwnChanges
  <1>1. IInv => OnlyOwnChanges
    BY DEF IInv, Knowledge, Knows, OwnWork, OnlyOwnChanges
  <1> QED
    BY <1>1, WorkspaceInvariant, PTL

\* No branch is lost and none changes but the current one.
THEOREM NoBranchIsLost == Spec => BranchesKept
  <1>1. TypeOK /\ [Next]_vars =>
          [\A b \in DOMAIN tip : b \in DOMAIN tip' /\ (b # head => tip'[b] = tip[b])]_vars
    BY BranchesOfStep
  <1> QED
    BY <1>1, WorkspaceTypeCorrect, PTL DEF Spec, BranchesKept

\* Uncommitted work leaves the tree only by somebody's writing over it.
THEOREM NoWorkIsDiscarded == Spec => UncommittedStays
  <1> DEFINE Stays ==
        \A f \in Files :
          tree'[f] # tree[f] /\ tree[f] # LastCommit[f] =>
              tree'[f] \in People \cup {r \in Runs : run[r].at = "work"}
  <1>1. TypeOK /\ [Next]_vars => [Stays]_vars
    <2> SUFFICES ASSUME TypeOK, [Next]_vars PROVE Stays
      OBVIOUS
    <2>1. CASE \/ \E r \in Runs : CoderWrites(r)
               \/ \E p \in People : PersonWrites(p)
      BY <2>1 DEF CoderWrites, PersonWrites, TypeOK, Contents
    <2>2. CASE \E b \in DOMAIN tip : PersonChecksOut(b)
      BY <2>2 DEF PersonChecksOut
    <2>3. CASE \/ \E r \in Runs :
                    \/ Look(r) \/ LookAgain(r) \/ GitInit(r) \/ GitAdd(r) \/ GitCommit(r)
                    \/ Status(r) \/ CreateBranch(r) \/ CreateBranchFails(r)
                    \/ CoderCommits(r) \/ Finish(r)
               \/ PersonCommits
               \/ UNCHANGED vars
      BY <2>3 DEF Look, LookAgain, GitInit, GitAdd, GitCommit, Status, CreateBranch,
                  CreateBranchFails, CoderCommits, Finish, PersonCommits, vars
    <2> QED
      BY <2>1, <2>2, <2>3 DEF Next, Start, Work
  <1> QED
    BY <1>1, WorkspaceTypeCorrect, PTL DEF Spec, UncommittedStays

=============================================================================
