-------------------------- MODULE WorkspaceClaims --------------------------
(***************************************************************************)
(* What the documents and the report say of the run's branch and the code  *)
(* does not keep.  Each property is checked alone, by a run that expects   *)
(* TLC to refute it; PROJECT.json quotes the sentence each one states.     *)
(***************************************************************************)
EXTENDS Workspace

\* Uncommitted work makes a run refuse: one that works, while nobody else
\* changes anything, has nothing but its own changes beside what was committed.
\* (A `git status` that fails is read as a clean tree.)
DirtyIsRefused ==
    \A r \in Runs \ disturbed : run[r].at = "work" =>
        \A f \in Files : tree[f] \in {LastCommit[f], r}

\* `git diff main...branch`: what the branch's commits change.
DiffOfBranch(r) == {f \in Files : tip[run[r].branch][f] # run[r].base[f]}

\* The diff the report tells the reader to run is the full diff: it shows each
\* file the run changed.  (Nothing the run does is ever committed.)
ReportedDiffIsFull ==
    \A r \in Runs \ disturbed : run[r].at = "done" =>
        {f \in Files : tree[f] = r} \subseteq DiffOfBranch(r)
=============================================================================
