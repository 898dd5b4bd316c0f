\* Two runs that may start within one second, and a person at the same
\* workspace, with or without a repository, clean or not, one git call failing.
SPECIFICATION Spec
CONSTANTS
    Runs = {r1, r2}
    People = {p}
    Tasks = {"task"}
    Files = {"new"}
    NewFiles = {"new"}
    ShellAllowsGit = TRUE
    MaxSecond = 1
    MaxFailures = 1
INVARIANTS
    TypeOK
    OwnBranch
    NoCommitInGivenRepo
    OnlyOwnChanges
PROPERTIES
    BranchesKept
    UncommittedStays
CHECK_DEADLOCK FALSE
