\* One run and a person's uncommitted work; one git call may fail.
SPECIFICATION Spec
CONSTANTS
    Runs = {r1}
    People = {p}
    Tasks = {"task"}
    Files = {"old", "new"}
    NewFiles = {"new"}
    ShellAllowsGit = FALSE
    MaxSecond = 0
    MaxFailures = 1
INVARIANTS
    DirtyIsRefused
CHECK_DEADLOCK FALSE
