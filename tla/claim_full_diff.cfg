\* One run, no failing call; the Coder does not commit, as its prompt has it.
SPECIFICATION Spec
CONSTANTS
    Runs = {r1}
    People = {p}
    Tasks = {"task"}
    Files = {"old", "new"}
    NewFiles = {"new"}
    ShellAllowsGit = FALSE
    MaxSecond = 0
    MaxFailures = 0
INVARIANTS
    ReportedDiffIsFull
CHECK_DEADLOCK FALSE
