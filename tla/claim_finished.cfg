SPECIFICATION Spec
CONSTANTS
    Runs = {r1}
    Stops = {s1}
    Pids = {"p1"}
INVARIANT FinishedRunStaysFinished
CHECK_DEADLOCK FALSE
