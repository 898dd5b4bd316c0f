\* Two runs of the task and a stop over two pids, so that a pid is reused, two
\* runs overlap, and the stop acts on what it read before a run ended.
SPECIFICATION FairSpec
CONSTANTS
    Runs = {r1, r2}
    Stops = {s1}
    Pids = {"p1", "p2"}
INVARIANTS
    TypeOK
    SavedVerdictIsReal
    ExitCodeMatchesVerdict
    OrderlyEndIsSaved
PROPERTIES
    SignalEndsRun
CHECK_DEADLOCK FALSE
