\* Two names and three processes, so that a name is used again; two pids,
\* so that a reaped leader's pid may be another program's.
SPECIFICATION FairSpec
CONSTANTS
    Names = {"dev_server", "api"}
    Procs = {"P1", "P2", "P3"}
    Pids = {"i1", "i2"}
INVARIANTS
    TypeOK
    OnlyOwnGroups
    UntrackedIsReaped
    CleanupIsComplete
    
PROPERTIES
    StopReturns
CHECK_DEADLOCK FALSE
