SPECIFICATION Spec
CONSTANTS
    Names = {"dev_server"}
    Procs = {"P1", "P2"}
    Pids = {"i1", "i2"}
INVARIANT NoServerSurvivesCleanup
CHECK_DEADLOCK FALSE
