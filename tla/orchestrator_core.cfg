\* Three iterations under the strategy-change budget of config.yaml: what the
\* evidence, the memory and the result hold on every path, signals included.
SPECIFICATION ReportSpec
CONSTANTS
    Checks = {"lint"}
    Viewports = {"mobile"}
    Errors = {"e1", "e2"}
    MaxIterations = 3
    RepeatedFailureThreshold = 2
    MaxStrategyChanges = 4
    MaxStepsPerIteration = 12
INVARIANTS
    TypeOK
    ReadyIsEarned
    ValveNeverTrips
    EachFailureRecordedOnce
    CoderWithinBudget
    ResultKeepsEveryIteration
    ServersContained
    ReadyReportIsCurrent
    ReportShowsNewest
PROPERTIES
    KeepsPromise
CHECK_DEADLOCK FALSE
