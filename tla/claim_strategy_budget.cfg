SPECIFICATION Spec
CONSTANTS
    Checks = {"lint"}
    Viewports = {"mobile"}
    Errors = {"e1", "e2"}
    MaxIterations = 8
    RepeatedFailureThreshold = 2
    MaxStrategyChanges = 4
    MaxStepsPerIteration = 12
INVARIANT BlockedOnlyAfterTheChanges
CHECK_DEADLOCK FALSE
