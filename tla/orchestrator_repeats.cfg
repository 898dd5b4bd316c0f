\* Four iterations with room for many strategy changes, so that repeats are
\* answered, a different failure follows and the repeat returns.  The valve is
\* set where a Reviewer's rejection trips it.
SPECIFICATION FairSpec
CONSTANTS
    Checks = {}
    Viewports = {"mobile"}
    Errors = {"e1", "e2"}
    MaxIterations = 4
    RepeatedFailureThreshold = 2
    MaxStrategyChanges = 18
    MaxStepsPerIteration = 8
PROPERTIES
    RepeatReachesCoder
    RunEnds
CHECK_DEADLOCK FALSE
