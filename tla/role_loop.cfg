\* Three turns of up to two calls: of a tool that is allowed, one that is refused
\* and one that does not exist.  Two retries on each level.
SPECIFICATION FairSpec
CONSTANTS
    Tools = {"write_file", "browser_check", "unknown"}
    Allowed = {"write_file"}
    MaxCalls = 2
    MaxTurns = 3
    MaxResponseRetries = 2
    MaxRetries = 2
INVARIANTS
    TypeOK
    RepliesMatchCalls
    RequestsBounded
PROPERTIES
    LoopEnds
CHECK_DEADLOCK FALSE
