SPECIFICATION Spec
CONSTANTS
    r1 = r1
    r2 = r2
    NoReq = NoReq
    Rids <- MCRids
    Tokens = {0, 1}
    Stops = {1}
    Prompts <- MCPrompts
    NumRows = 2
    NumKv = 6
    MaxLen = 3
    MaxCands = 2
    MaxNew = 2
    MaxPasses = 3
    Overlaps = {FALSE, TRUE}
CHECK_DEADLOCK FALSE
INVARIANTS
    TypeOK
    LagsOneToken
    ScheduledOnce
PROPERTIES
    OneTokenPerPass
    EveryRequestEnds
