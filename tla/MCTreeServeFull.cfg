SPECIFICATION FairSpec
CONSTANTS
    Reqs = {r1, r2, r3}
    JobChoices <- MCJobs
    PoolSize = 6
    Rows = 2
    ChunkSize = 2
    Loops = {TRUE}
PROPERTY FullEnds
CHECK_DEADLOCK FALSE
