SPECIFICATION FairSpec
CONSTANTS
    Reqs = {r1, r2, r3}
    JobChoices <- MCJobs
    PoolSize = 6
    Rows = 2
    ChunkSize = 2
    Loops = {FALSE, TRUE}
INVARIANTS TypeOK SlotsAccounted LocksExact CacheHonest AnswersRight AdmittedFits
PROPERTY EveryRequestServed
CHECK_DEADLOCK FALSE
