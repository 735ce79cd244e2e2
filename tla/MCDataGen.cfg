SPECIFICATION Spec
CONSTANTS
    NumQuestions = 2
    samples_per_question = 2
    max_concurrency = 2
    max_retries = 1
    save_batch_size = 2
    Tears = {"torn", "bare"}
    Failures = TRUE
    MaxRuns = 2
    Junk = Junk
    Split = Split
    NoFile = NoFile
INVARIANTS
    TypeOK
    NeverTooMany
    NothingLost
    Saturated
PROPERTY
    RunEnds
CHECK_DEADLOCK FALSE
