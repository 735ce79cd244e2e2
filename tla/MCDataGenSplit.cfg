SPECIFICATION Spec
CONSTANTS
    NumQuestions = 2
    samples_per_question = 2
    max_concurrency = 1
    max_retries = 0
    save_batch_size = 2
    Tears = {"split"}
    Failures = FALSE
    MaxRuns = 3
    Junk = Junk
    Split = Split
    NoFile = NoFile
PROPERTY
    CountsProcessed
CHECK_DEADLOCK FALSE
