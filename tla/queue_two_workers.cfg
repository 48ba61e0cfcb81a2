SPECIFICATION FairJobSpec
CONSTANTS
    Jobs = {1, 2}
    Workers = {w1, w2}
    NoJob = NoJob
    MaxAttempts = 3
    Backoff <- MCBackoff
    StuckAfter = 2
    MaxRun = 1
    MaxCrashes = 2
INVARIANTS
    JobTypeOK
    SingleExecutor
    StartsBounded
PROPERTIES
    ImplementsLedger
    EveryJobSettles
