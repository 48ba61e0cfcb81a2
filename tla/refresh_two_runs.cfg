SPECIFICATION FairSpec
CONSTANTS
    Jobs = {1, 2}
    Workers = {w1}
    NoJob = NoJob
    MaxAttempts = 2
    Backoff <- MCBackoff
    StuckAfter = 1
    MaxRun = 100
    MaxCrashes = 1
    Runs = {1, 2}
    NoRun = NoRun
    MaxPlan = 2
    Chunk = 1
    Tabs = {t1}
    MaxFlips = 1
    MaxBugs = 1
INVARIANTS
    OkIsComplete
    RunHasWork
PROPERTIES
    OverIsOver
    RefreshComesBack
