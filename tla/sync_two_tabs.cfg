SPECIFICATION FairSpec
CONSTANTS
    Jobs = {1, 2, 3}
    Workers = {w1}
    NoJob = NoJob
    MaxAttempts = 2
    Backoff <- MCBackoff
    StuckAfter = 1
    MaxRun = 100
    MaxCrashes = 2
    Tabs = {t1, t2}
    MaxChanges = 3
    MaxFailures = 1
INVARIANTS
    StaleIsExplained
PROPERTIES
    QueuedIsPushed
