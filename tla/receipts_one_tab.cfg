SPECIFICATION FairSpec
CONSTANTS
    Jobs = {1, 2}
    Workers = {w1}
    NoJob = NoJob
    MaxAttempts = 2
    Backoff <- MCBackoff
    StuckAfter = 1
    MaxRun = 100
    MaxCrashes = 1
    Receipts = {r1}
    Forms = {f1}
    NoReceipt = NoReceipt
    NoBatch = NoBatch
    Budget = 2
    MaxCost = 2
    MaxBugs = 1
INVARIANTS
    PipelineTypeOK
    TotalMatchesLines
    ObservationsMatchLines
    ReadingHasWork
    BudgetHolds
PROPERTIES
    ConfirmedStays
    PaidOnlyWhenNeeded
    ReadingEnds
