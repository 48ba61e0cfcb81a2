SPECIFICATION Spec
CONSTANTS
    Jobs = {1}
    Workers = {w1}
    NoJob = NoJob
    MaxAttempts = 2
    Backoff <- MCBackoff
    StuckAfter = 1
    MaxRun = 100
    MaxCrashes = 0
    Receipts = {r1}
    Forms = {f1, f2}
    NoReceipt = NoReceipt
    NoBatch = NoBatch
    Budget = 2
    MaxCost = 1
    MaxBugs = 0
INVARIANT TotalMatchesLines
