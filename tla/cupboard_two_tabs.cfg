SPECIFICATION Spec
CONSTANTS
    Jobs = {1, 2}
    Workers = {w1}
    NoJob = NoJob
    MaxAttempts = 2
    Backoff <- MCBackoff
    StuckAfter = 1
    MaxRun = 100
    MaxCrashes = 1
    Eans = {e1}
    NoEan = NoEan
    Products = {p1}
    NoProduct = NoProduct
    Tabs = {t1, t2}
    MaxRows = 2
    MaxMisses = 1
    MaxBugs = 1
SYMMETRY MCTabs
INVARIANTS
    LookupHasWork
    SentOnce
    ScanIsKept
