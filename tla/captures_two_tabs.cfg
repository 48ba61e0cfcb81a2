SPECIFICATION FairSpec
CONSTANTS
    Jobs = {1, 2}
    Workers = {w1}
    NoJob = NoJob
    MaxAttempts = 2
    Backoff <- MCBackoff
    StuckAfter = 1
    MaxRun = 0
    MaxCrashes = 1
    Captures = {c1}
    Forms = {f1, f2}
    NoCapture = NoCapture
    Prices = {p1, p2}
    NoPrice = NoPrice
    MaxBugs = 1
INVARIANTS
    OnePriceEach
    PriceIsConfirmed
    CaptureHasWork
PROPERTIES
    CaptureReadingEnds
