SPECIFICATION FairSpec
CONSTANTS
    Captures = {1, 2}
    Poison = {2}
    Pages = {p1, p2}
    Calls = {k1, k2}
    NoCapture = NoCapture
    NoCall = NoCall
    MaxFaults = 2
INVARIANTS
    NothingLost
PROPERTIES
    DeliversCaptures
    EveryCaptureArrives
