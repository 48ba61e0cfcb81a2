SPECIFICATION FairPhotoSpec
CONSTANTS
    Photos = {p1, p2}
    UnconfirmedDays = 2
    ConfirmedDays = 1
    MaxTime = 4
    MaxMishaps = 2
INVARIANTS
    TombstoneIsTrue
    DiskIsKnown
PROPERTIES
    DueIsPurged
