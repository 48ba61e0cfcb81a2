SPECIFICATION FairRadarSpec
CONSTANTS
    Offers = {"d1"}
    Brand <- MCBrand
    Category <- MCCategory
    OwnLabel <- MCOwnLabel
    Name <- MCName
    None = None
    Requests = {t1}
    Worker = worker
    MaxChanges = 2
    MaxFaults = 1
INVARIANTS
    ShownIsRight
    ToldOnceAndFaults
PROPERTIES
    EveryOfferTold
