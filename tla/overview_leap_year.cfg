SPECIFICATION OverviewSpec
CONSTANTS
    food = food
    care = care
    gone = gone
    other = other
    none = none
    jumbo = jumbo
    aldi = aldi
    Book <- MCBook
    Categories = {food, care, other}
    Nonfood = {care}
    Fallback = other
    NoCategory = none
    StartDays = {1, 2, 15, 28}
    FirstDay <- MCFirstDay
    LastDay <- MCLastDay
    TrendMonths = 3
    MinDays = 7
INVARIANTS
    BooksBalance
    CyclesCover
