SPECIFICATION MCSpec
CONSTANTS
    c1 = c1  c2 = c2  r1 = r1  r2 = r2
    Cleaner = {c1, c2}
    Price = {2, 3, 5, 9}
    Limit = 2
    AnyRow = FALSE
    MaxRows = 6
    ChartSize = 4
    Unit = 2
    Request = {r1, r2}
    Clients <- MCClients
    Item = {1, 2}
    Size = 2
    MaxPromotions = 2
    MaxListed <- MCMaxListed
    None = None
    MaxFailures = 1
INVARIANTS TypesOK StatsHold WalkComplete PageNumbers
PROPERTIES OnlyDuplicates FloorKept
SYMMETRY Symmetry
CHECK_DEADLOCK FALSE
