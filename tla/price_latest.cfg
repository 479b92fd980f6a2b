SPECIFICATION Spec
CONSTANTS
    c1 = c1  c2 = c2
    x1 = x1  x2 = x2  x3 = x3  x4 = x4
    Cleaner = {c1}
    Price = {x1, x2, x3, x4}
    Limit = 2
    AnyRow = FALSE
    MaxRows = 5
PROPERTY LatestKept
CHECK_DEADLOCK FALSE
