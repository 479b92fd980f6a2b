SPECIFICATION FairSpec
CONSTANTS
    i1 = i1  i2 = i2  i3 = i3  s1 = s1
    a1 = a1  a2 = a2  b1 = b1  b2 = b2
    Ingester = {i1, i2}
    Searcher = {s1}
    IngestConn = {a1, a2}
    SearchConn = {b1, b2}
    Keeper = Keeper  Quitter = Quitter
    Stops = TRUE
INVARIANTS OneHolder NobodyStarves
PROPERTIES Served Healed
CHECK_DEADLOCK FALSE
