SPECIFICATION FairSpec
CONSTANTS
    i1 = i1  i2 = i2  i3 = i3  s1 = s1
    a1 = a1  a2 = a2  b1 = b1  b2 = b2
    Ingester = {i1}
    Searcher = {}
    IngestConn = {a1, a2}
    SearchConn = {b1}
    Keeper = Keeper  Quitter = Quitter
    Stops = TRUE
PROPERTY QuitEnds
CHECK_DEADLOCK FALSE
