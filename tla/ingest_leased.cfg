SPECIFICATION Spec
CONSTANTS
    w1 = w1  w2 = w2
    m1 = m1  m2 = m2  m3 = m3
    p1 = p1  p2 = p2
    b1 = b1  b2 = b2  c1 = c1
    Worker = {w1, w2}
    Msg = {m1, m3}
    Plid = {p1, p2}
    Brand = {b1}
    Category = {c1}
    PlidOf <- MCPlidOf
    EntitiesOf <- MCEntitiesOf
    RowName <- MCRowName
    GallerySize = 1
    MaxAttempts = 2
    Faults <- Leased
    Zero = Zero  NoEntity = NoEntity  NoWorker = NoWorker  NoMsg = NoMsg
    Free = Free  Orphan = Orphan
SYMMETRY Workers
INVARIANTS TypeOK LocksExclude RowsResolve StoredOnce RecordedIsPriced Complete
PROPERTY ImplementsCatalog
