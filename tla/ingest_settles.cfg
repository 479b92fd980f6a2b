SPECIFICATION FairSpec
CONSTANTS
    w1 = w1  w2 = w2
    m1 = m1  m2 = m2  m3 = m3
    p1 = p1  p2 = p2
    b1 = b1  b2 = b2  c1 = c1
    Worker = {w1, w2}
    Msg = {m1, m2}
    Plid = {p1}
    Brand = {b1}
    Category = {}
    PlidOf <- MCPlidOf
    EntitiesOf <- BrandOnly
    RowName <- MCRowName
    GallerySize = 0
    MaxAttempts = 2
    Faults <- Delays
    Zero = Zero  NoEntity = NoEntity  NoWorker = NoWorker  NoMsg = NoMsg
    Free = Free  Orphan = Orphan
PROPERTIES TasksSettle Announced
