SPECIFICATION MCSpec
CONSTANTS
    r1 = r1  r2 = r2
    p1 = p1  p2 = p2
    deals = deals  offer = offer
    Run = {r1, r2}
    Kinds = {"prices", "brands", "cleanup", "promotions", "deals"}
    Plid = {p1, p2}
    Offer = {deals, offer}
    DailyDeals = {deals}
    OnPromotion <- MCOn
    Size <- MCSize
    PoolSize = 1
    Faults = {"publish", "api", "commit", "read"}
    MaxProducts = 2
    MaxBrands = 2
INVARIANTS TypeOK LeavesNoneOut SweptOnce LinksBelong PromotionsLinked
PROPERTIES SweepEnds
CHECK_DEADLOCK FALSE
