SPECIFICATION RequestsSpec
CONSTANTS
    r1 = r1  r2 = r2
    User = {r1, r2}
    Plid = {1}
    Offered = {1}
    Url = {"page", "short", "query", "odd", "foreign"}
    Shape <- MCShape
    Named <- MCNamed
    MaxCopies = 2
    MaxAttempts = 2
    MaxFailures = 1
INVARIANT ShortRefused
