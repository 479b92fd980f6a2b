SPECIFICATION MCSpec
CONSTANTS
    r1 = r1  r2 = r2
    Request = {r1, r2}
    Product = {1, 2}
    Clients <- MCClients
    Wanted = 1
    Size <- MCSize
    Life = 2
    Faults = {"read", "grpc", "redis"}
    None = None
    MaxPrice = 1
    User = {r1, r2}
    Plid = {1}
    Offered = {1}
    Url = {"page", "query", "foreign"}
    Shape <- MCShape
    Named <- MCNamed
    MaxCopies = 2
    MaxAttempts = 2
    MaxFailures = 2
INVARIANTS TypesOK AnswersHold OpenForSends NothingForgotten
PROPERTIES Answered CacheSettles FoundInTheEnd
