SPECIFICATION MCSpec
CONSTANTS
    daily = daily  hourly = hourly
    n1 = n1  n2 = n2
    Schedule <- BothTasks
    Daily = {daily}
    Ahead <- MCAhead
    At <- MCAt
    Hour = 2
    Day = 4
    Batch = 1
    Node = {n1}
    Master = n1
    Faults = {"timeout"}
    NoRow = NoRow
    NoMsg = NoMsg
    MaxTime = 5
    MaxPlid = 0
    MaxMsgs = 3
    MaxCrashes = 1
    MaxDeliveries = 3
INVARIANTS NotFlooded OncePerSlot
PROPERTIES DueIsPublished PublishedRuns
