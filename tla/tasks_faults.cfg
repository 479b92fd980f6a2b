SPECIFICATION Spec
CONSTANTS
    daily = daily  hourly = hourly
    n1 = n1  n2 = n2
    Schedule <- HourlyTask
    Daily = {}
    Ahead <- MCAhead
    At <- MCAt
    Hour = 2
    Day = 4
    Batch = 1
    Node = {n1}
    Master = n1
    Faults = {"read", "commit", "publish"}
    NoRow = NoRow
    NoMsg = NoMsg
    MaxTime = 6
    MaxPlid = 2
    MaxMsgs = 2
    MaxCrashes = 1
    MaxDeliveries = 1
INVARIANTS TypeOK CrawledAll
PROPERTY NoSlotSkipped
