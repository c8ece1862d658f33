SPECIFICATION FairSync
CONSTANTS
    d1 = d1  d2 = d2  t1 = t1  t2 = t2  q1 = q1  s1 = s1  s2 = s2
    None = None
    Account = me
    Devices = {d1}
    Tabs = {t1}
    DeviceOf <- FirstDevice
    Paths = {q1}
    TimerIds = {s1, s2}
    PathOf <- OnePathOnly
    Origin <- OfFirst
    StartedAt <- Starts
    Rank <- IdOrder
    Activities = {a1, a2}
    Lifecycle = {"leave", "roles"}
    Skews <- Exact
    Second = 1
    MaxTime = 1
    MaxTries = 1
    MaxReads = 0
INVARIANTS
    Accounted
PROPERTIES
    QueueDrains
CHECK_DEADLOCK FALSE
