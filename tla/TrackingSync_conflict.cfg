SPECIFICATION SyncSpec
CONSTANTS
    d1 = d1  d2 = d2  t1 = t1  t2 = t2  q1 = q1  s1 = s1  s2 = s2
    None = None
    Account = me
    Devices = {d1, d2}
    Tabs = {t1, t2}
    DeviceOf <- OwnDevice
    Paths = {q1}
    TimerIds = {s1, s2}
    PathOf <- OnePathOnly
    Origin <- OfEach
    StartedAt <- Starts
    Rank <- IdOrder
    Activities = {a1, a2}
    Lifecycle = {}
    Skews <- Exact
    Second = 1
    MaxTime = 2
    MaxTries = 0
    MaxReads = 1
SYMMETRY Symmetric
INVARIANTS
    ConflictIsTold
CHECK_DEADLOCK FALSE
