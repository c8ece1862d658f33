SPECIFICATION AccountSpec
CONSTANTS
    d1 = d1  t1 = t1  t2 = t2  q1 = q1  q2 = q2  s1 = s1  s2 = s2  s3 = s3  v1 = v1
    None = None
    Devices = {d1}
    Tabs = {t1, t2}
    DeviceOf <- OneDevice
    Paths = {q1, q2}
    TimerIds = {s1, s2, s3}
    PathOf <- TwoPaths
    Origin <- TwoLocal
    StartedAt <- Starts
    Second = 1
    MaxTime = 1
    MaxTries = 1
    MaxReads = 2
    Windows = {v1}
    Items = {1, 2}
    PageSize = 1
    Kinds = {"delete", "read", "read-all"}
SYMMETRY AnyTab
VIEW Relative
CONSTRAINT OneOfThem
INVARIANTS
    DeviceTypeOK
    CausalOrder
    StaleReadRefused
    AcknowledgedStays NoHoles
PROPERTIES
    AnswersStayHome
    RefreshKeepsPending
    RefreshIsFresh
CHECK_DEADLOCK FALSE
