SPECIFICATION BackgroundSpec
CONSTANTS
    v1 = v1  v2 = v2  d1 = d1  c1 = c1
    Windows = {v1, v2}
    Items = {1, 2}
    PageSize = 1
    Kinds = {"delete"}
    NoAccount = NoAccount
    Clients = {c1}
    Devices = {d1}
    DeviceOf <- OneDevice
    Native = {d1}
    MaxSecret = 1
INVARIANTS
    BackgroundTypeOK NoLostWakeup
PROPERTIES
    ChangesReplay
    RefreshSettles TabsConverge
    IntentClears
CHECK_DEADLOCK FALSE
