SPECIFICATION SceneSpec
CONSTANTS
    Scenes = {"outbox"}
    d1 = d1  c1 = c1  c2 = c2
    NoAccount = NoAccount
    Clients = {c1, c2}
    Devices = {d1}
    DeviceOf <- OneDevice
    Native = {}
    MaxSecret = 2
    r1 = r1  w1 = w1  p1 = p1  p2 = p2
    Nobody = Nobody
    Requests = {r1}
    Sweepers = {w1}
    People = {p1, p2}
    Founder = p1
    Scenarios = {{"follow", "unfollow"}}
    MaxRows = 2
    MaxAttempts = 2
SYMMETRY TwoTabs
INVARIANTS
    Converged
CHECK_DEADLOCK FALSE
