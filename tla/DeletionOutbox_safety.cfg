SPECIFICATION SceneSpec
CONSTANTS
    Scenes = {"deletion", "outbox"}
    d1 = d1  c1 = c1  c2 = c2
    NoAccount = NoAccount
    Clients = {c1, c2}
    Devices = {d1}
    DeviceOf <- OneDevice
    Native = {}
    MaxSecret = 2
    r1 = r1  w1 = w1  p1 = p1  p2 = p2
    Nobody = Nobody
    Requests = {r1}
    Sweepers = {w1}
    People = {p1, p2}
    Founder = p1
    Scenarios = {{"visibility", "transfer"}, {"role", "transfer"}, {"follow", "remove_follower"}, {"accept", "role"},
                 {"remove", "transfer"}, {"leave", "role"}, {"unfollow"}}
    MaxRows = 3
    MaxAttempts = 2
SYMMETRY TwoTabs
INVARIANTS
    SceneTypeOK SecretIsKept CompletionIsProven
    RelationsFit ToldIsDone
PROPERTIES
    DataFollowsIntent
CHECK_DEADLOCK FALSE
