SPECIFICATION Spec
CONSTANTS
    p1 = p1  o1 = o1  o2 = o2  n1 = n1  l1 = l1
    None = None
    Participants = {p1}
    Offline = {o1, o2}
    Online = {l1}
    Legacy = {l1}
    Owner <- OneOwner
    Rank <- IdOrder
    Activities = {a1, a2}
    Lifecycle = {"archive", "delete"}
    Second = 2
    MaxTime = 3
CONSTRAINT OneOfThem
SYMMETRY Symmetric
INVARIANTS
    RecordedOnce
    DiscardedHasNoEntry
    ConflictHasWinner
    AnnouncedOnce
PROPERTIES
    SettlesOnce
CHECK_DEADLOCK FALSE
