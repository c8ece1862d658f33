SPECIFICATION Spec
CONSTANTS
    p1 = p1  o1 = o1  o2 = o2  n1 = n1  l1 = l1
    None = None
    Participants = {p1}
    Offline = {o1}
    Online = {}
    Legacy = {}
    Owner <- OneOwner
    Rank <- IdOrder
    Activities = {a1, a2}
    Lifecycle = {"roles"}
    Second = 2
    MaxTime = 3
SYMMETRY Symmetric
INVARIANTS
    DiscardedByRoleChange
CHECK_DEADLOCK FALSE
