SPECIFICATION Spec
CONSTANTS
    p1 = p1  o1 = o1  o2 = o2  n1 = n1  l1 = l1
    None = None
    Participants = {p1}
    Offline = {o1}
    Online = {n1}
    Legacy = {}
    Owner <- OneOwner
    Rank <- IdOrder
    Activities = {a1, a2}
    Lifecycle = {"archive", "delete", "leave", "roles"}
    Second = 2
    MaxTime = 2
SYMMETRY Symmetric
INVARIANTS
    RunningFits
    TypeOK
    RegistryNamesEntry
PROPERTIES
    SettlesOnce
    CutoffIsKept
    TerminalIsFinal
CHECK_DEADLOCK FALSE
