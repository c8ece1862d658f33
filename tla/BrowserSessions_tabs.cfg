SPECIFICATION SessionSpec
CONSTANTS
    t1 = t1  t2 = t2  l1 = l1  l2 = l2  l3 = l3  u1 = u1  u2 = u2
    None = None
    Tabs = {t1, t2}
    Lifetimes = {l1, l2}
    TabOf <- OwnTab
    Accounts = {u1, u2}
    Tokens = {k1, k2, k3}
    MaxRev = 3
SYMMETRY Interchangeable
INVARIANTS
    SessionTypeOK
    RotatedOnce
    NothingStranded
    RecordIsTrue
PROPERTIES
    ReplacementSurvives
CHECK_DEADLOCK FALSE
