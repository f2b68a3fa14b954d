CONSTANTS
    Key = {k1, k2}
    Rec = {r1, r2}
    Att = {a1, a2, a3, a4}
    MaxConnections = 1
    MaxReconnects = 1
    None = None
SPECIFICATION Spec
SYMMETRY Symmetry
INVARIANTS NothingLeaks NeverStuck
CHECK_DEADLOCK FALSE
