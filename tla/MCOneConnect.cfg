CONSTANTS
    Key = {k1}
    Rec = {r1}
    Att = {a1, a2, a3}
    MaxConnections = 1
    MaxReconnects = 1
    None = None
SPECIFICATION Spec
INVARIANT OneConnectAtATime
CHECK_DEADLOCK FALSE
