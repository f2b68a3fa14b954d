CONSTANTS
    Proc = {p1, p2, p3}
    MaxRunning = 2
    MaxFaults = 2
    None = None
SPECIFICATION Spec
SYMMETRY Symmetry
INVARIANTS NoneIsForgotten TwiceOnlyAfterFault
CHECK_DEADLOCK FALSE
