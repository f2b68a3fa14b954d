CONSTANTS
    Client = {m1}
    MaxTurn = 4
    None = None
SPECIFICATION Spec
INVARIANTS NoGap OneAutomatic NoLostWake
