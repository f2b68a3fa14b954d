CONSTANTS
    Mode = {m1}
    MaxEvents = 6
    MaxIds = 4
    MaxJobs = 2
    Nothing = Nothing
SPECIFICATION LogSpec
INVARIANTS LogTypeOK AnchorIsVisible
PROPERTIES HiddenStaysHidden AppendsHeal
CHECK_DEADLOCK FALSE
