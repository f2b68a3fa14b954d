CONSTANTS
    Mode = {m1}
    MaxEvents = 6
    MaxIds = 4
    MaxJobs = 2
    Nothing = Nothing
SPECIFICATION LogSpec
PROPERTY RetryKeepsEarlier
CHECK_DEADLOCK FALSE
