SPECIFICATION Spec
CONSTANTS
  Cron = {c1, c2}
  None = None
  Gone = Gone
  MaxSweeps = 2
  MaxPoints = 3
INVARIANTS OneRunPerCron FiresOnce StoppedIsQuiet
CHECK_DEADLOCK FALSE
