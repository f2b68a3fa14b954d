CONSTANTS
  None = None
  MaxRounds = 2
  TokenBudget = 3
  NoProgressLimit = 2
  GateExhausted = 2
  TimeoutRounds = 1
  ParseBreaker = 2
  TransportBreaker = 1
  QueueLimit = 2
  RunCost = 1
  JudgeCost = 1
  MaxActs = 4
  MaxFaults = 1
SPECIFICATION FairSpec
INVARIANTS AutonomyIsBounded WindsDownOnce NeverStalls
PROPERTIES RoundsOnlyWhileArmed ComesToRest
CHECK_DEADLOCK FALSE
