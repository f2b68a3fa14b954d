CONSTANTS
  u1 = u1
  u2 = u2
  a1 = a1
  a2 = a2
  a3 = a3
  t1 = t1
  NoMsg = NoMsg
  Msg = {u1, a1, a2, a3}
  TriggerOf <- MCTriggerOf
  QueueLimit = 1
  WakeBudget = 1
  IsChild = FALSE
  MaxFaults = 0
  MaxCrashes = 1
SPECIFICATION FairSpec
INVARIANTS WakeIsBounded
PROPERTIES AckedIsServed OutcomeSettles
