CONSTANTS
  u1 = u1
  u2 = u2
  a1 = a1
  a2 = a2
  a3 = a3
  t1 = t1
  NoMsg = NoMsg
  Msg = {u1, u2, a1, t1}
  TriggerOf <- MCTriggerOf
  QueueLimit = 2
  WakeBudget = 1
  IsChild = FALSE
  MaxFaults = 1
  MaxCrashes = 1
SYMMETRY UserSymmetry
SPECIFICATION Spec
INVARIANTS AtMostOnce CancelIsFinal AckedIsKept DiskMirrorsMemory SomeoneDrives StartedIsVisible
PROPERTIES OrderIsKept ImplementsLife
