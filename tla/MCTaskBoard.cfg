SPECIFICATION Spec
CONSTANTS
  Member = {m1, m2}
  Lead = lead
  None = None
  Same = Same
  MaxTasks = 2
SYMMETRY Symmetry
INVARIANTS OnePlate Acyclic LocksAreExecutions LateWriteIsRejected
PROPERTIES OwnerOrLead
CHECK_DEADLOCK FALSE
