SPECIFICATION Spec
CONSTANTS
  k1 = k1
  k2 = k2
  Keys <- OneKey
  MaxUnits = 1
  MaxPlans = 1
  MaxAttempts = 1
  Faults <- Interrupts
  AtomicRename = FALSE
INVARIANTS
  SuccessMeansQuarantined
CHECK_DEADLOCK FALSE
