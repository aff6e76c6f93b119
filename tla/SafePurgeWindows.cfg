SPECIFICATION Spec
CONSTANTS
  k1 = k1
  k2 = k2
  Keys <- OneKey
  MaxUnits = 2
  MaxPlans = 2
  MaxAttempts = 2
  Faults <- Handled
  AtomicRename = TRUE
INVARIANTS
  SuccessMeansQuarantined
  OneClaim
PROPERTIES
  QuarantineSettled
  ImplementsLedger
CHECK_DEADLOCK FALSE
