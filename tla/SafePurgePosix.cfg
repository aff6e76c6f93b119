SPECIFICATION Spec
CONSTANTS
  k1 = k1
  k2 = k2
  Keys <- OneKey
  MaxUnits = 2
  MaxPlans = 2
  MaxAttempts = 2
  Faults <- PosixFaults
  AtomicRename = FALSE
INVARIANTS
  TypeOK
  Traceable
  ResultAfterCommit
PROPERTIES
  ServedUnchanged
  ScopeEmptied
CHECK_DEADLOCK FALSE
