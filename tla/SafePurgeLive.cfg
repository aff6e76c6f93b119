SPECIFICATION FairSpec
CONSTANTS
  k1 = k1
  k2 = k2
  Keys <- TwoKeys
  MaxUnits = 2
  MaxPlans = 1
  MaxAttempts = 2
  Faults <- Ordinary
  AtomicRename = FALSE
INVARIANTS
  FailureRestores
PROPERTIES
  EveryOperationEnds
  EventuallyPublished
CHECK_DEADLOCK FALSE
