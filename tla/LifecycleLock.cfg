SPECIFICATION FairSpec
CONSTANTS
  p1 = p1
  p2 = p2
  p3 = p3
  None = None
  Torn = Torn
  Processes <- Three
INVARIANTS
  MutualExclusion
  HolderOwns
PROPERTIES
  EventuallyFree
  ImplementsReservation
