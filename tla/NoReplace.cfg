SPECIFICATION Spec
CONSTANTS
  Writers = {w1, w2, w3}
  None = None
  Foreign = Foreign
  Target = Target
  Staging = Staging
SYMMETRY Symmetry
INVARIANTS TypeOK TargetIsWhole
PROPERTIES RemovesOwn ImplementsPublication
CHECK_DEADLOCK FALSE
