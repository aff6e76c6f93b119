SPECIFICATION Spec
CONSTANTS
  Writers = {w1, w2, w3}
  None = None
  Foreign = Foreign
  Target = Target
  Staging = Staging
SYMMETRY Symmetry
PROPERTY NothingElseRemoved
CHECK_DEADLOCK FALSE
