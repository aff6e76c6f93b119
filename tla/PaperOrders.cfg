SPECIFICATION Spec
CONSTANTS
  Processes = {p1, p2}
  Intents = {i1, i2}
  None = None
  MaxOrders = 2
  Crashes = TRUE
SYMMETRY Symmetry
INVARIANTS OneOrder NotSentIsTrue EvidenceIsTrue BaselineIsBefore MatchIsSettled CancelOnce
PROPERTIES StopHolds ImplementsRisk
