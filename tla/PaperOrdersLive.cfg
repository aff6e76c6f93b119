SPECIFICATION QFairSpec
CONSTANTS
  Processes = {p1}
  Intents = {i1, i2}
  None = None
  MaxOrders = 2
  Crashes = TRUE
INVARIANT OrderIsPrepared
PROPERTY OutcomeLearned
