SPECIFICATION Spec
CONSTANTS
  Symbols = {a}
  Commands <- Daily
  LastDay = 2
  Answers <- BothTrade
  MaxBatches = 2
  MaxRuns = 2
  MaxRetries = 0
INVARIANT CaughtUpIsTrue
