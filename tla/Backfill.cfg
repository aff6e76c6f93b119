SPECIFICATION Spec
CONSTANTS
  Symbols = {a, b}
  Commands <- Usual
  LastDay = 2
  Answers <- TwoDays
  MaxBatches = 2
  MaxRuns = 2
  MaxRetries = 1
INVARIANTS TypeOK OutcomeIsTrue SuccessIsComplete FailedChecksNeverServed
PROPERTIES AsksMissing EachStepNears
SYMMETRY Symmetry
