SPECIFICATION Spec
CONSTANTS
  MaxCalls = 2
  MaxObs = 2
  MaxCorr = 2
  Oversize = FALSE
INVARIANT CorrectionWhole
CHECK_DEADLOCK FALSE
