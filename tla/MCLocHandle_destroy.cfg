SPECIFICATION FairSpec
CONSTANTS
  MaxCalls = 2
  MaxObs = 1
  MaxCorr = 0
  Oversize = FALSE
PROPERTY DestroyReturns
CHECK_DEADLOCK FALSE
