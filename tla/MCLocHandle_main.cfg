\* Two runs of the driver or three of its mode changes: four calls reach
\* init-start-destroy-init as well as init-start-stop-start.
SPECIFICATION FairSpec
CONSTANTS
  MaxCalls = 4
  MaxObs = 2
  MaxCorr = 1
  Oversize = TRUE
INVARIANTS
  TypeOK
  NoThreadOnFreedContext
  FlaggedIsUnused
PROPERTIES
  DestroyReturnsIfSettled
  StopTakesEffect
  ObservationUsed
CHECK_DEADLOCK FALSE
