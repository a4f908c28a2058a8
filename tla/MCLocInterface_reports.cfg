SPECIFICATION FairSpec
CONSTANT MaxEvents = 5
INVARIANTS
  TypeOK
  NoSleepOnEvent
  NoRepeat
PROPERTY LatestDelivered
CHECK_DEADLOCK FALSE
