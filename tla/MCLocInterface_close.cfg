SPECIFICATION FairSpec
CONSTANT MaxEvents = 2
PROPERTY CloseReturns
CHECK_DEADLOCK FALSE
