SPECIFICATION FairSpec
CONSTANTS
  PoolSize = 2
  MaxConns = 2
  AcceptMayFail = FALSE
  NULL = NULL
PROPERTY BacklogAccepted
CHECK_DEADLOCK FALSE
