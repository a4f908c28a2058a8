SPECIFICATION FairSpec
CONSTANTS
  PoolSize = 2
  MaxConns = 3
  AcceptMayFail = TRUE
  NULL = NULL
INVARIANTS
  TypeOK
  ListsSound
  NodePerConnection
  BroadcastReachesAll
PROPERTIES
  ImplementsPools
  EdgesHandled
CHECK_DEADLOCK FALSE
