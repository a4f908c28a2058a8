\* A ring whose length does not divide 2^32, as the ring of ten of the program.
SPECIFICATION FairRelaySpec
CONSTANTS
  Nodes = {1, 2, 3, 4}
  QLen = 3
  Frame = 2
  MaxPackets = 6
  NULL = NULL
INVARIANTS
  ExclusiveOwner
  NoNodeLost
  ReaderAlive
  SenderDataIntact
  NoLostWakeup
  PoolAgrees
  FreeListSound
PROPERTIES
  ImplementsFifo
  ImplementsPool
  EventuallyLeavesRing
  SenderReturnsNode
