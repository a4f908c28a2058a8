\* A buffer of two recvs and two bytes, so that frames are cut at every place
\* and a compaction moves a part of one.
SPECIFICATION FairSpec
CONSTANTS
  MaxBuffer = 16
  PackageSize = 7
  Frames <- TwoFrames
  Junk <- BadFrames
  MaxCalls = 3
  MaxSends = 2
  MaxConnects = 2
  MaxTimes = 0
  MaxErrors = 0
  Settings <- TwoServers
  Fds = {3, 4}
\* The thread ends on destroy, spins on an oversize frame, and may wait for ever.
CHECK_DEADLOCK FALSE
INVARIANTS
  RoomToReceive
  CleanStreamParsed
  SocketsKept
PROPERTY Delivered
