SPECIFICATION Spec
CONSTANTS
  MaxBuffer = 16
  PackageSize = 7
  Frames <- TwoFrames
  Junk <- NoJunk
  MaxCalls = 2
  MaxSends = 3
  MaxConnects = 2
  MaxTimes = 1
  MaxErrors = 0
  Settings <- TwoServers
  Fds = {3}
CHECK_DEADLOCK FALSE
INVARIANT CompactionSound
