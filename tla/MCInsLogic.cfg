\* A client of the report thread and one of main: two fixes overwrite each other.
SPECIFICATION FairSpec
CONSTANTS
  Clients = {"gnss", "ins"}
  Threads = {"main", "report"}
  StartOrder <- MCStartOrder
  LocationClients <- MCLocation
  NmeaClients <- MCNmea
  ResultClients <- MCResult
  MaxFix = 2
  EarlyFix = FALSE
INVARIANTS
  OwnServer
  NoDescriptorLost
  FlaggedFixIsNew
PROPERTIES
  FixUsed
  Reconnects
CHECK_DEADLOCK FALSE
