CONSTANTS
  Zones <- LoopZones
  Names <- LoopNames
  AxfrAllowed = TRUE
  MessageLimit = 3
  WireLimit = 5
SPECIFICATION DnsSpec
PROPERTY EveryQueryLogged
CHECK_DEADLOCK FALSE
