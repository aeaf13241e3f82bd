SPECIFICATION FairSpec
CONSTANTS
  FullDuplex = FALSE
  Late = FALSE
  Unsolicited = FALSE
  WritesMayFail = FALSE
  MaxChunks = 2
  MaxQueue = 2
  MaxRequests = 2
  MaxOwed = 1
  MaxRx = 2
INVARIANTS
  ReservedForReply
  AsleepOnlyWhenIdle
PROPERTIES
  QueueDrains
  StopReturnsIfHeard
  EveryRequestSent
