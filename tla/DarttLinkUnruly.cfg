SPECIFICATION Spec
CONSTANTS
  FullDuplex = FALSE
  Late = TRUE
  Unsolicited = TRUE
  WritesMayFail = TRUE
  MaxChunks = 1
  MaxQueue = 1
  MaxRequests = 2
  MaxOwed = 1
  MaxRx = 2
INVARIANTS
  BusDiscipline
  PendingCounts
  IndexInRange
  OneOvertake
