SPECIFICATION Spec
CONSTANTS
  FullDuplex = FALSE
  Late = FALSE
  Unsolicited = FALSE
  WritesMayFail = TRUE
  MaxChunks = 2
  MaxQueue = 2
  MaxRequests = 1
  MaxOwed = 1
  MaxRx = 2
INVARIANTS
  AsleepOnlyWhenIdle
