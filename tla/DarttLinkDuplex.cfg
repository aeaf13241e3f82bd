SPECIFICATION Spec
CONSTANTS
  FullDuplex = TRUE
  Late = FALSE
  Unsolicited = FALSE
  WritesMayFail = FALSE
  MaxChunks = 1
  MaxQueue = 1
  MaxRequests = 1
  MaxOwed = 1
  MaxRx = 2
INVARIANTS
  FullDuplexSkipsBus
