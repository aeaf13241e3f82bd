SPECIFICATION Spec
CONSTANTS
  FullDuplex = FALSE
  Late = TRUE
  Unsolicited = FALSE
  WritesMayFail = FALSE
  MaxChunks = 1
  MaxQueue = 1
  MaxRequests = 1
  MaxOwed = 2
  MaxRx = 2
INVARIANTS
  ReservedForReply
