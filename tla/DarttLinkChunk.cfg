SPECIFICATION Spec
CONSTANTS
  FullDuplex = FALSE
  Late = FALSE
  Unsolicited = TRUE
  WritesMayFail = FALSE
  MaxChunks = 1
  MaxQueue = 1
  MaxRequests = 1
  MaxOwed = 1
  MaxRx = 3
PROPERTIES
  HeldForChunk
