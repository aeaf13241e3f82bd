SPECIFICATION Spec
CONSTANTS
  SerialBuffer = 16
  Formats = {2, 4, 5}
  Cobs = 2
  Lists <- Ordered
  BufferSizes <- Sizes
INVARIANTS
  RegionsExact
  FramesExact
CHECK_DEADLOCK FALSE
