SPECIFICATION Spec
CONSTANTS
  SerialBuffer = 16
  Formats = {2, 4, 5}
  Cobs = 2
  Lists <- Any
  BufferSizes <- Sizes
INVARIANTS
  FieldsInRegion
CHECK_DEADLOCK FALSE
