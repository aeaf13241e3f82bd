SPECIFICATION Spec
CONSTANTS
  Unit = 32  Precision = 4  MaxExponent = 12  Decimals = 100  Ranges <- Values
  Leaves <- IntAndFloat  Edited <- Counter  TypeOf <- Types
  Received <- Reported  Typed <- SomeTyped  Scales <- SomeScales
  DiskRoom <- SomeRooms  MaxSize = 42
  MaxSamples = 3
INVARIANTS
  SizesMatchContent
  RetypeKeeps
PROPERTIES
  ImplementsTape
