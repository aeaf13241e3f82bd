SPECIFICATION RingSpec
CONSTANTS
  Capacity = 3
  SizeMod = 6
  MaxSamples = 9
INVARIANTS
  NoSlotRace
  DeliveredInOrder
PROPERTIES
  ImplementsFifo
