SPECIFICATION Spec
CONSTANTS
  Word = 2  ChunkWords = 2  BufferSize = 4
  Fields <- Both  Off <- PairOff  Size <- PairSize
  Subscribed <- Both  Scaled <- None  Val <- Bits
  MaxEdits = 1  MaxChanges = 0  MaxLosses = 0
PROPERTIES
  OnlyEditsWritten
