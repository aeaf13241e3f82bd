SPECIFICATION FairSpec
CONSTANTS
  Word = 2  ChunkWords = 2  BufferSize = 3
  Fields <- Both  Off <- TailOff  Size <- TailSize
  Subscribed <- Both  Scaled <- None  Val <- Bits
  MaxEdits = 1  MaxChanges = 0  MaxLosses = 0
PROPERTIES
  EditArrives
