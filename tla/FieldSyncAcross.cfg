SPECIFICATION Spec
CONSTANTS
  Word = 2  ChunkWords = 2  BufferSize = 8
  Fields <- AllThree  Off <- AcrossOff  Size <- AcrossSize
  Subscribed <- AllThree  Scaled <- None  Val <- Bits
  MaxEdits = 0  MaxChanges = 1  MaxLosses = 0
INVARIANTS
  NotTorn
