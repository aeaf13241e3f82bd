SPECIFICATION FairSpec
CONSTANTS
  Word = 2  ChunkWords = 2  BufferSize = 8
  Fields <- AAndWide  Off <- GapOff  Size <- GapSize
  Subscribed <- AAndWide  Scaled <- OnlyA  Val <- Bits
  MaxEdits = 1  MaxChanges = 1  MaxLosses = 1
INVARIANTS
  EditSurvives
  NotTorn
PROPERTIES
  OnlyEditsWritten
  EditArrives
  Converges
