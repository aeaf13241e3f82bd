SPECIFICATION Spec
CONSTANTS
  Word = 2  ChunkWords = 2  BufferSize = 8
  Fields <- AllThree  Off <- ApartOff  Size <- ApartSize
  Subscribed <- AAndWide  Scaled <- OnlyA  Val <- Bits
  MaxEdits = 2  MaxChanges = 1  MaxLosses = 0
INVARIANTS
  TypeOK
  EditSurvives
  NotTorn
PROPERTIES
  OnlyEditsWritten
