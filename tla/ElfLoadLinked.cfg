SPECIFICATION Spec
CONSTANTS
  Dies <- Linked
  Roots <- Node
  Files <- WithList
  Names <- ListName
INVARIANTS
  ResolvedOnce
CHECK_DEADLOCK FALSE
