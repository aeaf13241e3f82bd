SPECIFICATION Spec
CONSTANTS
  Types <- AllTypes
  Nesting <- Depths
  Symbols <- OnlyTicks
  MaxClicks = 3
INVARIANTS
  ElementTypes
