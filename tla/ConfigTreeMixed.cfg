SPECIFICATION Spec
CONSTANTS
  Types <- AllTypes
  Nesting <- Depths
  Symbols <- OnlyPlain
  MaxClicks = 3
INVARIANTS
  MixedMeansSome
