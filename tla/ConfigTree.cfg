SPECIFICATION Spec
CONSTANTS
  Types <- AllTypes
  Nesting <- Depths
  Symbols <- LaidOut
  MaxClicks = 4
INVARIANTS
  StackIsLive
  LeavesMatchType
PROPERTIES
  SettingsSurvive
