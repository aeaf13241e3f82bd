SPECIFICATION Spec
CONSTANTS
  Types <- AllTypes
  Nesting <- Depths
  Symbols <- OnlyTwins
  MaxClicks = 3
PROPERTIES
  SettingsSurvive
