SPECIFICATION PlotSpec
CONSTANTS
  X = {0, 1, 2}
  Depths = {0, 2, 3}
  Default = 2
INVARIANTS
  DrawnInBounds
  TimeFits
PROPERTIES
  ImplementsWindow
