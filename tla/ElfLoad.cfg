SPECIFICATION FairSpec
CONSTANTS
  Dies <- Program
  Roots <- Asked
  Files <- Firmware
  Names <- Typed
INVARIANTS
  ResultsLive
  LoadsType
  FindsVariable
PROPERTIES
  LoadReturns
CHECK_DEADLOCK FALSE
