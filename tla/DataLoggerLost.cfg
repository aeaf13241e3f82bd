SPECIFICATION FairSpec
CONSTANTS
  Field = {f1}
  RingCapacity = 1
PROPERTIES
  StopLogReturns
