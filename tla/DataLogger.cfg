SPECIFICATION FairSpec
CONSTANTS
  Field = {f1, f2}
  RingCapacity = 2
INVARIANTS
  RingsLive
  StopKeepsSamples
  WriterUndisturbed
PROPERTIES
  JoinsReturn
