SPECIFICATION Spec
CONSTANTS
  Field = {f1}
  RingCapacity = 1
INVARIANTS
  NotifyWakes
