SPECIFICATION Spec
CONSTANTS
  Requests = 1
  MaxSignals = 1
INVARIANTS
  GuardNeverPasses
CHECK_DEADLOCK FALSE
