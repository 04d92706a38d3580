SPECIFICATION Spec
CONSTANTS
  Requests = 1
  MaxSignals = 1
INVARIANTS
  ProductionComesBack
CHECK_DEADLOCK FALSE
