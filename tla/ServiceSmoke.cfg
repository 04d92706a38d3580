SPECIFICATION FairSpec
CONSTANTS
  Requests = 2
  MaxSignals = 2
INVARIANTS
  TypeOK
  PassUnderGuard
  SuccessIsWhole
  Restored
  TrialAlone
PROPERTIES
  TrialEnds
CHECK_DEADLOCK FALSE
