SPECIFICATION FairSpec
CONSTANTS
  Names <- MCNames
  CellUniverse <- MCCells
  Tiers <- MCTiers
  MaxRounds = 2
  MaxSessions = 2
  MaxSignals = 2
INVARIANTS
  TypeOK
  MeasuredOnce
  CleanSlot
  NoRemeasure
  OwnEndpoint
  SuccessIsComplete
PROPERTIES
  SessionEnds
  EvidenceKept

CHECK_DEADLOCK FALSE
