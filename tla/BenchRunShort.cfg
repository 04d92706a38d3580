SPECIFICATION FairSpec
CONSTANTS
  Names <- MCNames
  CellUniverse <- MCCells
  Tiers <- MCScored
  MaxRounds = 2
  MaxSessions = 2
  MaxSignals = 2
PROPERTY
  ShortRetried
CHECK_DEADLOCK FALSE
