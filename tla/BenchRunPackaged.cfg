SPECIFICATION FairSpec
CONSTANTS
  Names <- MCNames
  CellUniverse <- MCCells
  Tiers <- MCPlain
  MaxRounds = 2
  MaxSessions = 2
  MaxSignals = 2
INVARIANT
  InterruptedIsPackaged
CHECK_DEADLOCK FALSE
