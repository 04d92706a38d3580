SPECIFICATION ModelStateSpec
CONSTANTS
  Seqs <- MCSeqs
  Tokens <- MCTokens
  Eos = "eos"
  NGram = 3
  MaxContext = 3
  MaxBatch = 2
  Vocabulary <- MCTokens
  RING_N = 4
  DraftMax = 2
  MaxTokens = 7
INVARIANTS
  TypeOK
  PredecessorsKept
  OwnTrailersReadable
  VerifierTypeOK
  PendingTrue
  RingTrue
  RollbackDepth
CHECK_DEADLOCK FALSE
