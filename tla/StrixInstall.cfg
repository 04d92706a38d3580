SPECIFICATION FairSpec
CONSTANTS
  Versions <- MCVersions
  MaxInvocations = 2
INVARIANTS
  TypeOK
  OriginalKept
  FirstMigrationBoots
PROPERTIES
  RestoredIsExact
  DeployedIsNew
  ReplacedWhenStopped
  InvocationEnds
CHECK_DEADLOCK FALSE
