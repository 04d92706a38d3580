SPECIFICATION ToolsSpec
CONSTANTS
  DiagCases <- MCDiagCases
  DiagFaults = 1
  PrefixServers <- MCPrefixServers
  PrefixFaults = 1
  BackingServers <- MCBackingServers
  BackingSignals = 2
  Generations = 2
  Changes = 2
  Traits <- MCTraits
  Devices <- MCDevices
  Targets = {2, 5}
  FirstHigh = 6
  LastHigh = 12
  Probes = 4
  PadRepeats = 2
  Units = 2
  Overshoot = 1
  Dip = 1
  Jobs <- MCJobs
  Layouts = {1, 2}
INVARIANTS
  PassIsTrue
  ClaimIsTrue
  SoundPasses
  PrefixPassIsTrue
  PrefixSoundPasses
  BackingPassIsTrue
  BackingReturned
  AuditIsTrue
  AuditUsable
  SearchIsSound
PROPERTIES
  PassIsOurs
  NothingOverwritten
CHECK_DEADLOCK FALSE
