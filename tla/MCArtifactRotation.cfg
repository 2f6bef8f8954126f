CONSTANTS
  startup = startup
  manual = manual
  Compilers = {startup, manual}
  Mode <- MCMode
  Feeds = {1, 2}
  ValidFrom <- MCValidFrom
  ValidUntil <- MCValidUntil
  Versions = {1, 2}
  NoManifest = NoManifest
  LastDay = 3
  CompileBound = 3
SPECIFICATION Spec
INVARIANT PublishedPairIsWhole
INVARIANT ServesValidSchedule
PROPERTY ExitZeroLeavesCurrentArtifact
CHECK_DEADLOCK FALSE
