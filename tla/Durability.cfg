SPECIFICATION FairSpec
CONSTANTS
  Sessions = {s1, s2}
  Rollbacks = {r1}
  Depth = 1
  VersionCap = 2
  GenCap = 1
  MaxFaults = 1
  Nil = nil
INVARIANTS
  DiskIsGapless
  AcknowledgedIsDurable
  StopSavesDirty
PROPERTIES
  ImplementsLedger
  StopEnds
