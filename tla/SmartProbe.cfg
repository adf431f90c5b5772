CONSTANTS
  sda = sda
  d1 = d1
  Names <- OneName
  Readers <- OneReader
  MaxPlugs = 2

SPECIFICATION PolledSpec
INVARIANTS
  OneProbeRun
  UnreachableIsEarned
  NudgesAreSelfLimiting
PROPERTIES
  PendingEndsWithoutTicker
  EveryDiskIsProbed
  SilentDiskIsFlagged
