SPECIFICATION LocalFairSpec
CONSTANTS
  Nodes = {n1, n2}
  Local = {n1}
  Coarse = {n2}
  None = None
  RemovePvNodeAffinity = TRUE
  ExtraCreateMetadata = TRUE
  Block = FALSE
  EnableLVGarbageCollection = FALSE
  EnableLVMOrphanCleanup = TRUE
  MaxMoves = 1
  MaxFaults = 1
  MaxDisturbances = 1
INVARIANTS SettledPodSeesVolume SettledVolumeNotCollected
PROPERTIES LocalNoLeak ReleasedPVGoes
ACTION_CONSTRAINT Bounded
CHECK_DEADLOCK FALSE
