SPECIFICATION LocalFairSpec
CONSTANTS
  Nodes = {n1, n2}
  Local = {n1}
  Coarse = {}
  None = None
  RemovePvNodeAffinity = FALSE
  ExtraCreateMetadata = TRUE
  Block = TRUE
  EnableLVGarbageCollection = TRUE
  EnableLVMOrphanCleanup = TRUE
  MaxMoves = 0
  MaxFaults = 1
  MaxDisturbances = 2
PROPERTIES BoundPVKept LocalNoLeak ReleasedPVGoes
ACTION_CONSTRAINT Bounded
CHECK_DEADLOCK FALSE
