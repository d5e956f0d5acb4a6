SPECIFICATION Spec
CONSTANTS
  Nodes = {n1, n2}
  Local = {n1}
  Coarse = {}
  None = None
  RemovePvNodeAffinity = TRUE
  ExtraCreateMetadata = TRUE
  Block = FALSE
  EnableLVGarbageCollection = TRUE
  EnableLVMOrphanCleanup = FALSE
  MaxMoves = 2
  MaxFaults = 1
  MaxDisturbances = 2
INVARIANT PlacementInv
ACTION_CONSTRAINT Bounded
CHECK_DEADLOCK FALSE
