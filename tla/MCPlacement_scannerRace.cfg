SPECIFICATION Spec
CONSTANTS
  Nodes = {n1, n2}
  Local = {n1}
  Coarse = {}
  None = None
  RemovePvNodeAffinity = TRUE
  ExtraCreateMetadata = TRUE
  Block = FALSE
  EnableLVGarbageCollection = FALSE
  EnableLVMOrphanCleanup = TRUE
  MaxMoves = 1
  MaxFaults = 0
  MaxDisturbances = 2
PROPERTY CollectorSparesSelectedNode
ACTION_CONSTRAINT Bounded
CHECK_DEADLOCK FALSE
