SPECIFICATION FairSpec
CONSTANTS
  Lsblk <- MCLsblk
  PathPrefixes <- MCPathPrefixes
  Models = {"direct"}
  Types = {"disk"}
  Empty = Empty
  Kibi = 2
  Mebi = 4
  MaxForeign = 1
  Requests = {0, 33}
  Limits = {0, 64}
  DefaultSize = 16
  ExpandSizes = {48, 64}
  None = None
  MaxMoves = 1
  MaxFaults = 2
INVARIANTS StorageInv StagedAtAckedSize CapacityInv CapacityCreatable
PROPERTIES ForeignContentKept WaitingPodStaged ExpansionCompletes
CHECK_DEADLOCK FALSE
