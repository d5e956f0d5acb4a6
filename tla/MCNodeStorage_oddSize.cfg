SPECIFICATION Spec
CONSTANTS
  Lsblk <- MCLsblk
  PathPrefixes <- MCPathPrefixes
  Models = {"direct"}
  Types = {"disk"}
  Empty = Empty
  Kibi = 2
  Mebi = 4
  MaxForeign = 1
  Requests = {0, 33}
  Limits = {0, 64}
  DefaultSize = 16
  ExpandSizes = {45}
  None = None
  MaxMoves = 1
  MaxFaults = 1
PROPERTY RefusedOnlyIfFull
CHECK_DEADLOCK FALSE
