SPECIFICATION FairSpec
CONSTANTS
  Nodes = {n1, n2}
  Here = n1
  Pods = {p1, p2}
  Staging = Staging
  MaxStops = 1
  MaxErrors = 1
INVARIANTS  RunningPodSeesVolume GonePodLeavesNothing DeletedVolumeLeavesNothing
PROPERTIES AllDriversServe PodsMoveOn DeletionCompletes
ACTION_CONSTRAINT OthersServe
CHECK_DEADLOCK FALSE
