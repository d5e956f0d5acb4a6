SPECIFICATION FairSpec
CONSTANTS
  Volumes = {v1, v2}
  NoVolume = NoVolume
  Devices = {d1, d2}
  Foreign = {d2}
  Instances = {i1}
  MaxCalls = 2
  NoCall = NoCall
  EnableCleanup = TRUE
  MaxBoots = 1
  MaxStops = 1
INVARIANTS ProvisioningInv VGCreateUnblocked EnsuredVolumeHeld
PROPERTIES LiveNodeKept StoreSpec CallsReturn
CHECK_DEADLOCK FALSE
