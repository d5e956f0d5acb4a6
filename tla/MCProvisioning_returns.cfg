SPECIFICATION FairSpec
CONSTANTS
  Volumes = {v1, v2}
  NoVolume = NoVolume
  Devices = {d1}
  Foreign = {}
  Instances = {i1, i2}
  MaxCalls = 1
  NoCall = NoCall
  EnableCleanup = TRUE
  MaxBoots = 0
  MaxStops = 1
PROPERTY CallsReturn
CHECK_DEADLOCK FALSE
