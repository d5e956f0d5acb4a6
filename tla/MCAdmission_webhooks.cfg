SPECIFICATION FairSpec
CONSTANTS
  n1 = n1
  n2 = n2
  c1 = c1
  c2 = c2
  p1 = p1
  p2 = p2
  Nodes = {n1, n2}
  Claims = {c1, c2}
  Pods = {p1, p2}
  None = None
  Ephemeral = Ephemeral
  ClaimSpecs <- MCClaimSpecs
  PodVolumes <- MCPodVolumes
  OwnTerms <- MCOwnTerms
  MaxCrashes = 1
INVARIANTS AdmissionInv DurablePodFollowsVolume AvailabilityNeverBlocks OnlyEphemeralClaims
PROPERTIES ManagerServes RequestsAnswered
CHECK_DEADLOCK FALSE
