SPECIFICATION Spec
CONSTANTS
  n1 = n1
  n2 = n2
  c1 = c1
  c2 = c2
  p1 = p1
  p2 = p2
  Nodes = {n1, n2}
  Claims = {c1}
  Pods = {p1, p2}
  None = None
  Ephemeral = Ephemeral
  ClaimSpecs <- MCDurable
  PodVolumes <- MCOneVolume
  OwnTerms <- MCUserTerms
  MaxCrashes = 0
INVARIANT DurabilityEnforced
CHECK_DEADLOCK FALSE
