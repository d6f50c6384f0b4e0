SPECIFICATION FairSpec
CONSTANTS
  c1 = c1  c2 = c2
  Configs = {c1, c2}
  Replicas = 1
  LoadReplicas = {1}
  HandReplicas = {0}
  DeletesMayFail = FALSE
  MaxEdits = 1
  MaxTroubles = 2
  MaxFaults = 1
INVARIANT SettledConverged
PROPERTY Converges
CHECK_DEADLOCK FALSE
