SPECIFICATION FairSpec
CONSTANTS
  c1 = c1  c2 = c2
  Configs = {c1, c2}
  Replicas = 1
  LoadReplicas = {2}
  HandReplicas = {0}
  DeletesMayFail = FALSE
  MaxEdits = 0
  MaxTroubles = 0
  MaxFaults = 0
PROPERTY AutoscalerObeyed
CHECK_DEADLOCK FALSE
