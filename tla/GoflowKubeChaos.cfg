SPECIFICATION Spec
CONSTANTS
  c1 = c1  c2 = c2
  Configs = {c1, c2}
  Replicas = 1
  LoadReplicas = {1}
  HandReplicas = {0}
  DeletesMayFail = TRUE
  MaxEdits = 2
  MaxTroubles = 2
  MaxFaults = 1
INVARIANT TypeOK
INVARIANT SettledServed
INVARIANT LeftoversLogged
PROPERTY DigestServed
PROPERTY ImplementsLevel
CHECK_DEADLOCK FALSE
