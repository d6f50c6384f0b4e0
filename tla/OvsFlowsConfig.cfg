SPECIFICATION FairSpec
CONSTANTS
  cnoA = cnoA  cnoB = cnoB
  CnoNamespaces = {cnoA, cnoB}
  Samplings = {0, 1}
  Ports = {2055}
  Missing = Missing
  Garbage = Garbage
  MaxEdits = 2
  MaxFaults = 2
  MaxTroubles = 2
INVARIANT TypeOK
INVARIANT SettledTold
INVARIANT TargetsSound
PROPERTY Converges
