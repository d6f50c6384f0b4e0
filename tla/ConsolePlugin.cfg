SPECIFICATION FairSpec
CONSTANTS
  here = here  before = before  p1 = p1  p2 = p2  image = image  u1 = u1  u2 = u2
  Namespace = here
  FormerNamespace = before
  Ports = {p1, p2}
  Pods = {image}
  ReplicaCounts = {1}
  Urls = {u1, NoUrl}
  Queriers = {NoUrl, u2}
  NoUrl = NoUrl
  Missing = Missing
  MaxEdits = 1
  MaxFaults = 2
INVARIANT TypeOK
INVARIANT SettledServed
PROPERTY ComesToRest
PROPERTY RepairKept
PROPERTY ImplementsLevel
CHECK_DEADLOCK FALSE
