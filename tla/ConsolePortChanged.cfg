SPECIFICATION Spec
CONSTANTS
  here = here  before = before  p1 = p1  p2 = p2  image = image  u1 = u1  u2 = u2
  Namespace = here
  FormerNamespace = before
  Ports = {p1, p2}
  Pods = {image}
  ReplicaCounts = {1}
  Urls = {u1}
  Queriers = {NoUrl, u2}
  NoUrl = NoUrl
  Missing = Missing
  MaxEdits = 1
  MaxFaults = 0
CHECK_DEADLOCK FALSE
INVARIANT SettledTcp
