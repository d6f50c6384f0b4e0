SPECIFICATION Spec
CONSTANTS
  nsA = nsA  nsB = nsB  collector = collector  web = web
  Namespaces = {nsA, nsB}
  OperatorNamespace = nsA
  Unset = Unset
  AskedNamespaces = {Unset, nsB}
  GoflowKinds = {collector}
  PluginKinds = {web}
  ConsoleModes = {TRUE}
  FailurePoints <- NoPoint
  DeletesMayFail = FALSE
  HastyUsers = TRUE
  NamespaceDeletions = FALSE
  MaxUid = 1
  MaxDeletions = 0
  MaxEdits = 2
  MaxFaults = 0
INVARIANT AccountFollowsNamespace
CHECK_DEADLOCK FALSE
