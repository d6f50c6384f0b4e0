SPECIFICATION Spec
CONSTANTS
  nsA = nsA  nsB = nsB  collector = collector  web = web
  Namespaces = {nsA, nsB}
  OperatorNamespace = nsA
  Unset = Unset
  AskedNamespaces = {Unset, nsB}
  GoflowKinds = {collector}
  PluginKinds = {web}
  ConsoleModes = {TRUE, FALSE}
  FailurePoints <- EveryPoint
  DeletesMayFail = FALSE
  HastyUsers = TRUE
  NamespaceDeletions = TRUE
  MaxUid = 1
  MaxDeletions = 0
  MaxEdits = 3
  MaxFaults = 2
INVARIANT TypeOK
INVARIANT WorkOnlyInRecordedNamespace
PROPERTY StatusFollowsSpec
CHECK_DEADLOCK FALSE
PROPERTY ImplementsHome
