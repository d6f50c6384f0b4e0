SPECIFICATION Spec
CONSTANTS
  nsA = nsA  nsB = nsB  collector = collector  web = web
  Namespaces = {nsA, nsB}
  OperatorNamespace = nsA
  Unset = Unset
  AskedNamespaces = {Unset, nsB}
  GoflowKinds = {collector}
  PluginKinds = {web}
  ConsoleModes = {TRUE}
  FailurePoints <- NoPoint
  DeletesMayFail = TRUE
  HastyUsers = FALSE
  NamespaceDeletions = FALSE
  MaxUid = 1
  MaxDeletions = 0
  MaxEdits = 1
  MaxFaults = 1
INVARIANT PreviousNamespaceCleaned
CHECK_DEADLOCK FALSE
