SPECIFICATION FairSpec
CONSTANTS
  nsA = nsA  nsB = nsB  collector = collector  web = web
  Namespaces = {nsA, nsB}
  OperatorNamespace = nsA
  Unset = Unset
  AskedNamespaces = {Unset, nsB}
  GoflowKinds = {collector}
  PluginKinds = {}
  ConsoleModes = {FALSE}
  FailurePoints <- EveryPoint
  DeletesMayFail = TRUE
  HastyUsers = TRUE
  NamespaceDeletions = FALSE
  MaxUid = 2
  MaxDeletions = 1
  MaxEdits = 1
  MaxFaults = 1
INVARIANT RolesRecorded
PROPERTY WorkAppearsAtHome
PROPERTY DeletionCompletes
PROPERTY NothingOutlives
CHECK_DEADLOCK FALSE
