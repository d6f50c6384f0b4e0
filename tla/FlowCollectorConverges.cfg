SPECIFICATION FairSpec
CONSTANTS
  nsA = nsA  nsB = nsB  nsC = nsC  collector = collector  web = web
  Namespaces = {nsA, nsB, nsC}
  OperatorNamespace = nsA
  Unset = Unset
  AskedNamespaces = {Unset, nsB, nsC}
  GoflowKinds = {collector}
  PluginKinds = {web}
  ConsoleModes = {TRUE}
  FailurePoints <- OutsideMigration
  DeletesMayFail = FALSE
  HastyUsers = FALSE
  NamespaceDeletions = FALSE
  MaxUid = 1
  MaxDeletions = 0
  MaxEdits = 3
  MaxFaults = 2
INVARIANT SettledDeployed
INVARIANT WorkIsPermitted
INVARIANT MigrationUnobstructed
PROPERTY Converges
CHECK_DEADLOCK FALSE
