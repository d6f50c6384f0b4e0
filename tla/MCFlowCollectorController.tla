--------------------- MODULE MCFlowCollectorController ---------------------
(***************************************************************************)
(* Instances of FlowCollectorController for TLC.  The bounds are constants  *)
(* of the specification; only the sets of labels are given a name here.     *)
(***************************************************************************)
EXTENDS FlowCollectorController

\* Any call may fail, and the process may die before any call.
EveryPoint == Labels

\* Everywhere but between the first call that changes permissions and the status
\* update: what the code recovers from.
OutsideMigration == {"idle", "namespace", "goflow", "plugin"}

NoPoint == {}
=============================================================================
