-------------------- MODULE FlowCollectorControllerProofs --------------------
(***************************************************************************)
(* What holds of FlowCollectorController for every set of namespaces and    *)
(* kinds, every bound, and every behaviour of users, failures and restarts. *)
(***************************************************************************)
EXTENDS FlowCollectorController, TLAPS

-----------------------------------------------------------------------------
(* The inductive invariant.                                                *)

Copies == {cr, crCache, desired}

\* A resource version is given once, a uid is given once, and "no FlowCollector" has
\* no status.
Identity ==
  /\ \A c \in Copies : c.version <= version /\ c.uid <= lastUid
  /\ \A c, d \in Copies : c.uid # 0 /\ c.uid = d.uid /\ c.version = d.version => c = d
  /\ \A c \in Copies : c.uid = 0 => c = Absent
  /\ pc # "idle" => desired.uid # 0
  /\ desired.uid # 0 /\ desired.uid = cr.uid => crCache.uid = cr.uid

\* The labels of handleNamespaceChanged: the spec asks for another namespace than the
\* status of the copy at hand names.
Migrating == {"goflowRole", "goflowCleanup", "goflowAccount", "goflowBinding",
              "pluginCleanup", "pluginAccount", "status"}

MigrationNeeded ==
  /\ pc \in Migrating => Target(desired) # desired.status
  /\ pc = "goflowRole" => FirstInstall
  /\ pc = "goflowCleanup" => ~FirstInstall

\* The copies of one FlowCollector follow each other: the cache behind the server, and,
\* until it writes the status, Reconcile behind the cache.
Ordered ==
  /\ crCache.uid = cr.uid => crCache.version <= cr.version
  /\ crCache.uid = desired.uid /\ pc \in Migrating \union {"namespace"}
       => desired.version <= crCache.version

\* A copy whose status is outdated asks for a migration: no Reconcile takes the
\* namespace of an outdated status for the one in force.
OutdatedMigrates ==
  /\ crCache.uid = cr.uid /\ crCache.status # cr.status
       => Target(crCache) # crCache.status
  /\ pc = "namespace" /\ desired.uid = cr.uid /\ desired.status # cr.status
       => Target(desired) # desired.status

\* The workload reconcilers run for the recorded namespace.
DeployAtHome ==
  pc \in {"goflow", "ovs", "plugin"} /\ desired.uid = cr.uid => cr.status = Target(desired)

CopiesInv == Identity /\ MigrationNeeded /\ Ordered /\ OutdatedMigrates /\ DeployAtHome

\* The permissions of a first install, while its status is not written yet.
RolesUnderWay ==
  Live(cr) /\ desired.uid = cr.uid /\ desired.status = Unset =>
    /\ pc \in Migrating \ {"goflowRole", "goflowCleanup"} => clusterRole = cr.uid
    /\ pc \in {"pluginCleanup", "pluginAccount", "status"} => binding.owner = cr.uid

\* A recorded status belongs to the FlowCollector that the operator works for.
StatusIsOurs ==
  cr.status # Unset =>
    /\ crCache.uid = cr.uid
    /\ pc # "idle" => desired.uid = cr.uid

\* What the migration under way has cleaned, and what was never there.
GoflowSlots == GoflowKinds \X Namespaces
PluginSlots == PluginKinds \X Namespaces

GoflowCleaned ==
  /\ pc \in {"goflowAccount", "goflowBinding", "pluginCleanup", "pluginAccount", "status"}
  /\ desired.uid = cr.uid /\ desired.status # Unset
  => \A s \in GoflowSlots : objs[s] = cr.uid => s[2] # desired.status

PluginCleaned ==
  /\ pc \in {"pluginAccount", "status"}
  /\ desired.uid = cr.uid /\ desired.status # Unset
  => \A s \in PluginSlots : objs[s] = cr.uid => s[2] # desired.status

NoPluginWithoutConsole ==
  ~console => /\ pc \notin {"pluginCleanup", "pluginAccount", "plugin"}
              /\ \A s \in PluginSlots : objs[s] = 0

OwnersGiven == \A s \in Slots : objs[s] <= lastUid

RolesInv ==
  /\ TypeOK /\ Identity /\ MigrationNeeded /\ StatusIsOurs /\ RolesUnderWay
  /\ RolesRecorded

PlacementInv ==
  /\ TypeOK /\ CopiesInv
  /\ GoflowCleaned /\ PluginCleaned /\ NoPluginWithoutConsole /\ OwnersGiven
  /\ WorkOnlyInRecordedNamespace

-----------------------------------------------------------------------------
(* Types.                                                                  *)

LEMMA TargetType ==
  ASSUME NEW c \in FlowCollectors PROVE Target(c) \in Namespaces
BY NamespaceAssumption DEF Target, FlowCollectors, NamespaceNames

LEMMA AbsentType == Absent \in FlowCollectors
BY DEF Absent, FlowCollectors, NamespaceNames

LEMMA NoObjectType == NoObject \in Pointers
BY DEF NoObject, Pointers, NamespaceNames

LEMMA UpdatedType ==
  ASSUME NEW c \in FlowCollectors, NEW n \in NamespaceNames, NEW v \in Nat
  PROVE  /\ [c EXCEPT !.namespace = n, !.version = v] \in FlowCollectors
         /\ [c EXCEPT !.status = n, !.version = v] \in FlowCollectors
         /\ [c EXCEPT !.deleting = TRUE, !.version = v] \in FlowCollectors
BY DEF FlowCollectors

LEMMA RequeueType ==
  ASSUME TypeOK, Requeue, UNCHANGED edits, faults' \in Nat PROVE TypeOK'
BY AbsentType
DEF TypeOK, Requeue, Return, Goto, Labels, resourceVars, rbacVars, clusterVars

\* The work of Deploy leaves every owner a number.
LEMMA DeployType ==
  ASSUME TypeOK, NEW kinds, NEW rewritten, Deploy(kinds, rewritten)
  PROVE  objs' \in [Slots -> Nat]
BY DEF TypeOK, Deploy, ControllerRef, FlowCollectors

LEMMA TypeInit == Init => TypeOK
<1> SUFFICES ASSUME Init PROVE TypeOK
  OBVIOUS
<1>1. objs \in [Slots -> Nat]
  BY DEF Init
<1>2. console \in BOOLEAN
  BY EnvironmentAssumption DEF Init
<1> QED
  BY <1>1, <1>2, AbsentType, NoObjectType, NamespaceAssumption DEF Init, TypeOK, Labels

LEMMA TypeReconcile == TypeOK /\ Reconcile => TypeOK'
<1> SUFFICES ASSUME TypeOK, Reconcile PROVE TypeOK'
  OBVIOUS
<1> USE DEF TypeOK, Goto, Labels, resourceVars, rbacVars, clusterVars, budgetVars
<1>t. Target(desired) \in Namespaces /\ ControllerRef \in Nat
  BY TargetType DEF ControllerRef, FlowCollectors
<1>1. CASE StartReconcile
  BY <1>1, AbsentType DEF StartReconcile, Return
<1>2. CASE EnsureNamespace
  BY <1>2, <1>t DEF EnsureNamespace, AfterNamespace
<1>3. CASE CreateClusterRole
  BY <1>3, <1>t, RequeueType DEF CreateClusterRole
<1>4. CASE CleanupGoflow \/ CleanupPlugin
  <2>1. Cleanup(GoflowManaged, "goflowAccount") \/ Cleanup(PluginManaged, "pluginAccount")
    BY <1>4 DEF CleanupGoflow, CleanupPlugin
  <2>2. objs' \in [Slots -> Nat]
    BY <2>1 DEF Cleanup, Without
  <2>3. queued' \in BOOLEAN
    BY <2>1, Zenon DEF Cleanup, Notify
  <2>4. faults' \in Nat /\ edits' \in Nat
    BY <2>1 DEF Cleanup, SpendFault
  <2>5. pc' \in Labels
    BY <2>1 DEF Cleanup
  <2> QED
    BY <2>1, <2>2, <2>3, <2>4, <2>5 DEF Cleanup
<1>5. CASE CreateGoflowAccount \/ CreatePluginAccount
  BY <1>5, <1>t, RequeueType DEF CreateGoflowAccount, CreatePluginAccount, CreateAccount
<1>6. CASE WriteBinding
  BY <1>6, <1>t, RequeueType DEF WriteBinding, AfterBinding, Pointers, NamespaceNames
<1>7. CASE UpdateStatus
  <2> DEFINE updated == [desired EXCEPT !.status = Target(desired), !.version = version + 1]
  <2>1. updated \in FlowCollectors
    <3>1. Target(desired) \in NamespaceNames /\ version + 1 \in Nat
      BY <1>t DEF NamespaceNames
    <3> QED
      BY <3>1, UpdatedType, Zenon
  <2>2. \/ /\ cr' = updated /\ desired' = updated /\ version' = version + 1 /\ pc' = "goflow"
           /\ UNCHANGED <<lastUid, crCache, queued, console, rbacVars, clusterVars, budgetVars>>
        \/ Requeue /\ UNCHANGED budgetVars
    BY <1>7 DEF UpdateStatus
  <2> HIDE DEF updated
  <2> QED
    BY <2>1, <2>2, RequeueType
<1>8. CASE ReconcileGoflow
  <2>1. objs' \in [Slots -> Nat]
    BY <1>8, DeployType DEF ReconcileGoflow
  <2>2. queued' \in BOOLEAN
    BY <1>8, Zenon DEF ReconcileGoflow, Notify
  <2> QED
    BY <1>8, <2>1, <2>2 DEF ReconcileGoflow
<1>9. CASE ReconcileOvs
  <2>1. queued' \in BOOLEAN
    BY <1>9, Zenon DEF ReconcileOvs, Notify
  <2>2. flowsConfig' \in Pointers
    BY <1>9, <1>t DEF ReconcileOvs, Pointers, NamespaceNames
  <2> QED
    BY <1>9, <2>1, <2>2, AbsentType DEF ReconcileOvs, Return
<1>w. WritePlugin => plugin' \in Pointers
  BY <1>t DEF WritePlugin, Pointers, NamespaceNames
<1>10. CASE ReconcilePlugin
  <2>1. objs' \in [Slots -> Nat]
    BY <1>10, DeployType DEF ReconcilePlugin
  <2>2. queued' \in BOOLEAN
    BY <1>10, Zenon DEF ReconcilePlugin, Notify
  <2> QED
    BY <1>10, <1>w, <2>1, <2>2, AbsentType DEF ReconcilePlugin, Return
<1>11. CASE DeployNowhere
  <2>1. objs' \in [Slots -> Nat]
    BY <1>11, DeployType DEF DeployNowhere, StopHalfWay
  <2> QED
    BY <1>11, <1>w, <2>1, AbsentType DEF DeployNowhere, StopHalfWay, Return
<1> QED
  BY <1>1, <1>2, <1>3, <1>4, <1>5, <1>6, <1>7, <1>8, <1>9, <1>10, <1>11 DEF Reconcile

LEMMA TypeFailures == TypeOK /\ Failures => TypeOK'
<1> SUFFICES ASSUME TypeOK, Failures PROVE TypeOK'
  OBVIOUS
<1> USE DEF TypeOK, Goto, Labels, resourceVars, rbacVars, clusterVars, SpendFault
<1>1. CASE CallFails
  BY <1>1, RequeueType DEF CallFails
<1>2. CASE DeployFails
  <2>1. objs' \in [Slots -> Nat]
    BY <1>2, DeployType DEF DeployFails, StopHalfWay
  <2>2. plugin' \in Pointers
    BY <1>2, TargetType
    DEF DeployFails, StopHalfWay, WritePlugin, Pointers, NamespaceNames, ControllerRef,
        FlowCollectors
  <2> QED
    BY <1>2, <2>1, <2>2, AbsentType DEF DeployFails, StopHalfWay, Return
<1>3. CASE OvsFails
  BY <1>3, AbsentType DEF OvsFails, Return
<1>4. CASE Restart
  BY <1>4, AbsentType, EnvironmentAssumption DEF Restart, Return
<1> QED
  BY <1>1, <1>2, <1>3, <1>4 DEF Failures

LEMMA TypeEnvironment ==
  TypeOK /\ (Users \/ Inform \/ CollectGarbage \/ FinishDeletion) => TypeOK'
<1> SUFFICES ASSUME TypeOK, Users \/ Inform \/ CollectGarbage \/ FinishDeletion
             PROVE  TypeOK'
  OBVIOUS
<1> USE DEF TypeOK, resourceVars, operatorVars, rbacVars, clusterVars, budgetVars
<1>s. ASSUME NEW c \in FlowCollectors, Store(c), version' \in Nat, lastUid' \in Nat,
             edits' \in Nat, faults' \in Nat
      PROVE  TypeOK'
  BY <1>s DEF Store
<1>1. CASE CreateFlowCollector
  <2>1. PICK n \in AskedNamespaces :
          Store([uid |-> lastUid + 1, namespace |-> n, status |-> Unset,
                 deleting |-> FALSE, version |-> version + 1])
    BY <1>1 DEF CreateFlowCollector
  <2>2. [uid |-> lastUid + 1, namespace |-> n, status |-> Unset,
         deleting |-> FALSE, version |-> version + 1] \in FlowCollectors
    BY NamespaceAssumption DEF FlowCollectors, NamespaceNames
  <2> QED
    BY <1>1, <1>s, <2>1, <2>2 DEF CreateFlowCollector
<1>2. CASE EditFlowCollector
  <2> DEFINE edited(n) == [cr EXCEPT !.namespace = n, !.version = version + 1]
  <2>1. PICK n \in AskedNamespaces : Store(edited(n))
    BY <1>2 DEF EditFlowCollector
  <2>2. edited(n) \in FlowCollectors
    <3>1. n \in NamespaceNames /\ version + 1 \in Nat
      BY NamespaceAssumption DEF NamespaceNames
    <3> QED
      BY <3>1, UpdatedType, Zenon
  <2> HIDE DEF edited
  <2> QED
    BY <1>2, <1>s, <2>1, <2>2 DEF EditFlowCollector
<1>3. CASE DeleteFlowCollector
  <2> DEFINE going == [cr EXCEPT !.deleting = TRUE, !.version = version + 1]
  <2>1. going \in FlowCollectors
    <3>1. Unset \in NamespaceNames /\ version + 1 \in Nat
      BY DEF NamespaceNames
    <3> QED
      BY <3>1, UpdatedType, Zenon
  <2>2. \/ Store(Absent) /\ UNCHANGED version
        \/ Store(going) /\ version' = version + 1
    BY <1>3 DEF DeleteFlowCollector
  <2> HIDE DEF going
  <2> QED
    BY <1>3, <1>s, <2>1, <2>2, AbsentType DEF DeleteFlowCollector
<1>4. CASE DeleteOwnedObject
  <2>1. queued' \in BOOLEAN
    BY <1>4, Zenon DEF DeleteOwnedObject, Notify
  <2>2. objs' \in [Slots -> Nat]
    BY <1>4 DEF DeleteOwnedObject
  <2> QED
    BY <1>4, <2>1, <2>2, NoObjectType DEF DeleteOwnedObject, SpendFault
<1>5. CASE DeleteNamespace
  <2>1. queued' \in BOOLEAN
    BY <1>5, Zenon DEF DeleteNamespace, Notify
  <2>2. objs' \in [Slots -> Nat]
    BY <1>5 DEF DeleteNamespace
  <2> QED
    BY <1>5, <2>1, <2>2 DEF DeleteNamespace, SpendFault
<1>6. CASE Inform
  BY <1>6 DEF Inform
<1>7. CASE CollectGarbage
  <2>1. queued' \in BOOLEAN
    BY <1>7, Zenon DEF CollectGarbage, Notify
  <2>2. objs' \in [Slots -> Nat]
    BY <1>7 DEF CollectGarbage, CollectObject, CollectRbac, CollectClusterScoped
  <2>3. /\ existing' = existing /\ clusterRole' \in Nat
        /\ binding' \in Pointers /\ plugin' \in Pointers /\ flowsConfig' \in Pointers
    BY <1>7, NoObjectType
    DEF CollectGarbage, CollectObject, CollectRbac, CollectClusterScoped
  <2> QED
    BY <1>7, <2>1, <2>2, <2>3 DEF CollectGarbage
<1>8. CASE FinishDeletion
  BY <1>8, <1>s, AbsentType DEF FinishDeletion
<1> QED
  BY <1>1, <1>2, <1>3, <1>4, <1>5, <1>6, <1>7, <1>8 DEF Users

LEMMA TypeNext == TypeOK /\ [Next]_vars => TypeOK'
<1>1. TypeOK /\ UNCHANGED vars => TypeOK'
  BY DEF TypeOK, vars, resourceVars, operatorVars, rbacVars, clusterVars, budgetVars
<1> QED
  BY <1>1, TypeReconcile, TypeFailures, TypeEnvironment DEF Next

\* Every variable keeps its type, for every choice of the constants.
THEOREM TypeCorrect == Spec => []TypeOK
BY TypeInit, TypeNext, PTL DEF Spec

-----------------------------------------------------------------------------
(* The skeleton of a step: what it does to the FlowCollector, to its copies *)
(* and to the label of Reconcile.                                          *)

Fetches ==
  /\ pc = "idle" /\ pc' = "namespace"
  /\ Live(crCache) /\ desired' = crCache
  /\ UNCHANGED <<cr, version, lastUid, crCache, console>>

\* The successors of the labels at which the copy stays the same.
Successor(label) ==
  CASE label = "namespace" -> {AfterNamespace}
    [] label \in {"goflowRole", "goflowCleanup"} -> {"goflowAccount"}
    [] label = "goflowAccount" -> {"goflowBinding"}
    [] label = "goflowBinding" -> {AfterBinding}
    [] label = "pluginCleanup" -> {"pluginAccount"}
    [] label = "pluginAccount" -> {"status"}
    [] label = "goflow" -> {"ovs"}
    [] label = "ovs" /\ console -> {"plugin"}
    [] OTHER -> {}

Proceeds ==
  /\ pc' = pc \/ pc' \in Successor(pc)
  /\ UNCHANGED <<cr, version, lastUid, crCache, desired, console>>

GivesUp ==
  /\ pc' = "idle" /\ desired' = Absent
  /\ UNCHANGED <<cr, version, lastUid>>
  /\ crCache' \in {crCache, cr}
  /\ console => console'

Records ==
  /\ pc = "status" /\ pc' = "goflow"
  /\ cr.uid = desired.uid /\ cr.version = desired.version
  /\ cr' = [desired EXCEPT !.status = Target(desired), !.version = version + 1]
  /\ desired' = cr' /\ version' = version + 1
  /\ UNCHANGED <<lastUid, crCache, console>>

Learns == crCache' = cr /\ UNCHANGED <<cr, version, lastUid, pc, desired, console>>

Created ==
  /\ cr.uid = 0 /\ lastUid' = lastUid + 1 /\ version' = version + 1
  /\ cr'.uid = lastUid + 1 /\ cr'.version = version + 1 /\ cr'.status = Unset

Edited ==
  /\ cr'.uid = cr.uid /\ cr'.version = version + 1 /\ cr'.status = cr.status
  /\ cr.uid # 0 /\ version' = version + 1 /\ UNCHANGED lastUid
  /\ Live(cr') => Live(cr)

Deleted == cr' = Absent /\ UNCHANGED <<version, lastUid>>

UserWrites ==
  /\ Created \/ Edited \/ Deleted
  /\ UNCHANGED <<crCache, pc, desired, console>>

Skeleton == \/ Fetches \/ Proceeds \/ GivesUp \/ Records \/ Learns \/ UserWrites

LEMMA SkeletonReconcile == TypeOK /\ Reconcile => Skeleton
<1> SUFFICES ASSUME TypeOK, Reconcile PROVE Skeleton
  OBVIOUS
<1> USE DEF Skeleton, Goto, resourceVars, Successor
<1>r. Requeue => GivesUp
  BY DEF Requeue, Return, GivesUp
<1>1. CASE StartReconcile
  BY <1>1 DEF StartReconcile, Fetches, GivesUp, Return
<1>2. CASE EnsureNamespace
  BY <1>2 DEF EnsureNamespace, Proceeds
<1>3. CASE CreateClusterRole
  BY <1>3, <1>r DEF CreateClusterRole, Proceeds
<1>4. CASE CleanupGoflow \/ CleanupPlugin
  BY <1>4 DEF CleanupGoflow, CleanupPlugin, Cleanup, Proceeds
<1>5. CASE CreateGoflowAccount \/ CreatePluginAccount
  BY <1>5, <1>r DEF CreateGoflowAccount, CreatePluginAccount, CreateAccount, Proceeds
<1>6. CASE WriteBinding
  BY <1>6, <1>r DEF WriteBinding, Proceeds
<1>7. CASE UpdateStatus
  BY <1>7, <1>r DEF UpdateStatus, Records
<1>8. CASE ReconcileGoflow
  BY <1>8 DEF ReconcileGoflow, Proceeds
<1>9. CASE ReconcileOvs
  BY <1>9 DEF ReconcileOvs, Proceeds, GivesUp, Return
<1>10. CASE ReconcilePlugin
  BY <1>10 DEF ReconcilePlugin, GivesUp, Return
<1>11. CASE DeployNowhere
  BY <1>11 DEF DeployNowhere, StopHalfWay, GivesUp, Return
<1> QED
  BY <1>1, <1>2, <1>3, <1>4, <1>5, <1>6, <1>7, <1>8, <1>9, <1>10, <1>11 DEF Reconcile

LEMMA SkeletonFailures == TypeOK /\ Failures => Skeleton
<1> SUFFICES ASSUME TypeOK, Failures PROVE Skeleton
  OBVIOUS
<1> USE DEF Skeleton, Goto, resourceVars, GivesUp, Return
<1>1. CASE CallFails
  BY <1>1 DEF CallFails, Requeue
<1>2. CASE DeployFails
  BY <1>2 DEF DeployFails, StopHalfWay
<1>3. CASE OvsFails
  BY <1>3 DEF OvsFails, Proceeds, Successor
<1>4. CASE Restart
  BY <1>4 DEF Restart
<1> QED
  BY <1>1, <1>2, <1>3, <1>4 DEF Failures

LEMMA SkeletonEnvironment ==
  TypeOK /\ (Users \/ Inform \/ CollectGarbage \/ FinishDeletion) => Skeleton
<1> SUFFICES ASSUME TypeOK, Users \/ Inform \/ CollectGarbage \/ FinishDeletion
             PROVE  Skeleton
  OBVIOUS
<1> USE DEF Skeleton, resourceVars, operatorVars
<1>1. CASE CreateFlowCollector
  BY <1>1 DEF CreateFlowCollector, Store, UserWrites, Created
<1>2. CASE EditFlowCollector
  BY <1>2 DEF EditFlowCollector, Store, UserWrites, Edited, Live, TypeOK, FlowCollectors
<1>3. CASE DeleteFlowCollector
  BY <1>3
  DEF DeleteFlowCollector, Store, UserWrites, Edited, Deleted, Live, TypeOK, FlowCollectors
<1>4. CASE DeleteOwnedObject \/ DeleteNamespace
  BY <1>4 DEF DeleteOwnedObject, DeleteNamespace, Proceeds
<1>5. CASE Inform
  BY <1>5 DEF Inform, Learns
<1>6. CASE CollectGarbage
  BY <1>6 DEF CollectGarbage, Proceeds
<1>7. CASE FinishDeletion
  BY <1>7 DEF FinishDeletion, Store, UserWrites, Deleted
<1> QED
  BY <1>1, <1>2, <1>3, <1>4, <1>5, <1>6, <1>7 DEF Users

LEMMA SkeletonNext == TypeOK /\ [Next]_vars => Skeleton
<1>1. UNCHANGED vars => Skeleton
  BY DEF vars, resourceVars, operatorVars, Skeleton, Proceeds
<1> QED
  BY <1>1, SkeletonReconcile, SkeletonFailures, SkeletonEnvironment DEF Next

-----------------------------------------------------------------------------
(* Copies of the FlowCollector.                                            *)

LEMMA IdentityInit == Init => Identity
BY DEF Init, Identity, Copies, Absent

LEMMA IdentityNext == TypeOK /\ TypeOK' /\ Identity /\ Skeleton => Identity'
<1> SUFFICES ASSUME TypeOK, TypeOK', Identity, Skeleton PROVE Identity'
  OBVIOUS
<1> USE DEF Identity, Copies, Absent
<1>t. /\ version \in Nat /\ lastUid \in Nat
      /\ \A c \in Copies \union Copies' : c.uid \in Nat /\ c.version \in Nat
  BY DEF TypeOK, FlowCollectors
<1>1. CASE Fetches
  BY <1>1, <1>t DEF Fetches, Live
<1>2. CASE Proceeds
  <2>1. pc' # "idle" => pc # "idle"
    BY <1>2 DEF Proceeds, Successor
  <2> QED
    BY <1>2, <2>1 DEF Proceeds
<1>3. CASE GivesUp
  BY <1>3, <1>t DEF GivesUp
<1>4. CASE Records
  <2>1. cr'.uid = cr.uid /\ cr'.version = version + 1
    BY <1>4 DEF Records, TypeOK, FlowCollectors
  <2> QED
    BY <1>4, <1>t, <2>1 DEF Records
<1>5. CASE Learns
  BY <1>5, <1>t DEF Learns
<1>6. CASE UserWrites
  BY <1>6, <1>t DEF UserWrites, Created, Edited, Deleted
<1> QED
  BY <1>1, <1>2, <1>3, <1>4, <1>5, <1>6 DEF Skeleton

\* The status never comes to name a namespace that the stored spec does not ask for.
THEOREM StatusCorrect == Spec => StatusFollowsSpec
<1>1. TypeOK /\ Identity /\ [Next]_vars => [StatusStep]_vars
  <2> SUFFICES ASSUME TypeOK, Identity, [Next]_vars PROVE StatusStep
    OBVIOUS
  <2>1. CASE Records
    <3>1. cr.uid # 0 /\ cr = desired
      BY <2>1 DEF Records, Identity, Copies
    <3>2. cr'.status = Target(desired) /\ cr'.namespace = desired.namespace
      BY <2>1 DEF Records, TypeOK, FlowCollectors
    <3> QED
      BY <3>2 DEF Target, StatusStep
  <2>2. CASE ~Records
    BY <2>2, SkeletonNext
    DEF Skeleton, Fetches, Proceeds, GivesUp, Learns, UserWrites, Created, Edited, Deleted,
        Identity, Copies, Absent, TypeOK, FlowCollectors, StatusStep
  <2> QED
    BY <2>1, <2>2
<1>2. Identity /\ TypeOK /\ [Next]_vars => Identity'
  BY TypeNext, SkeletonNext, IdentityNext
<1> QED
  BY <1>1, <1>2, IdentityInit, TypeInit, TypeNext, PTL DEF Spec, StatusFollowsSpec

-----------------------------------------------------------------------------
(* What the copies tell about the recorded status.                         *)

LEMMA MigrationNext == MigrationNeeded /\ Skeleton => MigrationNeeded'
<1> SUFFICES ASSUME MigrationNeeded, Skeleton PROVE MigrationNeeded'
  OBVIOUS
<1>1. CASE Fetches \/ GivesUp \/ Records
  BY <1>1 DEF Fetches, GivesUp, Records, MigrationNeeded, Migrating
<1>2. CASE Learns \/ UserWrites
  BY <1>2 DEF Learns, UserWrites, MigrationNeeded, Target, FirstInstall
<1>3. CASE Proceeds
  BY <1>3
  DEF Proceeds, Successor, AfterNamespace, AfterBinding, MigrationNeeded, Migrating, Target,
      FirstInstall
<1> QED
  BY <1>1, <1>2, <1>3 DEF Skeleton

LEMMA CopiesInit == Init => CopiesInv
<1> SUFFICES ASSUME Init PROVE CopiesInv
  OBVIOUS
<1> QED
  BY IdentityInit
  DEF CopiesInv, Init, MigrationNeeded, Migrating, Ordered, OutdatedMigrates, DeployAtHome,
      Absent

LEMMA CopiesNext == TypeOK /\ TypeOK' /\ CopiesInv /\ Skeleton => CopiesInv'
<1> SUFFICES ASSUME TypeOK, TypeOK', CopiesInv, Skeleton PROVE CopiesInv'
  OBVIOUS
<1> USE DEF CopiesInv
<1>t. /\ version \in Nat /\ lastUid \in Nat
      /\ \A c \in Copies \union Copies' : c.uid \in Nat /\ c.version \in Nat
  BY DEF TypeOK, FlowCollectors, Copies
<1>i. Identity'
  BY IdentityNext
<1>a. Absent.uid = 0 /\ Absent.version = 0 /\ Absent.status = Unset
  BY DEF Absent
<1>r. ASSUME Records
      PROVE  /\ cr = desired /\ cr'.uid = cr.uid /\ cr'.version = version + 1
             /\ cr'.status = Target(desired) /\ Target(desired') = Target(desired)
             /\ crCache = cr
  <2>1. cr = desired
    BY <1>r DEF Records, Identity, Copies
  <2>2. cr'.uid = cr.uid /\ cr'.version = version + 1 /\ cr'.status = Target(desired)
    BY <1>r DEF Records, TypeOK, FlowCollectors
  <2>3. Target(desired') = Target(desired)
    BY <1>r DEF Records, TypeOK, FlowCollectors, Target
  <2>4. crCache.uid = cr.uid /\ crCache.version = cr.version
    BY <1>r, <1>t, <2>1 DEF Records, Identity, Ordered, Migrating, Copies
  <2>5. crCache = cr
    BY <1>r, <2>1, <2>4 DEF Records, Identity, Copies
  <2> QED
    BY <2>1, <2>2, <2>3, <2>5
<1>1. MigrationNeeded'
  BY MigrationNext
<1>2. Ordered'
  <2>1. CASE Fetches \/ GivesUp \/ Learns
    BY <2>1, <1>t, <1>a
    DEF Fetches, GivesUp, Learns, Ordered, Migrating, Identity, Copies
  <2>2. CASE Records
    BY <2>2, <1>r, <1>t DEF Records, Ordered, Migrating, Identity, Copies
  <2>3. CASE Proceeds
    BY <2>3 DEF Proceeds, Successor, AfterNamespace, AfterBinding, Ordered, Migrating
  <2>4. CASE UserWrites
    BY <2>4, <1>t, <1>a
    DEF UserWrites, Created, Edited, Deleted, Ordered, Identity, Copies, Absent
  <2> QED
    BY <2>1, <2>2, <2>3, <2>4 DEF Skeleton
<1>3. OutdatedMigrates'
  <2>1. CASE Fetches
    BY <2>1 DEF Fetches, OutdatedMigrates
  <2>2. CASE GivesUp \/ Learns
    BY <2>2, <1>a DEF GivesUp, Learns, OutdatedMigrates, Identity, Target
  <2>3. CASE Records
    BY <2>3, <1>r DEF Records, OutdatedMigrates, MigrationNeeded, Migrating
  <2>4. CASE Proceeds
    BY <2>4
    DEF Proceeds, Successor, AfterNamespace, AfterBinding, OutdatedMigrates, Target
  <2>5. CASE UserWrites
    BY <2>5, <1>t, <1>a
    DEF UserWrites, Created, Edited, Deleted, OutdatedMigrates, Identity, Copies, Target
  <2> QED
    BY <2>1, <2>2, <2>3, <2>4, <2>5 DEF Skeleton
<1>4. DeployAtHome'
  <2>1. CASE Fetches \/ GivesUp
    BY <2>1 DEF Fetches, GivesUp, DeployAtHome
  <2>2. CASE Learns
    BY <2>2 DEF Learns, DeployAtHome, Target
  <2>3. CASE Records
    BY <2>3, <1>r DEF Records, DeployAtHome
  <2>4. CASE Proceeds
    BY <2>4
    DEF Proceeds, Successor, AfterNamespace, AfterBinding, OutdatedMigrates, DeployAtHome,
        Target
  <2>5. CASE UserWrites
    BY <2>5, <1>t, <1>a
    DEF UserWrites, Created, Edited, Deleted, DeployAtHome, Identity, Copies, Target
  <2> QED
    BY <2>1, <2>2, <2>3, <2>4, <2>5 DEF Skeleton
<1> QED
  BY <1>i, <1>1, <1>2, <1>3, <1>4

-----------------------------------------------------------------------------
(* Where the workloads are.                                                *)

\* An object appears only in the hands of its reconciler, in the namespace that the copy
\* at hand asks for.
Appears(s) ==
  /\ objs'[s] = desired.uid /\ s[2] = Target(desired)
  /\ \/ pc = "goflow" /\ s[1] \in GoflowKinds
     \/ pc = "plugin" /\ s[1] \in PluginKinds
     \/ pc \in {"goflowAccount", "pluginAccount"} /\ s[1] \in AccountKinds

ObjectStep == \A s \in Slots : objs'[s] \in {0, objs[s]} \/ Appears(s)

LEMMA DeployStep ==
  ASSUME NEW kinds, NEW rewritten, Deploy(kinds, rewritten), NEW s \in Slots
  PROVE  \/ objs'[s] = objs[s]
         \/ objs'[s] = desired.uid /\ s[1] \in kinds /\ s[2] = Target(desired)
<1>1. s \in kinds \X {Target(desired)} => s[1] \in kinds /\ s[2] = Target(desired)
  OBVIOUS
<1> QED
  BY <1>1 DEF Deploy, ControllerRef

LEMMA AccountStep ==
  ASSUME TypeOK, NEW account \in AccountKinds, NEW next, CreateAccount(account, next),
         NEW s \in Slots
  PROVE  \/ objs'[s] = objs[s]
         \/ objs'[s] = desired.uid /\ s[1] \in AccountKinds /\ s[2] = Target(desired)
BY DEF CreateAccount, Requeue, clusterVars, ControllerRef, TypeOK

LEMMA ObjectNext == TypeOK /\ [Next]_vars => ObjectStep
<1> SUFFICES ASSUME TypeOK, [Next]_vars, NEW s \in Slots
             PROVE  objs'[s] \in {0, objs[s]} \/ Appears(s)
  BY DEF ObjectStep
<1>s. objs \in [Slots -> Nat]
  BY DEF TypeOK
<1>1. CASE UNCHANGED objs
  BY <1>1
<1>2. CASE CleanupGoflow \/ CleanupPlugin
  BY <1>2, <1>s DEF CleanupGoflow, CleanupPlugin, Cleanup, Without
<1>3. CASE CreateGoflowAccount \/ CreatePluginAccount
  BY <1>3, AccountStep DEF CreateGoflowAccount, CreatePluginAccount, Appears, AccountKinds
<1>4. CASE ReconcileGoflow \/ ReconcilePlugin
  BY <1>4, DeployStep DEF ReconcileGoflow, ReconcilePlugin, Appears
<1>5. CASE DeployNowhere
  BY <1>5, DeployStep DEF DeployNowhere, StopHalfWay
<1>6. CASE DeployFails
  <2>1. PICK done \in SUBSET (IF pc = "goflow" THEN GoflowKinds ELSE PluginKinds) :
            \E rewritten \in SUBSET Stale(done) : Deploy(done, rewritten)
    BY <1>6 DEF DeployFails, StopHalfWay
  <2> QED
    BY <1>6, <2>1, DeployStep DEF DeployFails, Appears
<1>7. CASE DeleteOwnedObject \/ DeleteNamespace
  BY <1>7, <1>s DEF DeleteOwnedObject, DeleteNamespace
<1>8. CASE CollectGarbage
  BY <1>8, <1>s
  DEF CollectGarbage, CollectObject, CollectRbac, CollectClusterScoped, clusterVars
<1> QED
  BY <1>1, <1>2, <1>3, <1>4, <1>5, <1>6, <1>7, <1>8
  DEF Next, Reconcile, Failures, Users, StartReconcile, EnsureNamespace, CreateClusterRole,
      WriteBinding, UpdateStatus, ReconcileOvs, CallFails, OvsFails, Restart, Requeue,
      CreateFlowCollector, EditFlowCollector, DeleteFlowCollector, FinishDeletion, Inform,
      Store, vars, clusterVars

\* Owners are uids that were given.
LEMMA OwnersNext == TypeOK /\ Identity /\ OwnersGiven /\ [Next]_vars => OwnersGiven'
<1> SUFFICES ASSUME TypeOK, Identity, OwnersGiven, [Next]_vars PROVE OwnersGiven'
  OBVIOUS
<1>1. lastUid \in Nat /\ lastUid' \in Nat /\ lastUid <= lastUid'
  BY SkeletonNext, TypeNext
  DEF TypeOK, Skeleton, Fetches, Proceeds, GivesUp, Records, Learns, UserWrites, Created,
      Edited, Deleted
<1>2. desired.uid <= lastUid /\ desired.uid \in Nat
  BY DEF Identity, Copies, TypeOK, FlowCollectors
<1>3. \A s \in Slots : objs'[s] \in {0, objs[s], desired.uid}
  BY ObjectNext DEF ObjectStep, Appears
<1> QED
  BY <1>1, <1>2, <1>3 DEF OwnersGiven, TypeOK

LEMMA SlotFacts ==
  ASSUME NEW s \in WorkSlots
  PROVE  /\ s \in Slots /\ s[1] \in WorkKinds /\ s[1] \notin AccountKinds
         /\ s[2] \in Namespaces /\ s[2] # Unset
         /\ s \in GoflowSlots <=> s[1] \in GoflowKinds
         /\ s \in PluginSlots <=> s[1] \in PluginKinds
BY KindAssumption, NamespaceAssumption
DEF WorkSlots, WorkKinds, GoflowSlots, PluginSlots, Slots, AccountKinds

\* The plugin's objects come with the console.
LEMMA PluginNext ==
  TypeOK /\ NoPluginWithoutConsole /\ [Next]_vars => NoPluginWithoutConsole'
<1> SUFFICES ASSUME TypeOK, NoPluginWithoutConsole, [Next]_vars PROVE NoPluginWithoutConsole'
  OBVIOUS
<1>k. Skeleton
  BY SkeletonNext
<1>1. console => console'
  BY <1>k DEF Skeleton, Fetches, Proceeds, GivesUp, Records, Learns, UserWrites
<1>2. ~console' => pc' \notin {"pluginCleanup", "pluginAccount", "plugin"}
  <2>1. CASE Proceeds
    BY <2>1
    DEF Proceeds, Successor, AfterNamespace, AfterBinding, NoPluginWithoutConsole
  <2>2. CASE ~Proceeds
    BY <1>k, <2>2
    DEF Skeleton, Fetches, GivesUp, Records, Learns, UserWrites, NoPluginWithoutConsole
  <2> QED
    BY <2>1, <2>2
<1>3. ASSUME ~console', NEW s \in PluginSlots PROVE objs'[s] = 0
  <2>1. s \in WorkSlots /\ s \in Slots /\ s[1] \in PluginKinds
    BY DEF PluginSlots, WorkSlots, WorkKinds, Slots
  <2>2. ~Appears(s)
    BY <1>1, <1>3, <2>1, KindAssumption, SlotFacts DEF Appears, NoPluginWithoutConsole
  <2> QED
    BY <1>1, <1>3, <2>1, <2>2, ObjectNext DEF ObjectStep, NoPluginWithoutConsole
<1> QED
  BY <1>2, <1>3 DEF NoPluginWithoutConsole

-----------------------------------------------------------------------------
(* The migration cleans before it records.                                 *)

\* Work that belongs to the stored FlowCollector was there before, unless its reconciler
\* just made it in the recorded namespace.
LEMMA OurWork ==
  ASSUME TypeOK, CopiesInv, OwnersGiven, [Next]_vars,
         NEW s \in WorkSlots, cr'.uid # 0, objs'[s] = cr'.uid
  PROVE  /\ cr'.uid = cr.uid
         /\ \/ objs[s] = cr.uid
            \/ pc \in {"goflow", "plugin"} /\ desired.uid = cr.uid /\ s[2] = cr.status
<1>k. Skeleton
  BY SkeletonNext
<1>1. s \in Slots /\ objs'[s] \in {0, objs[s], desired.uid}
  BY ObjectNext, SlotFacts DEF ObjectStep, Appears
<1>2. objs'[s] <= lastUid
  BY <1>1 DEF OwnersGiven, CopiesInv, Identity, Copies, TypeOK
<1>3. cr'.uid \in {0, cr.uid, lastUid + 1}
  <2>1. CASE Records
    BY <2>1 DEF Records, TypeOK, FlowCollectors
  <2>2. CASE ~Records
    BY <1>k, <2>2
    DEF Skeleton, Fetches, Proceeds, GivesUp, Learns, UserWrites, Created, Edited, Deleted,
        Absent
  <2> QED
    BY <2>1, <2>2
<1>4. cr'.uid = cr.uid
  BY <1>2, <1>3 DEF TypeOK
<1>5. CASE objs'[s] = objs[s]
  BY <1>4, <1>5
<1>6. CASE Appears(s)
  BY <1>4, <1>6, SlotFacts DEF Appears, CopiesInv, DeployAtHome
<1> QED
  BY <1>1, <1>4, <1>5, <1>6, ObjectNext DEF ObjectStep

LEMMA CleanupOnly ==
  ASSUME TypeOK, [Next]_vars
  PROVE  /\ pc = "goflowCleanup" /\ pc' \notin {"goflowCleanup", "idle"} => CleanupGoflow
         /\ pc = "pluginCleanup" /\ pc' \notin {"pluginCleanup", "idle"} => CleanupPlugin
BY DEF Next, Reconcile, Failures, Users, StartReconcile, EnsureNamespace, CreateClusterRole,
       WriteBinding, UpdateStatus, ReconcileOvs, CallFails, OvsFails, Restart, Requeue,
       CreateFlowCollector, EditFlowCollector, DeleteFlowCollector, FinishDeletion, Inform,
       Store, vars, operatorVars, CreateGoflowAccount, CreatePluginAccount, ReconcileGoflow,
       ReconcilePlugin, DeployNowhere, DeployFails, DeleteOwnedObject, DeleteNamespace,
       CollectGarbage, CleanupGoflow, CleanupPlugin, Return, Goto, StopHalfWay

\* Once a label of the migration is left, its kinds of work are gone from the namespace
\* to leave.
LEMMA CleanedNext ==
  ASSUME TypeOK, TypeOK', CopiesInv, OwnersGiven, NoPluginWithoutConsole, GoflowCleaned,
         PluginCleaned, ~DeletesMayFail, [Next]_vars
  PROVE  GoflowCleaned' /\ PluginCleaned'
<1>k. Skeleton
  BY SkeletonNext
<1> DEFINE After(label) == {"goflowBinding", "pluginCleanup", "pluginAccount", "status"} \union {label}
<1>d. pc' \in After("goflowAccount") =>
        /\ desired' = desired /\ desired.uid # 0
        /\ pc \in After("goflowAccount") \union {"goflowRole", "goflowCleanup"}
        /\ pc' \in {"pluginAccount", "status"} =>
             \/ pc \in {"pluginAccount", "status", "pluginCleanup"}
             \/ pc = "goflowBinding" /\ pc' \in {"status", "pluginAccount"} /\ Proceeds
  BY <1>k
  DEF Skeleton, Fetches, Proceeds, GivesUp, Records, Learns, UserWrites, Successor,
      AfterNamespace, AfterBinding, CopiesInv, Identity
<1>1. GoflowCleaned'
  <2> SUFFICES ASSUME pc' \in After("goflowAccount"), desired'.uid = cr'.uid,
                      desired'.status # Unset, NEW s \in GoflowSlots, objs'[s] = cr'.uid
               PROVE  s[2] # desired'.status
    BY DEF GoflowCleaned
  <2>1. s \in WorkSlots
    BY DEF GoflowSlots, WorkSlots, WorkKinds
  <2>2. cr'.uid = cr.uid /\ objs[s] = cr.uid
    BY <1>d, <2>1, OurWork
  <2>3. CASE pc \in After("goflowAccount")
    BY <1>d, <2>2, <2>3 DEF GoflowCleaned
  <2>4. CASE pc = "goflowRole"
    BY <1>d, <2>4 DEF CopiesInv, MigrationNeeded, FirstInstall
  <2>5. CASE pc = "goflowCleanup"
    <3>1. CleanupGoflow
      BY <2>5, CleanupOnly
    <3> QED
      BY <3>1, <1>d, <2>1, <2>2, SlotFacts
      DEF CleanupGoflow, Cleanup, Previous, GoflowManaged, GoflowSlots, TypeOK
  <2> QED
    BY <1>d, <2>3, <2>4, <2>5
<1>2. PluginCleaned'
  <2> SUFFICES ASSUME pc' \in {"pluginAccount", "status"}, desired'.uid = cr'.uid,
                      desired'.status # Unset, NEW s \in PluginSlots, objs'[s] = cr'.uid
               PROVE  s[2] # desired'.status
    BY DEF PluginCleaned
  <2>1. s \in WorkSlots
    BY DEF PluginSlots, WorkSlots, WorkKinds
  <2>2. cr'.uid = cr.uid /\ objs[s] = cr.uid
    BY <1>d, <2>1, OurWork
  <2>3. CASE pc \in {"pluginAccount", "status"}
    BY <1>d, <2>2, <2>3 DEF PluginCleaned
  <2>4. CASE pc = "goflowBinding"
    <3>1. ~console
      BY <1>d, <2>4 DEF Proceeds, Successor, AfterBinding, FirstInstall
    <3> QED
      BY <3>1, <1>d, <2>2 DEF NoPluginWithoutConsole
  <2>5. CASE pc = "pluginCleanup"
    <3>1. CleanupPlugin
      BY <2>5, CleanupOnly
    <3> QED
      BY <3>1, <1>d, <2>1, <2>2, SlotFacts
      DEF CleanupPlugin, Cleanup, Previous, PluginManaged, PluginSlots, TypeOK
  <2> QED
    BY <1>d, <2>3, <2>4, <2>5
<1> QED
  BY <1>1, <1>2

LEMMA PlacementInit == Init => PlacementInv
<1> SUFFICES ASSUME Init PROVE PlacementInv
  OBVIOUS
<1>1. \A s \in Slots : objs[s] = 0
  BY DEF Init
<1>2. GoflowSlots \subseteq Slots /\ PluginSlots \subseteq Slots /\ WorkSlots \subseteq Slots
  BY DEF GoflowSlots, PluginSlots, WorkSlots, WorkKinds, Slots
<1>3. pc = "idle" /\ cr.uid = 0 /\ lastUid = 0
  BY DEF Init, Absent
<1> QED
  BY <1>1, <1>2, <1>3, TypeInit, CopiesInit
  DEF PlacementInv, GoflowCleaned, PluginCleaned, NoPluginWithoutConsole, OwnersGiven,
      WorkOnlyInRecordedNamespace

LEMMA PlacementNext ==
  ASSUME ~DeletesMayFail, PlacementInv, [Next]_vars PROVE PlacementInv'
<1> USE DEF PlacementInv
<1>k. Skeleton
  BY SkeletonNext
<1>t. TypeOK'
  BY TypeNext
<1>c. CopiesInv'
  BY <1>k, <1>t, CopiesNext
<1>p. NoPluginWithoutConsole'
  BY PluginNext
<1>o. OwnersGiven'
  BY OwnersNext DEF CopiesInv
<1>g. GoflowCleaned' /\ PluginCleaned'
  BY <1>t, CleanedNext
<1>w. WorkOnlyInRecordedNamespace'
  <2> SUFFICES ASSUME NEW s \in WorkSlots, objs'[s] = cr'.uid, cr'.uid # 0
               PROVE  s[2] = cr'.status
    BY DEF WorkOnlyInRecordedNamespace
  <2>1. cr'.uid = cr.uid /\ s[2] = cr.status
    BY OurWork DEF WorkOnlyInRecordedNamespace
  <2>2. CASE cr'.status = cr.status
    BY <2>1, <2>2
  <2>3. CASE cr'.status # cr.status
    <3>1. Records
      BY <1>k, <2>1, <2>3
      DEF Skeleton, Fetches, Proceeds, GivesUp, Learns, UserWrites, Created, Edited, Deleted,
          Absent, CopiesInv, Identity, TypeOK, FlowCollectors
    <3>2. cr = desired /\ pc = "status"
      BY <3>1 DEF Records, CopiesInv, Identity, Copies
    <3>3. objs[s] = cr.uid
      BY <2>1, <3>2, OurWork
    <3>4. s[2] # cr.status
      BY <2>1, <3>2, <3>3, SlotFacts DEF GoflowCleaned, PluginCleaned, WorkKinds
    <3> QED
      BY <2>1, <3>4
  <2> QED
    BY <2>2, <2>3
<1> QED
  BY <1>t, <1>c, <1>p, <1>o, <1>g, <1>w

\* The status always tells where the workloads are, when deletes do not fail: whatever
\* the number of namespaces, kinds, edits, recreations, failures and restarts.
THEOREM PlacementCorrect ==
  ASSUME ~DeletesMayFail PROVE Spec => []WorkOnlyInRecordedNamespace
<1>1. PlacementInv => WorkOnlyInRecordedNamespace
  BY DEF PlacementInv
<1>2. PlacementInv /\ [Next]_vars => PlacementInv'
  BY PlacementNext
<1> QED
  BY <1>1, <1>2, PlacementInit, PTL DEF Spec

\* New work comes from a pass that works on the recorded namespace.
LEMMA WorkComesHome == TypeOK /\ CopiesInv /\ [Next]_vars => WorkStep
<1> SUFFICES ASSUME TypeOK, CopiesInv, [Next]_vars, NEW s \in WorkSlots,
                    objs'[s] # objs[s], objs'[s] = cr.uid, cr.uid # 0
             PROVE  s[2] = cr.status
  BY DEF WorkStep
<1>1. s \in Slots /\ Appears(s)
  BY ObjectNext, SlotFacts DEF ObjectStep
<1> QED
  BY <1>1, SlotFacts DEF Appears, CopiesInv, DeployAtHome

\* No work is ever made outside the recorded namespace, whatever fails: an error of a
\* clean-up leaves work behind, it does not lead to more.
THEOREM WorkCorrect == Spec => WorkAppearsAtHome
<1>1. TypeOK /\ CopiesInv /\ [Next]_vars => [WorkStep]_vars
  BY WorkComesHome
<1>2. TypeOK /\ CopiesInv /\ [Next]_vars => TypeOK' /\ CopiesInv'
  BY TypeNext, SkeletonNext, CopiesNext
<1> QED
  BY <1>1, <1>2, TypeInit, CopiesInit, PTL DEF Spec, WorkAppearsAtHome

-----------------------------------------------------------------------------
(* FlowCollectorController implements CollectorHome.                       *)

\* What writes a new version without Reconcile leaves every object alone.
LEMMA OnlyUsersWrite ==
  ASSUME TypeOK, [Next]_vars, version' = version + 1, UNCHANGED <<crCache, pc, desired>>
  PROVE  UNCHANGED objs
<1>1. version' # version
  BY DEF TypeOK
<1>2. CASE UpdateStatus
  BY <1>1, <1>2 DEF UpdateStatus, Requeue, resourceVars, Goto
<1> QED
  BY <1>1, <1>2
  DEF Next, Reconcile, Failures, Users, StartReconcile, EnsureNamespace, CreateClusterRole,
      WriteBinding, ReconcileOvs, CallFails, OvsFails, Restart, Requeue, CreateFlowCollector,
      EditFlowCollector, DeleteFlowCollector, FinishDeletion, Inform, Store, vars, resourceVars,
      clusterVars, CreateGoflowAccount, CreatePluginAccount, CreateAccount, CleanupGoflow,
      CleanupPlugin, Cleanup, ReconcileGoflow, ReconcilePlugin, DeployNowhere, DeployFails,
      StopHalfWay, DeleteOwnedObject, DeleteNamespace, CollectGarbage

\* When the status is about to be written there is no work left.
LEMMA NothingWhenRecording ==
  ASSUME PlacementInv, Records PROVE WorkNamespaces = {}
<1>1. cr = desired /\ pc = "status"
  BY DEF PlacementInv, Records, CopiesInv, Identity, Copies
<1> SUFFICES ASSUME NEW s \in WorkSlots, objs[s] = cr.uid, cr.uid # 0 PROVE FALSE
  BY DEF WorkNamespaces
<1>2. s[2] = cr.status /\ s[2] # Unset
  BY SlotFacts DEF PlacementInv, WorkOnlyInRecordedNamespace
<1> QED
  BY <1>1, <1>2, SlotFacts DEF PlacementInv, GoflowCleaned, PluginCleaned, WorkKinds

LEMMA WorkMoves ==
  ASSUME PlacementInv, PlacementInv', [Next]_vars
  PROVE  WorkNamespaces' \subseteq WorkNamespaces \union {cr.status}
<1> SUFFICES ASSUME NEW n \in WorkNamespaces' PROVE n \in WorkNamespaces \union {cr.status}
  OBVIOUS
<1>1. PICK s \in WorkSlots : s[2] = n /\ objs'[s] = cr'.uid /\ cr'.uid # 0
  BY DEF WorkNamespaces
<1>2. cr'.uid = cr.uid /\ (objs[s] = cr.uid \/ s[2] = cr.status)
  BY <1>1, OurWork DEF PlacementInv
<1> QED
  BY <1>1, <1>2 DEF WorkNamespaces

LEMMA HomeInit == Init => Home!Init
BY DEF Init, Home!Init, Absent, WorkNamespaces

LEMMA HomeNext ==
  ASSUME PlacementInv, PlacementInv', [Next]_vars PROVE [Home!Next]_(Home!vars)
<1>k. Skeleton
  BY SkeletonNext DEF PlacementInv
<1>t. /\ TypeOK /\ Target(cr') \in Namespaces /\ Unset \notin Namespaces
      /\ Absent.uid = 0 /\ Absent.status = Unset
  BY TargetType, NamespaceAssumption DEF PlacementInv, TypeOK, Absent
<1>w. WorkNamespaces' \subseteq WorkNamespaces \union {cr.status}
  BY WorkMoves
<1>h. /\ WorkNamespaces \subseteq {cr.status} \ {Unset}
      /\ WorkNamespaces' \subseteq {cr'.status} \ {Unset}
  <2>1. \A s \in WorkSlots : s[2] # Unset
    BY SlotFacts
  <2> QED
    BY <2>1 DEF PlacementInv, WorkOnlyInRecordedNamespace, WorkNamespaces
<1>1. CASE UNCHANGED cr
  <2>1. WorkNamespaces' \subseteq WorkNamespaces \/ WorkNamespaces' = {cr.status}
    BY <1>w, <1>h, <1>1
  <2>2. CASE WorkNamespaces' \subseteq WorkNamespaces
    BY <1>1, <2>2 DEF Home!Next, Home!Lose, Target
  <2>3. CASE WorkNamespaces' = {cr.status}
    BY <1>1, <1>h, <2>3 DEF Home!Next, Home!Work, Target
  <2> QED
    BY <2>1, <2>2, <2>3
<1>2. CASE Records
  <2>1. /\ cr'.uid = cr.uid /\ cr.uid # 0 /\ cr'.status = Target(cr) /\ Target(cr') = Target(cr)
    BY <1>2
    DEF Records, PlacementInv, CopiesInv, Identity, Copies, TypeOK, FlowCollectors, Target
  <2>2. WorkNamespaces = {}
    BY <1>2, NothingWhenRecording
  <2>3. WorkNamespaces' = {}
    <3> SUFFICES ASSUME NEW n \in WorkNamespaces' PROVE FALSE
      OBVIOUS
    <3>1. PICK s \in WorkSlots : objs'[s] = cr'.uid /\ cr'.uid # 0
      BY DEF WorkNamespaces
    <3>2. objs[s] = cr.uid
      BY <1>2, <3>1, OurWork DEF PlacementInv, Records
    <3> QED
      BY <2>1, <2>2, <3>2 DEF WorkNamespaces
  <2> QED
    BY <1>t, <2>1, <2>2, <2>3 DEF Home!Next, Home!Record
<1>3. CASE Created /\ UserWrites
  BY <1>3, <1>t, <1>h DEF Created, PlacementInv, CopiesInv, Identity, Copies, TypeOK,
     Home!Next, Home!Ask
<1>4. CASE Edited /\ UserWrites
  <2>1. UNCHANGED objs
    BY <1>4, OnlyUsersWrite DEF Edited, UserWrites, PlacementInv
  <2>2. WorkNamespaces' = WorkNamespaces
    BY <1>4, <2>1 DEF WorkNamespaces, Edited
  <2> QED
    BY <1>4, <1>t, <2>2 DEF Edited, Home!Next, Home!Ask
<1>5. CASE Deleted /\ UserWrites
  BY <1>5, <1>t, <1>h DEF Deleted, Home!Next, Home!Forget
<1> QED
  BY <1>k, <1>1, <1>2, <1>3, <1>4, <1>5
  DEF Skeleton, Fetches, Proceeds, GivesUp, Learns, UserWrites

\* For an outsider the operator is a CollectorHome, whatever happens to it.
THEOREM HomeCorrect ==
  ASSUME ~DeletesMayFail PROVE Spec => ImplementsHome
<1>1. PlacementInv /\ [Next]_vars => PlacementInv'
  BY PlacementNext
<1>2. PlacementInv /\ PlacementInv' /\ [Next]_vars => [Home!Next]_(Home!vars)
  BY HomeNext
<1> QED
  BY <1>1, <1>2, PlacementInit, HomeInit, PTL DEF Spec, ImplementsHome, Home!Spec

-----------------------------------------------------------------------------
(* The permissions.                                                        *)

\* Only the first install creates the role, only it and a migration write the binding,
\* and the collector takes what is not owned by the stored FlowCollector, or all of it
\* when it waits for its deletion.
RoleStep ==
  \/ UNCHANGED clusterRole
  \/ /\ pc = "goflowRole" /\ pc' = "goflowAccount"
     /\ clusterRole = 0 /\ clusterRole' = desired.uid
     /\ UNCHANGED <<cr, desired>>
  \/ Garbage(clusterRole) /\ clusterRole' = 0 /\ UNCHANGED <<cr, pc, desired>>

BindingStep ==
  \/ UNCHANGED binding
  \/ /\ pc = "goflowBinding" /\ pc' = AfterBinding
     /\ binding' = [owner |-> desired.uid, namespace |-> Target(desired)]
     /\ FirstInstall => binding = NoObject
     /\ UNCHANGED <<cr, desired>>
  \/ Garbage(binding.owner) /\ binding' = NoObject /\ UNCHANGED <<cr, pc, desired>>

LEMMA RbacNext == TypeOK /\ [Next]_vars => RoleStep /\ BindingStep
<1> SUFFICES ASSUME TypeOK, [Next]_vars PROVE RoleStep /\ BindingStep
  OBVIOUS
<1> USE DEF resourceVars, rbacVars
<1>1. CASE UNCHANGED rbacVars
  BY <1>1 DEF RoleStep, BindingStep
<1>2. CASE CreateClusterRole
  BY <1>2 DEF CreateClusterRole, Requeue, ControllerRef, Goto, RoleStep, BindingStep
<1>3. CASE WriteBinding
  BY <1>3 DEF WriteBinding, Requeue, ControllerRef, Goto, RoleStep, BindingStep
<1>4. CASE CollectGarbage
  BY <1>4
  DEF CollectGarbage, CollectObject, CollectRbac, CollectClusterScoped, RoleStep, BindingStep
<1> QED
  BY <1>1, <1>2, <1>3, <1>4
  DEF Next, Reconcile, Failures, Users, StartReconcile, EnsureNamespace, UpdateStatus,
      ReconcileOvs, CallFails, OvsFails, Restart, Requeue, CreateFlowCollector,
      EditFlowCollector, DeleteFlowCollector, FinishDeletion, Inform, Store, vars, operatorVars,
      CleanupGoflow, CleanupPlugin, Cleanup, CreateGoflowAccount, CreatePluginAccount,
      CreateAccount, ReconcileGoflow, ReconcilePlugin, DeployNowhere, DeployFails, StopHalfWay,
      DeleteOwnedObject, DeleteNamespace

LEMMA RbacOnly ==
  ASSUME TypeOK, [Next]_vars
  PROVE  /\ pc = "goflowRole" /\ pc' \notin {"goflowRole", "idle"} => clusterRole' = desired.uid
         /\ pc = "goflowBinding" /\ pc' \notin {"goflowBinding", "idle"}
              => binding'.owner = desired.uid
<1>1. pc = "goflowRole" /\ pc' \notin {"goflowRole", "idle"} => CreateClusterRole
  BY DEF Next, Reconcile, Failures, Users, StartReconcile, EnsureNamespace, CreateClusterRole,
         WriteBinding, UpdateStatus, ReconcileOvs, CallFails, OvsFails, Restart, Requeue,
         CreateFlowCollector, EditFlowCollector, DeleteFlowCollector, FinishDeletion, Inform,
         Store, vars, operatorVars, CreateGoflowAccount, CreatePluginAccount, ReconcileGoflow,
         ReconcilePlugin, DeployNowhere, DeployFails, DeleteOwnedObject, DeleteNamespace,
         CollectGarbage, CleanupGoflow, CleanupPlugin, Return, Goto, StopHalfWay
<1>2. pc = "goflowBinding" /\ pc' \notin {"goflowBinding", "idle"} => WriteBinding
  BY DEF Next, Reconcile, Failures, Users, StartReconcile, EnsureNamespace, CreateClusterRole,
         WriteBinding, UpdateStatus, ReconcileOvs, CallFails, OvsFails, Restart, Requeue,
         CreateFlowCollector, EditFlowCollector, DeleteFlowCollector, FinishDeletion, Inform,
         Store, vars, operatorVars, CreateGoflowAccount, CreatePluginAccount, ReconcileGoflow,
         ReconcilePlugin, DeployNowhere, DeployFails, DeleteOwnedObject, DeleteNamespace,
         CollectGarbage, CleanupGoflow, CleanupPlugin, Return, Goto, StopHalfWay
<1> QED
  BY <1>1, <1>2
  DEF CreateClusterRole, WriteBinding, Requeue, Return, Goto, ControllerRef

LEMMA RolesInit == Init => RolesInv
<1> SUFFICES ASSUME Init PROVE RolesInv
  OBVIOUS
<1> QED
  BY TypeInit, IdentityInit, CopiesInit
  DEF RolesInv, CopiesInv, Init, StatusIsOurs, RolesUnderWay, RolesRecorded, Live, Absent

\* The FlowCollector that a running Reconcile works for is the stored one after a step
\* only if it was before.
LEMMA SameFlowCollector ==
  ASSUME TypeOK, Identity, Skeleton, Live(cr'), ~Created
  PROVE  Live(cr) /\ cr'.uid = cr.uid
<1>1. CASE Records
  BY <1>1 DEF Records, Live, Identity, Copies, TypeOK, FlowCollectors
<1>2. CASE ~Records
  BY <1>2
  DEF Skeleton, Fetches, Proceeds, GivesUp, Learns, UserWrites, Edited, Deleted, Absent, Live
<1> QED
  BY <1>1, <1>2

LEMMA RolesNext == RolesInv /\ [Next]_vars => RolesInv'
<1> SUFFICES ASSUME RolesInv, [Next]_vars PROVE RolesInv'
  OBVIOUS
<1> USE DEF RolesInv
<1>k. Skeleton /\ TypeOK' /\ Identity' /\ RoleStep /\ BindingStep
  BY SkeletonNext, TypeNext, IdentityNext, RbacNext
<1>u. lastUid \in Nat /\ desired.uid <= lastUid /\ desired.uid \in Nat
  BY DEF Identity, Copies, TypeOK, FlowCollectors
<1>1. MigrationNeeded'
  BY <1>k, MigrationNext
<1>2. StatusIsOurs'
  <2>1. CASE Records
    BY <2>1 DEF Records, StatusIsOurs, Identity, Copies, TypeOK, FlowCollectors
  <2>2. CASE ~Records
    BY <1>k, <2>2
    DEF Skeleton, Fetches, Proceeds, GivesUp, Learns, UserWrites, Created, Edited, Deleted,
        StatusIsOurs, Absent, Successor
  <2> QED
    BY <2>1, <2>2
<1>3. RolesUnderWay'
  <2> SUFFICES ASSUME Live(cr'), desired'.uid = cr'.uid, desired'.status = Unset,
                      pc' \in Migrating \ {"goflowRole", "goflowCleanup"}
               PROVE  /\ clusterRole' = cr'.uid
                      /\ pc' \in {"pluginCleanup", "pluginAccount", "status"}
                           => binding'.owner = cr'.uid
    BY DEF RolesUnderWay, Migrating
  <2>1. /\ desired' = desired
        /\ pc \in Migrating
        /\ pc' \in {"pluginCleanup", "pluginAccount", "status"}
             => pc \in {"goflowBinding", "pluginCleanup", "pluginAccount", "status"}
        /\ pc' = pc \/ Proceeds
    BY <1>k
    DEF Skeleton, Fetches, Proceeds, GivesUp, Records, Learns, UserWrites, Successor,
        AfterNamespace, AfterBinding, Migrating
  <2>2. ~Created
    BY <1>u, <2>1 DEF Created
  <2>3. Live(cr) /\ cr'.uid = cr.uid
    BY <1>k, <2>2, SameFlowCollector
  <2>4. clusterRole' = cr.uid
    <3>1. CASE pc = "goflowRole"
      BY <2>1, <2>3, <3>1, RbacOnly DEF Migrating
    <3>2. CASE pc # "goflowRole"
      <4>1. pc # "goflowCleanup"
        BY <2>1 DEF MigrationNeeded, FirstInstall
      <4>2. clusterRole = cr.uid
        BY <2>1, <2>3, <3>2, <4>1 DEF RolesUnderWay
      <4> QED
        BY <1>k, <2>3, <3>2, <4>2 DEF RoleStep, Garbage, Live
    <3> QED
      BY <3>1, <3>2
  <2>5. ASSUME pc' \in {"pluginCleanup", "pluginAccount", "status"}
        PROVE  binding'.owner = cr.uid
    <3>1. CASE pc = "goflowBinding"
      BY <2>1, <2>3, <2>5, <3>1, RbacOnly
    <3>2. CASE pc # "goflowBinding"
      <4>1. binding.owner = cr.uid
        BY <2>1, <2>3, <2>5, <3>2 DEF RolesUnderWay
      <4> QED
        BY <1>k, <2>3, <3>2, <4>1 DEF BindingStep, Garbage, Live
    <3> QED
      BY <3>1, <3>2
  <2> QED
    BY <2>3, <2>4, <2>5
<1>4. RolesRecorded'
  <2> SUFFICES ASSUME Live(cr'), cr'.status # Unset
               PROVE  clusterRole' = cr'.uid /\ binding'.owner = cr'.uid
    BY DEF RolesRecorded
  <2>1. ~Created
    BY DEF Created
  <2>2. Live(cr) /\ cr'.uid = cr.uid
    BY <1>k, <2>1, SameFlowCollector
  <2>3. CASE Records
    <3>1. cr = desired /\ pc = "status" /\ pc' = "goflow"
      BY <2>3 DEF Records, Identity, Copies
    <3>2. clusterRole = cr.uid /\ binding.owner = cr.uid
      BY <2>2, <3>1 DEF RolesUnderWay, RolesRecorded, Migrating
    <3> QED
      BY <1>k, <2>2, <3>1, <3>2 DEF RoleStep, BindingStep
  <2>4. CASE ~Records
    <3>1. cr.status # Unset
      BY <1>k, <2>1, <2>4
      DEF Skeleton, Fetches, Proceeds, GivesUp, Learns, UserWrites, Edited, Deleted, Absent
    <3>2. clusterRole = cr.uid /\ binding.owner = cr.uid /\ cr.uid # 0
      BY <2>2, <3>1 DEF RolesRecorded, Live
    <3>3. clusterRole' = cr.uid
      BY <1>k, <2>2, <3>2 DEF RoleStep, Garbage, Live
    <3>4. binding'.owner = cr.uid
      BY <1>k, <2>2, <3>1, <3>2 DEF BindingStep, Garbage, Live, NoObject, StatusIsOurs
    <3> QED
      BY <2>2, <3>3, <3>4
  <2> QED
    BY <2>3, <2>4
<1> QED
  BY <1>k, <1>1, <1>2, <1>3, <1>4

\* A FlowCollector whose status names a namespace has its role and its role binding.
THEOREM RolesCorrect == Spec => []RolesRecorded
<1>1. RolesInv => RolesRecorded
  BY DEF RolesInv
<1> QED
  BY <1>1, RolesInit, RolesNext, PTL DEF Spec
=============================================================================
