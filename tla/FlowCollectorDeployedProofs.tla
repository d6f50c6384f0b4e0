---------------------- MODULE FlowCollectorDeployedProofs ----------------------
(***************************************************************************)
(* That the operator rests only when the FlowCollector is deployed, for    *)
(* every set of namespaces and kinds and every bound, under the conditions *)
(* of FlowCollectorPermissionsProofs and when the OVS reconciler does not  *)
(* fail: its error is dropped.                                             *)
(***************************************************************************)
EXTENDS FlowCollectorPermissionsProofs

-----------------------------------------------------------------------------
(* The inductive invariant.                                                *)

PointersGiven ==
  /\ plugin.owner = 0 => plugin = NoObject
  /\ flowsConfig.owner = 0 => flowsConfig = NoObject

PointersAlone == plugin.owner \in {0, cr.uid} /\ flowsConfig.owner \in {0, cr.uid}

GoflowThere == \A k \in GoflowKinds : objs[<<k, cr.status>>] = cr.uid
FlowsThere  == flowsConfig = [owner |-> cr.uid, namespace |-> cr.status]
PluginThere ==
  console => /\ plugin = [owner |-> cr.uid, namespace |-> cr.status]
             /\ \A k \in PluginKinds : objs[<<k, cr.status>>] = cr.uid

\* What a pass that nothing is going to repeat works on, and what it has found in place.
Finished ==
  ~queued /\ crCache = cr =>
    /\ pc # "idle" => desired = cr
    /\ pc = "idle" => cr.status = Target(cr)
    /\ pc \in {"idle", "ovs", "plugin"} => GoflowThere
    /\ pc \in {"idle", "plugin"} => FlowsThere
    /\ pc = "idle" => PluginThere

DeployedInv ==
  /\ PermissionInv /\ PointersGiven
  /\ Live(cr) => PointersAlone /\ Finished

\* An error of ovsConfigController.Reconcile is logged and forgotten.
OvsReliable == "ovs" \notin FailurePoints

-----------------------------------------------------------------------------
(* What a step does.                                                       *)

\* A cluster-wide pointer is written by the pass under way, or goes away.
PointerMoves(old, new) ==
  new = old \/ new = NoObject \/ (pc # "idle" /\ new.owner = desired.uid)

PointerStep == PointerMoves(plugin, plugin') /\ PointerMoves(flowsConfig, flowsConfig')

LEMMA PointerNext == TypeOK /\ [Next]_vars => PointerStep
<1> SUFFICES ASSUME TypeOK, [Next]_vars PROVE PointerStep
  OBVIOUS
<1> USE DEF PointerStep, PointerMoves
<1>1. CASE UNCHANGED <<plugin, flowsConfig>>
  BY <1>1
<1>2. CASE ReconcileOvs
  BY <1>2 DEF ReconcileOvs, ControllerRef
<1>3. CASE ReconcilePlugin
  BY <1>3 DEF ReconcilePlugin, WritePlugin, ControllerRef
<1>4. CASE DeployNowhere \/ DeployFails
  BY <1>4 DEF DeployNowhere, DeployFails, StopHalfWay, WritePlugin, ControllerRef
<1>5. CASE CollectGarbage
  BY <1>5 DEF CollectGarbage, CollectObject, CollectRbac, CollectClusterScoped, clusterVars
<1>6. CASE DeleteOwnedObject
  BY <1>6 DEF DeleteOwnedObject
<1> QED
  BY <1>1, <1>2, <1>3, <1>4, <1>5, <1>6
  DEF Next, Reconcile, Failures, Users, StartReconcile, EnsureNamespace, CreateClusterRole,
      WriteBinding, UpdateStatus, CallFails, OvsFails, Restart, Requeue, CreateFlowCollector,
      EditFlowCollector, DeleteFlowCollector, FinishDeletion, Inform, Store, vars, clusterVars,
      CreateGoflowAccount, CreatePluginAccount, CreateAccount, CleanupGoflow, CleanupPlugin,
      Cleanup, ReconcileGoflow, DeleteNamespace

\* What wakes nobody up leaves the watched objects as they are, and the cached
\* FlowCollector too.
WatchedStay ==
  /\ \A s \in WorkSlots : objs'[s] = objs[s]
  /\ flowsConfig' = flowsConfig
  /\ console /\ console' => plugin' = plugin

LEMMA WatchedFacts ==
  ASSUME Notify, ~queued' PROVE WatchedStay
<1>1. Watched' = Watched
  BY Zenon DEF Notify
<1>2. /\ [s \in WorkSlots |-> objs'[s]] = [s \in WorkSlots |-> objs[s]]
      /\ (IF console' THEN plugin' ELSE NoObject) = (IF console THEN plugin ELSE NoObject)
      /\ flowsConfig' = flowsConfig
  BY <1>1 DEF Watched
<1>3. ASSUME NEW s \in WorkSlots PROVE objs'[s] = objs[s]
  <2>1. [t \in WorkSlots |-> objs'[t]][s] = [t \in WorkSlots |-> objs[t]][s]
    BY <1>2
  <2> QED
    BY <2>1
<1> QED
  BY <1>2, <1>3 DEF WatchedStay

LEMMA NothingWatchedChanges ==
  ASSUME TypeOK, [Next]_vars, ~queued', cr.uid # 0
  PROVE  WatchedStay /\ crCache' = crCache
<1> USE DEF resourceVars, operatorVars, clusterVars
<1>1. CASE CleanupGoflow \/ CleanupPlugin
  BY <1>1, WatchedFacts DEF CleanupGoflow, CleanupPlugin, Cleanup
<1>2. CASE ReconcileGoflow \/ ReconcileOvs \/ ReconcilePlugin
  BY <1>2, WatchedFacts DEF ReconcileGoflow, ReconcileOvs, ReconcilePlugin
<1>3. CASE CollectGarbage \/ DeleteOwnedObject \/ DeleteNamespace
  BY <1>3, WatchedFacts DEF CollectGarbage, DeleteOwnedObject, DeleteNamespace
<1>4. CASE CreateGoflowAccount \/ CreatePluginAccount
  <2>1. PICK account \in AccountKinds, next \in Labels : CreateAccount(account, next)
    BY <1>4 DEF CreateGoflowAccount, CreatePluginAccount, AccountKinds, Labels
  <2>2. \A s \in WorkSlots : s # <<account, Target(desired)>>
    BY SlotFacts DEF WorkSlots
  <2> QED
    BY <2>1, <2>2 DEF CreateAccount, Requeue, WatchedStay, WorkSlots, Slots, TypeOK, WorkKinds
<1>5. CASE Restart \/ Inform \/ DeployNowhere \/ DeployFails
  BY <1>5 DEF Restart, Inform, DeployNowhere, DeployFails, StopHalfWay
<1> QED
  BY <1>1, <1>2, <1>3, <1>4, <1>5
  DEF Next, Reconcile, Failures, Users, StartReconcile, EnsureNamespace, CreateClusterRole,
      WriteBinding, UpdateStatus, CallFails, OvsFails, Requeue, CreateFlowCollector,
      EditFlowCollector, DeleteFlowCollector, FinishDeletion, Store, vars, WatchedStay

\* Only StartReconcile takes a request.
LEMMA RequestTaken ==
  ASSUME TypeOK, [Next]_vars, ~queued', cr.uid # 0 PROVE ~queued \/ StartReconcile
BY DEF TypeOK, Next, Reconcile, Failures, Users, EnsureNamespace, CreateClusterRole,
       WriteBinding, UpdateStatus, ReconcileOvs, CallFails, OvsFails, Restart, Requeue,
       CreateFlowCollector, EditFlowCollector, DeleteFlowCollector, FinishDeletion, Inform,
       Store, vars, operatorVars, CreateGoflowAccount, CreatePluginAccount, CreateAccount,
       CleanupGoflow, CleanupPlugin, Cleanup, ReconcileGoflow, ReconcilePlugin, DeployNowhere,
       DeployFails, StopHalfWay, DeleteOwnedObject, DeleteNamespace, CollectGarbage, Notify

\* The reconcilers of the workloads are what leads on from one to the next, and to the end
\* of a pass that nothing repeats.
LEMMA WhoDeploys ==
  ASSUME TypeOK, OvsReliable, [Next]_vars, ~queued, ~queued', cr.uid # 0
  PROVE  /\ pc' = "ovs" => pc = "ovs" \/ ReconcileGoflow
         /\ pc' = "plugin" => pc = "plugin" \/ (ReconcileOvs /\ console)
         /\ pc' = "idle" => pc = "idle" \/ (ReconcileOvs /\ ~console) \/ ReconcilePlugin
<1>1. ~OvsFails /\ ~Restart /\ ~CallFails /\ ~DeployFails /\ ~DeployNowhere /\ ~StartReconcile
  BY DEF OvsReliable, OvsFails, Restart, CallFails, DeployFails, DeployNowhere, StopHalfWay,
         StartReconcile, Requeue
<1>2. ~Requeue
  BY DEF Requeue
<1>3. CASE EnsureNamespace
  BY <1>3 DEF EnsureNamespace, AfterNamespace, Goto
<1>4. CASE CreateClusterRole \/ WriteBinding \/ UpdateStatus
  BY <1>2, <1>4 DEF CreateClusterRole, WriteBinding, UpdateStatus, AfterBinding, Goto
<1>5. CASE CreateGoflowAccount \/ CreatePluginAccount
  BY <1>2, <1>5 DEF CreateGoflowAccount, CreatePluginAccount, CreateAccount, Goto
<1>6. CASE CleanupGoflow \/ CleanupPlugin
  BY <1>6 DEF CleanupGoflow, CleanupPlugin, Cleanup, Goto
<1>7. CASE ReconcileGoflow \/ ReconcileOvs \/ ReconcilePlugin
  BY <1>7 DEF ReconcileGoflow, ReconcileOvs, ReconcilePlugin, Goto, Return
<1>8. CASE UNCHANGED pc
  BY <1>8
<1> QED
  BY <1>1, <1>3, <1>4, <1>5, <1>6, <1>7, <1>8
  DEF Next, Reconcile, Failures, Users, CreateFlowCollector, EditFlowCollector,
      DeleteFlowCollector, FinishDeletion, Inform, Store, vars, operatorVars,
      DeleteOwnedObject, DeleteNamespace, CollectGarbage

-----------------------------------------------------------------------------
(* A pass that finds nothing to change has found everything in place.      *)

LEMMA PointersNext ==
  ASSUME DeployedInv, Calm, [Next]_vars
  PROVE  PointersGiven' /\ (Live(cr') => PointersAlone')
<1>1. TypeOK /\ Identity /\ Skeleton /\ PointerStep /\ NoObject.owner = 0
  BY PointerNext, SkeletonNext
  DEF DeployedInv, PermissionInv, PlacementInv, CopiesInv, NoObject
<1>2. PointersGiven'
  BY <1>1 DEF DeployedInv, PointersGiven, PointerStep, PointerMoves, Identity
<1>3. ASSUME Live(cr') PROVE PointersAlone'
  <2>1. CASE PatientCreate
    BY <2>1 DEF PatientCreate, Owners, PointersAlone, clusterVars
  <2>2. CASE ~PatientCreate
    <3>1. Live(cr) /\ cr'.uid = cr.uid
      <4>1. CASE Records
        BY <1>1, <1>3, <4>1, SameFlowCollector DEF Created, Records
      <4>2. CASE ~Records
        BY <1>1, <1>3, <2>2, <4>2, PatientNext DEF PatientEdit
      <4> QED
        BY <4>1, <4>2
    <3>2. pc # "idle" => desired.uid = cr.uid
      BY <3>1 DEF DeployedInv, PermissionInv, LifeInv, Alone
    <3> QED
      BY <1>1, <3>1, <3>2 DEF DeployedInv, PointersAlone, PointerStep, PointerMoves
  <2> QED
    BY <2>1, <2>2
<1> QED
  BY <1>2, <1>3

LEMMA FinishedNext ==
  ASSUME DeployedInv, Calm, OvsReliable, [Next]_vars, Live(cr') PROVE Finished'
<1> SUFFICES ASSUME ~queued', crCache' = cr' PROVE Finished'
  BY DEF Finished
<1>1. /\ TypeOK /\ CopiesInv /\ Identity /\ Skeleton /\ PointersGiven /\ Identity'
  BY SkeletonNext, IdentityNext, TypeNext
  DEF DeployedInv, PermissionInv, PlacementInv, CopiesInv
<1>2. UNCHANGED cr
  <2>1. CASE cr.uid = 0
    <3>1. ~Records
      BY <1>1, <2>1 DEF Records, Identity
    <3>2. ~PatientCreate
      BY <1>1, CrFacts DEF PatientCreate, Settled, operatorVars
    <3> QED
      BY <1>1, <2>1, <3>1, <3>2, PatientNext DEF PatientEdit, Live
  <2>2. CASE cr.uid # 0
    <3>1. crCache' = crCache
      BY <1>1, <2>2, NothingWatchedChanges
    <3>2. crCache.version <= version /\ version \in Nat /\ crCache.version \in Nat
      BY <1>1 DEF Identity, Copies, TypeOK, FlowCollectors
    <3>3. ~Records
      <4>1. Records => cr'.version = version + 1
        BY <1>1 DEF Records, TypeOK, FlowCollectors
      <4> QED
        BY <3>1, <3>2, <4>1
    <3>4. ~PatientEdit /\ ~PatientCreate
      BY <2>2, <3>1, <3>2 DEF PatientEdit, PatientCreate
    <3> QED
      BY <3>3, <3>4, PatientNext, <1>1
  <2> QED
    BY <2>1, <2>2
<1>3. Live(cr) /\ cr.uid # 0 /\ LifeInv /\ Finished /\ PointersAlone
  BY <1>2 DEF DeployedInv, PermissionInv, Live
<1>4. WatchedStay /\ crCache = cr /\ console' = console
  BY <1>1, <1>2, <1>3, NothingWatchedChanges, ConsoleNext DEF DeployedInv, PermissionInv
<1>5. CASE StartReconcile
  <2>1. pc' = "namespace" /\ desired' = cr
    BY <1>3, <1>4, <1>5 DEF StartReconcile, Goto
  <2> QED
    BY <1>2, <2>1 DEF Finished
<1>6. CASE ~queued
  <2>1. /\ pc # "idle" => desired = cr
        /\ pc = "idle" => cr.status = Target(cr) /\ PluginThere
        /\ pc \in {"idle", "ovs", "plugin"} => GoflowThere
        /\ pc \in {"idle", "plugin"} => FlowsThere
    BY <1>3, <1>4, <1>6 DEF Finished
  <2>2. pc' # "idle" => desired' = cr
    BY <1>1, <1>2, <1>4, <2>1
    DEF Skeleton, Fetches, Proceeds, GivesUp, Records, Learns, UserWrites, Successor
  <2>3. /\ pc' = "ovs" => pc = "ovs" \/ ReconcileGoflow
        /\ pc' = "plugin" => pc = "plugin" \/ (ReconcileOvs /\ console)
        /\ pc' = "idle" => pc = "idle" \/ (ReconcileOvs /\ ~console) \/ ReconcilePlugin
    BY <1>1, <1>3, <1>6, WhoDeploys
  <2>4. pc \in {"goflow", "ovs", "plugin"} =>
          cr.status = Target(cr) /\ ControllerRef = cr.uid /\ desired = cr
    BY <1>1, <2>1 DEF CopiesInv, DeployAtHome, ControllerRef
  <2>5. cr.status = Target(cr) => cr.status \in Namespaces /\ cr.status # Unset
    BY <1>1, CrFacts, NamespaceAssumption
  <2>6. ASSUME NEW kinds \in SUBSET WorkKinds, NEW rewritten, Deploy(kinds, rewritten),
               desired = cr, cr.status = Target(cr)
        PROVE  \A k \in kinds : objs'[<<k, cr.status>>] = cr.uid
    <3> SUFFICES ASSUME NEW k \in kinds PROVE objs'[<<k, cr.status>>] = cr.uid
      OBVIOUS
    <3>1. <<k, cr.status>> \in WorkSlots /\ <<k, cr.status>> \in Slots
      BY <2>5, <2>6 DEF WorkSlots, Slots
    <3>2. objs[<<k, cr.status>>] \in {0, cr.uid}
      BY <1>3, <3>1 DEF LifeInv, Alone
    <3> QED
      BY <2>6, <3>1, <3>2 DEF Deploy, ControllerRef
  <2>7. ASSUME NEW kinds \in SUBSET WorkKinds, cr.status = Target(cr),
               \A k \in kinds : objs[<<k, cr.status>>] = cr.uid
        PROVE  \A k \in kinds : objs'[<<k, cr.status>>] = cr.uid
    BY <1>4, <2>5, <2>7 DEF WatchedStay, WorkSlots
  <2>8. ASSUME pc' \in {"idle", "ovs", "plugin"}
        PROVE  cr.status = Target(cr) /\ GoflowThere'
    <3>1. cr.status = Target(cr)
      BY <2>1, <2>3, <2>4, <2>8 DEF ReconcileGoflow, ReconcileOvs, ReconcilePlugin
    <3>2. CASE ReconcileGoflow
      <4>1. desired = cr /\ \E rewritten \in SUBSET Stale(GoflowKinds) : Deploy(GoflowKinds, rewritten)
        BY <2>4, <3>2 DEF ReconcileGoflow
      <4> QED
        BY <1>2, <2>6, <3>1, <4>1 DEF GoflowThere, WorkKinds
    <3>3. CASE ~ReconcileGoflow
      <4>1. GoflowThere
        BY <2>1, <2>3, <2>8, <3>3 DEF ReconcileOvs, ReconcilePlugin
      <4> QED
        BY <1>2, <2>7, <3>1, <4>1 DEF GoflowThere, WorkKinds
    <3> QED
      BY <3>1, <3>2, <3>3
  <2>9. ASSUME pc' \in {"idle", "plugin"} PROVE FlowsThere'
    <3>1. CASE ReconcileOvs
      <4>1. /\ flowsConfig' = flowsConfig /\ desired = cr /\ ControllerRef = cr.uid
            /\ flowsConfig' = IF flowsConfig.namespace = Target(cr) THEN flowsConfig
                              ELSE [owner |-> cr.uid, namespace |-> Target(cr)]
        BY <1>4, <2>4, <3>1 DEF ReconcileOvs, WatchedStay
      <4>2. flowsConfig.namespace = cr.status
        BY <2>4, <2>8, <2>9, <4>1
      <4>3. flowsConfig.owner = cr.uid
        BY <1>1, <1>3, <2>5, <2>8, <2>9, <4>2 DEF PointersGiven, PointersAlone, NoObject
      <4> QED
        BY <1>1, <1>2, <4>1, <4>2, <4>3 DEF FlowsThere, TypeOK, Pointers
    <3>2. CASE ~ReconcileOvs
      BY <1>2, <1>4, <2>1, <2>3, <2>9, <3>2 DEF FlowsThere, WatchedStay, ReconcilePlugin
    <3> QED
      BY <3>1, <3>2
  <2>10. ASSUME pc' = "idle" PROVE PluginThere'
    <3> SUFFICES ASSUME console
                 PROVE  /\ plugin' = [owner |-> cr.uid, namespace |-> cr.status]
                        /\ \A k \in PluginKinds : objs'[<<k, cr.status>>] = cr.uid
      BY <1>2, <1>4 DEF PluginThere
    <3>1. plugin' = plugin
      BY <1>4 DEF WatchedStay
    <3>2. CASE ReconcilePlugin
      <4>1. /\ desired = cr /\ ControllerRef = cr.uid
            /\ plugin' = IF plugin.namespace = Target(cr) THEN plugin
                         ELSE [owner |-> cr.uid, namespace |-> Target(cr)]
            /\ \E rewritten \in SUBSET Stale(PluginKinds) : Deploy(PluginKinds, rewritten)
        BY <2>4, <3>2 DEF ReconcilePlugin, WritePlugin
      <4>2. plugin.namespace = cr.status
        BY <2>8, <2>10, <3>1, <4>1
      <4>3. plugin.owner = cr.uid
        BY <1>1, <1>3, <2>5, <2>8, <2>10, <4>2 DEF PointersGiven, PointersAlone, NoObject
      <4>4. \A k \in PluginKinds : objs'[<<k, cr.status>>] = cr.uid
        BY <2>6, <2>8, <2>10, <4>1 DEF WorkKinds
      <4> QED
        BY <1>1, <3>1, <4>2, <4>3, <4>4 DEF TypeOK, Pointers
    <3>3. CASE ~ReconcilePlugin
      <4>1. PluginThere
        BY <2>1, <2>3, <2>10, <3>3
      <4> QED
        BY <2>7, <2>8, <2>10, <3>1, <4>1 DEF PluginThere, WorkKinds
    <3> QED
      BY <3>2, <3>3
  <2> QED
    BY <1>2, <2>2, <2>8, <2>9, <2>10 DEF Finished, Target
<1> QED
  BY <1>1, <1>3, <1>5, <1>6, RequestTaken

LEMMA DeployedInit == Init => DeployedInv
<1> SUFFICES ASSUME Init PROVE DeployedInv
  OBVIOUS
<1>1. PermissionInv
  BY PermissionInit
<1> QED
  BY <1>1 DEF Init, DeployedInv, PointersGiven, Live, Absent, NoObject

\* At rest, what is there is all there is.
LEMMA RestIsDeployed == DeployedInv => SettledDeployed
<1> SUFFICES ASSUME DeployedInv, Settled, Live(cr) PROVE Deployed
  BY DEF SettledDeployed
<1>1. /\ TypeOK /\ LifeInv /\ WorkOnlyInRecordedNamespace /\ NoPluginWithoutConsole
      /\ NoPluginAccount /\ cr.uid # 0
  BY DEF DeployedInv, PermissionInv, PlacementInv, Live
<1>2. ~MayHaveBegun /\ cr.status = Target(cr) /\ GoflowThere /\ FlowsThere /\ PluginThere
  BY DEF DeployedInv, Finished, Settled, MayHaveBegun
<1>3. cr.status \in Namespaces /\ cr.status # Unset
  BY <1>1, <1>2, CrFacts, NamespaceAssumption
<1>4. GoflowPermitted(cr.status) /\ PluginPermitted(cr.status)
  BY <1>1, <1>2, <1>3 DEF LifeInv, Ready
<1>5. ASSUME NEW s \in Slots
      PROVE  objs[s] = IF s[1] \in WantedKinds /\ s[2] = Target(cr) THEN cr.uid ELSE 0
  <2>1. objs[s] \in {0, cr.uid} /\ s = <<s[1], s[2]>> /\ s[1] \in AccountKinds \union WorkKinds
    BY <1>1 DEF LifeInv, Alone, Slots
  <2>2. CASE s \in AccountSlots
    <3>1. s[2] # cr.status => objs[s] = 0
      BY <1>1, <1>2, <2>2 DEF LifeInv, AccountsAtHome
    <3>2. s[1] \in WantedKinds <=> s[1] = GoflowAccount \/ console
      BY <2>2, AccountFacts, KindAssumption
      DEF WantedKinds, GoflowManaged, PluginManaged, WorkKinds
    <3>3. s[1] = PluginAccount /\ ~console => objs[s] = 0
      BY <1>1, <2>1, <2>2, AccountFacts DEF NoPluginAccount
    <3> QED
      BY <1>2, <1>4, <2>1, <2>2, <3>1, <3>2, <3>3, AccountFacts
      DEF GoflowPermitted, PluginPermitted
  <2>3. CASE s \notin AccountSlots
    <3>1. s \in WorkSlots /\ s[1] \in WorkKinds /\ s[1] \notin AccountKinds
      BY <2>1, <2>3 DEF AccountSlots, WorkSlots, Slots
    <3>2. s[2] # cr.status => objs[s] = 0
      BY <1>1, <2>1, <3>1 DEF WorkOnlyInRecordedNamespace
    <3>3. s[1] \in WantedKinds <=> s[1] \in GoflowKinds \/ console
      BY <3>1 DEF WantedKinds, GoflowManaged, PluginManaged, WorkKinds, AccountKinds
    <3>4. s[1] \notin GoflowKinds => s \in PluginSlots /\ s[1] \in PluginKinds
      BY <3>1, SlotFacts DEF WorkKinds
    <3> QED
      BY <1>1, <1>2, <2>1, <3>2, <3>3, <3>4
      DEF GoflowThere, PluginThere, NoPluginWithoutConsole
  <2> QED
    BY <2>2, <2>3
<1> QED
  BY <1>2, <1>4, <1>5 DEF Deployed, AtHome, GoflowPermitted, PluginThere, FlowsThere

\* The operator rests only when the cluster is what the FlowCollector asks for: nothing
\* is left to an event that will not come.
THEOREM DeployedCorrect ==
  ASSUME Calm, OvsReliable PROVE Spec => []SettledDeployed
<1>1. DeployedInv /\ [Next]_vars => DeployedInv'
  BY PermissionNext, PointersNext, FinishedNext DEF DeployedInv
<1> QED
  BY <1>1, DeployedInit, RestIsDeployed, PTL DEF Spec
=============================================================================
