-------------------- MODULE FlowCollectorPermissionsProofs --------------------
(***************************************************************************)
(* That no workload is asked for without its permissions, for every set of *)
(* namespaces and kinds and every bound, where the code keeps that: users   *)
(* who wait for a migration to end before they ask for another, and a       *)
(* console API that is there from the start or never.  Calls may fail and   *)
(* the process may die anywhere, between two calls of                       *)
(* handleNamespaceChanged too.                                             *)
(***************************************************************************)
EXTENDS FlowCollectorControllerProofs

-----------------------------------------------------------------------------
(* The inductive invariant.                                                *)

\* The migration under way works on the stored FlowCollector.
OurMigration == pc \in Migrating /\ desired = cr

\* It has begun, in this pass or in one that failed or died, or may begin at any moment:
\* the operator knows that the FlowCollector is to move, and the status is not written.
MayHaveBegun ==
  crCache = cr /\ Target(cr) # cr.status /\ (pc = "idle" \/ desired = cr)

GoflowPermitted(n) ==
  /\ objs[<<GoflowAccount, n>>] = cr.uid
  /\ clusterRole = cr.uid
  /\ binding = [owner |-> cr.uid, namespace |-> n]

PluginPermitted(n) == console => objs[<<PluginAccount, n>>] = cr.uid

BeforeBinding == {"goflowRole", "goflowCleanup", "goflowAccount", "goflowBinding"}
AfterAccount  == {"goflowBinding", "pluginCleanup", "pluginAccount", "status"}

AccountSlots == AccountKinds \X Namespaces

\* The operator sees one FlowCollector, and so does what it made.
Alone ==
  /\ \A s \in Slots : objs[s] \in {0, cr.uid}
  /\ clusterRole \in {0, cr.uid} /\ binding.owner \in {0, cr.uid}
  /\ crCache.uid \in {0, cr.uid}
  /\ pc # "idle" => desired.uid = cr.uid

\* An outdated copy asks for a migration only to the namespace recorded since.
OldMigrations ==
  \A c \in {crCache, desired} :
    c.uid = cr.uid /\ Target(c) # c.status =>
      c = cr \/ (c.status # cr.status /\ Target(c) = cr.status)

\* Such a migration ends at the service account, which exists.
MigratesCurrent == pc \in AfterAccount => desired = cr

\* Between two migrations the recorded namespace has all permissions.
Ready ==
  cr.status # Unset /\ ~MayHaveBegun =>
    GoflowPermitted(cr.status) /\ PluginPermitted(cr.status)

\* During one, the accounts come and the binding turns: what a pass has behind it.
Progress ==
  OurMigration =>
    /\ pc \in AfterAccount => objs[<<GoflowAccount, Target(cr)>>] = cr.uid
    /\ pc \notin BeforeBinding => binding = [owner |-> cr.uid, namespace |-> Target(cr)]
    /\ pc = "status" /\ console => objs[<<PluginAccount, Target(cr)>>] = cr.uid

\* An interrupted migration leaves an account nowhere but where it was going.
AccountsAtHome ==
  \A s \in AccountSlots :
    objs[s] # 0 => s[2] = cr.status \/ (MayHaveBegun /\ s[2] = Target(cr))

AccountsCleaned ==
  OurMigration /\ cr.status # Unset =>
    /\ pc \in AfterAccount \union {"goflowAccount"} => objs[<<GoflowAccount, cr.status>>] = 0
    /\ pc \in {"pluginAccount", "status"} => objs[<<PluginAccount, cr.status>>] = 0

LifeInv ==
  /\ Alone /\ OldMigrations /\ MigratesCurrent /\ Ready /\ Progress
  /\ AccountsAtHome /\ AccountsCleaned

BindingGiven == binding.owner = 0 => binding = NoObject

NamespaceThere == pc \notin {"idle", "namespace"} => Target(desired) \in existing

NoPluginAccount == ~console => \A n \in Namespaces : objs[<<PluginAccount, n>>] = 0

PermissionInv ==
  /\ PlacementInv /\ RolesInv
  /\ BindingGiven /\ NamespaceThere /\ NoPluginAccount /\ console \in ConsoleModes
  /\ Live(cr) => LifeInv
  /\ WorkIsPermitted

\* What users and the cluster are asked for.
Calm ==
  /\ ~DeletesMayFail /\ ~HastyUsers /\ ~NamespaceDeletions
  /\ \A m, n \in ConsoleModes : m = n

-----------------------------------------------------------------------------
(* What a step does.                                                       *)

LEMMA AccountFacts ==
  /\ GoflowAccount # PluginAccount
  /\ \A s \in AccountSlots : s \in Slots /\ s[2] \in Namespaces /\ s[2] # Unset
                             /\ s[1] \in {GoflowAccount, PluginAccount} /\ s = <<s[1], s[2]>>
  /\ \A n \in Namespaces : <<GoflowAccount, n>> \in AccountSlots
                           /\ <<PluginAccount, n>> \in AccountSlots
  /\ GoflowAccount \notin WorkKinds /\ PluginAccount \notin WorkKinds
<1>1. GoflowAccount # PluginAccount
  BY DEF GoflowAccount, PluginAccount
<1>2. \A s \in AccountSlots : s \in Slots /\ s[2] \in Namespaces /\ s[2] # Unset
                               /\ s[1] \in {GoflowAccount, PluginAccount} /\ s = <<s[1], s[2]>>
  BY NamespaceAssumption DEF AccountSlots, Slots, AccountKinds
<1>3. \A n \in Namespaces : <<GoflowAccount, n>> \in AccountSlots
                             /\ <<PluginAccount, n>> \in AccountSlots
  BY DEF AccountSlots, AccountKinds
<1>4. GoflowAccount \notin WorkKinds /\ PluginAccount \notin WorkKinds
  BY KindAssumption DEF WorkKinds
<1> QED
  BY <1>1, <1>2, <1>3, <1>4

\* A patient user writes only what the operator has nothing left to do for.
PatientCreate ==
  /\ cr.uid = 0 /\ Settled /\ Owners = {0}
  /\ cr'.uid = lastUid + 1 /\ cr'.status = Unset
  /\ UNCHANGED <<operatorVars, rbacVars, clusterVars>>

PatientEdit ==
  /\ Live(cr) /\ cr.status = Target(cr)
  /\ cr'.uid = cr.uid /\ cr'.status = cr.status /\ cr'.version = version + 1
  /\ UNCHANGED <<operatorVars, rbacVars, clusterVars>>

LEMMA PatientNext ==
  ASSUME TypeOK, Calm, [Next]_vars
  PROVE  UNCHANGED cr \/ Records \/ PatientCreate \/ PatientEdit \/ ~Live(cr')
<1> USE DEF resourceVars
<1>1. CASE CreateFlowCollector
  BY <1>1 DEF CreateFlowCollector, Store, PatientCreate, Calm
<1>2. CASE EditFlowCollector
  <2>1. PICK n \in AskedNamespaces :
          Store([cr EXCEPT !.namespace = n, !.version = version + 1])
    BY <1>2 DEF EditFlowCollector
  <2>2. cr'.uid = cr.uid /\ cr'.status = cr.status /\ cr'.version = version + 1
    BY <2>1 DEF Store, TypeOK, FlowCollectors
  <2>3. Live(cr) /\ cr.status = Target(cr)
    BY <1>2 DEF EditFlowCollector, Calm
  <2> QED
    BY <2>1, <2>2, <2>3 DEF Store, PatientEdit
<1>3. CASE DeleteFlowCollector \/ FinishDeletion
  <2> DEFINE going == [cr EXCEPT !.deleting = TRUE, !.version = version + 1]
  <2>1. cr' = Absent \/ cr' = going
    BY <1>3 DEF DeleteFlowCollector, FinishDeletion, Store
  <2>2. going.deleting = TRUE /\ Absent.uid = 0
    BY DEF Absent, TypeOK, FlowCollectors
  <2> QED
    BY <2>1, <2>2 DEF Live
<1>4. CASE UpdateStatus
  BY <1>4 DEF UpdateStatus, Requeue, Records, Goto
<1> QED
  BY <1>1, <1>2, <1>3, <1>4
  DEF Next, Reconcile, Failures, Users, StartReconcile, EnsureNamespace, CreateClusterRole,
      WriteBinding, ReconcileOvs, CallFails, OvsFails, Restart, Requeue, Inform, vars,
      CleanupGoflow, CleanupPlugin, Cleanup, CreateGoflowAccount, CreatePluginAccount,
      CreateAccount, ReconcileGoflow, ReconcilePlugin, DeployNowhere, DeployFails, StopHalfWay,
      DeleteOwnedObject, DeleteNamespace, CollectGarbage

\* An account is collected, cleaned once nothing runs under it, or created.
Cleaned(s, label, account, kinds) ==
  /\ pc = label /\ pc' = pc /\ s = <<account, desired.status>> /\ objs'[s] = 0
  /\ \A k \in kinds : objs[<<k, desired.status>>] = 0
  /\ UNCHANGED <<cr, desired>>

Granted(s, label, account, next) ==
  /\ pc = label /\ pc' = next /\ s = <<account, Target(desired)>>
  /\ objs[s] = 0 /\ objs'[s] = desired.uid
  /\ UNCHANGED <<cr, desired, console>>

AccountChange(s) ==
  \/ objs'[s] = objs[s]
  \/ Garbage(objs[s]) /\ objs'[s] = 0
  \/ Cleaned(s, "goflowCleanup", GoflowAccount, GoflowKinds)
  \/ Cleaned(s, "pluginCleanup", PluginAccount, PluginKinds)
  \/ Granted(s, "goflowAccount", GoflowAccount, "goflowBinding")
  \/ Granted(s, "pluginAccount", PluginAccount, "status")

LEMMA CleanupAccount ==
  ASSUME TypeOK, Calm, NEW kinds, NEW account, NEW next,
         Cleanup(kinds \union {account}, next),
         kinds \intersect AccountKinds = {}, kinds \subseteq WorkKinds,
         account \in AccountKinds, NEW s \in AccountSlots, objs'[s] # objs[s]
  PROVE  /\ s = <<account, desired.status>> /\ objs'[s] = 0 /\ pc' = pc
         /\ \A k \in kinds : objs[<<k, desired.status>>] = 0
         /\ UNCHANGED <<cr, desired>>
<1> DEFINE all == kinds \union {account}
<1>1. PICK t \in Previous(all) :
        /\ t[1] \in AccountKinds => Previous(all \ AccountKinds) = {}
        /\ objs' = Without({t})
  BY DEF Cleanup, Calm
<1>2. pc' = pc /\ UNCHANGED <<cr, desired>>
  BY DEF Cleanup, Calm, resourceVars
<1>3. s \in Slots /\ s = <<s[1], s[2]>> /\ s[1] \in AccountKinds
  BY AccountFacts DEF AccountSlots
<1>4. s = t /\ objs'[s] = 0
  BY <1>1, <1>3 DEF Without, TypeOK
<1>5. s[1] = account /\ s[2] = desired.status
  BY <1>1, <1>3, <1>4 DEF Previous
<1>6. ASSUME NEW k \in kinds PROVE objs[<<k, desired.status>>] = 0
  <2>1. <<k, desired.status>> \notin Previous(all \ AccountKinds)
    BY <1>1, <1>3, <1>4
  <2> QED
    BY <2>1 DEF Previous
<1> QED
  BY <1>2, <1>3, <1>4, <1>5, <1>6

LEMMA AccountNext ==
  ASSUME TypeOK, Calm, [Next]_vars, NEW s \in AccountSlots PROVE AccountChange(s)
<1>s. objs \in [Slots -> Nat] /\ s \in Slots
  BY AccountFacts DEF TypeOK
<1>n. s \notin WorkSlots /\ s[1] \notin WorkKinds
  BY AccountFacts DEF WorkSlots
<1> USE DEF AccountChange
<1>1. CASE UNCHANGED objs
  BY <1>1
<1>2. CASE CleanupGoflow
  <2> SUFFICES ASSUME objs'[s] # objs[s]
               PROVE  Cleaned(s, "goflowCleanup", GoflowAccount, GoflowKinds)
    OBVIOUS
  <2>1. /\ pc = "goflowCleanup" /\ Cleanup(GoflowKinds \union {GoflowAccount}, "goflowAccount")
        /\ GoflowKinds \intersect AccountKinds = {} /\ GoflowKinds \subseteq WorkKinds
        /\ GoflowAccount \in AccountKinds
    BY <1>2, KindAssumption DEF CleanupGoflow, GoflowManaged, AccountKinds, WorkKinds
  <2> QED
    BY <2>1, CleanupAccount DEF Cleaned
<1>3. CASE CleanupPlugin
  <2> SUFFICES ASSUME objs'[s] # objs[s]
               PROVE  Cleaned(s, "pluginCleanup", PluginAccount, PluginKinds)
    OBVIOUS
  <2>1. /\ pc = "pluginCleanup" /\ Cleanup(PluginKinds \union {PluginAccount}, "pluginAccount")
        /\ PluginKinds \intersect AccountKinds = {} /\ PluginKinds \subseteq WorkKinds
        /\ PluginAccount \in AccountKinds
    BY <1>3, KindAssumption DEF CleanupPlugin, PluginManaged, AccountKinds, WorkKinds
  <2> QED
    BY <2>1, CleanupAccount DEF Cleaned
<1>4. CASE CreateGoflowAccount
  BY <1>4, <1>s
  DEF CreateGoflowAccount, CreateAccount, Requeue, Goto, ControllerRef, Granted, resourceVars,
      clusterVars
<1>5. CASE CreatePluginAccount
  BY <1>5, <1>s
  DEF CreatePluginAccount, CreateAccount, Requeue, Goto, ControllerRef, Granted, resourceVars,
      clusterVars
<1>w. ASSUME NEW kinds \in SUBSET WorkKinds, NEW rewritten, Deploy(kinds, rewritten)
      PROVE  objs'[s] = objs[s]
  BY <1>w, <1>s, <1>n, DeployStep
<1>6. CASE ReconcileGoflow \/ ReconcilePlugin
  BY <1>6, <1>w DEF ReconcileGoflow, ReconcilePlugin, WorkKinds
<1>7. CASE DeployNowhere \/ DeployFails
  BY <1>7, <1>w DEF DeployNowhere, DeployFails, StopHalfWay, WorkKinds
<1>8. CASE DeleteOwnedObject
  BY <1>8, <1>s, <1>n DEF DeleteOwnedObject
<1>9. CASE CollectGarbage
  BY <1>9, <1>s
  DEF CollectGarbage, CollectObject, CollectRbac, CollectClusterScoped, clusterVars
<1> QED
  BY <1>1, <1>2, <1>3, <1>4, <1>5, <1>6, <1>7, <1>8, <1>9
  DEF Next, Reconcile, Failures, Users, StartReconcile, EnsureNamespace, CreateClusterRole,
      WriteBinding, UpdateStatus, ReconcileOvs, CallFails, OvsFails, Restart, Requeue,
      CreateFlowCollector, EditFlowCollector, DeleteFlowCollector, FinishDeletion, Inform,
      Store, vars, clusterVars, DeleteNamespace, Calm

\* What leads past a call.
LEMMA WhyPassed ==
  ASSUME TypeOK, Calm, [Next]_vars, pc' \notin {pc, "idle"}
  PROVE  /\ pc = "goflowRole" => clusterRole = 0
         /\ pc = "goflowAccount" =>
              /\ objs[<<GoflowAccount, Target(desired)>>] = 0
              /\ objs'[<<GoflowAccount, Target(desired)>>] = desired.uid
         /\ pc = "goflowBinding" =>
              binding' = [owner |-> desired.uid, namespace |-> Target(desired)]
         /\ pc = "pluginAccount" => objs'[<<PluginAccount, Target(desired)>>] = desired.uid
         /\ pc = "goflowCleanup" => objs[<<GoflowAccount, desired.status>>] = 0 /\ UNCHANGED objs
         /\ pc = "pluginCleanup" => objs[<<PluginAccount, desired.status>>] = 0 /\ UNCHANGED objs
<1>1. \/ pc = "goflowRole" /\ CreateClusterRole
      \/ pc = "goflowAccount" /\ CreateGoflowAccount
      \/ pc = "goflowBinding" /\ WriteBinding
      \/ pc = "pluginAccount" /\ CreatePluginAccount
      \/ pc = "goflowCleanup" /\ CleanupGoflow
      \/ pc = "pluginCleanup" /\ CleanupPlugin
      \/ pc \notin {"goflowRole", "goflowAccount", "goflowBinding", "pluginAccount",
                    "goflowCleanup", "pluginCleanup"}
  BY DEF Next, Reconcile, Failures, Users, StartReconcile, EnsureNamespace, CreateClusterRole,
         WriteBinding, UpdateStatus, ReconcileOvs, CallFails, OvsFails, Restart, Requeue,
         CreateFlowCollector, EditFlowCollector, DeleteFlowCollector, FinishDeletion, Inform,
         Store, vars, operatorVars, CreateGoflowAccount, CreatePluginAccount, ReconcileGoflow,
         ReconcilePlugin, DeployNowhere, DeployFails, DeleteOwnedObject, DeleteNamespace,
         CollectGarbage, CleanupGoflow, CleanupPlugin, Return, Goto, StopHalfWay
<1>t. objs \in [Slots -> Nat] /\ Target(desired) \in Namespaces
  BY TargetType DEF TypeOK
<1>2. CASE CreateClusterRole \/ WriteBinding
  BY <1>2 DEF CreateClusterRole, WriteBinding, Requeue, Return, Goto, ControllerRef
<1>3. CASE CreateGoflowAccount \/ CreatePluginAccount
  BY <1>3, <1>t, AccountFacts
  DEF CreateGoflowAccount, CreatePluginAccount, CreateAccount, Requeue, Return, Goto,
      ControllerRef
<1>4. CASE CleanupGoflow \/ CleanupPlugin
  BY <1>4
  DEF CleanupGoflow, CleanupPlugin, Cleanup, Calm, Goto, Previous, GoflowManaged, PluginManaged
<1> QED
  BY <1>1, <1>2, <1>3, <1>4

-----------------------------------------------------------------------------
(* The life of one FlowCollector.                                          *)

LEMMA CrFacts ==
  ASSUME TypeOK
  PROVE  /\ cr.uid \in Nat /\ cr.status \in NamespaceNames /\ Target(cr) \in Namespaces
         /\ Target(desired) \in Namespaces /\ version \in Nat /\ lastUid \in Nat
         /\ cr.status # Unset => cr.status \in Namespaces
BY TargetType DEF TypeOK, FlowCollectors, NamespaceNames

\* The answer about the console stays the same.
LEMMA ConsoleNext ==
  ASSUME TypeOK, Calm, [Next]_vars, console \in ConsoleModes
  PROVE  console' = console /\ console' \in ConsoleModes
<1>1. CASE Restart
  BY <1>1 DEF Restart, Calm
<1>2. CASE UNCHANGED console
  BY <1>2
<1> QED
  BY <1>1, <1>2
  DEF Next, Reconcile, Failures, Users, StartReconcile, EnsureNamespace, CreateClusterRole,
      WriteBinding, UpdateStatus, ReconcileOvs, CallFails, OvsFails, Requeue,
      CreateFlowCollector, EditFlowCollector, DeleteFlowCollector, FinishDeletion, Inform, Store,
      vars, operatorVars, CreateGoflowAccount, CreatePluginAccount, CreateAccount,
      CleanupGoflow, CleanupPlugin, Cleanup, ReconcileGoflow, ReconcilePlugin, DeployNowhere,
      DeployFails, StopHalfWay, DeleteOwnedObject, DeleteNamespace, CollectGarbage

\* A pass that migrates the stored FlowCollector got it from the cache.
LEMMA MigrationBegun ==
  ASSUME TypeOK, CopiesInv, Live(cr), OurMigration PROVE MayHaveBegun
<1>1. desired = cr /\ cr.uid # 0 /\ pc # "idle" /\ Target(cr) # cr.status
  BY DEF CopiesInv, MigrationNeeded, OurMigration, Migrating, Live
<1>2. crCache.uid = cr.uid
  BY <1>1 DEF CopiesInv, Identity
<1>3. cr.version <= crCache.version /\ crCache.version <= cr.version
  BY <1>1, <1>2 DEF CopiesInv, Ordered, OurMigration
<1>4. crCache.version = cr.version
  BY <1>3 DEF TypeOK, FlowCollectors
<1> QED
  BY <1>1, <1>2, <1>4 DEF CopiesInv, Identity, Copies, MayHaveBegun

\* Once begun it is taken up again until the status is written: every pass works on the
\* same FlowCollector.
LEMMA BegunStays ==
  ASSUME TypeOK, Skeleton, MayHaveBegun, UNCHANGED cr, ~Records PROVE MayHaveBegun'
<1>1. crCache' = cr
  BY DEF Skeleton, Fetches, Proceeds, GivesUp, Learns, UserWrites, MayHaveBegun
<1>2. pc' = "idle" \/ desired' = cr
  BY DEF Skeleton, Fetches, Proceeds, GivesUp, Learns, UserWrites, MayHaveBegun, Successor
<1> QED
  BY <1>1, <1>2 DEF MayHaveBegun, Target

\* Outside of it, the permissions of a FlowCollector that lives stay as they are.
LEMMA OthersStop ==
  ASSUME PermissionInv, Live(cr), pc \in Migrating, ~OurMigration
  PROVE  /\ desired.status # cr.status /\ Target(desired) = cr.status /\ cr.status # Unset
         /\ GoflowPermitted(cr.status) /\ pc \notin AfterAccount
<1>1. TypeOK /\ LifeInv /\ MigrationNeeded /\ desired # cr /\ pc # "idle"
  BY DEF PermissionInv, PlacementInv, CopiesInv, OurMigration, Migrating
<1>2. Target(desired) # desired.status /\ desired.uid = cr.uid
  BY <1>1 DEF MigrationNeeded, LifeInv, Alone
<1>3. desired.status # cr.status /\ Target(desired) = cr.status
  BY <1>1, <1>2 DEF LifeInv, OldMigrations
<1>4. cr.status # Unset
  BY <1>1, <1>3, CrFacts, NamespaceAssumption
<1>5. ~MayHaveBegun
  BY <1>1 DEF MayHaveBegun
<1> QED
  BY <1>1, <1>3, <1>4, <1>5 DEF LifeInv, Ready, MigratesCurrent

LEMMA PermissionsStay ==
  ASSUME PermissionInv, Calm, [Next]_vars, Live(cr), ~OurMigration
  PROVE  UNCHANGED <<clusterRole, binding>> /\ \A s \in AccountSlots : objs'[s] = objs[s]
<1>1. TypeOK /\ LifeInv /\ RoleStep /\ BindingStep /\ cr.uid # 0
  BY RbacNext DEF PermissionInv, PlacementInv, Live
<1>2. clusterRole' = clusterRole
  <2>1. ~Garbage(clusterRole)
    BY <1>1 DEF Garbage, Live, LifeInv, Alone
  <2>2. pc = "goflowRole" => clusterRole # 0
    BY <1>1, OthersStop DEF GoflowPermitted, Migrating
  <2> QED
    BY <1>1, <2>1, <2>2 DEF RoleStep
<1>3. binding' = binding
  <2>1. ~Garbage(binding.owner)
    BY <1>1 DEF Garbage, Live, LifeInv, Alone
  <2>2. pc # "goflowBinding"
    BY OthersStop DEF Migrating, AfterAccount
  <2> QED
    BY <1>1, <2>1, <2>2 DEF BindingStep
<1>4. ASSUME NEW s \in AccountSlots PROVE objs'[s] = objs[s]
  <2>1. s \in Slots /\ AccountChange(s)
    BY <1>1, AccountNext, AccountFacts
  <2>2. ~Garbage(objs[s])
    BY <1>1, <2>1 DEF Garbage, Live, LifeInv, Alone
  <2>3. pc \notin {"pluginCleanup", "pluginAccount"}
    BY OthersStop DEF Migrating, AfterAccount
  <2>4. CASE Cleaned(s, "goflowCleanup", GoflowAccount, GoflowKinds)
    <3>1. pc \in Migrating /\ desired # cr
      BY <2>4 DEF Cleaned, Migrating, OurMigration
    <3>2. ~MayHaveBegun /\ desired.status # cr.status
      BY <3>1, OthersStop DEF MayHaveBegun, Migrating
    <3> QED
      BY <1>1, <2>4, <3>2 DEF Cleaned, LifeInv, AccountsAtHome
  <2>5. CASE Granted(s, "goflowAccount", GoflowAccount, "goflowBinding")
    BY <1>1, <2>5, OthersStop DEF Granted, Migrating, GoflowPermitted
  <2> QED
    BY <2>1, <2>2, <2>3, <2>4, <2>5 DEF AccountChange, Cleaned, Granted
<1> QED
  BY <1>2, <1>3, <1>4

LEMMA AloneNext ==
  ASSUME PermissionInv, Calm, [Next]_vars, Live(cr), cr'.uid = cr.uid PROVE Alone'
<1>1. /\ TypeOK /\ Identity /\ LifeInv /\ Skeleton /\ RoleStep /\ BindingStep /\ ObjectStep
      /\ cr.uid # 0
  BY RbacNext, SkeletonNext, ObjectNext DEF PermissionInv, PlacementInv, CopiesInv, Live
<1>2. desired'.uid = cr.uid \/ pc' = "idle"
  BY <1>1
  DEF Skeleton, Fetches, Proceeds, GivesUp, Records, Learns, UserWrites, LifeInv, Alone,
      Successor, Live
<1>3. crCache'.uid \in {0, cr.uid}
  BY <1>1
  DEF Skeleton, Fetches, Proceeds, GivesUp, Records, Learns, UserWrites, LifeInv, Alone
<1>4. clusterRole' \in {0, cr.uid} /\ binding'.owner \in {0, cr.uid}
  BY <1>1 DEF RoleStep, BindingStep, LifeInv, Alone, NoObject
<1>5. \A s \in Slots : objs'[s] \in {0, cr.uid}
  BY <1>1 DEF ObjectStep, Appears, LifeInv, Alone
<1> QED
  BY <1>2, <1>3, <1>4, <1>5 DEF Alone

\* A user's change of mind begins nothing before Reconcile has seen it.
LEMMA LifeEdited ==
  ASSUME PermissionInv, Calm, [Next]_vars, PatientEdit PROVE LifeInv'
<1>1. TypeOK /\ LifeInv /\ MigrationNeeded /\ Identity /\ Live(cr)
  BY DEF PermissionInv, PlacementInv, CopiesInv, PatientEdit
<1>2. /\ cr'.uid = cr.uid /\ cr'.status = cr.status /\ Target(cr) = cr.status
      /\ UNCHANGED <<crCache, pc, desired, console, objs, clusterRole, binding>>
  BY DEF PatientEdit, operatorVars, rbacVars, clusterVars
<1>3. cr'.version = version + 1 /\ desired.version <= version /\ desired.version \in Nat
  BY <1>1 DEF PatientEdit, Identity, Copies, TypeOK, FlowCollectors
<1>4. ~OurMigration /\ ~OurMigration' /\ ~MayHaveBegun /\ ~MayHaveBegun'
  <2>1. crCache.version <= version /\ crCache.version \in Nat
    BY <1>1 DEF Identity, Copies, TypeOK, FlowCollectors
  <2> QED
    BY <1>1, <1>2, <1>3, <2>1, CrFacts DEF OurMigration, MigrationNeeded, MayHaveBegun
<1>5. pc \notin AfterAccount
  BY <1>1, <1>2, <1>4 DEF LifeInv, MigratesCurrent, OurMigration, AfterAccount, Migrating
<1>6. Alone'
  BY <1>1, <1>2, AloneNext
<1>7. OldMigrations'
  BY <1>1, <1>2 DEF LifeInv, OldMigrations, Target
<1>8. MigratesCurrent' /\ Progress' /\ AccountsCleaned'
  BY <1>2, <1>4, <1>5 DEF MigratesCurrent, Progress, AccountsCleaned, AfterAccount
<1>9. Ready' /\ AccountsAtHome'
  BY <1>1, <1>2, <1>4
  DEF LifeInv, Ready, AccountsAtHome, GoflowPermitted, PluginPermitted
<1> QED
  BY <1>6, <1>7, <1>8, <1>9 DEF LifeInv

\* The status is written once everything it promises is there.
LEMMA LifeRecorded ==
  ASSUME PermissionInv, PermissionInv' \/ RolesInv', Calm, [Next]_vars, Live(cr), Live(cr'),
         Records
  PROVE  LifeInv'
<1>1. /\ TypeOK /\ LifeInv /\ MigrationNeeded /\ Identity /\ Ordered /\ cr.uid # 0
      /\ RoleStep /\ BindingStep /\ NoPluginAccount
  BY RbacNext DEF PermissionInv, PlacementInv, CopiesInv, Live
<1>2. /\ cr = desired /\ OurMigration /\ pc = "status" /\ pc' = "goflow"
      /\ desired' = cr' /\ UNCHANGED <<crCache, console>>
  BY <1>1 DEF Records, Identity, Copies, OurMigration, Migrating
<1>3. /\ cr'.uid = cr.uid /\ cr'.status = Target(cr) /\ Target(cr') = Target(cr)
      /\ cr'.version = version + 1
  BY <1>2 DEF Records, Target, TypeOK, FlowCollectors, PermissionInv, PlacementInv
<1>4. Target(cr) # cr.status /\ Target(cr) \in Namespaces /\ Target(cr) # Unset
  BY <1>1, <1>2, CrFacts, NamespaceAssumption DEF MigrationNeeded, Migrating
<1>5. ~OurMigration' /\ ~MayHaveBegun'
  BY <1>2, <1>3 DEF OurMigration, Migrating, MayHaveBegun
<1>6. binding' = binding /\ clusterRole' = clusterRole
  BY <1>1, <1>2 DEF RoleStep, BindingStep
<1>7. \A s \in AccountSlots : objs'[s] = objs[s]
  <2> SUFFICES ASSUME NEW s \in AccountSlots PROVE objs'[s] = objs[s]
    OBVIOUS
  <2>1. ~Garbage(objs[s])
    BY <1>1, AccountFacts DEF Garbage, Live, LifeInv, Alone
  <2> QED
    BY <1>1, <1>2, <2>1, AccountNext DEF AccountChange, Cleaned, Granted
<1>8. crCache.uid = cr.uid => crCache = cr
  BY <1>1, <1>2, CrFacts DEF Ordered, Identity, Copies, Migrating, TypeOK, FlowCollectors
<1>9. Alone'
  BY <1>3, AloneNext
<1>10. OldMigrations'
  BY <1>2, <1>3, <1>4, <1>8 DEF OldMigrations
<1>11. MigratesCurrent' /\ Progress' /\ AccountsCleaned'
  BY <1>2, <1>5 DEF MigratesCurrent, Progress, AccountsCleaned, AfterAccount
<1>12. Ready'
  <2>1. clusterRole' = cr'.uid
    BY <1>3, <1>4 DEF RolesInv, RolesRecorded, PermissionInv
  <2>2. binding = [owner |-> cr.uid, namespace |-> Target(cr)]
    BY <1>1, <1>2 DEF LifeInv, Progress, BeforeBinding
  <2>3. /\ objs[<<GoflowAccount, Target(cr)>>] = cr.uid
        /\ console => objs[<<PluginAccount, Target(cr)>>] = cr.uid
    BY <1>1, <1>2 DEF LifeInv, Progress, AfterAccount
  <2>4. /\ objs'[<<GoflowAccount, Target(cr)>>] = cr.uid
        /\ console => objs'[<<PluginAccount, Target(cr)>>] = cr.uid
    BY <1>4, <1>7, <2>3, AccountFacts
  <2> QED
    BY <1>2, <1>3, <1>6, <2>1, <2>2, <2>4 DEF Ready, GoflowPermitted, PluginPermitted
<1>13. AccountsAtHome'
  <2> SUFFICES ASSUME NEW s \in AccountSlots, objs'[s] # 0 PROVE s[2] = cr'.status
    BY DEF AccountsAtHome
  <2>1. s[2] \in {cr.status, Target(cr)} /\ objs[s] # 0
    BY <1>1, <1>7 DEF LifeInv, AccountsAtHome
  <2>2. s[2] # cr.status
    <3> SUFFICES ASSUME s[2] = cr.status PROVE FALSE
      OBVIOUS
    <3>1. cr.status # Unset /\ cr.status \in Namespaces
      BY AccountFacts
    <3>2. objs[<<GoflowAccount, cr.status>>] = 0 /\ objs[<<PluginAccount, cr.status>>] = 0
      BY <1>1, <1>2, <3>1 DEF LifeInv, AccountsCleaned, AfterAccount
    <3> QED
      BY <2>1, <3>2, AccountFacts
  <2> QED
    BY <1>3, <2>1, <2>2
<1> QED
  BY <1>9, <1>10, <1>11, <1>12, <1>13 DEF LifeInv

\* The operator begins a migration, or does what leaves the permissions as they are.
LEMMA LifeQuiet ==
  ASSUME PermissionInv, Calm, [Next]_vars, Live(cr), UNCHANGED cr, ~OurMigration
  PROVE  LifeInv'
<1>1. /\ TypeOK /\ LifeInv /\ MigrationNeeded /\ MigrationNeeded' /\ Skeleton
      /\ console \in ConsoleModes
  BY SkeletonNext, MigrationNext DEF PermissionInv, PlacementInv, CopiesInv
<1>2. UNCHANGED <<clusterRole, binding>> /\ \A s \in AccountSlots : objs'[s] = objs[s]
  BY PermissionsStay
<1>s. ~Records
  BY <1>1, OthersStop DEF Records, Migrating, AfterAccount
<1>b. MayHaveBegun => MayHaveBegun'
  BY <1>1, <1>s, BegunStays
<1>3. ASSUME OurMigration'
      PROVE  /\ pc' \in {"goflowRole", "goflowCleanup"}
             /\ pc' = "goflowCleanup" => cr.status # Unset
             /\ Target(cr) # cr.status
  <2>1. Proceeds /\ pc = "namespace"
    BY <1>1, <1>3, <1>s
    DEF Skeleton, Fetches, Proceeds, GivesUp, Learns, UserWrites, OurMigration, Migrating,
        Successor
  <2> QED
    BY <1>3, <2>1 DEF Proceeds, Successor, AfterNamespace, OurMigration, FirstInstall, Migrating
<1>4. Alone'
  BY AloneNext
<1>5. OldMigrations'
  BY <1>1, <1>s
  DEF Skeleton, Fetches, Proceeds, GivesUp, Learns, UserWrites, LifeInv, OldMigrations, Absent,
      Live
<1>6. MigratesCurrent'
  <2> SUFFICES ASSUME pc' \in AfterAccount, desired' # cr PROVE FALSE
    BY DEF MigratesCurrent
  <2>1. pc \notin AfterAccount
    BY <1>1 DEF LifeInv, MigratesCurrent, OurMigration, AfterAccount, Migrating
  <2>2. Proceeds /\ pc = "goflowAccount" /\ pc' = "goflowBinding"
    BY <1>1, <1>s, <2>1
    DEF Skeleton, Fetches, Proceeds, GivesUp, Learns, UserWrites, Successor, AfterNamespace,
        AfterBinding, AfterAccount
  <2>3. objs[<<GoflowAccount, Target(desired)>>] = 0
    BY <1>1, <2>2, WhyPassed
  <2> QED
    BY <2>2, <2>3, OthersStop DEF Migrating, GoflowPermitted, Live
<1>7. Progress' /\ AccountsCleaned'
  BY <1>3 DEF Progress, AccountsCleaned, AfterAccount, BeforeBinding
<1>8. AccountsAtHome'
  BY <1>1, <1>2, <1>b DEF LifeInv, AccountsAtHome, Target
<1>9. Ready'
  <2> SUFFICES ASSUME cr.status # Unset, ~MayHaveBegun
               PROVE  GoflowPermitted(cr.status)' /\ PluginPermitted(cr.status)'
    BY <1>b DEF Ready
  <2>1. console' = console
    BY <1>1, ConsoleNext
  <2>2. GoflowPermitted(cr.status) /\ PluginPermitted(cr.status) /\ cr.status \in Namespaces
    BY <1>1, CrFacts DEF LifeInv, Ready
  <2>3. /\ objs'[<<GoflowAccount, cr.status>>] = objs[<<GoflowAccount, cr.status>>]
        /\ objs'[<<PluginAccount, cr.status>>] = objs[<<PluginAccount, cr.status>>]
    BY <1>2, <2>2, AccountFacts
  <2> QED
    BY <1>2, <2>1, <2>2, <2>3 DEF GoflowPermitted, PluginPermitted
<1> QED
  BY <1>4, <1>5, <1>6, <1>7, <1>8, <1>9 DEF LifeInv

\* What a migration does to an account: it goes from the recorded namespace, it comes where
\* the spec asks for it.
LEMMA MigrationMoves ==
  ASSUME PermissionInv, Calm, [Next]_vars, Live(cr), OurMigration, NEW s \in AccountSlots
  PROVE  \/ objs'[s] = objs[s]
         \/ objs'[s] = 0 /\ s[2] = cr.status /\ pc' = pc
         \/ Granted(s, "goflowAccount", GoflowAccount, "goflowBinding")
         \/ Granted(s, "pluginAccount", PluginAccount, "status")
<1>1. TypeOK /\ LifeInv /\ desired = cr /\ cr.uid # 0
  BY DEF PermissionInv, PlacementInv, OurMigration, Live
<1>2. ~Garbage(objs[s])
  BY <1>1, AccountFacts DEF Garbage, Live, LifeInv, Alone
<1> QED
  BY <1>1, <1>2, AccountNext DEF AccountChange, Cleaned

\* A migration that is given up can be taken up again.
LEMMA LifeGivenUp ==
  ASSUME PermissionInv, Calm, [Next]_vars, Live(cr), UNCHANGED cr, OurMigration, ~Records,
         pc' = "idle"
  PROVE  LifeInv'
<1>1. TypeOK /\ CopiesInv /\ LifeInv /\ Skeleton /\ desired = cr /\ pc # "idle" /\ cr.uid # 0
  BY SkeletonNext DEF PermissionInv, PlacementInv, OurMigration, Migrating, Live
<1>2. desired' = Absent /\ crCache' \in {crCache, cr} /\ Absent.uid = 0
  BY <1>1
  DEF Skeleton, Fetches, Proceeds, GivesUp, Learns, UserWrites, Successor, AfterNamespace,
      AfterBinding, Absent
<1>3. MayHaveBegun'
  BY <1>1, MigrationBegun, BegunStays
<1>4. ~OurMigration' /\ pc' \notin AfterAccount
  BY DEF OurMigration, Migrating, AfterAccount
<1>5. Alone'
  BY AloneNext
<1>6. OldMigrations'
  BY <1>1, <1>2 DEF LifeInv, OldMigrations
<1>7. AccountsAtHome'
  BY <1>1, <1>3, MigrationMoves DEF LifeInv, AccountsAtHome, Granted, Target
<1> QED
  BY <1>3, <1>4, <1>5, <1>6, <1>7
  DEF LifeInv, MigratesCurrent, Ready, Progress, AccountsCleaned

\* A migration goes on.
LEMMA LifeGoesOn ==
  ASSUME PermissionInv, Calm, [Next]_vars, Live(cr), UNCHANGED cr, OurMigration, ~Records,
         pc' # "idle"
  PROVE  LifeInv'
<1>1. /\ TypeOK /\ CopiesInv /\ LifeInv /\ MigrationNeeded /\ Skeleton /\ RoleStep /\ BindingStep
      /\ desired = cr /\ pc \in Migrating /\ console \in ConsoleModes /\ cr.uid # 0
      /\ NoPluginAccount /\ NoPluginWithoutConsole
  BY SkeletonNext, RbacNext DEF PermissionInv, PlacementInv, CopiesInv, OurMigration, Live
<1>2. /\ pc' = pc \/ (Proceeds /\ pc' \in Successor(pc))
      /\ desired' = desired /\ crCache' \in {crCache, cr}
  BY <1>1 DEF Skeleton, Fetches, Proceeds, GivesUp, Learns, UserWrites, Migrating
<1>b. MayHaveBegun'
  BY <1>1, MigrationBegun, BegunStays
<1>c. console' = console
  BY <1>1, ConsoleNext
<1>3. OurMigration' /\ pc' \in Migrating
  BY <1>1, <1>2 DEF Successor, AfterBinding, Migrating, OurMigration
<1>n. /\ Target(cr) \in Namespaces /\ Target(cr) # cr.status
      /\ <<GoflowAccount, Target(cr)>> \in AccountSlots
      /\ <<PluginAccount, Target(cr)>> \in AccountSlots
  BY <1>1, CrFacts, AccountFacts DEF MigrationNeeded
<1>4. ASSUME NEW s \in AccountSlots
      PROVE  \/ objs'[s] = objs[s]
             \/ objs'[s] = 0 /\ s[2] = cr.status /\ pc' = pc
             \/ Granted(s, "goflowAccount", GoflowAccount, "goflowBinding")
             \/ Granted(s, "pluginAccount", PluginAccount, "status")
  BY MigrationMoves
<1>6. \/ binding' = binding
      \/ /\ pc = "goflowBinding" /\ pc' = AfterBinding
         /\ binding' = [owner |-> cr.uid, namespace |-> Target(cr)]
  BY <1>1 DEF BindingStep, Garbage, Live, LifeInv, Alone
<1>t. \/ pc' = pc
      \/ pc \in {"goflowRole", "goflowCleanup"} /\ pc' = "goflowAccount"
      \/ pc = "goflowAccount" /\ pc' = "goflowBinding"
      \/ pc = "goflowBinding" /\ pc' = AfterBinding
      \/ pc = "pluginCleanup" /\ pc' = "pluginAccount"
      \/ pc = "pluginAccount" /\ pc' = "status"
  BY <1>1, <1>2 DEF Successor, Migrating
<1>a. \/ AfterBinding = "status" /\ ~console
      \/ AfterBinding = "pluginAccount" /\ FirstInstall
      \/ AfterBinding = "pluginCleanup"
  BY DEF AfterBinding
<1>o. /\ pc' = "goflowRole" => pc = "goflowRole"
      /\ pc' \in BeforeBinding => pc \in BeforeBinding /\ pc' # AfterBinding
      /\ pc' \notin BeforeBinding => pc \notin BeforeBinding \/ (pc = "goflowBinding" /\ pc' # pc)
      /\ pc' \in AfterAccount => pc \in AfterAccount \/ (pc = "goflowAccount" /\ pc' # pc)
      /\ pc' \notin AfterAccount => pc \notin AfterAccount
      /\ pc' = "goflowAccount" => pc = pc' \/ pc \in {"goflowRole", "goflowCleanup"}
      /\ pc' = "pluginAccount"
           => pc \in {"pluginAccount", "pluginCleanup"} \/ (pc = "goflowBinding" /\ FirstInstall)
      /\ pc' = "status"
           => pc \in {"status", "pluginAccount"} \/ (pc = "goflowBinding" /\ ~console)
      /\ pc = "status" => pc' = pc
  BY <1>t, <1>a DEF BeforeBinding, AfterAccount
<1>p. pc' # pc => pc' \notin {pc, "idle"}
  BY <1>3 DEF Migrating
<1>7. Alone'
  BY AloneNext
<1>8. OldMigrations' /\ MigratesCurrent' /\ Ready'
  BY <1>1, <1>2, <1>3, <1>b DEF LifeInv, OldMigrations, MigratesCurrent, Ready
<1>10. Progress'
  <2>1. ASSUME pc' \in AfterAccount PROVE objs'[<<GoflowAccount, Target(cr)>>] = cr.uid
    <3>1. CASE pc = "goflowAccount" /\ pc' # pc
      BY <1>1, <1>p, <3>1, WhyPassed
    <3>2. CASE ~(pc = "goflowAccount" /\ pc' # pc)
      <4>1. objs'[<<GoflowAccount, Target(cr)>>] = objs[<<GoflowAccount, Target(cr)>>]
        BY <1>4, <1>n, <3>2, AccountFacts DEF Granted
      <4> QED
        BY <1>1, <1>o, <2>1, <3>2, <4>1 DEF LifeInv, Progress
    <3> QED
      BY <3>1, <3>2
  <2>2. pc' \notin BeforeBinding => binding' = [owner |-> cr.uid, namespace |-> Target(cr)]
    BY <1>1, <1>6, <1>o, <1>p, WhyPassed DEF LifeInv, Progress
  <2>3. ASSUME pc' = "status", console PROVE objs'[<<PluginAccount, Target(cr)>>] = cr.uid
    <3>1. CASE pc = "pluginAccount"
      BY <1>1, <1>p, <2>3, <3>1, WhyPassed
    <3>2. CASE pc # "pluginAccount"
      <4>1. objs'[<<PluginAccount, Target(cr)>>] = objs[<<PluginAccount, Target(cr)>>]
        BY <1>4, <1>n, <3>2, AccountFacts DEF Granted
      <4> QED
        BY <1>1, <1>o, <2>3, <3>2, <4>1 DEF LifeInv, Progress
    <3> QED
      BY <3>1, <3>2
  <2> QED
    BY <1>c, <1>3, <2>1, <2>2, <2>3 DEF Progress, Target
<1>11. AccountsAtHome'
  BY <1>1, <1>b, <1>4 DEF LifeInv, AccountsAtHome, Granted, Target
<1>12. AccountsCleaned'
  <2> SUFFICES ASSUME cr.status # Unset
               PROVE  /\ pc' \in AfterAccount \union {"goflowAccount"}
                           => objs'[<<GoflowAccount, cr.status>>] = 0
                      /\ pc' \in {"pluginAccount", "status"}
                           => objs'[<<PluginAccount, cr.status>>] = 0
    BY DEF AccountsCleaned
  <2>1. /\ <<GoflowAccount, cr.status>> \in AccountSlots
        /\ <<PluginAccount, cr.status>> \in AccountSlots
        /\ cr.status \in Namespaces
    BY <1>1, CrFacts, AccountFacts
  <2>2. \A a \in AccountKinds : objs[<<a, cr.status>>] = 0 => objs'[<<a, cr.status>>] = 0
    <3> SUFFICES ASSUME NEW a \in AccountKinds, objs[<<a, cr.status>>] = 0
                 PROVE  objs'[<<a, cr.status>>] = 0
      OBVIOUS
    <3>1. <<a, cr.status>> \in AccountSlots
      BY <2>1 DEF AccountKinds
    <3> QED
      BY <1>1, <1>4, <1>n, <3>1 DEF Granted
  <2>3. ASSUME pc' \in AfterAccount \union {"goflowAccount"}
        PROVE  objs[<<GoflowAccount, cr.status>>] = 0
    <3>1. pc \in AfterAccount \union {"goflowAccount"} \/ (pc = "goflowCleanup" /\ pc' # pc)
      BY <1>1, <1>o, <2>3 DEF MigrationNeeded, FirstInstall
    <3> QED
      BY <1>1, <1>p, <3>1, WhyPassed DEF LifeInv, AccountsCleaned
  <2>4. ASSUME pc' \in {"pluginAccount", "status"}
        PROVE  objs[<<PluginAccount, cr.status>>] = 0
    <3>1. \/ pc \in {"pluginAccount", "status"}
          \/ pc = "pluginCleanup" /\ pc' # pc
          \/ ~console
      BY <1>1, <1>o, <2>4 DEF FirstInstall
    <3> QED
      BY <1>1, <1>p, <2>1, <3>1, WhyPassed DEF LifeInv, AccountsCleaned, NoPluginAccount
  <2> QED
    BY <2>2, <2>3, <2>4 DEF AccountKinds
<1> QED
  BY <1>7, <1>8, <1>10, <1>11, <1>12 DEF LifeInv

LEMMA LifeNext ==
  ASSUME PermissionInv, Calm, [Next]_vars, RolesInv', Live(cr') PROVE LifeInv'
<1>t. TypeOK /\ Skeleton /\ BindingGiven /\ Identity
  BY SkeletonNext DEF PermissionInv, PlacementInv, CopiesInv
<1>1. CASE PatientCreate
  <2>1. /\ \A s \in Slots : objs'[s] = 0
        /\ clusterRole' = 0 /\ binding' = NoObject
    BY <1>1, <1>t DEF PatientCreate, Owners, BindingGiven, rbacVars, clusterVars
  <2>2. pc' = "idle" /\ crCache'.uid = 0 /\ cr'.uid # 0 /\ cr'.status = Unset /\ desired'.uid # cr'.uid
    BY <1>1, <1>t, CrFacts
    DEF PatientCreate, Settled, operatorVars, Identity, Copies, TypeOK, FlowCollectors
  <2>3. ~OurMigration' /\ pc' \notin AfterAccount
    BY <2>2 DEF OurMigration, Migrating, AfterAccount
  <2> QED
    BY <2>1, <2>2, <2>3, AccountFacts
    DEF LifeInv, Alone, OldMigrations, MigratesCurrent, Ready, Progress,
        AccountsAtHome, AccountsCleaned, NoObject
<1>2. CASE PatientEdit
  BY <1>2, LifeEdited
<1>3. CASE Records
  <2>1. Live(cr)
    BY <1>3, <1>t, SameFlowCollector DEF Records, Created
  <2> QED
    BY <1>3, <2>1, LifeRecorded
<1>4. CASE UNCHANGED cr /\ ~Records
  BY <1>4, LifeQuiet, LifeGivenUp, LifeGoesOn
<1> QED
  BY <1>t, <1>1, <1>2, <1>3, <1>4, PatientNext

-----------------------------------------------------------------------------
(* The work and its permissions.                                           *)

LEMMA NamespaceNext ==
  ASSUME TypeOK, Calm, NamespaceThere, [Next]_vars PROVE NamespaceThere'
<1>1. Skeleton
  BY SkeletonNext
<1>2. existing \subseteq existing' /\ (EnsureNamespace => Target(desired) \in existing')
  <2>1. ~DeleteNamespace
    BY DEF DeleteNamespace, Calm
  <2>2. CASE EnsureNamespace
    BY <2>2 DEF EnsureNamespace
  <2>3. CASE ~EnsureNamespace
    <3>1. UNCHANGED existing
      BY <2>1, <2>3
      DEF Next, Reconcile, Failures, Users, StartReconcile, CreateClusterRole, WriteBinding,
          UpdateStatus, ReconcileOvs, CallFails, OvsFails, Restart, Requeue, CreateFlowCollector,
          EditFlowCollector, DeleteFlowCollector, FinishDeletion, Inform, Store, vars,
          clusterVars, CreateGoflowAccount, CreatePluginAccount, CreateAccount, CleanupGoflow,
          CleanupPlugin, Cleanup, ReconcileGoflow, ReconcilePlugin, DeployNowhere, DeployFails,
          StopHalfWay, DeleteOwnedObject, CollectGarbage, CollectObject, CollectRbac,
          CollectClusterScoped
    <3> QED
      BY <2>3, <3>1
  <2> QED
    BY <2>2, <2>3
<1>3. pc = "namespace" /\ pc' \notin {"namespace", "idle"} => EnsureNamespace
  BY DEF Next, Reconcile, Failures, Users, StartReconcile, EnsureNamespace, CreateClusterRole,
         WriteBinding, UpdateStatus, ReconcileOvs, CallFails, OvsFails, Restart, Requeue,
         CreateFlowCollector, EditFlowCollector, DeleteFlowCollector, FinishDeletion, Inform,
         Store, vars, operatorVars, CreateGoflowAccount, CreatePluginAccount, ReconcileGoflow,
         ReconcilePlugin, DeployNowhere, DeployFails, DeleteOwnedObject, DeleteNamespace,
         CollectGarbage, CleanupGoflow, CleanupPlugin, Return, Goto, StopHalfWay
<1>4. ASSUME pc' \notin {"idle", "namespace"}
      PROVE  pc # "idle" /\ Target(desired') = Target(desired)
  BY <1>1, <1>4
  DEF Skeleton, Fetches, Proceeds, GivesUp, Records, Learns, UserWrites, Successor, Target,
      TypeOK, FlowCollectors
<1> QED
  BY <1>2, <1>3, <1>4 DEF NamespaceThere

LEMMA PluginAccountNext ==
  ASSUME PermissionInv, Calm, [Next]_vars PROVE NoPluginAccount'
<1>1. /\ TypeOK /\ NoPluginWithoutConsole /\ NoPluginAccount /\ console' = console
      /\ objs \in [Slots -> Nat]
  BY ConsoleNext DEF PermissionInv, PlacementInv, TypeOK
<1> SUFFICES ASSUME ~console, NEW n \in Namespaces PROVE objs'[<<PluginAccount, n>>] = 0
  BY <1>1 DEF NoPluginAccount
<1>2. AccountChange(<<PluginAccount, n>>)
  BY <1>1, AccountNext, AccountFacts
<1>3. objs[<<PluginAccount, n>>] = 0 /\ pc # "pluginAccount"
  BY <1>1 DEF NoPluginAccount, NoPluginWithoutConsole
<1> QED
  BY <1>2, <1>3, AccountFacts DEF AccountChange, Cleaned, Granted

LEMMA BindingGivenNext ==
  ASSUME PermissionInv, [Next]_vars PROVE BindingGiven'
BY RbacNext
DEF PermissionInv, PlacementInv, CopiesInv, Identity, BindingGiven, BindingStep

\* What runs in the recorded namespace keeps its account until nothing runs under it any
\* more, and its binding until the collector's work is gone.
LEMMA WorkNext ==
  ASSUME PermissionInv, Calm, [Next]_vars PROVE WorkIsPermitted'
<1> SUFFICES ASSUME NEW s \in WorkSlots, Live(cr'), objs'[s] = cr'.uid
             PROVE  IF s[1] \in PluginKinds THEN objs'[<<PluginAccount, s[2]>>] = cr'.uid
                    ELSE /\ objs'[<<GoflowAccount, s[2]>>] = cr'.uid
                         /\ clusterRole' = cr'.uid
                         /\ binding' = [owner |-> cr'.uid, namespace |-> s[2]]
  BY DEF WorkIsPermitted
<1>1. /\ TypeOK /\ CopiesInv /\ OwnersGiven /\ WorkOnlyInRecordedNamespace /\ GoflowCleaned
      /\ NoPluginWithoutConsole /\ WorkIsPermitted /\ Skeleton /\ RoleStep /\ BindingStep
  BY SkeletonNext, RbacNext DEF PermissionInv, PlacementInv
<1>2. /\ cr'.uid = cr.uid /\ cr.uid # 0
      /\ objs[s] = cr.uid \/ (pc \in {"goflow", "plugin"} /\ s[2] = cr.status)
  BY <1>1, OurWork DEF Live
<1>3. Live(cr) /\ LifeInv
  <2>1. ~Created
    BY <1>1, <1>2, CrFacts DEF Created
  <2> QED
    BY <1>1, <2>1, SameFlowCollector DEF CopiesInv, PermissionInv
<1>4. /\ s \in Slots /\ s[1] \in WorkKinds /\ s[2] \in Namespaces /\ s[2] # Unset
      /\ s[2] = cr.status /\ s = <<s[1], s[2]>>
      /\ s[1] \notin PluginKinds => s \in GoflowSlots /\ s[1] \in GoflowKinds
  <2>1. s[2] = cr.status /\ s = <<s[1], s[2]>>
    BY <1>1, <1>2 DEF WorkOnlyInRecordedNamespace, WorkSlots
  <2> QED
    BY <2>1, SlotFacts DEF WorkKinds
<1>5. /\ <<GoflowAccount, s[2]>> \in AccountSlots /\ <<PluginAccount, s[2]>> \in AccountSlots
      /\ <<GoflowAccount, s[2]>> # <<PluginAccount, s[2]>>
  BY <1>4, AccountFacts
<1>6. CASE objs[s] = cr.uid
  <2>1. IF s[1] \in PluginKinds THEN objs[<<PluginAccount, s[2]>>] = cr.uid
        ELSE /\ objs[<<GoflowAccount, s[2]>>] = cr.uid
             /\ clusterRole = cr.uid
             /\ binding = [owner |-> cr.uid, namespace |-> s[2]]
    BY <1>1, <1>3, <1>6 DEF WorkIsPermitted
  <2>2. ASSUME NEW a \in AccountKinds, objs[<<a, s[2]>>] = cr.uid,
               a = PluginAccount <=> s[1] \in PluginKinds
        PROVE  objs'[<<a, s[2]>>] = cr.uid
    <3>1. AccountChange(<<a, s[2]>>)
      BY <1>1, <1>5, AccountNext DEF AccountKinds
    <3>2. ~Garbage(cr.uid)
      BY <1>3 DEF Garbage, Live
    <3>3. ASSUME NEW label, NEW account, NEW kinds, Cleaned(<<a, s[2]>>, label, account, kinds)
          PROVE  a = account /\ s[1] \notin kinds
      BY <1>2, <1>4, <1>6, <3>3 DEF Cleaned
    <3>4. s[1] \in GoflowKinds \/ s[1] \in PluginKinds
      BY <1>4 DEF WorkKinds
    <3>5. a = PluginAccount => s[1] \in PluginKinds
      BY <2>2
    <3>6. a = GoflowAccount => s[1] \in GoflowKinds
      BY <2>2, <3>4, AccountFacts
    <3> QED
      BY <1>2, <2>2, <3>1, <3>2, <3>3, <3>5, <3>6 DEF AccountChange, Granted
  <2>3. ASSUME s[1] \notin PluginKinds
        PROVE  UNCHANGED <<clusterRole, binding>>
    <3>1. clusterRole' = clusterRole
      BY <1>1, <1>2, <1>3, <2>1, <2>3 DEF RoleStep, Garbage, Live
    <3>2. pc # "goflowBinding"
      <4> SUFFICES ASSUME pc = "goflowBinding" PROVE FALSE
        OBVIOUS
      <4>1. desired = cr
        BY <1>3 DEF LifeInv, MigratesCurrent, AfterAccount
      <4> QED
        BY <1>1, <1>4, <1>6, <2>3, <4>1 DEF GoflowCleaned
    <3>3. binding' = binding
      BY <1>1, <1>2, <1>3, <2>1, <2>3, <3>2 DEF BindingStep, Garbage, Live
    <3> QED
      BY <3>1, <3>3
  <2> QED
    BY <1>2, <2>1, <2>2, <2>3, AccountFacts DEF AccountKinds
<1>7. CASE objs[s] # cr.uid
  <2>1. pc \in {"goflow", "plugin"} /\ ~OurMigration /\ cr.status # Unset
    BY <1>2, <1>4, <1>7 DEF OurMigration, Migrating
  <2>m. ~MayHaveBegun
    BY <1>1, <2>1 DEF CopiesInv, DeployAtHome, MayHaveBegun
  <2>2. GoflowPermitted(cr.status) /\ PluginPermitted(cr.status)
    BY <1>3, <2>1, <2>m DEF LifeInv, Ready
  <2>3. s[1] \in PluginKinds => console
    <3>1. s[1] \in PluginKinds => s \in PluginSlots /\ pc = "plugin"
      BY <1>1, <1>2, <1>4, <1>7, ObjectNext, SlotFacts, KindAssumption DEF ObjectStep, Appears
    <3> QED
      BY <1>1, <3>1 DEF NoPluginWithoutConsole
  <2> QED
    BY <1>2, <1>3, <1>4, <1>5, <2>1, <2>2, <2>3, PermissionsStay
    DEF GoflowPermitted, PluginPermitted
<1> QED
  BY <1>6, <1>7

LEMMA PermissionInit == Init => PermissionInv
<1> SUFFICES ASSUME Init PROVE PermissionInv
  OBVIOUS
<1>1. PlacementInv /\ RolesInv
  BY PlacementInit, RolesInit
<1>2. BindingGiven /\ NamespaceThere /\ console \in ConsoleModes /\ ~Live(cr)
  BY DEF Init, BindingGiven, NamespaceThere, Live, Absent
<1>3. NoPluginAccount /\ WorkIsPermitted
  BY <1>2, AccountFacts DEF Init, NoPluginAccount, WorkIsPermitted, AccountSlots
<1> QED
  BY <1>1, <1>2, <1>3 DEF PermissionInv

LEMMA PermissionNext ==
  ASSUME PermissionInv, Calm, [Next]_vars PROVE PermissionInv'
<1>1. PlacementInv'
  BY PlacementNext DEF PermissionInv, Calm
<1>2. RolesInv'
  BY RolesNext DEF PermissionInv
<1>3. BindingGiven' /\ NamespaceThere' /\ NoPluginAccount' /\ console' \in ConsoleModes
  BY BindingGivenNext, NamespaceNext, PluginAccountNext, ConsoleNext
  DEF PermissionInv, PlacementInv
<1>4. Live(cr') => LifeInv'
  BY <1>2, LifeNext
<1>5. WorkIsPermitted'
  BY WorkNext
<1> QED
  BY <1>1, <1>2, <1>3, <1>4, <1>5 DEF PermissionInv, Live

\* No pod is asked for before it may run, whatever the number of namespaces, kinds, edits,
\* recreations, failures and restarts: a pass that is cut short leaves no work that lacks
\* its account or its role.
THEOREM PermissionCorrect ==
  ASSUME Calm PROVE Spec => []WorkIsPermitted
<1>1. PermissionInv => WorkIsPermitted
  BY DEF PermissionInv
<1>2. PermissionInv /\ [Next]_vars => PermissionInv'
  BY PermissionNext
<1> QED
  BY <1>1, <1>2, PermissionInit, PTL DEF Spec
=============================================================================
