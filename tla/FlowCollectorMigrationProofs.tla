--------------------- MODULE FlowCollectorMigrationProofs ---------------------
(***************************************************************************)
(* That a migration never meets what an earlier one left, for every set of *)
(* namespaces and kinds and every bound, where no call of                  *)
(* handleNamespaceChanged fails and the process does not die there.  After *)
(* such a failure it does: the permissions of FlowCollectorPermissionsProofs *)
(* still hold, but the retry creates what is there already.                *)
(***************************************************************************)
EXTENDS FlowCollectorPermissionsProofs

-----------------------------------------------------------------------------
(* The inductive invariant.                                                *)

\* No failure between two calls of handleNamespaceChanged.
Uninterrupted == FailurePoints \intersect Migrating = {}

\* Before the first migration there are no permissions.
NotBegun ==
  cr.status = Unset =>
    /\ ~OurMigration \/ pc = "goflowRole" => clusterRole = 0
    /\ ~OurMigration \/ pc \in BeforeBinding => binding = NoObject

\* Every account where the FlowCollector is to go was made by the pass under way.
TargetClear ==
  OurMigration =>
    /\ pc \notin AfterAccount => objs[<<GoflowAccount, Target(cr)>>] = 0
    /\ pc # "status" => objs[<<PluginAccount, Target(cr)>>] = 0

\* No account outlives the pass that made it, unless it wrote the status.
NoneLeftBehind ==
  \A s \in AccountSlots :
    objs[s] # 0 => s[2] = cr.status \/ (OurMigration /\ s[2] = Target(cr))

ClearInv == NotBegun /\ TargetClear /\ NoneLeftBehind

MigrationInv == PermissionInv /\ (Live(cr) => ClearInv)

-----------------------------------------------------------------------------
(* Why a migration is given up, and why this never happens.                *)

LEMMA WhyGivenUp ==
  ASSUME TypeOK, Uninterrupted, [Next]_vars, pc \in Migrating, pc' = "idle"
  PROVE  \/ pc = "goflowRole" /\ clusterRole # 0
         \/ pc = "goflowAccount" /\ (objs[<<GoflowAccount, Target(desired)>>] # 0
                                     \/ Target(desired) \notin existing)
         \/ pc = "goflowBinding" /\ FirstInstall /\ binding # NoObject
         \/ pc = "pluginAccount" /\ (objs[<<PluginAccount, Target(desired)>>] # 0
                                     \/ Target(desired) \notin existing)
         \/ pc = "status" /\ (cr.uid # desired.uid \/ cr.version # desired.version)
<1>1. ~CallFails /\ ~Restart
  BY DEF CallFails, Restart, Uninterrupted
<1>2. ~CleanupGoflow /\ ~CleanupPlugin
  BY DEF CleanupGoflow, CleanupPlugin, Cleanup, Goto
<1>3. CASE CreateClusterRole \/ WriteBinding \/ UpdateStatus
  BY <1>3, Zenon DEF CreateClusterRole, WriteBinding, UpdateStatus, Goto, AfterBinding
<1>4. CASE CreateGoflowAccount \/ CreatePluginAccount
  BY <1>4 DEF CreateGoflowAccount, CreatePluginAccount, CreateAccount, Goto
<1> QED
  BY <1>1, <1>2, <1>3, <1>4
  DEF Migrating, Next, Reconcile, Failures, Users, StartReconcile, EnsureNamespace,
      ReconcileOvs, OvsFails, CreateFlowCollector, EditFlowCollector, DeleteFlowCollector,
      FinishDeletion, Inform, Store, vars, operatorVars, ReconcileGoflow, ReconcilePlugin,
      DeployNowhere, DeployFails, DeleteOwnedObject, DeleteNamespace, CollectGarbage, StopHalfWay

\* Nothing that handleNamespaceChanged creates is there.
LEMMA NothingInTheWay == MigrationInv => MigrationUnobstructed
<1> SUFFICES ASSUME MigrationInv, Live(cr), desired = cr, pc \in Migrating
             PROVE  /\ pc = "goflowRole" => clusterRole = 0
                    /\ pc = "goflowAccount" => objs[<<GoflowAccount, Target(cr)>>] = 0
                    /\ pc = "goflowBinding" /\ FirstInstall => binding = NoObject
                    /\ pc = "pluginAccount" => objs[<<PluginAccount, Target(cr)>>] = 0
                    /\ pc \in {"goflowAccount", "pluginAccount"} => Target(cr) \in existing
  BY DEF MigrationUnobstructed, Migrating
<1>1. OurMigration /\ NotBegun /\ TargetClear /\ NamespaceThere /\ MigrationNeeded
  BY DEF MigrationInv, ClearInv, PermissionInv, PlacementInv, CopiesInv, OurMigration
<1>2. /\ pc = "goflowRole" => clusterRole = 0
      /\ pc = "goflowBinding" /\ FirstInstall => binding = NoObject
  BY <1>1 DEF NotBegun, MigrationNeeded, FirstInstall, BeforeBinding
<1>3. /\ pc = "goflowAccount" => objs[<<GoflowAccount, Target(cr)>>] = 0
      /\ pc = "pluginAccount" => objs[<<PluginAccount, Target(cr)>>] = 0
  BY <1>1 DEF TargetClear, AfterAccount
<1> QED
  BY <1>1, <1>2, <1>3 DEF NamespaceThere

\* A migration of the stored FlowCollector is never given up.
LEMMA KeptGoing ==
  ASSUME MigrationInv, Uninterrupted, [Next]_vars, Live(cr), OurMigration PROVE pc' # "idle"
<1>1. TypeOK /\ MigrationUnobstructed /\ desired = cr
  BY NothingInTheWay DEF MigrationInv, PermissionInv, PlacementInv, OurMigration
<1> QED
  BY <1>1, WhyGivenUp DEF OurMigration, MigrationUnobstructed

-----------------------------------------------------------------------------
(* How the way stays clear.                                                *)

LEMMA ClearCreated ==
  ASSUME TypeOK, BindingGiven, PatientCreate PROVE ClearInv'
<1>1. /\ \A s \in Slots : objs'[s] = 0
      /\ clusterRole' = 0 /\ binding' = NoObject /\ pc' = "idle"
  BY DEF PatientCreate, Owners, BindingGiven, Settled, rbacVars, clusterVars, operatorVars
<1> QED
  BY <1>1, AccountFacts
  DEF ClearInv, NotBegun, TargetClear, NoneLeftBehind, OurMigration, Migrating

LEMMA ClearEdited ==
  ASSUME MigrationInv, PatientEdit PROVE ClearInv'
<1>1. TypeOK /\ ClearInv /\ MigrationNeeded /\ Identity
  BY DEF MigrationInv, PermissionInv, PlacementInv, CopiesInv, PatientEdit
<1>2. /\ cr'.status = cr.status /\ Target(cr) = cr.status
      /\ UNCHANGED <<pc, desired, objs, clusterRole, binding>>
  BY DEF PatientEdit, operatorVars, rbacVars, clusterVars
<1>3. cr'.version = version + 1 /\ desired.version <= version /\ desired.version \in Nat
  BY <1>1 DEF PatientEdit, Identity, Copies, TypeOK, FlowCollectors
<1>4. ~OurMigration /\ ~OurMigration'
  BY <1>1, <1>2, <1>3, CrFacts DEF OurMigration, MigrationNeeded
<1> QED
  BY <1>1, <1>2, <1>4 DEF ClearInv, NotBegun, TargetClear, NoneLeftBehind

\* The status is written once the previous namespace has no account.
LEMMA ClearRecorded ==
  ASSUME MigrationInv, Calm, [Next]_vars, Live(cr), Records PROVE ClearInv'
<1>1. TypeOK /\ ClearInv /\ LifeInv /\ MigrationNeeded /\ Identity /\ cr.uid # 0
  BY DEF MigrationInv, PermissionInv, PlacementInv, CopiesInv, Live
<1>2. cr = desired /\ OurMigration /\ pc = "status" /\ pc' = "goflow"
  BY <1>1 DEF Records, Identity, Copies, OurMigration, Migrating
<1>3. cr'.status = Target(cr) /\ Target(cr) # Unset /\ ~OurMigration'
  BY <1>1, <1>2, CrFacts, NamespaceAssumption
  DEF Records, TypeOK, FlowCollectors, OurMigration, Migrating
<1>4. ASSUME NEW s \in AccountSlots, objs'[s] # 0 PROVE s[2] = cr'.status
  <2>1. objs[s] # 0
    BY <1>1, <1>2, <1>4, MigrationMoves DEF MigrationInv, Granted
  <2>2. s[2] \in {cr.status, Target(cr)}
    BY <1>1, <2>1 DEF ClearInv, NoneLeftBehind
  <2>3. s[2] # cr.status
    <3> SUFFICES ASSUME s[2] = cr.status PROVE FALSE
      OBVIOUS
    <3>1. objs[<<GoflowAccount, cr.status>>] = 0 /\ objs[<<PluginAccount, cr.status>>] = 0
      BY <1>1, <1>2, AccountFacts DEF LifeInv, AccountsCleaned, AfterAccount
    <3> QED
      BY <2>1, <3>1, AccountFacts
  <2> QED
    BY <1>3, <2>2, <2>3
<1> QED
  BY <1>3, <1>4 DEF ClearInv, NotBegun, TargetClear, NoneLeftBehind

\* Outside of a migration the permissions stay as they are; one begins with its first call.
LEMMA ClearQuiet ==
  ASSUME MigrationInv, Calm, [Next]_vars, Live(cr), UNCHANGED cr, ~OurMigration
  PROVE  ClearInv'
<1>1. TypeOK /\ ClearInv /\ LifeInv /\ MigrationNeeded' /\ Skeleton /\ PermissionInv
  BY SkeletonNext, MigrationNext DEF MigrationInv, PermissionInv, PlacementInv, CopiesInv
<1>2. UNCHANGED <<clusterRole, binding>> /\ \A s \in AccountSlots : objs'[s] = objs[s]
  BY <1>1, PermissionsStay
<1>s. ~Records
  BY <1>1, OthersStop DEF Records, Migrating, AfterAccount
<1>3. ASSUME OurMigration'
      PROVE  pc' \in {"goflowRole", "goflowCleanup"} /\ Target(cr) # cr.status
             /\ (cr.status = Unset => pc' = "goflowRole")
  <2>1. Proceeds /\ pc = "namespace"
    BY <1>1, <1>3, <1>s
    DEF Skeleton, Fetches, Proceeds, GivesUp, Learns, UserWrites, OurMigration, Migrating,
        Successor
  <2> QED
    BY <1>3, <2>1 DEF Proceeds, Successor, AfterNamespace, OurMigration, FirstInstall, Migrating
<1>4. NoneLeftBehind'
  BY <1>1, <1>2 DEF ClearInv, NoneLeftBehind
<1>5. NotBegun'
  BY <1>1, <1>2, <1>3 DEF ClearInv, NotBegun
<1>6. TargetClear'
  <2> SUFFICES ASSUME OurMigration' PROVE TargetClear'
    BY DEF TargetClear
  <2>1. /\ Target(cr) \in Namespaces
        /\ <<GoflowAccount, Target(cr)>> \in AccountSlots
        /\ <<PluginAccount, Target(cr)>> \in AccountSlots
    BY <1>1, CrFacts, AccountFacts
  <2>2. /\ objs[<<GoflowAccount, Target(cr)>>] = 0
        /\ objs[<<PluginAccount, Target(cr)>>] = 0
    BY <1>1, <1>3, <2>1 DEF ClearInv, NoneLeftBehind
  <2> QED
    BY <1>2, <2>1, <2>2 DEF TargetClear, Target
<1> QED
  BY <1>4, <1>5, <1>6 DEF ClearInv

\* One call after the other makes its own object and no other.
LEMMA ClearGoesOn ==
  ASSUME MigrationInv, Calm, Uninterrupted, [Next]_vars, Live(cr), UNCHANGED cr, OurMigration,
         ~Records
  PROVE  ClearInv'
<1>1. /\ TypeOK /\ PermissionInv /\ ClearInv /\ LifeInv /\ MigrationNeeded /\ Skeleton
      /\ RoleStep /\ BindingStep /\ desired = cr /\ pc \in Migrating /\ cr.uid # 0
  BY SkeletonNext, RbacNext
  DEF MigrationInv, PermissionInv, PlacementInv, CopiesInv, OurMigration, Live
<1>2. /\ pc' = pc \/ (Proceeds /\ pc' \in Successor(pc))
      /\ desired' = desired
  BY <1>1, KeptGoing DEF Skeleton, Fetches, Proceeds, GivesUp, Learns, UserWrites, Migrating
<1>3. OurMigration'
  BY <1>1, <1>2 DEF Successor, AfterBinding, Migrating, OurMigration
<1>4. /\ clusterRole' = clusterRole \/ (pc = "goflowRole" /\ pc' = "goflowAccount")
      /\ binding' = binding \/ (pc = "goflowBinding" /\ pc' = AfterBinding)
  BY <1>1 DEF RoleStep, BindingStep, Garbage, Live, LifeInv, Alone
<1>t. \/ pc' = pc
      \/ pc \in {"goflowRole", "goflowCleanup"} /\ pc' = "goflowAccount"
      \/ pc = "goflowAccount" /\ pc' = "goflowBinding"
      \/ pc = "goflowBinding" /\ pc' = AfterBinding
      \/ pc = "pluginCleanup" /\ pc' = "pluginAccount"
      \/ pc = "pluginAccount" /\ pc' = "status"
  BY <1>1, <1>2 DEF Successor, Migrating
<1>a. AfterBinding \in {"status", "pluginAccount", "pluginCleanup"}
  BY DEF AfterBinding
<1>o. /\ pc' = "goflowRole" => pc = "goflowRole"
      /\ pc' \in BeforeBinding => pc \in BeforeBinding /\ pc' # AfterBinding
      /\ pc' \notin AfterAccount => pc \notin AfterAccount /\ pc' # "goflowBinding"
      /\ pc = "status" => pc' = pc
  BY <1>t, <1>a DEF BeforeBinding, AfterAccount
<1>5. NoneLeftBehind'
  BY <1>1, <1>3, MigrationMoves DEF ClearInv, NoneLeftBehind, Granted, Target
<1>6. NotBegun'
  BY <1>1, <1>3, <1>4, <1>o DEF ClearInv, NotBegun
<1>7. TargetClear'
  <2>1. /\ <<GoflowAccount, Target(cr)>> \in AccountSlots
        /\ <<PluginAccount, Target(cr)>> \in AccountSlots
    BY <1>1, CrFacts, AccountFacts
  <2>2. ASSUME pc' \notin AfterAccount PROVE objs'[<<GoflowAccount, Target(cr)>>] = 0
    BY <1>1, <1>o, <2>1, <2>2, MigrationMoves, AccountFacts DEF ClearInv, TargetClear, Granted
  <2>3. ASSUME pc' # "status" PROVE objs'[<<PluginAccount, Target(cr)>>] = 0
    BY <1>1, <1>o, <2>1, <2>3, MigrationMoves, AccountFacts DEF ClearInv, TargetClear, Granted
  <2> QED
    BY <2>2, <2>3 DEF TargetClear, Target
<1> QED
  BY <1>5, <1>6, <1>7 DEF ClearInv

LEMMA MigrationInit == Init => MigrationInv
BY PermissionInit DEF Init, MigrationInv, Live, Absent

LEMMA MigrationStep ==
  ASSUME MigrationInv, Calm, Uninterrupted, [Next]_vars PROVE MigrationInv'
<1>1. TypeOK /\ Skeleton /\ BindingGiven /\ Identity
  BY SkeletonNext DEF MigrationInv, PermissionInv, PlacementInv, CopiesInv
<1>2. PermissionInv'
  BY PermissionNext DEF MigrationInv
<1>3. ASSUME Live(cr') PROVE ClearInv'
  <2>1. CASE Records
    BY <1>1, <1>3, <2>1, SameFlowCollector, ClearRecorded DEF Records, Created
  <2>2. CASE UNCHANGED cr /\ ~Records
    BY <1>3, <2>2, ClearQuiet, ClearGoesOn DEF Live
  <2> QED
    BY <1>1, <1>3, <2>1, <2>2, PatientNext, ClearCreated, ClearEdited
<1> QED
  BY <1>2, <1>3 DEF MigrationInv, Live

\* No Create of a migration is ever refused because its object exists, nor because its
\* namespace does not, as long as no earlier migration was cut short.
THEOREM MigrationCorrect ==
  ASSUME Calm, Uninterrupted PROVE Spec => []MigrationUnobstructed
BY MigrationInit, MigrationStep, NothingInTheWay, PTL DEF Spec
=============================================================================
