----------------------- MODULE FlowCollectorController -----------------------
(***************************************************************************)
(* The life of one FlowCollector custom resource under the operator: the   *)
(* Reconcile loop of controllers/flowcollector_controller.go, one action   *)
(* per API call that matters, with the users, the API server, the informer *)
(* cache of the resource, the garbage collector and operator restarts      *)
(* interleaved with it.                                                    *)
(*                                                                         *)
(* The workload reconcilers (goflow-kube, OVS, console plugin) are one     *)
(* step each here: what they leave in the target namespace.  Their own     *)
(* control flow is the subject of the module GoflowKube.                   *)
(***************************************************************************)
EXTENDS Naturals

CONSTANTS
  Namespaces,         \* namespaces the collector may be asked to live in
  OperatorNamespace,  \* const operatorNamespace
  Unset,              \* the empty string, as a namespace
  AskedNamespaces,    \* what users write into spec.namespace
  GoflowKinds,        \* kinds goflow-kube keeps in its namespace, its account apart
  PluginKinds,        \* kinds the plugin keeps in its namespace, its account apart
  ConsoleModes,       \* what isConsoleEnabled may answer when the process starts
  FailurePoints,      \* labels of Reconcile at which a call may fail or the process die
  DeletesMayFail,     \* may a Delete of CleanupNamespace fail
  HastyUsers,         \* may users write while the operator still works on their last change
  NamespaceDeletions, \* may somebody delete a namespace the operator uses
  MaxUid,             \* bounds: how many FlowCollectors are created,
  MaxDeletions,       \*         how many of them are deleted,
  MaxEdits, MaxFaults \*         how many edits users make, how many faults happen

GoflowAccount == "goflow-kube account"
PluginAccount == "plugin account"

ASSUME NamespaceAssumption ==
  /\ OperatorNamespace \in Namespaces
  /\ Unset \notin Namespaces
  /\ AskedNamespaces \subseteq Namespaces \union {Unset}

ASSUME KindAssumption ==
  /\ GoflowAccount \notin GoflowKinds \union PluginKinds
  /\ PluginAccount \notin GoflowKinds \union PluginKinds
  /\ GoflowKinds \intersect PluginKinds = {}

ASSUME EnvironmentAssumption ==
  /\ ConsoleModes \subseteq BOOLEAN /\ ConsoleModes # {}
  /\ DeletesMayFail \in BOOLEAN
  /\ HastyUsers \in BOOLEAN
  /\ NamespaceDeletions \in BOOLEAN
  /\ MaxUid \in Nat /\ MaxDeletions \in Nat /\ MaxEdits \in Nat /\ MaxFaults \in Nat

VARIABLES
  cr,            \* the FlowCollector as the API server stores it
  version,       \* last resource version given to it
  lastUid,       \* last uid given to a FlowCollector
  crCache,       \* the FlowCollector as the operator's informer knows it
  queued,        \* is a reconcile request in the work queue
  pc,            \* the next call of the running Reconcile, "idle" when none runs
  desired,       \* the copy of the FlowCollector that Reconcile works on
  console,       \* consoleEnabled of the running process
  existing,      \* namespaces that exist
  objs,          \* owner uid of each managed object, 0 when it does not exist
  clusterRole,   \* owner uid of the goflow-kube ClusterRole, 0 when absent
  binding,       \* the goflow-kube ClusterRoleBinding
  plugin,        \* the cluster-scoped ConsolePlugin
  flowsConfig,   \* the ovs-flows-config ConfigMap
  edits, faults  \* how much of the bounds is spent

resourceVars == <<cr, version, lastUid>>
operatorVars == <<crCache, queued, pc, desired, console>>
rbacVars     == <<clusterRole, binding>>
clusterVars  == <<existing, objs, plugin, flowsConfig>>
budgetVars   == <<edits, faults>>
vars == <<resourceVars, operatorVars, rbacVars, clusterVars, budgetVars>>

-----------------------------------------------------------------------------
(* The data.                                                               *)

NamespaceNames == Namespaces \union {Unset}

\* A FlowCollector, reduced to what Reconcile reads or writes of it.
FlowCollectors ==
  [uid : Nat, namespace : NamespaceNames, status : NamespaceNames,
   deleting : BOOLEAN, version : Nat]

Absent == [uid |-> 0, namespace |-> Unset, status |-> Unset,
           deleting |-> FALSE, version |-> 0]

\* A cluster-scoped object that names a namespace: binding, plugin, flows config.
Pointers == [owner : Nat, namespace : NamespaceNames]
NoObject == [owner |-> 0, namespace |-> Unset]

AccountKinds == {GoflowAccount, PluginAccount}
WorkKinds    == GoflowKinds \union PluginKinds
Slots        == (AccountKinds \union WorkKinds) \X Namespaces
WorkSlots    == WorkKinds \X Namespaces

\* Mutant: a list of managed objects without the service account.
GoflowManaged_NoAccount == GoflowKinds

GoflowManaged == GoflowKinds \union {GoflowAccount}
PluginManaged == PluginKinds \union {PluginAccount}

Labels == {"idle", "namespace", "goflowRole", "goflowCleanup", "goflowAccount",
           "goflowBinding", "pluginCleanup", "pluginAccount", "status",
           "goflow", "ovs", "plugin"}

\* getNamespaceName: an empty spec.namespace means the operator's own.
Target(c) == IF c.namespace # Unset THEN c.namespace ELSE OperatorNamespace

Live(c) == c.uid # 0 /\ ~c.deleting

FirstInstall == desired.status = Unset

\* SetControllerReference: every object the operator writes is owned by desired.
ControllerRef == desired.uid

TypeOK ==
  /\ cr \in FlowCollectors /\ crCache \in FlowCollectors
  /\ desired \in FlowCollectors
  /\ version \in Nat /\ lastUid \in Nat
  /\ queued \in BOOLEAN /\ console \in BOOLEAN
  /\ pc \in Labels
  /\ existing \subseteq Namespaces
  /\ objs \in [Slots -> Nat]
  /\ clusterRole \in Nat
  /\ binding \in Pointers /\ plugin \in Pointers /\ flowsConfig \in Pointers
  /\ edits \in Nat /\ faults \in Nat

-----------------------------------------------------------------------------
(* How Reconcile moves on, ends and wakes up.                              *)

Goto(label) == pc' = label

\* Reconcile returns: with nil, or with an error that puts the request back.
Return == Goto("idle") /\ desired' = Absent

\* Two mutants: the error is dropped; the request is tried again with the old copy.
Requeue_Dropped ==
  /\ Return
  /\ UNCHANGED <<resourceVars, crCache, queued, console, rbacVars, clusterVars>>

Requeue_InPlace ==
  /\ Goto("namespace")
  /\ UNCHANGED <<resourceVars, crCache, queued, desired, console, rbacVars, clusterVars>>

Requeue ==
  /\ Return
  /\ queued' = TRUE
  /\ UNCHANGED <<resourceVars, crCache, console, rbacVars, clusterVars>>

\* Mutant: a controller without Owns.
Notify_Nothing == UNCHANGED queued

\* The kinds SetupWithManager declares with Owns: their events requeue the owner.
Watched == <<[s \in WorkSlots |-> objs[s]], IF console THEN plugin ELSE NoObject,
             flowsConfig>>
Notify  == queued' = (queued \/ Watched' # Watched)

\* The operator has nothing to do and knows it.
Settled == pc = "idle" /\ ~queued /\ crCache = cr

Owners == {objs[s] : s \in Slots} \union
          {clusterRole, binding.owner, plugin.owner, flowsConfig.owner}

SpendFault == faults < MaxFaults /\ faults' = faults + 1 /\ UNCHANGED edits

Init ==
  /\ cr = Absent /\ crCache = Absent /\ desired = Absent
  /\ version = 0 /\ lastUid = 0
  /\ queued = FALSE /\ pc = "idle"
  /\ console \in ConsoleModes
  /\ existing = {OperatorNamespace}
  /\ objs = [s \in Slots |-> 0]
  /\ clusterRole = 0
  /\ binding = NoObject /\ plugin = NoObject /\ flowsConfig = NoObject
  /\ edits = 0 /\ faults = 0

-----------------------------------------------------------------------------
(* Reconcile, call by call.                                                *)

\* Mutant: a FlowCollector that waits for its deletion is reconciled too.
StartReconcile_Deleting ==
  /\ pc = "idle" /\ queued
  /\ queued' = FALSE
  /\ IF crCache.uid # 0
       THEN Goto("namespace") /\ desired' = crCache
       ELSE Return
  /\ UNCHANGED <<resourceVars, crCache, console, rbacVars, clusterVars, budgetVars>>

\* Get the FlowCollector from the cache; ignore one that is gone or going.
StartReconcile ==
  /\ pc = "idle" /\ queued
  /\ queued' = FALSE
  /\ IF Live(crCache)
       THEN Goto("namespace") /\ desired' = crCache
       ELSE Return
  /\ UNCHANGED <<resourceVars, crCache, console, rbacVars, clusterVars, budgetVars>>

\* Mutant: the previous namespace is left as it is.
AfterNamespace_NoCleanup ==
  IF Target(desired) = desired.status THEN "goflow"
  ELSE IF FirstInstall THEN "goflowRole" ELSE "goflowAccount"

\* Where Reconcile goes once the namespace exists.
AfterNamespace ==
  IF Target(desired) = desired.status THEN "goflow"
  ELSE IF FirstInstall THEN "goflowRole" ELSE "goflowCleanup"

\* Mutant: the namespace of the spec, without its default.
EnsureNamespace_NoDefault ==
  /\ pc = "namespace"
  /\ existing' = existing \union {desired.namespace}
  /\ Goto(AfterNamespace)
  /\ UNCHANGED <<resourceVars, crCache, queued, desired, console, rbacVars,
                 objs, plugin, flowsConfig, budgetVars>>

EnsureNamespace ==
  /\ pc = "namespace"
  /\ existing' = existing \union {Target(desired)}
  /\ Goto(AfterNamespace)
  /\ UNCHANGED <<resourceVars, crCache, queued, desired, console, rbacVars,
                 objs, plugin, flowsConfig, budgetVars>>

\* Mutant: a ClusterRole that exists already is good enough.
CreateClusterRole_Adopt ==
  /\ pc = "goflowRole"
  /\ clusterRole' = IF clusterRole = 0 THEN ControllerRef ELSE clusterRole
  /\ Goto("goflowAccount")
  /\ UNCHANGED <<resourceVars, crCache, queued, desired, console, binding,
                 clusterVars, budgetVars>>

\* Create of the ClusterRole, on the first install only: an error if it exists.
CreateClusterRole ==
  /\ pc = "goflowRole"
  /\ \/ /\ clusterRole = 0
        /\ clusterRole' = ControllerRef
        /\ Goto("goflowAccount")
        /\ UNCHANGED <<resourceVars, crCache, queued, desired, console, binding,
                       clusterVars>>
     \/ /\ clusterRole # 0
        /\ Requeue
  /\ UNCHANGED budgetVars

\* Mutant: the namespace to clean is taken from the spec.
Previous_Target(kinds) == {s \in kinds \X {Target(desired)} : objs[s] # 0}

\* The managed objects in the previous namespace.
Previous(kinds) == {s \in kinds \X {desired.status} : objs[s] # 0}

Without(slots) == [s \in Slots |-> IF s \in slots THEN 0 ELSE objs[s]]

\* CleanupNamespace deletes them one by one, an account after what runs under it.  A
\* Delete that fails is logged and never retried: Reconcile moves on with objects left.
Cleanup(kinds, next) ==
  /\ \/ /\ \E s \in Previous(kinds) :
             /\ s[1] \in AccountKinds => Previous(kinds \ AccountKinds) = {}
             /\ objs' = Without({s})
        /\ UNCHANGED <<pc, budgetVars>>
     \/ /\ Previous(kinds) = {} /\ UNCHANGED <<objs, budgetVars>>
        /\ Goto(next)
     \/ /\ DeletesMayFail /\ SpendFault
        /\ \E gone \in SUBSET Previous(kinds) : gone # Previous(kinds) /\ objs' = Without(gone)
        /\ Goto(next)
  /\ UNCHANGED <<resourceVars, crCache, desired, console, rbacVars,
                 existing, plugin, flowsConfig>>
  /\ Notify

CleanupGoflow == pc = "goflowCleanup" /\ Cleanup(GoflowManaged, "goflowAccount")
CleanupPlugin == pc = "pluginCleanup" /\ Cleanup(PluginManaged, "pluginAccount")

\* Create of a service account in the target namespace: an error if the account
\* exists already, or if the namespace does not.
CreateAccount(account, next) ==
  LET slot == <<account, Target(desired)>> IN
  /\ \/ /\ objs[slot] = 0 /\ Target(desired) \in existing
        /\ objs' = [objs EXCEPT ![slot] = ControllerRef]
        /\ Goto(next)
        /\ UNCHANGED <<resourceVars, crCache, queued, desired, console, rbacVars,
                       existing, plugin, flowsConfig>>
     \/ /\ objs[slot] # 0 \/ Target(desired) \notin existing
        /\ Requeue
  /\ UNCHANGED budgetVars

CreateGoflowAccount == pc = "goflowAccount" /\ CreateAccount(GoflowAccount, "goflowBinding")
CreatePluginAccount == pc = "pluginAccount" /\ CreateAccount(PluginAccount, "status")

\* handleNamespaceChanged after the goflow-kube permissions.
AfterBinding ==
  IF ~console THEN "status"
  ELSE IF FirstInstall THEN "pluginAccount" ELSE "pluginCleanup"

\* Mutant: the migration binds the account of the previous namespace.
WriteBinding_Previous ==
  /\ pc = "goflowBinding"
  /\ FirstInstall => binding = NoObject
  /\ binding' = [owner |-> ControllerRef,
                 namespace |-> IF FirstInstall THEN Target(desired) ELSE desired.status]
  /\ Goto(AfterBinding)
  /\ UNCHANGED <<resourceVars, crCache, queued, desired, console, clusterRole,
                 clusterVars, budgetVars>>

\* The ClusterRoleBinding: created on the first install, else updated without a
\* resource version, so that the last write wins.
WriteBinding ==
  /\ pc = "goflowBinding"
  /\ \/ /\ FirstInstall => binding = NoObject
        /\ binding' = [owner |-> ControllerRef, namespace |-> Target(desired)]
        /\ Goto(AfterBinding)
        /\ UNCHANGED <<resourceVars, crCache, queued, desired, console,
                       clusterRole, clusterVars>>
     \/ /\ FirstInstall /\ binding # NoObject
        /\ Requeue
  /\ UNCHANGED budgetVars

\* Mutant: a patch of the status, whatever the stored version is.
UpdateStatus_Patch ==
  LET updated == [cr EXCEPT !.status = Target(desired), !.version = version + 1] IN
  /\ pc = "status" /\ cr.uid = desired.uid
  /\ cr' = updated /\ desired' = updated /\ version' = version + 1
  /\ Goto("goflow")
  /\ UNCHANGED <<lastUid, crCache, queued, console, rbacVars, clusterVars, budgetVars>>

\* Mutant: a conflict is taken for a success.
UpdateStatus_Ignored ==
  /\ pc = "status"
  /\ IF cr.uid = desired.uid /\ cr.version = desired.version
       THEN /\ cr' = [desired EXCEPT !.status = Target(desired), !.version = version + 1]
            /\ desired' = cr' /\ version' = version + 1
       ELSE UNCHANGED <<cr, desired, version>>
  /\ Goto("goflow")
  /\ UNCHANGED <<lastUid, crCache, queued, console, rbacVars, clusterVars, budgetVars>>

\* Status().Update: refused unless desired is the stored version.
UpdateStatus ==
  LET updated == [desired EXCEPT !.status = Target(desired), !.version = version + 1] IN
  /\ pc = "status"
  /\ \/ /\ cr.uid = desired.uid /\ cr.version = desired.version
        /\ cr' = updated /\ desired' = updated /\ version' = version + 1
        /\ Goto("goflow")
        /\ UNCHANGED <<lastUid, crCache, queued, console, rbacVars, clusterVars>>
     \/ /\ cr.uid # desired.uid \/ cr.version # desired.version
        /\ Requeue
  /\ UNCHANGED budgetVars

\* What a workload reconciler leaves in the target namespace: it creates what is
\* missing and rewrites some of what is there.
Deploy(kinds, rewritten) ==
  objs' = [s \in Slots |-> IF s \in kinds \X {Target(desired)} /\ (objs[s] = 0 \/ s \in rewritten)
                             THEN ControllerRef ELSE objs[s]]

Stale(kinds) ==
  {s \in kinds \X {Target(desired)} : objs[s] \notin {0, ControllerRef}}

\* gfReconciler.Reconcile
ReconcileGoflow ==
  /\ pc = "goflow" /\ Target(desired) \in existing
  /\ \E rewritten \in SUBSET Stale(GoflowKinds) : Deploy(GoflowKinds, rewritten)
  /\ Goto("ovs")
  /\ UNCHANGED <<resourceVars, crCache, desired, console, rbacVars,
                 existing, plugin, flowsConfig, budgetVars>>
  /\ Notify

\* ovsConfigController.Reconcile writes the map when it differs from the spec.
ReconcileOvs ==
  LET wanted == [owner |-> ControllerRef, namespace |-> Target(desired)] IN
  /\ pc = "ovs"
  /\ flowsConfig' = IF flowsConfig.namespace = wanted.namespace THEN flowsConfig ELSE wanted
  /\ IF console THEN Goto("plugin") /\ UNCHANGED desired ELSE Return
  /\ UNCHANGED <<resourceVars, crCache, console, rbacVars, existing, objs, plugin, budgetVars>>
  /\ Notify

\* cpReconciler.Reconcile: the cluster-scoped plugin, then the objects of the namespace.
WritePlugin ==
  plugin' = IF plugin.namespace = Target(desired) THEN plugin
            ELSE [owner |-> ControllerRef, namespace |-> Target(desired)]

ReconcilePlugin ==
  /\ pc = "plugin" /\ Target(desired) \in existing
  /\ WritePlugin
  /\ \E rewritten \in SUBSET Stale(PluginKinds) : Deploy(PluginKinds, rewritten)
  /\ Return
  /\ UNCHANGED <<resourceVars, crCache, console, rbacVars, existing, flowsConfig, budgetVars>>
  /\ Notify

\* A workload reconciler stops half way: the request comes back.
StopHalfWay(kinds) ==
  /\ \E done \in SUBSET kinds : \E rewritten \in SUBSET Stale(done) : Deploy(done, rewritten)
  /\ IF pc = "plugin" THEN WritePlugin ELSE UNCHANGED plugin
  /\ Return
  /\ queued' = TRUE
  /\ UNCHANGED <<resourceVars, crCache, console, rbacVars, existing, flowsConfig>>

\* It can create nothing in a namespace that was deleted meanwhile.
DeployNowhere ==
  /\ pc \in {"goflow", "plugin"} /\ Target(desired) \notin existing
  /\ StopHalfWay({})
  /\ UNCHANGED budgetVars

-----------------------------------------------------------------------------
(* Failures.                                                               *)

\* The call Reconcile is about to make fails, or its answer to the previous one was
\* lost: the error is returned and the request comes back.  A clean-up returns none.
CallFails ==
  /\ pc \in FailurePoints \ {"idle", "ovs", "goflowCleanup", "pluginCleanup"}
  /\ Requeue
  /\ SpendFault

\* A call of a workload reconciler fails, after some others.
DeployFails ==
  /\ pc \in {"goflow", "plugin"} \intersect FailurePoints
  /\ Target(desired) \in existing
  /\ StopHalfWay(IF pc = "goflow" THEN GoflowKinds ELSE PluginKinds)
  /\ SpendFault

\* ovsConfigController.Reconcile fails: Reconcile logs the error and goes on.
OvsFails ==
  /\ pc = "ovs" /\ pc \in FailurePoints
  /\ IF console THEN Goto("plugin") /\ UNCHANGED desired ELSE Return
  /\ UNCHANGED <<resourceVars, crCache, queued, console, rbacVars, clusterVars>>
  /\ SpendFault

\* The process dies and another one starts: it lists the FlowCollectors, asks again
\* whether the cluster has the console API (an API group does not go away).
Restart ==
  /\ pc \in FailurePoints
  /\ Return
  /\ crCache' = cr
  /\ queued' = (cr.uid # 0)
  /\ \E mode \in ConsoleModes : (console => mode) /\ console' = mode
  /\ UNCHANGED <<resourceVars, rbacVars, clusterVars>>
  /\ SpendFault

-----------------------------------------------------------------------------
(* The environment.                                                        *)

\* The informer catches up with the API server.
Inform ==
  /\ crCache # cr
  /\ crCache' = cr
  /\ queued' = TRUE
  /\ UNCHANGED <<resourceVars, pc, desired, console, rbacVars, clusterVars, budgetVars>>

Store(c) ==
  /\ cr' = c
  /\ UNCHANGED <<operatorVars, rbacVars, clusterVars>>

CreateFlowCollector ==
  /\ cr.uid = 0 /\ lastUid < MaxUid
  /\ HastyUsers \/ (Settled /\ Owners = {0})
  /\ lastUid' = lastUid + 1 /\ version' = version + 1
  /\ \E n \in AskedNamespaces :
       Store([uid |-> lastUid + 1, namespace |-> n, status |-> Unset,
              deleting |-> FALSE, version |-> version + 1])
  /\ UNCHANGED budgetVars

\* A user writes the spec, its namespace or something else in it.
EditFlowCollector ==
  /\ Live(cr) /\ edits < MaxEdits
  /\ HastyUsers \/ cr.status = Target(cr)
  /\ \E n \in AskedNamespaces :
       Store([cr EXCEPT !.namespace = n, !.version = version + 1])
  /\ version' = version + 1 /\ edits' = edits + 1
  /\ UNCHANGED <<lastUid, faults>>

\* A user deletes it: at once, or in the foreground, after all it owns.
DeleteFlowCollector ==
  /\ Live(cr) /\ cr.uid <= MaxDeletions
  /\ \/ Store(Absent) /\ UNCHANGED version
     \/ Store([cr EXCEPT !.deleting = TRUE, !.version = version + 1]) /\ version' = version + 1
  /\ UNCHANGED <<lastUid, budgetVars>>

\* The garbage collector (external): an owner that does not exist, or that waits for
\* what it owns to disappear.
Garbage(owner) == owner # 0 /\ (owner # cr.uid \/ cr.deleting)

CollectObject(s) ==
  /\ Garbage(objs[s])
  /\ objs' = [objs EXCEPT ![s] = 0]
  /\ UNCHANGED <<existing, plugin, flowsConfig, rbacVars>>

CollectRbac ==
  /\ \/ Garbage(clusterRole) /\ clusterRole' = 0 /\ UNCHANGED binding
     \/ Garbage(binding.owner) /\ binding' = NoObject /\ UNCHANGED clusterRole
  /\ UNCHANGED clusterVars

CollectClusterScoped ==
  /\ \/ Garbage(plugin.owner) /\ plugin' = NoObject /\ UNCHANGED flowsConfig
     \/ Garbage(flowsConfig.owner) /\ flowsConfig' = NoObject /\ UNCHANGED plugin
  /\ UNCHANGED <<existing, objs, rbacVars>>

CollectGarbage ==
  /\ (\E s \in Slots : CollectObject(s)) \/ CollectRbac \/ CollectClusterScoped
  /\ UNCHANGED <<resourceVars, crCache, pc, desired, console, budgetVars>>
  /\ Notify

FinishDeletion ==
  /\ cr.deleting /\ cr.uid \notin Owners
  /\ Store(Absent)
  /\ UNCHANGED <<version, lastUid, budgetVars>>

\* Somebody deletes an object the operator made.
DeleteOwnedObject ==
  /\ SpendFault
  /\ \/ /\ \E s \in WorkSlots : objs[s] # 0 /\ objs' = [objs EXCEPT ![s] = 0]
        /\ UNCHANGED <<plugin, flowsConfig>>
     \/ plugin # NoObject /\ plugin' = NoObject /\ UNCHANGED <<objs, flowsConfig>>
     \/ flowsConfig # NoObject /\ flowsConfig' = NoObject /\ UNCHANGED <<objs, plugin>>
  /\ UNCHANGED <<resourceVars, crCache, pc, desired, console, rbacVars, existing>>
  /\ Notify

\* Somebody deletes a namespace, and with it all it holds.
DeleteNamespace ==
  /\ NamespaceDeletions
  /\ \E n \in existing :
       /\ existing' = existing \ {n}
       /\ objs' = [s \in Slots |-> IF s[2] = n THEN 0 ELSE objs[s]]
  /\ SpendFault
  /\ UNCHANGED <<resourceVars, crCache, pc, desired, console, rbacVars, plugin, flowsConfig>>
  /\ Notify

-----------------------------------------------------------------------------
Reconcile ==
  \/ StartReconcile \/ EnsureNamespace
  \/ CreateClusterRole \/ CleanupGoflow \/ CreateGoflowAccount \/ WriteBinding
  \/ CleanupPlugin \/ CreatePluginAccount \/ UpdateStatus
  \/ ReconcileGoflow \/ ReconcileOvs \/ ReconcilePlugin \/ DeployNowhere

Failures == CallFails \/ DeployFails \/ OvsFails \/ Restart

Users == \/ CreateFlowCollector \/ EditFlowCollector \/ DeleteFlowCollector
         \/ DeleteOwnedObject \/ DeleteNamespace

Next == Reconcile \/ Failures \/ Users \/ Inform \/ CollectGarbage \/ FinishDeletion

Spec == Init /\ [][Next]_vars

\* The worker, the informers and the garbage collector do not stop; users and faults
\* owe nothing.
Fairness ==
  /\ WF_vars(Reconcile) /\ WF_vars(Inform)
  /\ WF_vars(CollectGarbage) /\ WF_vars(FinishDeletion)

FairSpec == Spec /\ Fairness

-----------------------------------------------------------------------------
(* What is promised at every moment, whatever users, failures and restarts do. *)

\* A FlowCollector whose status names a namespace has its cluster role and its role
\* binding: handleNamespaceChanged records the namespace last, and the role that only
\* the first install creates is never left to a later pass that would not create it.
RolesRecorded ==
  Live(cr) /\ cr.status # Unset => clusterRole = cr.uid /\ binding.owner = cr.uid

\* The status always tells where the workloads are: none that belongs to the current
\* FlowCollector is in a namespace other than the one its status names, which is the
\* only one a later CleanupNamespace would clean.
WorkOnlyInRecordedNamespace ==
  \A s \in WorkSlots : objs[s] = cr.uid /\ cr.uid # 0 => s[2] = cr.status

\* No work is ever made in a namespace that is not recorded, not even where the clean-up of
\* an earlier one failed and left some.
WorkStep ==
  \A s \in WorkSlots :
    objs'[s] # objs[s] /\ objs'[s] = cr.uid /\ cr.uid # 0 => s[2] = cr.status
WorkAppearsAtHome == [][WorkStep]_vars

\* The status never comes to name a namespace that the stored spec does not ask for:
\* a Reconcile that works on an outdated copy cannot write it.
StatusStep == cr'.uid = cr.uid /\ cr'.status # cr.status => cr'.status = Target(cr')
StatusFollowsSpec == [][StatusStep]_vars

\* Seen from outside, the operator is a CollectorHome: a namespace is recorded only when
\* the previous one holds no work any more, and work appears only in the recorded one.
WorkNamespaces == {s[2] : s \in {t \in WorkSlots : cr.uid # 0 /\ objs[t] = cr.uid}}

Home == INSTANCE CollectorHome WITH
  None     <- Unset,
  asked    <- IF cr.uid = 0 THEN Unset ELSE Target(cr),
  recorded <- cr.status,
  work     <- WorkNamespaces

ImplementsHome == Home!Spec

(* What the operator brings about.                                         *)

AtHome(pointer) == pointer = [owner |-> cr.uid, namespace |-> Target(cr)]

WantedKinds == GoflowManaged \union (IF console THEN PluginManaged ELSE {})

\* The cluster is what the FlowCollector asks for: everything is in the namespace of
\* its spec and nothing elsewhere, and every cluster-wide object points there.
Deployed ==
  /\ cr.status = Target(cr)
  /\ clusterRole = cr.uid /\ AtHome(binding) /\ AtHome(flowsConfig)
  /\ console => AtHome(plugin)
  /\ \A s \in Slots : objs[s] = IF s[1] \in WantedKinds /\ s[2] = Target(cr)
                                THEN cr.uid ELSE 0

\* "move the current state of the cluster closer to the desired state": once users and
\* failures are over, the cluster becomes and stays what the FlowCollector asks for.
Converges == <>[](Live(cr) => Deployed)

\* Nothing is left to an event that will not come: when the operator rests and no
\* garbage is left, the FlowCollector is deployed.
SettledDeployed == Settled /\ Live(cr) /\ Owners \subseteq {0, cr.uid} => Deployed

\* No pod is ever asked for before it may run: a workload is always beside its service
\* account, the collector's with the role bound to that very account.  (A console API that
\* appears after the installation leaves the plugin without its account.)
WorkIsPermitted ==
  \A s \in WorkSlots :
    Live(cr) /\ objs[s] = cr.uid =>
      IF s[1] \in PluginKinds THEN objs[<<PluginAccount, s[2]>>] = cr.uid
      ELSE /\ objs[<<GoflowAccount, s[2]>>] = cr.uid
           /\ clusterRole = cr.uid
           /\ binding = [owner |-> cr.uid, namespace |-> s[2]]

\* What handleNamespaceChanged creates is never there already: it knows no other verb than
\* Create, so that an account, a role or a binding that an earlier migration left in its way
\* would fail this one, and every retry of it.
MigrationUnobstructed ==
  Live(cr) /\ desired = cr =>
    /\ pc = "goflowRole" => clusterRole = 0
    /\ pc = "goflowAccount" => objs[<<GoflowAccount, Target(cr)>>] = 0
    /\ pc = "goflowBinding" /\ FirstInstall => binding = NoObject
    /\ pc = "pluginAccount" => objs[<<PluginAccount, Target(cr)>>] = 0
    /\ pc \in {"goflowAccount", "pluginAccount"} => Target(cr) \in existing

\* The operator does not hold up a deletion by recreating what the collector removes,
\* and a Reconcile that was under way leaves nothing behind for ever.
DeletionCompletes == cr.deleting ~> ~cr.deleting
NothingOutlives == <>[](Owners \subseteq {0, cr.uid})

(* What comments of the code promise and the code does not keep.           *)

\* "Service account has to be re-created when namespace changes".
AccountFollowsNamespace ==
  Settled /\ Live(cr) /\ Owners \subseteq {0, cr.uid} =>
    objs[<<GoflowAccount, Target(cr)>>] = cr.uid

\* "Switching namespace => delete everything in the previous namespace".
PreviousNamespaceCleaned ==
  Settled /\ Live(cr) => \A s \in Slots : objs[s] = cr.uid => s[2] = cr.status
=============================================================================
