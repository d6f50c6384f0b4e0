# A verification project for the Network Observability Operator

The operator (`src/main.go`, `src/controllers`, `src/api`) installs a flow collector in a
cluster. A cluster-scoped custom resource, the *FlowCollector*, says in which namespace
and how; the operator makes the cluster look like it. These modules model that loop, its
environment and its failures, TLC checks them on small instances, and TLAPS proves the
safety properties for every instance.

## 1. Inventory

| Part | State it keeps | Operations | Interacts with |
|---|---|---|---|
| FlowCollector controller (`flowcollector_controller.go`) | `consoleEnabled`; a local copy `desired` while a pass runs; the work queue and the informer cache, both of the controller-runtime library | `Reconcile`, `handleNamespaceChanged`, `SetupWithManager` | API server (Get from the cache, Create/Update directly), all reconcilers below |
| Namespaced object manager, client helper (`reconcilers/`) | the objects found by `FetchAll`, for one pass | `FetchAll`, `CleanupNamespace`, `TryDelete`, `CreateOwned`, `UpdateOwned` | API server |
| goflow-kube reconciler (`goflowkube/`) | none beyond the pass; in the cluster: ClusterRole, ClusterRoleBinding, ServiceAccount, ConfigMap, Deployment + Service + autoscaler, or DaemonSet | `InitStaticResources`, `PrepareNamespaceChange`, `Reconcile` | manager, helper |
| Console plugin reconciler (`consoleplugin/`) | in the cluster: ServiceAccount, Deployment, Service, and the cluster-scoped ConsolePlugin | the same three | manager, helper |
| OVS flows config controller (`ovs/`) | in the cluster: the ConfigMap `ovs-flows-config` in the namespace of the network operator | `Reconcile` (current, desired by DNS, create or update) | API server, DNS, the Service of goflow-kube |
| API types (`api/v1alpha1`) | the FlowCollector: `spec`, and `status.namespace`, the only memory that survives a pass | validation and defaults, by the API server | everything |
| Process start (`main.go`) | - | flags, leader election, manager | controller |

The parts run in one worker: a request for the FlowCollector is taken from the queue, and
`Reconcile` runs to its end or to its first error, which puts the request back. What makes
this hard is around it: every call may fail, or succeed and lose its answer; the process
may die between two calls; users write, delete and recreate the FlowCollector meanwhile;
the caches lag behind the API server; the garbage collector and the autoscaler write the
same objects; and the one persistent fact the operator relies on, `status.namespace`, is
written after the work it stands for.

What makes each part correct:

* controller: `status.namespace` tells where everything is; a namespace change cleans,
  prepares, records and deploys in that order; an outdated copy never decides; the cluster
  becomes what the spec asks for, unless something interrupts a migration (see findings);
  a deleted FlowCollector leaves nothing.
* goflow-kube: the objects of the asked kind, none of the other; the digest that restarts
  the pods belongs to the configuration they will read; no fight with the autoscaler.
* console plugin: a created Service is a fixpoint of its own comparison, and so is an
  updated one; the plugin points to the namespace of its Service.
* OVS: the address in the map is the collector's, in the end.
* object manager: what was not found is not deleted or updated; a failed delete is only
  harmless if somebody comes back to it.

The full list of hazards, with the line where each bites, is in `PROJECT.json`.

## 2. Modules

| Module | What it is |
|---|---|
| `CollectorHome` | abstract: workloads live in one recorded namespace; the record moves only when no work is left |
| `LevelTriggered` | abstract: nothing goes wrong unannounced, and an operator left with no announcement leaves nothing wrong; implemented by `GoflowKube` and by `ConsolePlugin` |
| `FlowCollectorController` | the life of one FlowCollector: every call of `Reconcile` and `handleNamespaceChanged`, users, cache, garbage collector, restarts |
| `MCFlowCollectorController` | names for the sets of labels at which TLC lets a run fail |
| `FlowCollectorControllerProofs` | its theorems that ask nothing of users and failures |
| `FlowCollectorPermissionsProofs`, `FlowCollectorDeployedProofs` | its theorems for users who wait, whatever fails |
| `FlowCollectorMigrationProofs` | its theorem for migrations in which no call fails |
| `GoflowKube`, `GoflowKubeProofs` | `GFKReconciler.Reconcile` in one namespace, call by call, on lagging caches |
| `ConsolePlugin`, `ConsolePluginProofs` | `CPReconciler.Reconcile` in one namespace, with its comparison and build functions |
| `OvsFlowsConfig`, `OvsFlowsConfigProofs` | `FlowsConfigController.Reconcile`: the string map, the DNS, errors that are only logged |

`FlowCollectorController` composes the system: there each reconciler is one step, which may stop
after any part of its calls. `GoflowKube`, `ConsolePlugin` and `OvsFlowsConfig` each open one of these
steps for a fixed namespace, with caches per kind of object and the contents the code compares.

### FlowCollectorController

Variables to code: `cr` is the stored resource, `crCache` what `r.Get` returns, `desired`
the local of `Reconcile`, `pc` the call it is about to make, `queued` the work queue with its
one key, `console` is `consoleEnabled`, `existing` the namespaces, `objs` the namespaced
objects by kind and namespace, each reduced to the uid of its controller reference (0: it
does not exist), and `clusterRole`, `binding`, `plugin`, `flowsConfig` the four others.
The pointers among these keep the namespace they name.

* `StartReconcile`, `EnsureNamespace`: the cached Get, the early returns for a resource
  that is gone or going, the namespace.
* `CreateClusterRole`, `CleanupGoflow`, `CreateGoflowAccount`, `WriteBinding`,
  `CleanupPlugin`, `CreatePluginAccount`, `UpdateStatus`: `handleNamespaceChanged`, one
  action per call to the API server, in its order. An error path is a disjunct of the action.
* `ReconcileGoflow`, `ReconcileOvs`, `ReconcilePlugin`: the three reconcilers, one step
  each; `DeployFails` stops one of them after any part of its calls, `OvsFails` is the error
  that is only logged, `DeployNowhere` the namespace that is not there any more.
* `CallFails`, `Restart`: any other call fails or its answer is lost; the process dies.
* `Inform`, users' actions, `CollectGarbage`, `FinishDeletion`: the environment.

Abstractions: `CleanupNamespace` deletes one object per step, in any order but for the service
account, which the code registers after the workloads; deletes that fail are one step that
leaves any part of the objects behind and spends a fault. What the
users' spec says beyond the namespace is the subject of the three other modules. One FlowCollector
exists at a time: the operator is written for a single one, but does not enforce it.
`SetControllerReference` compares group, kind and name, not uid, so that an object of a
deleted FlowCollector can be taken over: `Deploy` may do so, in a pass that fails as in one that does not. The role binding is
updated without a resource version, so that its last write wins and it is created if absent.

### GoflowKube

`server` is what is stored, `cache` what the informers know, `late` the kinds whose event has
not come, `fetched` the result of `FetchAll`, and `current` the kinds of which the stored
object still has the fetched resource version. An object is what it was built from; two
configurations differ in everything the code compares. `Put` is "create if not found, update
if different" with its conflict and already-exists errors, `Drop` is `TryDelete`, and
`undeleted` what it has logged as not deleted in the running pass, or else in the last one: the code
decides nothing on it, the property `LeftoversLogged` does.
`ConfigMapNeedsUpdate` is TRUE because the code compares a pointer to a ConfigMap with a
map, which never are equal. An informer catches up with the stored state in one step. The
autoscaler controller is `Autoscale`.

### ConsolePlugin

The same five views of three objects: the cluster-scoped ConsolePlugin, the Deployment and the
Service. `pluginNeedsUpdate`, `deploymentNeedsUpdate` (with `hasLokiURLChanged` and
`containerNeedsUpdate`), `serviceNeedsUpdate` and the `build...` functions have the names they have
in the code and compare the fields the code compares; `pod` stands for image, pull policy and
resources, which are copied and compared alike. `querierURL` is the address of Loki that falls
back to another when it is empty; the API admits that both are (no `MinLength` in
`flowcollector_types.go`), and then the Deployment is given the empty address. `buildService` gives TCP to a Service it creates and UDP to one
it updates (finding 5). A write that changes nothing leaves the resource version and brings no
event, as in the API server: this is what ends the updates of a UDP Service, and `ComesToRest`
checks that it does. `Tamper` deletes, scales or repairs objects by hand, `Rollout` is a write of
the deployment controller. FetchAll and the Get of the ConsolePlugin are one step, and no time
passes between them; an event in between is one before or after both.

### OvsFlowsConfig

A pass is `StartReconcile`, `ReconcileGoflow` (of which only what happens to the Service matters),
`ReadConfigs` (`current` and `desired`), `WriteConfig`, and the return, error or not
(`Return`; `outcome` remembers which). `maps` holds one map, or none, for each possible
`spec.cno.namespace`, each a function from some keys to numbers or `Garbage`. `asStringMap` leaves
zeros out, `configFromMap` reads what is left out as zero, `Decodable` is where `WeakDecode` refuses
a value. The Service has a new address each time it is created (`lastAddress`); `dns` follows it in
its own time, and the code asks it only when the cache knows a Service. The update of the map is
without a resource version: the last write wins, and it fails if the map is gone.

## 3. Runs

| Run | Shows | Bounds |
|---|---|---|
| `chaos` | types; the status tells where the work is; the status follows the stored spec; `CollectorHome` is implemented | 2 namespaces, one of them also the default; 3 edits; 2 faults at any call but the Deletes of a clean-up, which succeed here (finding 3); console detected at start or later; namespaces deleted |
| `recreated` | a recorded status has its permissions; work appears only where the status says, even when a clean-up has left some elsewhere; deletions complete; nothing outlives its FlowCollector | 2 FlowCollectors, 1 deletion (background or foreground), 1 edit, 1 fault at any call or 1 clean-up with failed deletes |
| `converges` | rest means deployed; pods, the console's too, come after permissions; no migration meets what an earlier one made; the cluster converges | 3 namespaces; 3 edits; 2 faults outside a migration or owned objects deleted by hand; users wait for the last change to be recorded |
| `goflow_kube` | rest means converged; the objects converge | 2 configurations, both kinds, with or without autoscaler; 1 edit, 1 fault |
| `goflow_kube_chaos` | types; the wanted objects are served; what could not be deleted, and nothing else, is left over; digest and config map; `LevelTriggered` is implemented | the same, deletes may fail, and up to 2 edits: there and back again is the shortest way to a cache that is right by accident. `MaxTroubles` bounds edits and faults together |
| `console_plugin` | types; rest means that the three objects agree with the spec and with each other; the operator comes to rest; no repair of the Service is undone; `LevelTriggered` is implemented | 2 ports, with and without an address of the querier and of Loki; 1 edit, 2 faults or changes by hand; perhaps a ConsolePlugin that points to a former namespace |
| `ovs_flows_config` | types; rest after a pass without error means that the map decodes to the spec; no map names two targets, or one that never was; the map follows the spec and the Service in the end | 2 network operator namespaces, both kinds, sampling 0 or 1; 2 edits or faults together |
| `first_install_edited`, `migration_reverted`, `delete_fails`, `autoscaler_fought`, `console_port_changed` | the five findings | the smallest instance that shows each |

Why the bounds are enough: the code distinguishes the target namespace from the recorded one
only by equality, and knows one previous namespace; the second and third edit bring the
third value the status or a stale copy can hold, the second fault an interrupted retry. In the
three other modules a pass knows one copy of the specification, so that an edit gives it an outdated one,
and one fault a lost write or an object changed behind its back. In `FlowCollectorController` one
kind of object stands for each reconciler because all kinds of one are treated alike.
`EditFlowCollector` may also write the same namespace: an edit of anything else. Deadlock is not checked
where the system stops at rest with its bounds spent; in `ovs_flows_config` the resync never stops.
The safety properties of these seven runs also are proved for every bound (section 5), so that a
bound only limits what is said about liveness.

### Fairness

`WF(Reconcile)`: the worker goroutine takes a queued request and its calls return;
`WF(Inform)`, `WF(CollectGarbage)`, `WF(FinishDeletion)`, `WF(Autoscale)`, `WF(UpdateDns)`: watches
deliver, and the cluster's controllers and its DNS run. `WF(Resync)` in `OvsFlowsConfig`: the informers
hand out everything they hold again from time to time; `main.go` sets no `SyncPeriod`, and the
default of the library is ten hours
(`src/vendor/sigs.k8s.io/controller-runtime/pkg/cache/cache.go`). Without it `Converges` does not
hold there: an error of the OVS controller, and a DNS that changes after the last event, wake
nobody up. The other modules converge without a resync, and have none. Users and faults get no
fairness. A retry after an error is a queued
request like any other (the library's back-off is a delay, not a refusal).

### What "converges" asks for, and why

`Converges` and `SettledDeployed` of `FlowCollectorController` do not hold for everything users and
failures can do, and the violation runs say exactly when. In run `converges`, faults happen at any label outside
`handleNamespaceChanged` and not in the OVS step, and users write only when their last namespace is in
the status. `WorkIsPermitted` and `MigrationUnobstructed` are checked under the same conditions. Objects
that are not watched are not deleted by hand there. For `Converges` and `MigrationUnobstructed` the
failures within a migration must be left out: the retry meets what the first try made (finding 1). For
`WorkIsPermitted` and `SettledDeployed` they need not be, and the theorems of section 5 allow them: such
an operator retries for ever, but deploys nothing without its permissions. `Converges` of `OvsFlowsConfig` promises nothing
once somebody leaves a value in the map that cannot be decoded: every pass then ends before it could
rewrite it.

## 4. Findings

1. *First install* (`first_install_edited`): an edit, a failed call or a restart between the
   creation of the ClusterRole and the status update makes each later pass fail on "already
   exists".
2. *Reverted namespace change* (`migration_reverted`): the service account is gone, and the pass
   that sees no namespace change does not recreate it. An onward change (to a third
   namespace) leaves the account of the second behind; the same code, not a run.
3. *Clean-up* (`delete_fails`): a failed Delete is logged and forgotten.
4. *Autoscaler* (`autoscaler_fought`): the operator resets the replicas to the spec's.
5. *Port of the console plugin* (`console_port_changed`): an update of the Service makes it UDP
   (`consoleplugin_objects.go:126`), which `serviceNeedsUpdate` and the tests
   (`consoleplugin_test.go:101-104`) call wrong; every later pass writes the same again, and it stays.

## 5. Proofs

All theorems rest on the assumptions on the constants, and on the conditions named here.

### FlowCollectorControllerProofs

* `TypeCorrect`, `StatusCorrect`, `RolesCorrect`; `PlacementCorrect` and `HomeCorrect` with
  `~DeletesMayFail` (finding 3).
* The status theorem needs the relation of the three copies of the FlowCollector (`CopiesInv`):
  a version and a uid are given once (`Identity`); the cache is behind the server and the pass
  behind the cache until it writes the status (`Ordered`); a copy whose status is
  outdated asks for another namespace than that status (`OutdatedMigrates`), which is what keeps a stale
  pass from skipping the migration; and a pass that deploys does so for the recorded namespace
  (`DeployAtHome`).
* The placement theorem adds where objects are between the steps of a migration
  (`GoflowCleaned`, `PluginCleaned`: after its clean-up a reconciler owns nothing anywhere), that
  without a console no plugin object exists (`NoPluginWithoutConsole`), that owners are uids that
  were given (`OwnersGiven`), and `WorkOnlyInRecordedNamespace` itself, which is not inductive without
  them.
* `WorkCorrect` needs no condition: a pass deploys where the stored status says, or for a FlowCollector
  that is no longer the stored one (`DeployAtHome`). Where deletes fail `PlacementCorrect` does not hold,
  but what is left over is all there is.
* The refinement theorem maps every step to a step of `CollectorHome` or a stutter with the same
  invariant: the status update is `Record`, allowed because clean-up left no work.
* The roles theorem adds `RolesUnderWay`, the permissions of an install whose status is not
  written yet.

### FlowCollectorPermissionsProofs, FlowCollectorDeployedProofs, FlowCollectorMigrationProofs

`PermissionCorrect` and `DeployedCorrect` assume `Calm`: users who wait for a migration to end (finding 2),
deletes that succeed (finding 3), no namespace deleted by hand, and a console API that is there from the start
or never: one that appears between two starts of the process gets pods without a service account. Any call may
fail and the process may die before any call, those of `handleNamespaceChanged` included.

* A cache may still be outdated, and a pass may still begin a second migration from it. That it does no harm
  is `OldMigrations`: an outdated copy that asks for a migration asks for the namespace recorded since. Such
  a pass touches nothing and ends at the service account, which exists (`MigratesCurrent`).
* Then the recorded namespace has all permissions between two migrations (`Ready`), and during one the
  accounts come and the binding turns in the order of the calls (`Progress`); the accounts are where these
  say and nowhere else (`AccountsAtHome`, `AccountsCleaned`), and everything belongs to the one
  FlowCollector (`Alone`).
* A migration that failed half way leaves permissions half moved, while no pass runs. `MayHaveBegun` says
  when that can be: only while the cache has the stored FlowCollector and its status is not the target,
  so that the next pass begins the migration again, and no pass deploys before it got to its end
  (`MigrationBegun`, `BegunStays`).
* `DeployedCorrect` adds `Finished`: when no request is queued and no event on its way, what the
  running pass has behind it, or the last pass has left, is there, since every watched object that
  goes away queues a request. It also assumes `OvsReliable`: an error of the OVS controller is dropped, and this
  module has no resync.
* `MigrationCorrect` (`MigrationUnobstructed`) assumes moreover `Uninterrupted`, no failure between two calls of
  `handleNamespaceChanged` (finding 1), and proves that a migration then never is given up
  (`WhyGivenUp`, `KeptGoing`). What makes it so is that no account outlives the pass that made it unless the
  status was written (`NoneLeftBehind`), and that the target is clear when a migration begins
  (`TargetClear`), as nothing is before the first one (`NotBegun`).

### GoflowKubeProofs

* `GoflowTypeCorrect`, and `DigestCorrect` from `ConfigMapWritten`: past the
  write of the config map, the stored one is that of the pass, or was deleted. It holds
  because of the comparison that never is equal: with the comparison that was meant, a stale
  cache breaks it (the mutant `ConfigMapNeedsUpdate_Data`).
* `GoflowServed`, `GoflowLeftovers`, and `GoflowConverged` with `~DeletesMayFail`, are one argument. A
  kind without an event on its way is in the cache as it is stored (`CacheTrue`), and a pass during which
  no request came works on what the caches still hold (`Undisturbed`). So of each kind the
  pass has behind it, unless an event is coming, the stored object is right for the cached spec, or
  is one whose Delete failed (`PassedRight`); at rest that is all kinds and the stored spec.
  `BuiltOnly` and `LabelRight` say what objects there can be and where a pass can be. Where no Delete may
  fail none has (`NoneFailed`), which makes `SettledConverged` of the other two.
* `GoflowLevel`, the refinement of `LevelTriggered`: `wrong` are the wanted kinds whose object is not
  what the cached spec says, `due` is a queued request or a late event. A write that changes anything
  makes something due (`StoreLevel`); that a pass that ends with nothing due leaves nothing wrong
  (`EndLevel`) is `PassedRight`.

### ConsolePluginProofs and OvsFlowsConfigProofs

* `PluginTypeCorrect`; `PluginServed` by the argument of `GoflowServed`, where the comparison functions
  are what the code compares, and where Loki is queried is stated in the words of the API
  (`AddressOfLoki`), not of `querierURL`; `RepairCorrect` from `CurrentTrue`: what still has the fetched
  resource version is what was fetched, so that a pass makes a Service UDP only if
  it saw another port; `PluginLevel`, by the argument of `GoflowLevel`.
* `FlowsConfigTypeCorrect`; `FlowsConfigTold` for any content of the maps. What the pass
  wants is right for its spec and some address that was given (`WantedRight`, `Given`), what it found
  is the cached map decoded (`FoundRight`), and after a pass without error the map is told unless an
  event or a request is coming (`OkTold`). The lemma beneath is that a configuration that is
  written without zeros decodes to itself.
* `FlowsConfigTargets` is about every moment and every map, also those of former namespaces. What a pass
  wants names one target, and an address of the Service if it names a shared one (`WantedSound`); what it
  writes is that and nothing it found (`WrittenSound`), edits by hand keep it so (`EditedSound`), and an
  address that was the Service's remains one that was (`AddressesGrow`).

### Only model-checked

Everything under fairness, which the prover does not reach: `Converges` of three modules,
`ComesToRest`, `DeletionCompletes`, `NothingOutlives`. Every safety property of a passing run is
proved. The five violations are what they are: counterexamples of TLC.

## 6. Not modelled

* Validation and defaulting by the API server; generated code; manifests; conversion and test
  helpers; flags, metrics, probes, logging. Leader election: the manifests ask for it, the default of the
  flag is off, and a single process is modelled.
* The contents of labels, images, commands and annotations, and the encoding of configurations: the
  code copies them and compares them for equality, and each is part of one opaque value. The
  volumes and environment of pods, which no comparison looks at.
* More than one FlowCollector; a controller with several workers (the code leaves the
  library's default, one).
* `ClusterRole` rules, which are constants written once.

## 7. What is left

1. The refinement of the one-step reconcilers by the modules that open them: `Deploy` and
   `StopHalfWay` as abstract specifications of `GoflowKube`, `ConsolePlugin` and `OvsFlowsConfig`.
2. A run for a console API that appears between two starts: `WorkIsPermitted` does not hold for
   the plugin then, and no document of the repository says that it should.
3. The flows config that stays in the former `spec.cno.namespace`, a map spoilt by hand that cannot be
   decoded, and objects that are not watched and are deleted by hand: modelled as far as the code goes
   (it does nothing), without a property.
4. Two FlowCollectors, which the operator does not refuse: they would share names and fight.
