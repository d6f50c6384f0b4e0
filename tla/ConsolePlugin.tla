--------------------------- MODULE ConsolePlugin ---------------------------
(***************************************************************************)
(* controllers/consoleplugin/consoleplugin_reconciler.go, once the target   *)
(* namespace is prepared: the cluster-scoped ConsolePlugin, the Deployment  *)
(* and the Service, each compared with the specification field by field as  *)
(* it was when the pass began, and written one call after the other.  The   *)
(* caches lag behind the API server and an update from an outdated object   *)
(* is a conflict.                                                           *)
(***************************************************************************)
EXTENDS Naturals

CONSTANTS
  Namespace,       \* the namespace of the pass
  FormerNamespace, \* where the plugin lived before, perhaps
  Ports, Pods,     \* spec.consolePlugin: its port; image, pull policy and resources
  ReplicaCounts,   \*                     and its replicas
  Urls, Queriers,  \* spec.loki: its url and its querierUrl; either may be
  NoUrl,           \*            the empty string
  Missing,         \* no object
  MaxEdits, MaxFaults

ASSUME DataAssumption ==
  /\ Namespace # FormerNamespace
  /\ Ports # {} /\ Pods # {} /\ Urls # {} /\ Queriers # {}
  /\ ReplicaCounts \subseteq Nat /\ ReplicaCounts # {}

ASSUME BoundAssumption == MaxEdits \in Nat /\ MaxFaults \in Nat

VARIABLES
  spec,       \* what the FlowCollector says of the plugin and of Loki
  specCache,  \* as the operator's informer knows it
  server,     \* the objects, as stored
  cache,      \* as the informers know them
  late,       \* the kinds with an event that has not come yet
  queued,     \* is a reconcile request in the work queue
  pc,         \* the next write of the running pass, "idle" when none runs
  desired,    \* the copy of the specification the pass works on
  fetched,    \* the objects it found
  current,    \* the kinds of which the stored object still is the fetched one
  edits, faults

specVars   == <<spec, specCache>>
objectVars == <<server, cache, late, current>>
passVars   == <<queued, pc, desired, fetched>>
budgetVars == <<edits, faults>>
vars == <<specVars, objectVars, passVars, budgetVars>>

-----------------------------------------------------------------------------
(* The data.                                                               *)

Specs == [port : Ports, pod : Pods, replicas : ReplicaCounts,
          url : Urls, querier : Queriers]

Plugins     == [namespace : {Namespace, FormerNamespace}, port : Ports]
Deployments == [pod : Pods, loki : Urls \union Queriers, replicas : Nat]
Services    == [port : Ports, protocol : {"TCP", "UDP"}]

Kinds == {"plugin", "deployment", "service"}

Objects(k) == CASE k = "plugin"     -> Plugins
                [] k = "deployment" -> Deployments
                [] k = "service"    -> Services

ASSUME MissingAssumption == \A k \in Kinds : Missing \notin Objects(k)

\* One object, or none, of every kind.
Clusters == {c \in [Kinds -> Plugins \union Deployments \union Services \union {Missing}] :
               \A k \in Kinds : c[k] \in Objects(k) \union {Missing}}

\* Mutant: the querier's address, though it may be empty.
querierURL_Raw(s) == s.querier

querierURL(s) == IF s.querier # NoUrl THEN s.querier ELSE s.url

\* Mutant: the port of the reference to the Service is forgotten, and zero.
buildConsolePlugin_NoPort(s) == [namespace |-> Namespace, port |-> 0]

buildConsolePlugin(s) == [namespace |-> Namespace, port |-> s.port]
buildDeployment(s)    == [pod |-> s.pod, loki |-> querierURL(s), replicas |-> s.replicas]
buildService(old, s)  == [port |-> s.port, protocol |-> IF old = Missing THEN "TCP" ELSE "UDP"]

Built(k, old, s) == CASE k = "plugin"     -> buildConsolePlugin(s)
                      [] k = "deployment" -> buildDeployment(s)
                      [] k = "service"    -> buildService(old, s)

pluginNeedsUpdate(plg, s) == plg.namespace # Namespace \/ plg.port # s.port

\* Mutant: the address of Loki is not among what is compared.
deploymentNeedsUpdate_NoLoki(depl, s) ==
  depl.pod # s.pod \/ depl.replicas # s.replicas

\* containerNeedsUpdate, hasLokiURLChanged, the replicas
deploymentNeedsUpdate(depl, s) ==
  depl.pod # s.pod \/ depl.loki # querierURL(s) \/ depl.replicas # s.replicas

serviceNeedsUpdate(svc, s) == ~(svc.port = s.port /\ svc.protocol = "TCP")

NeedsUpdate(k, object, s) == CASE k = "plugin"     -> pluginNeedsUpdate(object, s)
                               [] k = "deployment" -> deploymentNeedsUpdate(object, s)
                               [] k = "service"    -> serviceNeedsUpdate(object, s)

\* The local variables of a pass that does not run.
NoSpec  == CHOOSE s \in Specs : TRUE
Nothing == [k \in Kinds |-> Missing]

TypeOK ==
  /\ spec \in Specs /\ specCache \in Specs /\ desired \in Specs
  /\ server \in Clusters /\ cache \in Clusters /\ fetched \in Clusters
  /\ late \subseteq Kinds /\ current \subseteq Kinds
  /\ queued \in BOOLEAN /\ pc \in Kinds \union {"idle"}
  /\ edits \in Nat /\ faults \in Nat

\* A prepared namespace holds neither Deployment nor Service; the ConsolePlugin that is
\* left from a namespace before points there.
Init ==
  /\ spec \in Specs /\ specCache = spec /\ desired = NoSpec
  /\ \E plugin \in {Missing} \union [namespace : {FormerNamespace}, port : {spec.port}] :
       server = [Nothing EXCEPT !["plugin"] = plugin]
  /\ cache = server /\ fetched = Nothing
  /\ late = {} /\ current = {}
  /\ queued = TRUE /\ pc = "idle"
  /\ edits = 0 /\ faults = 0

SpendFault == faults < MaxFaults /\ faults' = faults + 1 /\ UNCHANGED edits

\* A write: the object has another resource version, and its event is on its way.  A
\* write that changes nothing does neither.
Store(k, object) ==
  /\ server' = [server EXCEPT ![k] = object]
  /\ late' = IF server[k] = object THEN late ELSE late \union {k}
  /\ current' = IF server[k] = object THEN current ELSE current \ {k}
  /\ UNCHANGED cache

-----------------------------------------------------------------------------
(* Reconcile.                                                              *)

\* FetchAll, and the Get of the ConsolePlugin: what comes in between is what comes before,
\* for a cache that is late anyway.
StartReconcile ==
  /\ pc = "idle" /\ queued
  /\ queued' = FALSE /\ pc' = "plugin"
  /\ desired' = specCache
  /\ fetched' = cache /\ current' = Kinds \ late
  /\ UNCHANGED <<specVars, server, cache, late, budgetVars>>

Goto(label) ==
  /\ pc' = label
  /\ UNCHANGED <<specVars, queued, desired, fetched, budgetVars>>

\* The locals of a pass that ends are gone.
Forget == pc' = "idle" /\ desired' = NoSpec /\ fetched' = Nothing

\* The pass returns an error: the request is put back.
Fail ==
  /\ Forget /\ queued' = TRUE
  /\ UNCHANGED <<specVars, objectVars>>

Finish == Forget /\ UNCHANGED <<specVars, queued, budgetVars>>

Advance(next) == IF next = "idle" THEN Finish ELSE Goto(next)

\* Mutant: an update without the resource version of what was fetched.
Put_LastWriteWins(k, next) ==
  \/ /\ fetched[k] # Missing => NeedsUpdate(k, fetched[k], desired)
     /\ Store(k, Built(k, fetched[k], desired)) /\ Advance(next)
  \/ /\ fetched[k] # Missing /\ ~NeedsUpdate(k, fetched[k], desired)
     /\ Advance(next) /\ UNCHANGED objectVars

\* Mutant: the resource version is not carried over: the server refuses every update.
Put_NoVersion(k, next) ==
  \/ /\ fetched[k] = Missing /\ server[k] = Missing
     /\ Store(k, Built(k, Missing, desired)) /\ Advance(next)
  \/ /\ \/ fetched[k] = Missing /\ server[k] # Missing
        \/ fetched[k] # Missing /\ NeedsUpdate(k, fetched[k], desired)
     /\ Fail /\ UNCHANGED budgetVars
  \/ /\ fetched[k] # Missing /\ ~NeedsUpdate(k, fetched[k], desired)
     /\ Advance(next) /\ UNCHANGED objectVars

\* Create what was not found, update what was found and needs it: an error when the
\* stored object is not what the cache told.
Put(k, next) ==
  \/ /\ \/ fetched[k] = Missing /\ server[k] = Missing
        \/ fetched[k] # Missing /\ NeedsUpdate(k, fetched[k], desired) /\ k \in current
     /\ Store(k, Built(k, fetched[k], desired)) /\ Advance(next)
  \/ /\ \/ fetched[k] = Missing /\ server[k] # Missing
        \/ fetched[k] # Missing /\ NeedsUpdate(k, fetched[k], desired) /\ k \notin current
     /\ Fail /\ UNCHANGED budgetVars
  \/ /\ fetched[k] # Missing /\ ~NeedsUpdate(k, fetched[k], desired)
     /\ Advance(next) /\ UNCHANGED objectVars

WritePlugin     == pc = "plugin" /\ Put("plugin", "deployment")
WriteDeployment == pc = "deployment" /\ Put("deployment", "service")
WriteService    == pc = "service" /\ Put("service", "idle")

Reconcile == StartReconcile \/ WritePlugin \/ WriteDeployment \/ WriteService

-----------------------------------------------------------------------------
(* Everything else.                                                        *)

\* A call fails, or its answer is lost.
CallFails ==
  /\ pc # "idle"
  /\ Fail
  /\ SpendFault

\* The process dies; the next one lists everything before it reconciles.
Restart ==
  /\ Forget /\ queued' = TRUE
  /\ specCache' = spec /\ cache' = server /\ late' = {} /\ current' = {}
  /\ UNCHANGED <<spec, server>>
  /\ SpendFault

\* A user writes the spec.
EditSpec ==
  /\ edits < MaxEdits /\ edits' = edits + 1
  /\ spec' \in Specs \ {spec}
  /\ UNCHANGED <<specCache, objectVars, passVars, faults>>

\* Mutant: events of the objects do not reach the work queue.
InformObject_Quiet(k) ==
  /\ k \in late
  /\ cache' = [cache EXCEPT ![k] = server[k]] /\ late' = late \ {k}
  /\ UNCHANGED <<specVars, server, current, passVars, budgetVars>>

\* An informer catches up; SetupWithManager has the event requeue the owner.
InformObject(k) ==
  /\ k \in late
  /\ cache' = [cache EXCEPT ![k] = server[k]] /\ late' = late \ {k}
  /\ queued' = TRUE
  /\ UNCHANGED <<specVars, server, current, pc, desired, fetched, budgetVars>>

InformSpec ==
  /\ specCache # spec
  /\ specCache' = spec /\ queued' = TRUE
  /\ UNCHANGED <<spec, objectVars, pc, desired, fetched, budgetVars>>

Inform == InformSpec \/ \E k \in Kinds : InformObject(k)

\* Somebody deletes an object, scales the Deployment, or gives the Service TCP by hand.
Tamper ==
  /\ \/ \E k \in Kinds : server[k] # Missing /\ Store(k, Missing)
     \/ /\ server["deployment"] # Missing
        /\ Store("deployment", [server["deployment"] EXCEPT !.replicas = 0])
     \/ /\ server["service"] # Missing
        /\ Store("service", [server["service"] EXCEPT !.protocol = "TCP"])
  /\ UNCHANGED <<specVars, passVars>>
  /\ SpendFault

\* The deployment controller (external) writes the status: another resource version.
Rollout ==
  /\ server["deployment"] # Missing
  /\ late' = late \union {"deployment"} /\ current' = current \ {"deployment"}
  /\ UNCHANGED <<specVars, server, cache, passVars>>
  /\ SpendFault

Next == Reconcile \/ CallFails \/ Restart \/ EditSpec \/ Inform \/ Tamper \/ Rollout

Spec == Init /\ [][Next]_vars

\* The worker and the informers do not stop.
Fairness == WF_vars(Reconcile) /\ WF_vars(Inform)

FairSpec == Spec /\ Fairness

-----------------------------------------------------------------------------
Settled == pc = "idle" /\ ~queued /\ late = {} /\ specCache = spec

\* "QuerierURL specifies the address of the Loki querier [...].  If empty, the URL value will
\* be used"
AddressOfLoki(s, address) ==
  /\ s.querier # NoUrl => address = s.querier
  /\ s.querier = NoUrl => address = s.url

\* The console is told where the pods are, they run as the spec asks and query Loki where the
\* API says, and the Service has the port the console will call.
Served ==
  /\ server["plugin"] = [namespace |-> Namespace, port |-> spec.port]
  /\ LET depl == server["deployment"] IN
       /\ depl # Missing /\ depl.pod = spec.pod /\ depl.replicas = spec.replicas
       /\ AddressOfLoki(spec, depl.loki)
  /\ server["service"] # Missing /\ server["service"].port = spec.port

\* When nothing is left to wake the operator up, the three objects agree with the spec
\* and with each other: no outdated cache, conflict or lost call leaves one behind.
SettledServed == Settled => Served

\* The object is what a specification asks for, the protocol of the Service apart.
Right(k, object, s) ==
  CASE k = "plugin"     -> object = buildConsolePlugin(s)
    [] k = "deployment" -> object = buildDeployment(s)
    [] k = "service"    -> object # Missing /\ object.port = s.port

\* Seen from outside, the reconciler is level-triggered: no pass ends on an object that is
\* not what the informer told, and none becomes so, without another request or an event.
Level == INSTANCE LevelTriggered WITH
  wrong <- {k \in Kinds : ~Right(k, server[k], specCache)},
  due   <- queued \/ late # {},
  busy  <- pc # "idle"

ImplementsLevel == Level!Spec

\* The operator comes to rest.  It updates a Service that is not TCP in each pass, but that
\* update changes nothing: it brings no event, and does not keep the operator busy.
ComesToRest == <>[]Settled

\* A Service that somebody gave TCP again by hand is not turned back by a pass that read it
\* before: the operator makes a Service UDP only together with another port.
RepairStep ==
  LET svc == server["service"] IN
    /\ svc # Missing /\ svc.protocol = "TCP"
    /\ server'["service"] # Missing /\ server'["service"].protocol = "UDP"
    => server'["service"].port # svc.port
RepairKept == [][RepairStep]_vars

\* "wrong port protocol": a Service that is not TCP is not what the console can use.
SettledTcp == Settled => server["service"].protocol = "TCP"
=============================================================================
