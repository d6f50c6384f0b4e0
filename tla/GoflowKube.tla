----------------------------- MODULE GoflowKube -----------------------------
(***************************************************************************)
(* controllers/goflowkube/goflowkube_reconciler.go, in one namespace: the   *)
(* config map, the Deployment with its Service and autoscaler, or the       *)
(* DaemonSet, written call by call from what the informer caches told when  *)
(* the pass began.  The API server keeps the objects, the caches lag behind *)
(* it, an update from an outdated object is a conflict, and a delete that   *)
(* fails is only logged.                                                    *)
(***************************************************************************)
EXTENDS Naturals

CONSTANTS
  Configs,        \* what a spec says beyond kind and autoscaler
  Replicas,       \* spec.goflowkube.replicas
  LoadReplicas,   \* replicas the autoscaler may find right for the load
  HandReplicas,   \* replicas somebody may set by hand
  DeletesMayFail, \* may a Delete of TryDelete fail
  MaxEdits, MaxFaults, \* bounds of users' edits and of faults,
  MaxTroubles     \*        and of both together

ASSUME ConstantAssumption ==
  /\ Replicas \in Nat /\ LoadReplicas \subseteq Nat /\ HandReplicas \subseteq Nat
  /\ Configs # {} /\ DeletesMayFail \in BOOLEAN
  /\ MaxEdits \in Nat /\ MaxFaults \in Nat /\ MaxTroubles \in Nat

VARIABLES
  spec,       \* the goflow-kube part of the FlowCollector, as stored
  specCache,  \* as the operator's informer knows it
  server,     \* each object, as stored
  cache,      \* as its informer knows it
  late,       \* the kinds with an event that has not come yet
  queued,     \* is a reconcile request in the work queue
  pc,         \* the next call of the running pass, "idle" when none runs
  desired,    \* the copy of the spec the pass works on
  fetched,    \* what FetchAll found
  undeleted,  \* the kinds whose Delete failed in the running, or else the last, pass: its log
  current,    \* the kinds of which the stored object still is the fetched one
  edits, faults

specVars   == <<spec, specCache>>
objectVars == <<server, cache, late>>
passVars   == <<queued, pc, desired, fetched, undeleted>>
budgetVars == <<edits, faults>>
vars == <<specVars, objectVars, passVars, current, budgetVars>>

-----------------------------------------------------------------------------
Kinds == {"configMap", "deployment", "daemonSet", "service", "hpa"}

Specs == [kind : {"Deployment", "DaemonSet"}, hpa : BOOLEAN, config : Configs]

\* An object is what it was built from; only a Deployment's replicas are its own.
Missing == [exists |-> FALSE]
Objects == {Missing} \union [exists : {TRUE}, config : Configs, replicas : Nat]

Labels == {"idle", "done", "configMap", "dropDaemonSet", "deployment", "service", "hpa",
           "dropDeployment", "dropService", "dropHpa", "daemonSet"}

Built(config) == [exists |-> TRUE, config |-> config, replicas |-> Replicas]

\* The local variables of a pass that does not run.
NoSpec  == [kind |-> "Deployment", hpa |-> FALSE, config |-> CHOOSE c \in Configs : TRUE]
Nothing == [k \in Kinds |-> Missing]

TypeOK ==
  /\ spec \in Specs /\ specCache \in Specs /\ desired \in Specs
  /\ server \in [Kinds -> Objects]
  /\ cache \in [Kinds -> Objects] /\ fetched \in [Kinds -> Objects]
  /\ late \subseteq Kinds /\ current \subseteq Kinds /\ undeleted \subseteq Kinds
  /\ queued \in BOOLEAN /\ pc \in Labels
  /\ edits \in Nat /\ faults \in Nat

Init ==
  /\ spec \in Specs /\ specCache = spec /\ desired = NoSpec
  /\ server = Nothing /\ cache = Nothing /\ fetched = Nothing
  /\ late = {} /\ current = {} /\ undeleted = {}
  /\ queued = TRUE /\ pc = "idle"
  /\ edits = 0 /\ faults = 0

Trouble    == edits + faults < MaxTroubles
SpendFault == Trouble /\ faults < MaxFaults /\ faults' = faults + 1 /\ UNCHANGED edits

\* A write changes the stored object, unless it changes nothing.
Store(k, object) ==
  /\ server' = [server EXCEPT ![k] = object]
  /\ late' = IF server[k] = object THEN late ELSE late \union {k}
  /\ current' = IF server[k] = object THEN current ELSE current \ {k}
  /\ UNCHANGED cache

Goto(label) ==
  /\ pc' = label
  /\ UNCHANGED <<specVars, queued, desired, fetched>>

\* Mutant: the error is dropped.
Fail_Dropped ==
  /\ pc' = "done"
  /\ UNCHANGED <<specVars, objectVars, queued, desired, fetched, current>>

\* The pass returns an error: the request is put back.
Fail ==
  /\ pc' = "done" /\ queued' = TRUE
  /\ UNCHANGED <<specVars, objectVars, desired, fetched, current>>

Forget == desired' = NoSpec /\ fetched' = Nothing /\ current' = {}

-----------------------------------------------------------------------------
(* Reconcile.                                                              *)

\* The FlowCollector is read and FetchAll reads the objects: what comes in between is
\* what comes before, for a cache that is late anyway.
StartReconcile ==
  /\ pc = "idle" /\ queued
  /\ queued' = FALSE /\ pc' = "configMap"
  /\ desired' = specCache
  /\ fetched' = cache /\ current' = Kinds \ late /\ undeleted' = {}
  /\ UNCHANGED <<specVars, objectVars, budgetVars>>

\* deploymentNeedsUpdate, daemonSetNeedsUpdate, serviceNeedsUpdate, autoScalerNeedsUpdate
NeedsUpdate(k) ==
  \/ fetched[k].config # desired.config
  \/ k = "deployment" /\ fetched[k].replicas # Replicas

\* Mutant: the comparison that was meant.
ConfigMapNeedsUpdate_Data == fetched["configMap"].config # desired.config

\* reflect.DeepEqual of a *ConfigMap and a map: they never are equal.
ConfigMapNeedsUpdate == TRUE

\* Create what FetchAll did not find, update what it found and needs it.
Put(k, stale, next) ==
  \/ /\ fetched[k] = Missing /\ server[k] = Missing
     /\ Store(k, Built(desired.config)) /\ Goto(next)
  \/ fetched[k] = Missing /\ server[k] # Missing /\ Fail
  \/ /\ fetched[k] # Missing /\ stale /\ k \in current
     /\ Store(k, Built(desired.config)) /\ Goto(next)
  \/ fetched[k] # Missing /\ stale /\ k \notin current /\ Fail
  \/ /\ fetched[k] # Missing /\ ~stale
     /\ Goto(next) /\ UNCHANGED <<objectVars, current>>

\* Mutant: what is to be deleted is looked up in a copy that FetchAll did not fill.
Drop_NotFound(k, next) ==
  Goto(next) /\ UNCHANGED <<objectVars, current, undeleted, budgetVars>>

\* TryDelete: only what FetchAll found; an error is logged and otherwise forgotten.
Drop(k, next) ==
  /\ \/ fetched[k] # Missing /\ Store(k, Missing) /\ UNCHANGED <<undeleted, budgetVars>>
     \/ fetched[k] = Missing /\ UNCHANGED <<objectVars, current, undeleted, budgetVars>>
     \/ /\ fetched[k] # Missing /\ DeletesMayFail /\ SpendFault
        /\ undeleted' = undeleted \union {k}
        /\ UNCHANGED <<objectVars, current>>
  /\ Goto(next)

\* Mutant: the kind of the spec is taken for a step.
AfterConfigMap_Raw == desired.kind

AfterConfigMap == IF desired.kind = "Deployment" THEN "dropDaemonSet" ELSE "dropDeployment"

WriteConfigMap ==
  /\ pc = "configMap"
  /\ Put("configMap", ConfigMapNeedsUpdate, AfterConfigMap)
  /\ UNCHANGED <<undeleted, budgetVars>>

\* reconcileAsDeployment
DropDaemonSet == pc = "dropDaemonSet" /\ Drop("daemonSet", "deployment")

WriteDeployment ==
  /\ pc = "deployment"
  /\ Put("deployment", NeedsUpdate("deployment"), "service")
  /\ UNCHANGED <<undeleted, budgetVars>>

WriteService ==
  /\ pc = "service"
  /\ Put("service", NeedsUpdate("service"), "hpa")
  /\ UNCHANGED <<undeleted, budgetVars>>

\* Mutant: an autoscaler that was asked for before is not deleted.
WriteAutoScaler_Kept ==
  /\ pc = "hpa"
  /\ \/ desired.hpa /\ Put("hpa", NeedsUpdate("hpa"), "done")
     \/ ~desired.hpa /\ Goto("done") /\ UNCHANGED <<objectVars, current>>
  /\ UNCHANGED <<undeleted, budgetVars>>

WriteAutoScaler ==
  /\ pc = "hpa"
  /\ \/ /\ desired.hpa /\ Put("hpa", NeedsUpdate("hpa"), "done")
        /\ UNCHANGED <<undeleted, budgetVars>>
     \/ ~desired.hpa /\ Drop("hpa", "done")

\* reconcileAsDaemonSet
DropDeployment == pc = "dropDeployment" /\ Drop("deployment", "dropService")
DropService    == pc = "dropService" /\ Drop("service", "dropHpa")
DropAutoScaler == pc = "dropHpa" /\ Drop("hpa", "daemonSet")

WriteDaemonSet ==
  /\ pc = "daemonSet"
  /\ Put("daemonSet", NeedsUpdate("daemonSet"), "done")
  /\ UNCHANGED <<undeleted, budgetVars>>

\* The pass is over, its locals are gone.
EndReconcile ==
  /\ pc = "done"
  /\ pc' = "idle" /\ Forget
  /\ UNCHANGED <<specVars, objectVars, queued, undeleted, budgetVars>>

Reconcile ==
  \/ StartReconcile \/ WriteConfigMap \/ EndReconcile
  \/ DropDaemonSet \/ WriteDeployment \/ WriteService \/ WriteAutoScaler
  \/ DropDeployment \/ DropService \/ DropAutoScaler \/ WriteDaemonSet

-----------------------------------------------------------------------------
(* Everything else.                                                        *)

\* A call fails, or its answer is lost.
CallFails ==
  /\ pc \notin {"idle", "done"}
  /\ Fail
  /\ SpendFault /\ UNCHANGED undeleted

\* The process dies; the next one lists everything before it reconciles.
Restart ==
  /\ pc' = "idle" /\ queued' = TRUE
  /\ specCache' = spec /\ cache' = server /\ late' = {}
  /\ Forget
  /\ UNCHANGED <<spec, server, undeleted>>
  /\ SpendFault

\* A user writes the spec.
EditSpec ==
  /\ Trouble /\ edits < MaxEdits /\ edits' = edits + 1
  /\ spec' \in Specs \ {spec}
  /\ UNCHANGED <<specCache, objectVars, passVars, current, faults>>

\* Mutant: events of the objects do not reach the work queue.
InformObject_Quiet(k) ==
  /\ k \in late
  /\ cache' = [cache EXCEPT ![k] = server[k]] /\ late' = late \ {k}
  /\ UNCHANGED <<specVars, server, passVars, current, budgetVars>>

\* An informer catches up; SetupWithManager has the event requeue the owner.
InformObject(k) ==
  /\ k \in late
  /\ cache' = [cache EXCEPT ![k] = server[k]] /\ late' = late \ {k}
  /\ queued' = TRUE
  /\ UNCHANGED <<specVars, server, pc, desired, fetched, undeleted, current, budgetVars>>

InformSpec ==
  /\ specCache # spec
  /\ specCache' = spec /\ queued' = TRUE
  /\ UNCHANGED <<spec, objectVars, pc, desired, fetched, undeleted, current, budgetVars>>

Inform == InformSpec \/ \E k \in Kinds : InformObject(k)

\* Somebody deletes an object, or scales the Deployment by hand.
Tamper ==
  /\ \/ \E k \in Kinds : server[k] # Missing /\ Store(k, Missing)
     \/ /\ server["deployment"] # Missing
        /\ \E r \in HandReplicas :
             Store("deployment", [server["deployment"] EXCEPT !.replicas = r])
  /\ UNCHANGED <<specVars, passVars>>
  /\ SpendFault

\* The autoscaler controller (external) scales the Deployment as the load asks.
Autoscale ==
  /\ server["hpa"] # Missing /\ server["deployment"] # Missing
  /\ server["deployment"].replicas \notin LoadReplicas
  /\ \E r \in LoadReplicas : Store("deployment", [server["deployment"] EXCEPT !.replicas = r])
  /\ UNCHANGED <<specVars, passVars, budgetVars>>

Next == Reconcile \/ CallFails \/ Restart \/ EditSpec \/ Inform \/ Tamper \/ Autoscale

Spec == Init /\ [][Next]_vars

\* The worker, the informers and the autoscaler controller do not stop.
Fairness == WF_vars(Reconcile) /\ WF_vars(Inform) /\ WF_vars(Autoscale)

FairSpec == Spec /\ Fairness

-----------------------------------------------------------------------------
\* The pods are restarted, by a new digest in their template, only when the config map
\* they will read holds the very configuration of that digest, or when somebody deleted
\* it: an outdated cache never makes them start with another configuration.
DigestStep ==
  \A k \in {"deployment", "daemonSet"} :
    server'[k] # Missing /\ (server[k] = Missing \/ server'[k].config # server[k].config) =>
      server'["configMap"] \in {Missing, Built(server'[k].config)}
DigestServed == [][DigestStep]_vars

Settled == pc = "idle" /\ ~queued /\ late = {} /\ specCache = spec

WantedKinds(s) ==
  IF s.kind = "DaemonSet" THEN {"configMap", "daemonSet"}
  ELSE {"configMap", "deployment", "service"} \union IF s.hpa THEN {"hpa"} ELSE {}

\* What the spec asks for is there, whatever else is.
Served == \A k \in WantedKinds(spec) : server[k] = Built(spec.config)

\* The objects are those of the spec: of one kind of collector, none of the other.
Converged == Served /\ \A k \in Kinds \ WantedKinds(spec) : server[k] = Missing

\* When nothing is left to wake the operator up there is nothing left to do: even after
\* deletes that failed, what the spec asks for is served;
SettledServed == Settled => Served

\* what the spec does not ask for is left only if the pass that came to rest has logged that
\* it could not delete it: no outdated cache, conflict, lost call or change of the spec half way
\* makes it overlook any;
LeftoversLogged ==
  Settled => \A k \in Kinds \ WantedKinds(spec) : server[k] # Missing => k \in undeleted

\* and when no delete fails nothing else is left.
SettledConverged == Settled => Converged

\* Seen from outside, the reconciler is level-triggered: no pass ends on an object that is
\* not what the informer told, and none becomes so, without another request or an event.
Level == INSTANCE LevelTriggered WITH
  wrong <- {k \in WantedKinds(specCache) : server[k] # Built(specCache.config)},
  due   <- queued \/ late # {},
  busy  <- pc # "idle"

ImplementsLevel == Level!Spec

\* Whatever happened, the objects become and stay those of the spec.
Converges == <>[]Converged

\* "minReplicas is the lower limit for the number of replicas to which the autoscaler can
\* scale down": an autoscaled Deployment ends up with as many replicas as the load, which
\* never asks for fewer than that limit, calls for.
AutoscalerObeyed ==
  <>[](server["hpa"] # Missing /\ server["deployment"] # Missing
         => server["deployment"].replicas \in LoadReplicas)
=============================================================================
