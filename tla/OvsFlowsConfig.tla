--------------------------- MODULE OvsFlowsConfig ---------------------------
(***************************************************************************)
(* controllers/ovs: the ConfigMap that tells Open vSwitch where to send its *)
(* flows.  Its content is a map of strings, compared with the specification *)
(* after decoding; the address of the collector comes from the DNS, which   *)
(* follows the Service of goflow-kube in its own time.  An error is logged  *)
(* and not returned: nothing asks for another try but the next event, or    *)
(* the periodic resync of the informers.                                    *)
(***************************************************************************)
EXTENDS Naturals

CONSTANTS
  CnoNamespaces,  \* spec.cno.namespace
  Samplings,      \* spec.ipfix, of which sampling stands for all fields
  Ports,          \* spec.goflowkube.port
  Missing,        \* no map
  Garbage,        \* a value that is not a number
  MaxEdits, MaxFaults, \* bounds of users' edits and of faults,
  MaxTroubles          \*        and of both together

ASSUME ConstantAssumption ==
  /\ CnoNamespaces # {} /\ "service" \notin CnoNamespaces
  /\ Samplings \subseteq Nat /\ Samplings # {} /\ Garbage \notin Nat
  /\ Ports \subseteq Nat \ {0} /\ Ports # {}
  /\ MaxEdits \in Nat /\ MaxFaults \in Nat /\ MaxTroubles \in Nat

VARIABLES
  spec,          \* the part of the FlowCollector that matters here, as stored
  specCache,     \* as the operator's informer knows it
  service,       \* the address of the Service of goflow-kube, 0 without one
  serviceCache,  \* as the operator's informer knows it
  lastAddress,   \* the last address given to it
  dns,           \* what its name resolves to, 0 when it does not
  maps,          \* the flows config of each namespace
  mapCache,      \* as the operator's informer knows it
  late,          \* the objects with an event that has not come yet
  queued,        \* is a reconcile request in the work queue
  pc,            \* the next call of the running pass, "idle" when none runs
  desired,       \* the copy of the specification the pass works on
  found, wanted, \* current and desired of Reconcile
  outcome,       \* how the last FlowsConfigController.Reconcile ended
  edits, faults

specVars    == <<spec, specCache>>
serviceVars == <<service, serviceCache, lastAddress, dns>>
mapVars     == <<maps, mapCache>>
passVars    == <<pc, desired, found, wanted>>
budgetVars  == <<edits, faults>>
vars == <<specVars, serviceVars, mapVars, late, queued, passVars, outcome, budgetVars>>

-----------------------------------------------------------------------------
(* The data.                                                               *)

Specs == [kind : {"Deployment", "DaemonSet"}, cno : CnoNamespaces,
          sampling : Samplings, port : Ports]

\* flowsConfig: a zero is what is not set.
Keys         == {"sampling", "sharedTarget", "nodePort"}
FlowsConfigs == [Keys -> Nat]

flowsConfig(sampling, sharedTarget, nodePort) ==
  [key \in Keys |-> CASE key = "sampling"     -> sampling
                      [] key = "sharedTarget" -> sharedTarget
                      [] key = "nodePort"     -> nodePort]

\* The data of a map: some of the keys, each with a value that may be no number.
IsData(data) == \E K \in SUBSET Keys : data \in [K -> Nat \union {Garbage}]

ASSUME MissingAssumption == ~IsData(Missing) /\ Missing \notin FlowsConfigs

\* Zero values are left out.
asStringMap(fc) == [key \in {k \in Keys : fc[k] # 0} |-> fc[key]]

\* WeakDecode: what is left out is zero, and a number must be one.
Decodable(data) == \A key \in DOMAIN data : data[key] # Garbage

\* Mutant: what is left out stays out.
configFromMap_Partial(data) == [key \in DOMAIN data |-> data[key]]

configFromMap(data) == [key \in Keys |-> IF key \in DOMAIN data THEN data[key] ELSE 0]

\* net.JoinHostPort: an address and a port in one value, which is not the empty one.
JoinHostPort(ip, port) == ip * 65536 + port

\* What desired makes of a specification and an address.
desiredConfig(s, ip) ==
  IF s.kind = "DaemonSet" THEN flowsConfig(s.sampling, 0, s.port)
  ELSE flowsConfig(s.sampling, JoinHostPort(ip, s.port), 0)

\* The local variables of a pass that does not run.
NoSpec   == CHOOSE s \in Specs : TRUE
NoConfig == flowsConfig(0, 0, 0)
NoMap    == [n \in CnoNamespaces |-> Missing]

\* One map, or none, in each namespace.
AreMaps(m) == DOMAIN m = CnoNamespaces /\ \A n \in CnoNamespaces : m[n] = Missing \/ IsData(m[n])

TypeOK ==
  /\ spec \in Specs /\ specCache \in Specs /\ desired \in Specs
  /\ service \in Nat /\ serviceCache \in Nat /\ lastAddress \in Nat /\ dns \in Nat
  /\ AreMaps(maps) /\ AreMaps(mapCache)
  /\ late \subseteq CnoNamespaces \union {"service"}
  /\ queued \in BOOLEAN /\ pc \in {"idle", "goflow", "read", "write"}
  /\ found \in FlowsConfigs \union {Missing} /\ wanted \in FlowsConfigs
  /\ outcome \in {"none", "ok", "failed"}
  /\ edits \in Nat /\ faults \in Nat

Init ==
  /\ spec \in Specs /\ specCache = spec /\ desired = NoSpec
  /\ service = 0 /\ serviceCache = 0 /\ lastAddress = 0 /\ dns = 0
  /\ maps = NoMap /\ mapCache = NoMap
  /\ late = {} /\ queued = TRUE
  /\ pc = "idle" /\ found = Missing /\ wanted = NoConfig
  /\ outcome = "none"
  /\ edits = 0 /\ faults = 0

Trouble    == edits + faults < MaxTroubles
SpendFault == Trouble /\ faults < MaxFaults /\ faults' = faults + 1 /\ UNCHANGED edits

-----------------------------------------------------------------------------
(* Reconcile, from goflow-kube to the flows config.                        *)

Forget == pc' = "idle" /\ desired' = NoSpec /\ found' = Missing /\ wanted' = NoConfig

StartReconcile ==
  /\ pc = "idle" /\ queued
  /\ queued' = FALSE /\ pc' = "goflow" /\ desired' = specCache
  /\ UNCHANGED <<specVars, serviceVars, mapVars, late, found, wanted, outcome, budgetVars>>

\* An error of goflow-kube, or of the console plugin after it: the request is put back.
Fail ==
  /\ Forget /\ queued' = TRUE
  /\ UNCHANGED <<specVars, serviceVars, mapVars, late, outcome>>

\* The Service as the API server holds it from now on.
StoreService(address) ==
  /\ service' = address
  /\ late' = late \union {"service"}
  /\ UNCHANGED <<serviceCache, dns>>

NewService == StoreService(lastAddress + 1) /\ lastAddress' = lastAddress + 1

KeepService == UNCHANGED <<serviceVars, late>>

\* gfReconciler.Reconcile, of which only the Service matters: created when the cache has
\* none, deleted when the cache has one, an error of the deletion being logged.  An update
\* leaves the address alone; a Service that changed meanwhile may make it a conflict.
ReconcileGoflow ==
  /\ pc = "goflow"
  /\ \/ /\ \/ desired.kind = "Deployment" /\ serviceCache = 0 /\ service = 0 /\ NewService
           \/ desired.kind = "Deployment" /\ serviceCache # 0 /\ KeepService
           \/ /\ desired.kind = "DaemonSet" /\ serviceCache # 0 /\ service # 0
              /\ StoreService(0) /\ UNCHANGED lastAddress
           \/ desired.kind = "DaemonSet" /\ KeepService
        /\ pc' = "read"
        /\ UNCHANGED <<specVars, mapVars, queued, desired, found, wanted, outcome>>
     \/ /\ desired.kind = "Deployment" /\ "service" \in late
        /\ serviceCache = 0 => service # 0
        /\ Fail
  /\ UNCHANGED budgetVars

\* FlowsConfigController.Reconcile returns; the pass goes on and ends, error or not.
Return(result) ==
  /\ Forget /\ outcome' = result
  /\ UNCHANGED <<specVars, serviceVars, mapVars, late, queued>>

\* current and desired: the map as the cache has it, and the address, if there is one, of
\* the Service the cache knows.
ReadConfigs ==
  LET data     == mapCache[desired.cno]
      readable == data # Missing => Decodable(data)
      known    == desired.kind = "DaemonSet" \/ (serviceCache # 0 /\ dns # 0)
  IN
  /\ pc = "read"
  /\ \/ /\ readable /\ known
        /\ pc' = "write"
        /\ found' = IF data = Missing THEN Missing ELSE configFromMap(data)
        /\ wanted' = desiredConfig(desired, dns)
        /\ UNCHANGED <<specVars, serviceVars, mapVars, late, queued, desired, outcome>>
     \/ ~(readable /\ known) /\ Return("failed")
  /\ UNCHANGED budgetVars

\* Mutant: the update is merged into the data that is there.
StoreMap_Merged(n, data) ==
  LET old    == maps[n]
      merged == IF data = Missing \/ old = Missing THEN data
                ELSE [key \in DOMAIN old \union DOMAIN data |->
                        IF key \in DOMAIN data THEN data[key] ELSE old[key]]
  IN
  /\ maps' = [maps EXCEPT ![n] = merged]
  /\ late' = IF merged = old THEN late ELSE late \union {n}
  /\ UNCHANGED mapCache

StoreMap(n, data) ==
  /\ maps' = [maps EXCEPT ![n] = data]
  /\ late' = IF data = maps[n] THEN late ELSE late \union {n}
  /\ UNCHANGED mapCache

\* Mutant: only the target is compared.
Differs_Target ==
  found["sharedTarget"] # wanted["sharedTarget"] \/ found["nodePort"] # wanted["nodePort"]

Differs == found # wanted

\* Create the map that was not found, or update the one that differs, without a resource
\* version: an error when it does exist, or does not exist any more.
WriteConfig ==
  LET stored == maps[desired.cno] IN
  /\ pc = "write"
  /\ \/ /\ IF found = Missing THEN stored = Missing ELSE Differs /\ stored # Missing
        /\ StoreMap(desired.cno, asStringMap(wanted))
        /\ Forget /\ outcome' = "ok"
        /\ UNCHANGED <<specVars, serviceVars, queued>>
     \/ /\ IF found = Missing THEN stored # Missing ELSE Differs /\ stored = Missing
        /\ Return("failed")
     \/ found # Missing /\ ~Differs /\ Return("ok")
  /\ UNCHANGED budgetVars

Reconcile == StartReconcile \/ ReconcileGoflow \/ ReadConfigs \/ WriteConfig

-----------------------------------------------------------------------------
(* Failures.                                                               *)

\* A call of goflow-kube or of the console plugin fails.
CallFails ==
  /\ pc # "idle"
  /\ Fail
  /\ SpendFault

\* A call of FlowsConfigController.Reconcile fails, the look-up among them: logged.
OvsFails ==
  /\ pc \in {"read", "write"}
  /\ Return("failed")
  /\ SpendFault

\* The process dies; the next one lists everything before it reconciles.
Restart ==
  /\ Forget /\ queued' = TRUE /\ outcome' = "none"
  /\ specCache' = spec /\ serviceCache' = service /\ mapCache' = maps /\ late' = {}
  /\ UNCHANGED <<spec, service, lastAddress, dns, maps>>
  /\ SpendFault

-----------------------------------------------------------------------------
(* The environment.                                                        *)

\* A user writes the spec.
EditSpec ==
  /\ Trouble /\ edits < MaxEdits /\ edits' = edits + 1
  /\ spec' \in Specs \ {spec}
  /\ UNCHANGED <<specCache, serviceVars, mapVars, late, queued, passVars, outcome, faults>>

\* Informers catch up; every event requeues the FlowCollector.
Wake ==
  /\ queued' = TRUE
  /\ UNCHANGED <<passVars, outcome, budgetVars>>

InformSpec ==
  /\ specCache # spec /\ specCache' = spec
  /\ UNCHANGED <<spec, serviceVars, mapVars, late>>
  /\ Wake

InformService ==
  /\ "service" \in late /\ late' = late \ {"service"}
  /\ serviceCache' = service
  /\ UNCHANGED <<specVars, service, lastAddress, dns, mapVars>>
  /\ Wake

\* Mutant: the controller does not own the maps.
InformMap_Quiet(n) ==
  /\ n \in late /\ late' = late \ {n}
  /\ mapCache' = [mapCache EXCEPT ![n] = maps[n]]
  /\ UNCHANGED <<specVars, serviceVars, maps, queued, passVars, outcome, budgetVars>>

InformMap(n) ==
  /\ n \in late /\ late' = late \ {n}
  /\ mapCache' = [mapCache EXCEPT ![n] = maps[n]]
  /\ UNCHANGED <<specVars, serviceVars, maps>>
  /\ Wake

Inform == InformSpec \/ InformService \/ \E n \in CnoNamespaces : InformMap(n)

\* The informers' periodic resync requeues the owner of every object they hold (external).
Resync ==
  /\ ~queued
  /\ UNCHANGED <<specVars, serviceVars, mapVars, late>>
  /\ Wake

\* The cluster's DNS (external) follows the Service.
UpdateDns ==
  /\ dns # service /\ dns' = service
  /\ UNCHANGED <<specVars, service, serviceCache, lastAddress, mapVars, late, queued,
                 passVars, outcome, budgetVars>>

\* Somebody deletes the Service, or deletes a map or edits it by hand.
Tamper ==
  /\ \/ service # 0 /\ StoreService(0) /\ UNCHANGED <<lastAddress, mapVars>>
     \/ \E n \in CnoNamespaces :
          /\ maps[n] # Missing
          /\ \/ StoreMap(n, Missing)
             \/ \E value \in Samplings \union {Garbage} :
                  StoreMap(n, [key \in DOMAIN maps[n] \union {"sampling"} |->
                                 IF key = "sampling" THEN value ELSE maps[n][key]])
          /\ UNCHANGED serviceVars
  /\ UNCHANGED <<specVars, queued, passVars, outcome>>
  /\ SpendFault

Failures    == CallFails \/ OvsFails \/ Restart
Environment == EditSpec \/ Inform \/ Resync \/ UpdateDns \/ Tamper

Next == Reconcile \/ Failures \/ Environment

Spec == Init /\ [][Next]_vars

\* The worker, the informers, their resync and the DNS do not stop.
Fairness == WF_vars(Reconcile) /\ WF_vars(Inform) /\ WF_vars(Resync) /\ WF_vars(UpdateDns)

FairSpec == Spec /\ Fairness

-----------------------------------------------------------------------------
Settled == pc = "idle" /\ ~queued /\ late = {} /\ specCache = spec

\* When nothing is left to wake the operator up and it logged no error, the map in the
\* namespace of the spec decodes to the settings of the spec and to one kind of target,
\* the one of its kind of collector: the address may be outdated, the rest is not.
Told(s, data) ==
  /\ data # Missing /\ Decodable(data)
  /\ \E address \in 0 .. lastAddress :
       /\ s.kind = "Deployment" => address # 0
       /\ configFromMap(data) = desiredConfig(s, address)

SettledTold == Settled /\ outcome = "ok" => Told(spec, maps[spec.cno])

\* "nodePort [when] the collector is deployed as a DaemonSet, sharedTarget [...] as
\* Deployment + Service": at no moment, whatever kinds succeed each other, whatever fails and
\* whatever sampling somebody writes into a map, does one name both targets, nor a shared
\* target that is no address the Service ever had.
SoundTarget(data) ==
  "sharedTarget" \in DOMAIN data =>
    /\ "nodePort" \notin DOMAIN data
    /\ \E address \in 1 .. lastAddress, port \in Ports :
         data["sharedTarget"] = JoinHostPort(address, port)

TargetsSound == \A n \in CnoNamespaces : maps[n] # Missing => SoundTarget(maps[n])

\* Although errors are only logged and no event tells that the DNS changed, the map
\* becomes and stays what the spec and the Service ask for, thanks to the resync; unless
\* somebody leaves in it a value that cannot be decoded, which the operator never repairs.
Followed ==
  LET data == maps[spec.cno] IN
  \/ data # Missing /\ ~Decodable(data)
  \/ /\ spec.kind = "Deployment" => service # 0
     /\ data # Missing /\ configFromMap(data) = desiredConfig(spec, service)

Converges == <>[]Followed
=============================================================================
