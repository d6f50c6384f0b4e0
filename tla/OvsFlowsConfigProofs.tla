------------------------ MODULE OvsFlowsConfigProofs ------------------------
(***************************************************************************)
(* Theorems about OvsFlowsConfig, for every set of namespaces and settings, *)
(* and any number of edits, failures and interventions.                     *)
(***************************************************************************)
EXTENDS OvsFlowsConfig, TLAPS

-----------------------------------------------------------------------------
(* The strings of the map.                                                 *)

\* The configuration made of three numbers.
LEMMA FlowsConfigType ==
  ASSUME NEW a \in Nat, NEW b \in Nat, NEW c \in Nat
  PROVE  flowsConfig(a, b, c) \in FlowsConfigs
BY DEF flowsConfig, FlowsConfigs, Keys

\* What a specification and an address make is a configuration.
LEMMA DesiredType ==
  ASSUME NEW s \in Specs, NEW ip \in Nat
  PROVE  desiredConfig(s, ip) \in FlowsConfigs
<1>1. s.sampling \in Nat /\ s.port \in Nat
  BY ConstantAssumption DEF Specs
<1>2. JoinHostPort(ip, s.port) \in Nat
  BY <1>1 DEF JoinHostPort
<1>3. QED
  BY <1>1, <1>2, FlowsConfigType DEF desiredConfig

\* What is written can be read again, and reads as what was written: leaving out the
\* zeros loses nothing.
LEMMA RoundTrip ==
  ASSUME NEW fc \in FlowsConfigs
  PROVE  /\ IsData(asStringMap(fc)) /\ asStringMap(fc) # Missing
         /\ Decodable(asStringMap(fc))
         /\ configFromMap(asStringMap(fc)) = fc
<1> DEFINE K == {key \in Keys : fc[key] # 0}
<1>1. fc = [key \in Keys |-> fc[key]] /\ \A key \in Keys : fc[key] \in Nat
  BY DEF FlowsConfigs
<1>2. asStringMap(fc) = [key \in K |-> fc[key]]
  BY DEF asStringMap
<1>3. asStringMap(fc) \in [K -> Nat \union {Garbage}] /\ K \in SUBSET Keys
  BY <1>1, <1>2
<1>4. IsData(asStringMap(fc))
  BY <1>3 DEF IsData
<1>5. Decodable(asStringMap(fc))
  BY <1>1, <1>2, ConstantAssumption DEF Decodable
<1>6. configFromMap(asStringMap(fc)) = [key \in Keys |-> fc[key]]
  BY <1>1, <1>2 DEF configFromMap
<1>7. QED
  BY <1>1, <1>4, <1>5, <1>6, MissingAssumption

\* What can be decoded is a configuration.
LEMMA DecodedType ==
  ASSUME NEW data, IsData(data), Decodable(data)
  PROVE  configFromMap(data) \in FlowsConfigs
<1>1. PICK K \in SUBSET Keys : data \in [K -> Nat \union {Garbage}]
  BY DEF IsData
<1>2. \A key \in K : data[key] \in Nat
  BY <1>1 DEF Decodable
<1>3. QED
  BY <1>1, <1>2 DEF configFromMap, FlowsConfigs

\* Data with another sampling are data.
LEMMA EditedData ==
  ASSUME NEW data, IsData(data), NEW value \in Nat \union {Garbage}
  PROVE  IsData([key \in DOMAIN data \union {"sampling"} |->
                   IF key = "sampling" THEN value ELSE data[key]])
<1>1. PICK K \in SUBSET Keys : data \in [K -> Nat \union {Garbage}]
  BY DEF IsData
<1>2. K \union {"sampling"} \in SUBSET Keys
  BY DEF Keys
<1>3. [key \in DOMAIN data \union {"sampling"} |->
         IF key = "sampling" THEN value ELSE data[key]]
      \in [K \union {"sampling"} -> Nat \union {Garbage}]
  BY <1>1
<1>4. QED
  BY <1>2, <1>3 DEF IsData

\* The specification and the configuration that stand for none.
LEMMA NoSpecType == NoSpec \in Specs
<1>1. PICK n \in CnoNamespaces, p \in Ports, v \in Samplings : TRUE
  BY ConstantAssumption
<1>2. [kind |-> "Deployment", cno |-> n, sampling |-> v, port |-> p] \in Specs
  BY <1>1 DEF Specs
<1>3. QED
  BY <1>2 DEF NoSpec

LEMMA NoConfigType == NoConfig \in FlowsConfigs
BY FlowsConfigType DEF NoConfig

\* Replacing the map of a namespace.
LEMMA MapsUpdate ==
  ASSUME NEW m, AreMaps(m), NEW n \in CnoNamespaces, NEW d, d = Missing \/ IsData(d)
  PROVE  /\ AreMaps([m EXCEPT ![n] = d])
         /\ [m EXCEPT ![n] = d][n] = d
         /\ \A j \in CnoNamespaces \ {n} : [m EXCEPT ![n] = d][j] = m[j]
BY DEF AreMaps

-----------------------------------------------------------------------------
(* Type correctness.                                                       *)

\* Ending the pass keeps its types.
LEMMA ForgetType ==
  ASSUME Forget
  PROVE  /\ pc' = "idle" /\ desired' \in Specs
         /\ found' \in FlowsConfigs \union {Missing} /\ wanted' \in FlowsConfigs
BY NoSpecType, NoConfigType DEF Forget

\* An error keeps the types,
LEMMA FailType ==
  ASSUME TypeOK, Fail, edits' \in Nat, faults' \in Nat
  PROVE  TypeOK'
BY ForgetType DEF TypeOK, Fail, specVars, serviceVars, mapVars

\* and so does a result.
LEMMA ReturnType ==
  ASSUME TypeOK, NEW r \in {"ok", "failed"}, Return(r), edits' \in Nat, faults' \in Nat
  PROVE  TypeOK'
BY ForgetType DEF TypeOK, Return, specVars, serviceVars, mapVars

\* Somebody who edits a map leaves data in it, or deletes it.
LEMMA TamperMaps ==
  ASSUME TypeOK, Tamper, UNCHANGED serviceVars
  PROVE  \E n \in CnoNamespaces : \E d : (d = Missing \/ IsData(d)) /\ StoreMap(n, d)
<1>1. ASSUME NEW n \in CnoNamespaces, maps[n] # Missing,
             NEW value \in Samplings \union {Garbage}
      PROVE  IsData([key \in DOMAIN maps[n] \union {"sampling"} |->
                       IF key = "sampling" THEN value ELSE maps[n][key]])
  BY <1>1, EditedData, ConstantAssumption DEF TypeOK, AreMaps
<1>2. ~(service # 0 /\ StoreService(0))
  BY DEF StoreService, serviceVars
<1>3. QED
  BY <1>1, <1>2 DEF Tamper

\* Every step keeps the types.
LEMMA TypeStep == TypeOK /\ [Next]_vars => TypeOK'
<1> SUFFICES ASSUME TypeOK, [Next]_vars PROVE TypeOK'
  OBVIOUS
<1>1. CASE StartReconcile
  BY <1>1 DEF StartReconcile, TypeOK, specVars, serviceVars, mapVars, budgetVars
<1>2. CASE ReconcileGoflow
  <2>1. CASE Fail
    BY <1>2, <2>1, FailType DEF ReconcileGoflow, TypeOK, budgetVars
  <2>2. CASE /\ pc' = "read"
             /\ UNCHANGED <<specVars, mapVars, queued, desired, found, wanted, outcome>>
    <3>1. /\ service' \in Nat /\ serviceCache' \in Nat /\ lastAddress' \in Nat /\ dns' \in Nat
          /\ late' \subseteq CnoNamespaces \union {"service"}
      BY <1>2, <2>2
         DEF ReconcileGoflow, NewService, KeepService, StoreService, Fail, TypeOK, serviceVars
    <3>2. QED
      BY <1>2, <2>2, <3>1 DEF ReconcileGoflow, TypeOK, specVars, mapVars, budgetVars
  <2>3. QED
    BY <1>2, <2>1, <2>2 DEF ReconcileGoflow
<1>3. CASE ReadConfigs
  <2>1. CASE Return("failed")
    BY <1>3, <2>1, ReturnType DEF ReadConfigs, TypeOK, budgetVars
  <2>2. CASE /\ mapCache[desired.cno] # Missing => Decodable(mapCache[desired.cno])
             /\ pc' = "write"
             /\ found' = IF mapCache[desired.cno] = Missing THEN Missing
                         ELSE configFromMap(mapCache[desired.cno])
             /\ wanted' = desiredConfig(desired, dns)
             /\ UNCHANGED <<specVars, serviceVars, mapVars, late, queued, desired, outcome>>
    <3>1. desired.cno \in CnoNamespaces
      BY DEF TypeOK, Specs
    <3>2. found' \in FlowsConfigs \union {Missing}
      BY <2>2, <3>1, DecodedType DEF TypeOK, AreMaps
    <3>3. wanted' \in FlowsConfigs
      BY <2>2, DesiredType DEF TypeOK
    <3>4. QED
      BY <1>3, <2>2, <3>2, <3>3
         DEF ReadConfigs, TypeOK, specVars, serviceVars, mapVars, budgetVars
  <2>3. QED
    BY <1>3, <2>1, <2>2 DEF ReadConfigs
<1>4. CASE WriteConfig
  <2>1. CASE Return("failed") \/ Return("ok")
    BY <1>4, <2>1, ReturnType DEF WriteConfig, TypeOK, budgetVars
  <2>2. CASE /\ StoreMap(desired.cno, asStringMap(wanted))
             /\ Forget /\ outcome' = "ok"
             /\ UNCHANGED <<specVars, serviceVars, queued>>
    <3>1. AreMaps(maps') /\ AreMaps(mapCache')
      BY <2>2, RoundTrip, MapsUpdate DEF TypeOK, Specs, StoreMap
    <3>2. late' \subseteq CnoNamespaces \union {"service"}
      BY <2>2 DEF TypeOK, Specs, StoreMap
    <3>3. QED
      BY <1>4, <2>2, <3>1, <3>2, ForgetType
         DEF WriteConfig, TypeOK, specVars, serviceVars, budgetVars
  <2>3. QED
    BY <1>4, <2>1, <2>2 DEF WriteConfig
<1>5. CASE CallFails
  BY <1>5, FailType DEF CallFails, SpendFault, TypeOK
<1>6. CASE OvsFails
  BY <1>6, ReturnType DEF OvsFails, SpendFault, TypeOK
<1>7. CASE Restart
  BY <1>7, ForgetType DEF Restart, SpendFault, TypeOK
<1>8. CASE EditSpec
  BY <1>8 DEF EditSpec, TypeOK, serviceVars, mapVars, passVars
<1>9. CASE Inform
  <2>1. CASE InformSpec
    BY <2>1 DEF InformSpec, Wake, TypeOK, serviceVars, mapVars, passVars, budgetVars
  <2>2. CASE InformService
    BY <2>2 DEF InformService, Wake, TypeOK, specVars, mapVars, passVars, budgetVars
  <2>3. ASSUME NEW n \in CnoNamespaces, InformMap(n) PROVE TypeOK'
    <3>1. AreMaps(mapCache')
      BY <2>3, MapsUpdate DEF InformMap, TypeOK, AreMaps
    <3>2. QED
      BY <2>3, <3>1 DEF InformMap, Wake, TypeOK, specVars, serviceVars, passVars, budgetVars
  <2>4. QED
    BY <1>9, <2>1, <2>2, <2>3 DEF Inform
<1>10. CASE Resync
  BY <1>10 DEF Resync, Wake, TypeOK, specVars, serviceVars, mapVars, passVars, budgetVars
<1>11. CASE UpdateDns
  BY <1>11 DEF UpdateDns, TypeOK, specVars, mapVars, passVars, budgetVars
<1>12. CASE Tamper
  <2>1. /\ UNCHANGED <<specVars, queued, passVars, outcome>>
        /\ edits' \in Nat /\ faults' \in Nat
    BY <1>12 DEF Tamper, SpendFault, TypeOK
  <2>2. CASE StoreService(0) /\ UNCHANGED <<lastAddress, mapVars>>
    BY <2>1, <2>2 DEF StoreService, TypeOK, specVars, mapVars, passVars
  <2>3. CASE UNCHANGED serviceVars
    <3>1. PICK n \in CnoNamespaces : \E d : (d = Missing \/ IsData(d)) /\ StoreMap(n, d)
      BY <1>12, <2>3, TamperMaps
    <3>2. PICK d : (d = Missing \/ IsData(d)) /\ StoreMap(n, d)
      BY <3>1
    <3>3. AreMaps(maps')
      BY <3>2, MapsUpdate DEF TypeOK, StoreMap
    <3>4. mapCache' = mapCache /\ late' \subseteq CnoNamespaces \union {"service"}
      BY <3>2 DEF TypeOK, StoreMap
    <3>5. QED
      BY <2>1, <2>3, <3>3, <3>4 DEF TypeOK, AreMaps, specVars, serviceVars, passVars
  <2>4. QED
    BY <1>12, <2>2, <2>3 DEF Tamper
<1>13. CASE UNCHANGED vars
  BY <1>13 DEF TypeOK, vars, specVars, serviceVars, mapVars, passVars, budgetVars
<1>14. QED
  BY <1>1, <1>2, <1>3, <1>4, <1>5, <1>6, <1>7, <1>8, <1>9, <1>10, <1>11, <1>12, <1>13
     DEF Next, Reconcile, Failures, Environment

\* Every variable of the flows config keeps its type: what is in the maps always is data,
\* and what the pass compares always is a whole configuration.
THEOREM FlowsConfigTypeCorrect == Spec => []TypeOK
<1>1. Init => TypeOK
  BY NoSpecType, NoConfigType DEF Init, TypeOK, NoMap, AreMaps
<1>2. QED
  BY <1>1, TypeStep, PTL DEF Spec

-----------------------------------------------------------------------------
(* What the map says when the operator is content with it.                  *)

\* A cache without a late event is right.
CacheTrue == \A n \in CnoNamespaces \ late : mapCache[n] = maps[n]

\* A pass during which nothing woke the operator up works on the spec it still knows.
Undisturbed == pc # "idle" /\ ~queued => desired = specCache

\* The addresses that go around were given.
Given == service <= lastAddress /\ dns <= lastAddress

\* What the pass wants to write is made of its spec and an address that was given;
WantedRight ==
  pc = "write" =>
    \E address \in 0 .. lastAddress :
      /\ desired.kind = "Deployment" => address # 0
      /\ wanted = desiredConfig(desired, address)

\* and what it compares it with is, unless an event has come since, the map it knows.
FoundRight ==
  pc = "write" /\ ~queued /\ found # Missing =>
    LET data == mapCache[desired.cno] IN
    data # Missing /\ Decodable(data) /\ found = configFromMap(data)

\* After a pass without an error, until something wakes the operator up, the map agrees
\* with the spec the operator knows.
OkTold ==
  pc = "idle" /\ ~queued /\ outcome = "ok" /\ specCache.cno \notin late =>
    Told(specCache, maps[specCache.cno])

IInv ==
  TypeOK /\ CacheTrue /\ Undisturbed /\ Given /\ WantedRight /\ FoundRight /\ OkTold

\* A write of a map leaves the others alone, and the caches; without a new event it
\* changes nothing.
LEMMA StoreMapEffect ==
  ASSUME TypeOK, NEW n \in CnoNamespaces, NEW d, StoreMap(n, d)
  PROVE  /\ maps'[n] = d
         /\ \A j \in CnoNamespaces : j \notin late' => j \notin late
         /\ \A j \in CnoNamespaces : j \notin late' => maps'[j] = maps[j]
         /\ mapCache' = mapCache
<1>1. DOMAIN maps = CnoNamespaces
  BY DEF TypeOK, AreMaps
<1>2. QED
  BY <1>1 DEF StoreMap

\* Steps that end the pass, with an error or a request, promise nothing.
LEMMA NothingPromised ==
  ASSUME IInv, TypeOK', pc' = "idle", queued' \/ outcome' # "ok",
         UNCHANGED <<service, lastAddress, dns>>, CacheTrue'
  PROVE  IInv'
BY DEF IInv, Undisturbed, Given, WantedRight, FoundRight, OkTold

\* What is left in place stays true.
LEMMA SameMaps == ASSUME CacheTrue, UNCHANGED <<mapVars, late>> PROVE CacheTrue'
BY DEF CacheTrue, mapVars

\* The pass ends without an error: it has written what it wants, or found it there.
LEMMA WriteStep ==
  ASSUME IInv, TypeOK', WriteConfig
  PROVE  IInv'
<1>0. /\ TypeOK /\ CacheTrue /\ Undisturbed /\ Given /\ WantedRight /\ FoundRight
      /\ pc = "write" /\ desired.cno \in CnoNamespaces
  BY DEF IInv, WriteConfig, TypeOK, Specs
<1>1. CASE Return("failed")
  BY <1>0, <1>1, NothingPromised, SameMaps DEF Return, Forget, serviceVars
<1>2. CASE /\ StoreMap(desired.cno, asStringMap(wanted))
           /\ Forget /\ outcome' = "ok"
           /\ UNCHANGED <<specVars, serviceVars, queued>>
  <2>1. /\ maps'[desired.cno] = asStringMap(wanted)
        /\ CacheTrue'
    BY <1>0, <1>2, StoreMapEffect DEF CacheTrue
  <2>2. Given' /\ Undisturbed' /\ WantedRight' /\ FoundRight' /\ lastAddress' = lastAddress
    BY <1>0, <1>2 DEF Forget, Given, Undisturbed, WantedRight, FoundRight, serviceVars
  <2>3. OkTold'
    <3>1. SUFFICES ASSUME ~queued' PROVE OkTold'
      BY DEF OkTold
    <3>2. desired = specCache /\ specCache' = specCache
      BY <1>0, <1>2, <3>1 DEF Undisturbed, specVars
    <3>3. LET data == maps'[specCache.cno] IN
          data # Missing /\ Decodable(data) /\ configFromMap(data) = wanted
      BY <1>0, <2>1, <3>2, RoundTrip DEF TypeOK
    <3>4. QED
      BY <1>0, <2>2, <3>2, <3>3 DEF OkTold, Told, WantedRight
  <2>4. QED
    BY <2>1, <2>2, <2>3 DEF IInv
<1>3. CASE found # Missing /\ ~Differs /\ Return("ok")
  <2>1. CacheTrue' /\ Given' /\ Undisturbed' /\ WantedRight' /\ FoundRight'
    BY <1>0, <1>3, SameMaps
       DEF Return, Forget, Given, Undisturbed, WantedRight, FoundRight, serviceVars
  <2>2. OkTold'
    <3>1. SUFFICES ASSUME ~queued', specCache'.cno \notin late' PROVE OkTold'
      BY DEF OkTold
    <3>2. /\ desired = specCache /\ specCache' = specCache /\ lastAddress' = lastAddress
          /\ mapCache[desired.cno] = maps[desired.cno] /\ maps' = maps
      BY <1>0, <1>3, <3>1 DEF Undisturbed, CacheTrue, Return, specVars, serviceVars, mapVars
    <3>3. LET data == maps'[specCache.cno] IN
          data # Missing /\ Decodable(data) /\ configFromMap(data) = wanted
      BY <1>0, <1>3, <3>1, <3>2 DEF FoundRight, Differs, Return
    <3>4. QED
      BY <1>0, <3>2, <3>3 DEF OkTold, Told, WantedRight
  <2>3. QED
    BY <2>1, <2>2 DEF IInv
<1>4. QED
  BY <1>1, <1>2, <1>3 DEF WriteConfig

\* Every step keeps what the operator knows and has done.
LEMMA InvariantStep == IInv /\ [Next]_vars => IInv'
<1> SUFFICES ASSUME IInv, [Next]_vars PROVE IInv'
  OBVIOUS
<1>0. /\ TypeOK /\ CacheTrue /\ Undisturbed /\ Given /\ WantedRight /\ FoundRight
      /\ OkTold /\ TypeOK'
  BY TypeStep DEF IInv
<1>1. CASE StartReconcile
  BY <1>0, <1>1
     DEF StartReconcile, IInv, CacheTrue, Undisturbed, Given, WantedRight, FoundRight, OkTold,
         specVars, serviceVars, mapVars
<1>2. CASE ReconcileGoflow
  <2>1. CASE Fail
    BY <1>0, <2>1, NothingPromised, SameMaps DEF Fail, Forget, serviceVars
  <2>2. CASE /\ pc' = "read"
             /\ UNCHANGED <<specVars, mapVars, queued, desired, found, wanted, outcome>>
    <3>1. /\ Given' /\ \A n \in CnoNamespaces : n \notin late' => n \notin late
      BY <1>0, <1>2, <2>2
         DEF ReconcileGoflow, NewService, KeepService, StoreService, Fail, TypeOK, Given,
             serviceVars
    <3>2. QED
      BY <1>0, <1>2, <2>2, <3>1
         DEF ReconcileGoflow, IInv, CacheTrue, Undisturbed, WantedRight, FoundRight, OkTold,
             specVars, mapVars
  <2>3. QED
    BY <1>2, <2>1, <2>2 DEF ReconcileGoflow
<1>3. CASE ReadConfigs
  <2>1. CASE Return("failed")
    BY <1>0, <2>1, NothingPromised, SameMaps DEF Return, Forget, serviceVars
  <2>2. CASE /\ mapCache[desired.cno] # Missing => Decodable(mapCache[desired.cno])
             /\ desired.kind = "DaemonSet" \/ (serviceCache # 0 /\ dns # 0)
             /\ pc' = "write"
             /\ found' = IF mapCache[desired.cno] = Missing THEN Missing
                         ELSE configFromMap(mapCache[desired.cno])
             /\ wanted' = desiredConfig(desired, dns)
             /\ UNCHANGED <<specVars, serviceVars, mapVars, late, queued, desired, outcome>>
    <3>1. CacheTrue' /\ Undisturbed' /\ Given' /\ OkTold' /\ FoundRight'
      BY <1>0, <1>3, <2>2, SameMaps
         DEF ReadConfigs, Undisturbed, Given, OkTold, FoundRight, specVars, serviceVars, mapVars
    <3>2. WantedRight'
      <4>1. dns \in 0 .. lastAddress
        BY <1>0 DEF TypeOK, Given
      <4>2. \E address \in 0 .. lastAddress :
              /\ desired.kind = "Deployment" => address # 0
              /\ wanted' = desiredConfig(desired, address)
        BY <2>2, <4>1
      <4>3. QED
        BY <2>2, <4>2 DEF WantedRight, serviceVars
    <3>3. QED
      BY <1>0, <3>1, <3>2 DEF IInv
  <2>3. QED
    BY <1>3, <2>1, <2>2 DEF ReadConfigs
<1>4. CASE WriteConfig
  BY <1>0, <1>4, WriteStep
<1>5. CASE CallFails
  BY <1>0, <1>5, NothingPromised, SameMaps DEF CallFails, Fail, Forget, serviceVars
<1>6. CASE OvsFails
  BY <1>0, <1>6, NothingPromised, SameMaps DEF OvsFails, Return, Forget, serviceVars
<1>7. CASE Restart
  BY <1>0, <1>7, NothingPromised DEF Restart, Forget, CacheTrue
<1>8. CASE EditSpec
  BY <1>0, <1>8, SameMaps
     DEF EditSpec, IInv, Undisturbed, Given, WantedRight, FoundRight, OkTold, Told,
         serviceVars, mapVars, passVars
<1>9. CASE Inform \/ Resync
  <2>1. /\ queued' /\ UNCHANGED <<passVars, service, lastAddress, dns, maps>>
    BY <1>9
       DEF Inform, InformSpec, InformService, InformMap, Resync, Wake, serviceVars, mapVars
  <2>2. CacheTrue'
    <3>1. CASE InformSpec \/ InformService \/ Resync
      BY <1>0, <3>1, ConstantAssumption
         DEF InformSpec, InformService, Resync, CacheTrue, mapVars
    <3>2. CASE \E n \in CnoNamespaces : InformMap(n)
      BY <1>0, <3>2 DEF InformMap, CacheTrue, TypeOK, AreMaps
    <3>3. QED
      BY <1>9, <3>1, <3>2 DEF Inform
  <2>3. QED
    BY <1>0, <2>1, <2>2
       DEF IInv, Undisturbed, Given, WantedRight, FoundRight, OkTold, passVars
<1>10. CASE UpdateDns
  BY <1>0, <1>10, SameMaps
     DEF UpdateDns, IInv, Undisturbed, Given, WantedRight, FoundRight, OkTold, Told,
         specVars, mapVars, passVars
<1>11. CASE Tamper
  <2>1. UNCHANGED <<specVars, queued, passVars, outcome>>
    BY <1>11 DEF Tamper
  <2>2. CASE StoreService(0) /\ UNCHANGED <<lastAddress, mapVars>>
    BY <1>0, <2>1, <2>2
       DEF StoreService, IInv, CacheTrue, Undisturbed, Given, WantedRight, FoundRight, OkTold,
           Told, TypeOK, specVars, mapVars, passVars
  <2>3. CASE UNCHANGED serviceVars
    <3>1. PICK n \in CnoNamespaces : \E d : (d = Missing \/ IsData(d)) /\ StoreMap(n, d)
      BY <1>0, <1>11, <2>3, TamperMaps
    <3>2. PICK d : StoreMap(n, d)
      BY <3>1
    <3>3. /\ \A j \in CnoNamespaces : j \notin late' => j \notin late
          /\ \A j \in CnoNamespaces : j \notin late' => maps'[j] = maps[j]
          /\ mapCache' = mapCache
      BY <1>0, <3>2, StoreMapEffect
    <3>4. specCache.cno \in CnoNamespaces
      BY <1>0 DEF TypeOK, Specs
    <3>5. QED
      BY <1>0, <2>1, <2>3, <3>3, <3>4
         DEF IInv, CacheTrue, Undisturbed, Given, WantedRight, FoundRight, OkTold, Told,
             specVars, serviceVars, passVars
  <2>4. QED
    BY <1>11, <2>2, <2>3 DEF Tamper
<1>12. CASE UNCHANGED vars
  BY <1>0, <1>12, SameMaps
     DEF vars, IInv, Undisturbed, Given, WantedRight, FoundRight, OkTold, Told,
         specVars, serviceVars, mapVars, passVars
<1>13. QED
  BY <1>1, <1>2, <1>3, <1>4, <1>5, <1>6, <1>7, <1>8, <1>9, <1>10, <1>11, <1>12
     DEF Next, Reconcile, Failures, Environment

\* However late caches and DNS are, whatever fails and whoever edits the map: when nothing
\* is left to wake the operator up and it logged no error, the map says what the spec says,
\* with an address that was the Service's.
THEOREM FlowsConfigTold == Spec => []SettledTold
<1>1. TypeOK /\ Init => IInv
  BY DEF Init, IInv, CacheTrue, Undisturbed, Given, WantedRight, FoundRight, OkTold
<1>2. IInv => SettledTold
  BY DEF IInv, OkTold, SettledTold, Settled
<1>3. QED
  BY <1>1, <1>2, InvariantStep, FlowsConfigTypeCorrect, PTL DEF Spec

-----------------------------------------------------------------------------
(* What any map says, at any time.                                         *)

\* What a pass is about to write is one target, made of the address of the Service.
SoundWanted ==
  pc = "write" =>
    \/ wanted["sharedTarget"] = 0
    \/ /\ wanted["nodePort"] = 0
       /\ \E address \in 1 .. lastAddress, port \in Ports :
            wanted["sharedTarget"] = JoinHostPort(address, port)

LEMMA WantedSound == IInv => SoundWanted
<1> SUFFICES ASSUME IInv, pc = "write" PROVE SoundWanted
  BY DEF SoundWanted
<1>1. PICK address \in 0 .. lastAddress :
        /\ desired.kind = "Deployment" => address # 0
        /\ wanted = desiredConfig(desired, address)
  BY DEF IInv, WantedRight
<1>2. desired.kind \in {"Deployment", "DaemonSet"} /\ desired.port \in Ports
  BY DEF IInv, TypeOK, Specs
<1>3. CASE desired.kind = "DaemonSet"
  BY <1>1, <1>3 DEF desiredConfig, flowsConfig, Keys, SoundWanted
<1>4. CASE desired.kind = "Deployment"
  <2>1. wanted["nodePort"] = 0 /\ wanted["sharedTarget"] = JoinHostPort(address, desired.port)
    BY <1>1, <1>4 DEF desiredConfig, flowsConfig, Keys
  <2>2. address \in 1 .. lastAddress
    BY <1>1, <1>4 DEF IInv, TypeOK
  <2> QED
    BY <1>2, <2>1, <2>2 DEF SoundWanted
<1> QED
  BY <1>2, <1>3, <1>4

\* The data written for it has no more keys than it has settings.
LEMMA WrittenSound ==
  ASSUME IInv, pc = "write" PROVE SoundTarget(asStringMap(wanted))
<1>1. wanted \in FlowsConfigs /\ SoundWanted
  BY WantedSound DEF IInv, TypeOK
<1>2. /\ DOMAIN asStringMap(wanted) = {k \in Keys : wanted[k] # 0}
      /\ \A k \in DOMAIN asStringMap(wanted) : asStringMap(wanted)[k] = wanted[k]
  BY DEF asStringMap
<1>3. CASE wanted["sharedTarget"] = 0
  BY <1>2, <1>3 DEF SoundTarget
<1>4. CASE wanted["sharedTarget"] # 0
  <2>1. wanted["nodePort"] = 0
    BY <1>1, <1>4 DEF SoundWanted
  <2>2. asStringMap(wanted)["sharedTarget"] = wanted["sharedTarget"]
    BY <1>2, <1>4 DEF Keys
  <2>3. \E address \in 1 .. lastAddress, port \in Ports :
          wanted["sharedTarget"] = JoinHostPort(address, port)
    BY <1>1, <1>4 DEF SoundWanted
  <2> QED
    BY <1>2, <2>1, <2>2, <2>3 DEF SoundTarget
<1> QED
  BY <1>3, <1>4

\* Who edits a map by hand changes its sampling only.
LEMMA EditedSound ==
  ASSUME NEW data, SoundTarget(data), NEW value
  PROVE  SoundTarget([key \in DOMAIN data \union {"sampling"} |->
                        IF key = "sampling" THEN value ELSE data[key]])
BY DEF SoundTarget

\* Addresses are given in order.
LEMMA AddressesGrow == TypeOK /\ [Next]_vars => lastAddress' \in {lastAddress, lastAddress + 1}
BY DEF Next, Reconcile, Failures, Environment, StartReconcile, ReconcileGoflow, ReadConfigs,
       WriteConfig, CallFails, OvsFails, Restart, EditSpec, Inform, InformSpec, InformService,
       InformMap, Resync, Wake, UpdateDns, Tamper, StoreService, NewService, KeepService, Fail,
       Return, vars, specVars, serviceVars, TypeOK

\* A map stays what it is, is written by the pass, deleted, or edited by hand.
LEMMA MapMoves ==
  ASSUME TypeOK, [Next]_vars, NEW n \in CnoNamespaces
  PROVE  \/ maps'[n] = maps[n]
         \/ maps'[n] = Missing
         \/ pc = "write" /\ maps'[n] = asStringMap(wanted)
         \/ /\ maps[n] # Missing
            /\ \E value : maps'[n] = [key \in DOMAIN maps[n] \union {"sampling"} |->
                                        IF key = "sampling" THEN value ELSE maps[n][key]]
<1>0. DOMAIN maps = CnoNamespaces
  BY DEF TypeOK, AreMaps
<1>1. CASE UNCHANGED maps
  BY <1>1
<1>2. CASE WriteConfig
  BY <1>0, <1>2 DEF WriteConfig, StoreMap, Return, mapVars
<1>3. CASE Tamper
  <2>1. CASE UNCHANGED mapVars
    BY <2>1 DEF mapVars
  <2>2. CASE \E j \in CnoNamespaces :
               /\ maps[j] # Missing
               /\ \/ StoreMap(j, Missing)
                  \/ \E value \in Samplings \union {Garbage} :
                       StoreMap(j, [key \in DOMAIN maps[j] \union {"sampling"} |->
                                      IF key = "sampling" THEN value ELSE maps[j][key]])
    <3>1. PICK j \in CnoNamespaces :
               /\ maps[j] # Missing
               /\ \/ StoreMap(j, Missing)
                  \/ \E value \in Samplings \union {Garbage} :
                       StoreMap(j, [key \in DOMAIN maps[j] \union {"sampling"} |->
                                      IF key = "sampling" THEN value ELSE maps[j][key]])
      BY <2>2
    <3>2. ASSUME NEW d, StoreMap(j, d)
          PROVE  maps'[n] = maps[n] \/ (n = j /\ maps'[n] = d)
      BY <1>0, <3>2 DEF StoreMap
    <3>3. CASE StoreMap(j, Missing)
      BY <3>2, <3>3
    <3>4. ASSUME NEW value,
                 StoreMap(j, [key \in DOMAIN maps[j] \union {"sampling"} |->
                                IF key = "sampling" THEN value ELSE maps[j][key]])
          PROVE  \/ maps'[n] = maps[n]
                 \/ /\ maps[n] # Missing
                    /\ maps'[n] = [key \in DOMAIN maps[n] \union {"sampling"} |->
                                     IF key = "sampling" THEN value ELSE maps[n][key]]
      BY <3>1, <3>2, <3>4
    <3> QED
      BY <3>1, <3>3, <3>4
  <2> QED
    BY <1>3, <2>1, <2>2 DEF Tamper
<1> QED
  BY <1>1, <1>2, <1>3
  DEF Next, Reconcile, Failures, Environment, StartReconcile, ReconcileGoflow, ReadConfigs,
      CallFails, OvsFails, Restart, EditSpec, Inform, InformSpec, InformService, InformMap,
      Resync, UpdateDns, Fail, Return, vars, mapVars

LEMMA SoundStep == IInv /\ TargetsSound /\ [Next]_vars => TargetsSound'
<1> SUFFICES ASSUME IInv, TargetsSound, [Next]_vars,
                    NEW n \in CnoNamespaces, maps'[n] # Missing
             PROVE  SoundTarget(maps[n])'
  BY DEF TargetsSound
<1>1. TypeOK /\ lastAddress \in Nat /\ lastAddress' \in {lastAddress, lastAddress + 1}
  BY AddressesGrow DEF IInv, TypeOK
<1>2. SoundTarget(maps'[n])
  <2>1. CASE maps'[n] = maps[n]
    BY <2>1 DEF TargetsSound
  <2>2. CASE pc = "write" /\ maps'[n] = asStringMap(wanted)
    BY <2>2, WrittenSound
  <2>3. CASE /\ maps[n] # Missing
             /\ \E value : maps'[n] = [key \in DOMAIN maps[n] \union {"sampling"} |->
                                         IF key = "sampling" THEN value ELSE maps[n][key]]
    BY <2>3, EditedSound DEF TargetsSound
  <2> QED
    BY <1>1, <2>1, <2>2, <2>3, MapMoves
<1>3. \A address \in 1 .. lastAddress : address \in 1 .. lastAddress'
  BY <1>1
<1> QED
  BY <1>2, <1>3 DEF SoundTarget

\* At no moment does a map name two targets, or one that the Service never was: every write
\* replaces the whole data, whichever kind the earlier one was for.
THEOREM FlowsConfigTargets == Spec => []TargetsSound
<1>1. Init => IInv /\ TargetsSound
  <2> SUFFICES ASSUME Init PROVE IInv /\ TargetsSound
    OBVIOUS
  <2>1. TypeOK
    BY NoSpecType, NoConfigType DEF Init, TypeOK, NoMap, AreMaps
  <2> QED
    BY <2>1
    DEF Init, IInv, CacheTrue, Undisturbed, Given, WantedRight, FoundRight, OkTold,
        TargetsSound, NoMap
<1> QED
  BY <1>1, InvariantStep, SoundStep, PTL DEF Spec
=============================================================================
