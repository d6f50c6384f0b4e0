------------------------- MODULE ConsolePluginProofs -------------------------
(***************************************************************************)
(* Theorems about ConsolePlugin, for every set of ports, images, addresses  *)
(* and replicas, and any number of edits, failures and interventions.       *)
(***************************************************************************)
EXTENDS ConsolePlugin, TLAPS

-----------------------------------------------------------------------------
(* The data.                                                               *)

\* The address of Loki is that of the querier, or else its own, as the API says.
LEMMA QuerierAddress ==
  ASSUME NEW s \in Specs
  PROVE  querierURL(s) \in Urls \union Queriers /\ AddressOfLoki(s, querierURL(s))
BY DEF querierURL, AddressOfLoki, Specs

\* What is built is an object of its kind.
LEMMA BuiltObject ==
  ASSUME NEW k \in Kinds, NEW s \in Specs, NEW old
  PROVE  Built(k, old, s) \in Objects(k)
<1>1. CASE k = "plugin"
  BY <1>1 DEF Built, Objects, buildConsolePlugin, Plugins, Specs
<1>2. CASE k = "deployment"
  BY <1>2, QuerierAddress, DataAssumption
     DEF Built, Objects, buildDeployment, Deployments, Specs
<1>3. CASE k = "service"
  BY <1>3 DEF Built, Objects, buildService, Services, Specs
<1>4. QED
  BY <1>1, <1>2, <1>3 DEF Kinds

\* An object of a kind is among those a cluster may hold, and is not a missing one.
LEMMA ObjectType ==
  ASSUME NEW k \in Kinds, NEW o \in Objects(k)
  PROVE  o \in Plugins \union Deployments \union Services /\ o # Missing
BY MissingAssumption DEF Kinds, Objects

\* Replacing one object of a cluster leaves a cluster.
LEMMA ClusterUpdate ==
  ASSUME NEW c \in Clusters, NEW k \in Kinds, NEW o \in Objects(k) \union {Missing}
  PROVE  /\ [c EXCEPT ![k] = o] \in Clusters
         /\ [c EXCEPT ![k] = o][k] = o
         /\ \A j \in Kinds \ {k} : [c EXCEPT ![k] = o][j] = c[j]
BY ObjectType DEF Clusters

\* The specification that stands for no specification is one.
LEMMA NoSpecType == NoSpec \in Specs
<1>1. PICK p \in Ports, d \in Pods, r \in ReplicaCounts, u \in Urls, q \in Queriers : TRUE
  BY DataAssumption
<1>2. [port |-> p, pod |-> d, replicas |-> r, url |-> u, querier |-> q] \in Specs
  BY <1>1 DEF Specs
<1>3. QED
  BY <1>2 DEF NoSpec

\* A cluster may hold nothing.
LEMMA NothingType == Nothing \in Clusters
BY DEF Nothing, Clusters

-----------------------------------------------------------------------------
(* Type correctness.                                                       *)

\* A write of an object keeps the types of what is stored.
LEMMA StoreType ==
  ASSUME TypeOK, NEW k \in Kinds, NEW o \in Objects(k) \union {Missing}, Store(k, o)
  PROVE  /\ server' \in Clusters /\ cache' \in Clusters
         /\ late' \subseteq Kinds /\ current' \subseteq Kinds
BY ClusterUpdate DEF TypeOK, Store

\* Going on with the pass, or ending it, keeps the types of the pass.
LEMMA AdvanceType ==
  ASSUME TypeOK, NEW l \in Kinds \union {"idle"}, Advance(l)
  PROVE  /\ spec' \in Specs /\ specCache' \in Specs /\ desired' \in Specs
         /\ fetched' \in Clusters /\ queued' \in BOOLEAN
         /\ pc' \in Kinds \union {"idle"} /\ edits' \in Nat /\ faults' \in Nat
BY NoSpecType, NothingType
   DEF TypeOK, Advance, Finish, Goto, Forget, specVars, budgetVars

\* Giving up keeps the types.
LEMMA FailType ==
  ASSUME TypeOK, Fail, edits' \in Nat, faults' \in Nat
  PROVE  TypeOK'
BY NoSpecType, NothingType DEF TypeOK, Fail, Forget, specVars, objectVars

\* Put keeps the types.
LEMMA PutType ==
  ASSUME TypeOK, NEW k \in Kinds, NEW next \in Kinds \union {"idle"}, Put(k, next)
  PROVE  TypeOK'
<1>1. CASE Store(k, Built(k, fetched[k], desired)) /\ Advance(next)
  <2>1. Built(k, fetched[k], desired) \in Objects(k)
    BY BuiltObject DEF TypeOK
  <2>2. QED
    BY <1>1, <2>1, StoreType, AdvanceType DEF TypeOK
<1>2. CASE Fail /\ UNCHANGED budgetVars
  BY <1>2, FailType DEF TypeOK, budgetVars
<1>3. CASE Advance(next) /\ UNCHANGED objectVars
  BY <1>3, AdvanceType DEF TypeOK, objectVars
<1>4. QED
  BY <1>1, <1>2, <1>3 DEF Put

\* What somebody may do to the objects leaves objects.
LEMMA TamperStores ==
  ASSUME TypeOK, Tamper
  PROVE  \E k \in Kinds : \E o \in Objects(k) \union {Missing} :
           /\ Store(k, o)
           /\ o # Missing /\ k = "service" => o.protocol = "TCP"
<1>1. CASE \E k \in Kinds : Store(k, Missing)
  BY <1>1
<1>2. CASE /\ server["deployment"] # Missing
           /\ Store("deployment", [server["deployment"] EXCEPT !.replicas = 0])
  <2>1. server["deployment"] \in Deployments
    BY <1>2 DEF TypeOK, Clusters, Objects, Kinds
  <2>2. [server["deployment"] EXCEPT !.replicas = 0] \in Objects("deployment")
    BY <2>1 DEF Deployments, Objects
  <2>3. QED
    BY <1>2, <2>2 DEF Kinds
<1>3. CASE /\ server["service"] # Missing
           /\ Store("service", [server["service"] EXCEPT !.protocol = "TCP"])
  <2>1. server["service"] \in Services
    BY <1>3 DEF TypeOK, Clusters, Objects, Kinds
  <2>2. /\ [server["service"] EXCEPT !.protocol = "TCP"] \in Objects("service")
        /\ [server["service"] EXCEPT !.protocol = "TCP"].protocol = "TCP"
    BY <2>1 DEF Services, Objects
  <2>3. QED
    BY <1>3, <2>2 DEF Kinds
<1>4. QED
  BY <1>1, <1>2, <1>3 DEF Tamper

\* Every step keeps the types.
LEMMA TypeStep == TypeOK /\ [Next]_vars => TypeOK'
<1> SUFFICES ASSUME TypeOK, [Next]_vars PROVE TypeOK'
  OBVIOUS
<1>1. CASE StartReconcile
  BY <1>1 DEF StartReconcile, TypeOK, specVars, budgetVars, Kinds
<1>2. CASE WritePlugin \/ WriteDeployment \/ WriteService
  BY <1>2, PutType DEF WritePlugin, WriteDeployment, WriteService, Kinds
<1>3. CASE CallFails
  BY <1>3, FailType DEF CallFails, SpendFault, TypeOK
<1>4. CASE Restart
  BY <1>4, NoSpecType, NothingType DEF Restart, Forget, SpendFault, TypeOK
<1>5. CASE EditSpec
  BY <1>5 DEF EditSpec, TypeOK, objectVars, passVars
<1>6. CASE Inform
  <2>1. CASE InformSpec
    BY <2>1 DEF InformSpec, TypeOK, objectVars, budgetVars
  <2>2. ASSUME NEW k \in Kinds, InformObject(k) PROVE TypeOK'
    <3>1. server[k] \in Objects(k) \union {Missing}
      BY DEF TypeOK, Clusters
    <3>2. cache' \in Clusters
      BY <2>2, <3>1, ClusterUpdate DEF InformObject, TypeOK
    <3>3. QED
      BY <2>2, <3>2 DEF InformObject, TypeOK, specVars, budgetVars
  <2>3. QED
    BY <1>6, <2>1, <2>2 DEF Inform
<1>7. CASE Tamper
  <2>1. /\ server' \in Clusters /\ cache' \in Clusters
        /\ late' \subseteq Kinds /\ current' \subseteq Kinds
    BY <1>7, TamperStores, StoreType
  <2>2. QED
    BY <1>7, <2>1 DEF Tamper, SpendFault, TypeOK, specVars, passVars
<1>8. CASE Rollout
  BY <1>8 DEF Rollout, SpendFault, TypeOK, specVars, passVars, Kinds
<1>9. CASE UNCHANGED vars
  BY <1>9 DEF TypeOK, vars, specVars, objectVars, passVars, budgetVars
<1>10. QED
  BY <1>1, <1>2, <1>3, <1>4, <1>5, <1>6, <1>7, <1>8, <1>9 DEF Next, Reconcile

\* Every variable of the reconciliation of the plugin keeps its type.
THEOREM PluginTypeCorrect == Spec => []TypeOK
<1>1. Init => TypeOK
  <2> SUFFICES ASSUME Init PROVE TypeOK
    OBVIOUS
  <2>1. server \in Clusters
    <3>1. PICK plugin \in {Missing} \union [namespace : {FormerNamespace}, port : {spec.port}] :
            server = [Nothing EXCEPT !["plugin"] = plugin]
      BY DEF Init
    <3>2. plugin \in Objects("plugin") \union {Missing}
      BY <3>1 DEF Init, Objects, Plugins, Specs
    <3>3. QED
      BY <3>1, <3>2, NothingType, ClusterUpdate DEF Kinds
  <2>2. QED
    BY <2>1, NoSpecType, NothingType DEF Init, TypeOK
<1>2. QED
  BY <1>1, TypeStep, PTL DEF Spec

-----------------------------------------------------------------------------
(* What a pass that nothing disturbed has left behind it.                   *)

\* A cache without a late event is right.
CacheTrue == \A k \in Kinds \ late : cache[k] = server[k]

\* Of a current kind, the stored object is the one the pass found.
CurrentTrue == pc # "idle" => \A k \in current : server[k] = fetched[k]

\* A pass during which nothing woke the operator up works on what it still knows.
Undisturbed == pc # "idle" /\ ~queued => desired = specCache /\ fetched = cache

\* The kinds the pass has dealt with.
Passed == CASE pc = "idle"       -> Kinds
            [] pc = "plugin"     -> {}
            [] pc = "deployment" -> {"plugin"}
            [] pc = "service"    -> {"plugin", "deployment"}

\* Unless something will wake the operator up, those it has dealt with are right.
PassedRight == ~queued => \A k \in Passed \ late : Right(k, server[k], specCache)

KnowledgeInv == TypeOK /\ CacheTrue /\ CurrentTrue /\ Undisturbed
IInv == KnowledgeInv /\ PassedRight

\* What is built is right.
LEMMA BuiltRight ==
  ASSUME NEW k \in Kinds, NEW s \in Specs, NEW old
  PROVE  Right(k, Built(k, old, s), s)
<1>1. CASE k = "plugin"
  BY <1>1 DEF Built, Right
<1>2. CASE k = "deployment"
  BY <1>2 DEF Built, Right
<1>3. CASE k = "service"
  BY <1>3, BuiltObject, ObjectType DEF Built, Right, buildService
<1>4. QED
  BY <1>1, <1>2, <1>3 DEF Kinds

\* An object that needs no update is right.
LEMMA NoUpdateRight ==
  ASSUME NEW k \in Kinds, NEW s \in Specs, NEW o \in Objects(k), ~NeedsUpdate(k, o, s)
  PROVE  Right(k, o, s)
<1>1. CASE k = "plugin"
  BY <1>1 DEF NeedsUpdate, pluginNeedsUpdate, Right, buildConsolePlugin, Objects, Plugins
<1>2. CASE k = "deployment"
  BY <1>2 DEF NeedsUpdate, deploymentNeedsUpdate, Right, buildDeployment, Objects, Deployments
<1>3. CASE k = "service"
  BY <1>3, ObjectType DEF NeedsUpdate, serviceNeedsUpdate, Right
<1>4. QED
  BY <1>1, <1>2, <1>3 DEF Kinds

\* A write touches one kind, and leaves the caches alone; without a new event the stored
\* object is what was written, and was before.
LEMMA StoreEffect ==
  ASSUME TypeOK, NEW k \in Kinds, NEW o \in Objects(k) \union {Missing}, Store(k, o)
  PROVE  /\ server'[k] = o
         /\ \A j \in Kinds \ {k} : server'[j] = server[j]
         /\ cache' = cache
         /\ late \subseteq late' /\ current' \subseteq current
         /\ k \notin late' => server'[k] = server[k]
         /\ k \in current' => server'[k] = server[k]
<1>1. server \in Clusters
  BY DEF TypeOK
<1>2. server'[k] = o /\ \A j \in Kinds \ {k} : server'[j] = server[j]
  BY <1>1, ClusterUpdate DEF Store
<1>3. QED
  BY <1>2 DEF Store

\* What a write does to the knowledge about objects.
LEMMA StoreKnowledge ==
  ASSUME KnowledgeInv, NEW k \in Kinds, NEW o \in Objects(k) \union {Missing}, Store(k, o)
  PROVE  /\ CacheTrue'
         /\ pc # "idle" => \A j \in current' : server'[j] = fetched[j]
<1>1. TypeOK /\ CacheTrue /\ CurrentTrue /\ current \subseteq Kinds
  BY DEF KnowledgeInv, TypeOK
<1>2. QED
  BY <1>1, StoreEffect DEF CacheTrue, CurrentTrue

\* How a pass goes on.
LEMMA AdvanceEffect ==
  ASSUME NEW l, Advance(l)
  PROVE  /\ pc' = l /\ queued' = queued /\ specCache' = specCache
         /\ l # "idle" => desired' = desired /\ fetched' = fetched
BY DEF Advance, Finish, Goto, Forget, specVars

\* A kind that is put, or found to need no update, is right from then on.
LEMMA PutRight ==
  ASSUME IInv, NEW k \in Kinds, NEW next \in Kinds \union {"idle"}, Put(k, next),
         pc = k, Passed' = Passed \union {k}, pc' = next
  PROVE  IInv'
<1>0. TypeOK /\ CacheTrue /\ CurrentTrue /\ Undisturbed /\ PassedRight /\ pc # "idle"
      /\ desired \in Specs /\ current \subseteq Kinds /\ k \notin {"idle"}
  BY DEF IInv, KnowledgeInv, TypeOK, Kinds
<1>1. TypeOK'
  BY <1>0, PutType
<1>2. CASE Store(k, Built(k, fetched[k], desired)) /\ Advance(next)
  <2>1. Built(k, fetched[k], desired) \in Objects(k)
    BY <1>0, BuiltObject
  <2>2. CacheTrue' /\ \A j \in current' : server'[j] = fetched[j]
    BY <1>0, <1>2, <2>1, StoreKnowledge DEF IInv
  <2>3. CurrentTrue'
    BY <1>2, <2>2, AdvanceEffect DEF CurrentTrue
  <2>4. Undisturbed'
    BY <1>0, <1>2, <2>1, AdvanceEffect, StoreEffect DEF Undisturbed
  <2>5. PassedRight'
    <3>1. SUFFICES ASSUME ~queued', NEW j \in Passed' \ late'
                   PROVE  Right(j, server'[j], specCache')
      BY DEF PassedRight
    <3>2. ~queued /\ specCache' = specCache /\ desired = specCache
      BY <1>0, <1>2, <3>1, AdvanceEffect DEF Undisturbed
    <3>3. CASE j = k
      BY <1>0, <1>2, <2>1, <3>2, <3>3, StoreEffect, BuiltRight
    <3>4. CASE j # k
      <4>1. j \in Passed \ late /\ j \in Kinds
        BY <1>0, <1>2, <2>1, <3>1, <3>4, StoreEffect DEF Passed, Kinds, TypeOK
      <4>2. server'[j] = server[j]
        BY <1>0, <1>2, <2>1, <3>4, <4>1, StoreEffect
      <4>3. QED
        BY <1>0, <3>2, <4>1, <4>2 DEF PassedRight
    <3>5. QED
      BY <3>3, <3>4
  <2>6. QED
    BY <1>1, <2>2, <2>3, <2>4, <2>5 DEF IInv, KnowledgeInv
<1>3. CASE Fail /\ UNCHANGED budgetVars
  BY <1>0, <1>1, <1>3
     DEF Fail, Forget, objectVars, IInv, KnowledgeInv, CacheTrue, CurrentTrue, Undisturbed,
         PassedRight
<1>4. CASE fetched[k] # Missing /\ ~NeedsUpdate(k, fetched[k], desired)
           /\ Advance(next) /\ UNCHANGED objectVars
  <2>1. CacheTrue' /\ CurrentTrue' /\ Undisturbed'
    BY <1>0, <1>4, AdvanceEffect DEF objectVars, CacheTrue, CurrentTrue, Undisturbed
  <2>2. PassedRight'
    <3>1. SUFFICES ASSUME ~queued', NEW j \in Passed' \ late'
                   PROVE  Right(j, server'[j], specCache')
      BY DEF PassedRight
    <3>2. ~queued /\ specCache' = specCache /\ desired = specCache /\ fetched = cache
          /\ server' = server /\ late' = late
      BY <1>0, <1>4, <3>1, AdvanceEffect DEF Undisturbed, objectVars
    <3>3. CASE j = k
      <4>1. fetched[k] = server[k]
        BY <1>0, <3>1, <3>2, <3>3 DEF CacheTrue
      <4>2. fetched[k] \in Objects(k)
        BY <1>0, <1>4 DEF TypeOK, Clusters
      <4>3. QED
        BY <1>0, <1>4, <3>2, <3>3, <4>1, <4>2, NoUpdateRight
    <3>4. CASE j # k
      BY <1>0, <3>1, <3>2, <3>4 DEF PassedRight
    <3>5. QED
      BY <3>3, <3>4
  <2>3. QED
    BY <1>1, <2>1, <2>2 DEF IInv, KnowledgeInv
<1>5. QED
  BY <1>2, <1>3, <1>4 DEF Put

\* Every step keeps what the operator knows and has done.
LEMMA InvariantStep == IInv /\ [Next]_vars => IInv'
<1> SUFFICES ASSUME IInv, [Next]_vars PROVE IInv'
  OBVIOUS
<1>0. TypeOK /\ CacheTrue /\ CurrentTrue /\ Undisturbed /\ PassedRight /\ TypeOK'
      /\ current \subseteq Kinds /\ late \subseteq Kinds
  BY TypeStep DEF IInv, KnowledgeInv, TypeOK
<1> USE DEF IInv, KnowledgeInv
<1>1. CASE StartReconcile
  BY <1>0, <1>1
     DEF StartReconcile, CacheTrue, CurrentTrue, Undisturbed, PassedRight, Passed, specVars
<1>2. CASE WritePlugin
  <2>1. Put("plugin", "deployment") /\ pc = "plugin"
    BY <1>2 DEF WritePlugin
  <2>2. CASE Fail
    BY <1>0, <2>2 DEF Fail, Forget, objectVars, CacheTrue, CurrentTrue, Undisturbed, PassedRight
  <2>3. CASE Advance("deployment")
    BY <2>1, <2>3, PutRight, AdvanceEffect DEF Passed, Kinds
  <2>4. QED
    BY <2>1, <2>2, <2>3 DEF Put
<1>3. CASE WriteDeployment
  <2>1. Put("deployment", "service") /\ pc = "deployment"
    BY <1>3 DEF WriteDeployment
  <2>2. CASE Fail
    BY <1>0, <2>2 DEF Fail, Forget, objectVars, CacheTrue, CurrentTrue, Undisturbed, PassedRight
  <2>3. CASE Advance("service")
    BY <2>1, <2>3, PutRight, AdvanceEffect DEF Passed, Kinds
  <2>4. QED
    BY <2>1, <2>2, <2>3 DEF Put
<1>4. CASE WriteService
  <2>1. Put("service", "idle") /\ pc = "service"
    BY <1>4 DEF WriteService
  <2>2. CASE Fail
    BY <1>0, <2>2 DEF Fail, Forget, objectVars, CacheTrue, CurrentTrue, Undisturbed, PassedRight
  <2>3. CASE Advance("idle")
    BY <2>1, <2>3, PutRight, AdvanceEffect DEF Passed, Kinds
  <2>4. QED
    BY <2>1, <2>2, <2>3 DEF Put
<1>5. CASE CallFails
  BY <1>0, <1>5
     DEF CallFails, Fail, Forget, objectVars, CacheTrue, CurrentTrue, Undisturbed, PassedRight
<1>6. CASE Restart
  BY <1>0, <1>6 DEF Restart, Forget, CacheTrue, CurrentTrue, Undisturbed, PassedRight
<1>7. CASE EditSpec
  BY <1>0, <1>7
     DEF EditSpec, objectVars, passVars, CacheTrue, CurrentTrue, Undisturbed, PassedRight, Passed
<1>8. CASE Inform
  <2>1. CASE InformSpec
    BY <1>0, <2>1
       DEF InformSpec, objectVars, CacheTrue, CurrentTrue, Undisturbed, PassedRight
  <2>2. ASSUME NEW k \in Kinds, InformObject(k) PROVE IInv'
    <3>1. CacheTrue'
      BY <1>0, <2>2 DEF InformObject, CacheTrue, TypeOK, Clusters
    <3>2. CurrentTrue' /\ Undisturbed' /\ PassedRight'
      BY <1>0, <2>2 DEF InformObject, CurrentTrue, Undisturbed, PassedRight
    <3>3. QED
      BY <1>0, <3>1, <3>2
  <2>3. QED
    BY <1>8, <2>1, <2>2 DEF Inform
<1>9. CASE Tamper
  <2>1. PICK k \in Kinds : \E o \in Objects(k) \union {Missing} : Store(k, o)
    BY <1>0, <1>9, TamperStores
  <2>2. PICK o \in Objects(k) \union {Missing} : Store(k, o)
    BY <2>1
  <2>3. /\ pc' = pc /\ queued' = queued /\ desired' = desired /\ fetched' = fetched
        /\ specCache' = specCache /\ Passed' = Passed
    BY <1>9 DEF Tamper, specVars, passVars, Passed
  <2>4. CacheTrue' /\ CurrentTrue' /\ Undisturbed'
    BY <1>0, <2>2, <2>3, StoreKnowledge, StoreEffect DEF CurrentTrue, Undisturbed
  <2>5. PassedRight'
    <3>1. SUFFICES ASSUME ~queued', NEW j \in Passed' \ late'
                   PROVE  Right(j, server'[j], specCache')
      BY DEF PassedRight
    <3>2. j \in Passed \ late /\ j \in Kinds
      BY <1>0, <2>2, <2>3, <3>1, StoreEffect DEF Passed, Kinds, TypeOK
    <3>3. server'[j] = server[j]
      BY <1>0, <2>2, <3>1, <3>2, StoreEffect
    <3>4. QED
      BY <1>0, <2>3, <3>1, <3>2, <3>3 DEF PassedRight
  <2>6. QED
    BY <1>0, <2>4, <2>5
<1>10. CASE Rollout
  BY <1>0, <1>10
     DEF Rollout, specVars, passVars, CacheTrue, CurrentTrue, Undisturbed, PassedRight, Passed
<1>11. CASE UNCHANGED vars
  BY <1>0, <1>11
     DEF vars, specVars, objectVars, passVars, CacheTrue, CurrentTrue, Undisturbed,
         PassedRight, Passed
<1>12. QED
  BY <1>1, <1>2, <1>3, <1>4, <1>5, <1>6, <1>7, <1>8, <1>9, <1>10, <1>11 DEF Next, Reconcile

\* The operator always knows, and has done, as much.
LEMMA Invariance == Spec => []IInv
<1>1. Init => CacheTrue /\ CurrentTrue /\ Undisturbed /\ PassedRight
  BY DEF Init, CacheTrue, CurrentTrue, Undisturbed, PassedRight
<1>2. TypeOK /\ Init => IInv
  BY <1>1 DEF IInv, KnowledgeInv
<1>3. QED
  BY <1>2, InvariantStep, PluginTypeCorrect, PTL DEF Spec

\* However late the caches, whatever fails and whoever interferes: when nothing is left to
\* wake the operator up, plugin, Deployment and Service agree with the specification.
THEOREM PluginServed == Spec => []SettledServed
<1>1. IInv => SettledServed
  <2> SUFFICES ASSUME IInv, Settled PROVE Served
    BY DEF SettledServed
  <2>1. \A k \in Kinds : Right(k, server[k], spec)
    BY DEF IInv, PassedRight, Passed, Settled
  <2>2. QED
    <3>1. /\ server["plugin"] = buildConsolePlugin(spec)
          /\ server["deployment"] = buildDeployment(spec)
          /\ server["service"] # Missing /\ server["service"].port = spec.port
      BY <2>1 DEF Right, Kinds
    <3>2. spec \in Specs /\ server["deployment"] # Missing
      <4>1. spec \in Specs
        BY DEF IInv, KnowledgeInv, TypeOK
      <4>2. Built("deployment", Missing, spec) = buildDeployment(spec) /\ "deployment" \in Kinds
        BY DEF Built, Kinds
      <4>3. QED
        BY <3>1, <4>1, <4>2, BuiltObject, ObjectType
    <3>3. AddressOfLoki(spec, server["deployment"].loki)
      BY <3>1, <3>2, QuerierAddress DEF buildDeployment
    <3>4. QED
      BY <3>1, <3>2, <3>3 DEF Served, buildConsolePlugin, buildDeployment
<1>2. QED
  BY <1>1, Invariance, PTL

\* A write of the Service that leaves it TCP, removes it or changes its port is no harm,
\* and neither is one of another object.
LEMMA StoreRepair ==
  ASSUME TypeOK, NEW k \in Kinds, NEW o \in Objects(k) \union {Missing}, Store(k, o),
         k = "service" /\ o # Missing /\ server[k] # Missing /\ o.protocol = "UDP"
           /\ server[k].protocol = "TCP" => o.port # server[k].port
  PROVE  RepairStep
<1>1. server'[k] = o /\ \A j \in Kinds \ {k} : server'[j] = server[j]
  BY StoreEffect
<1>2. CASE k = "service"
  BY <1>1, <1>2 DEF RepairStep
<1>3. CASE k # "service"
  BY <1>1, <1>3 DEF RepairStep, Kinds
<1>4. QED
  BY <1>2, <1>3

\* What the operator writes is no harm: it updates only what it has read, and a TCP
\* Service that needs an update has the wrong port.
LEMMA PutRepair ==
  ASSUME IInv, NEW k \in Kinds, NEW next, Put(k, next), pc = k
  PROVE  RepairStep
<1>0. TypeOK /\ CurrentTrue /\ desired \in Specs /\ pc # "idle"
  BY DEF IInv, KnowledgeInv, TypeOK, Kinds
<1>1. CASE UNCHANGED objectVars
  BY <1>1 DEF RepairStep, objectVars
<1>2. CASE /\ \/ fetched[k] = Missing /\ server[k] = Missing
              \/ fetched[k] # Missing /\ NeedsUpdate(k, fetched[k], desired) /\ k \in current
           /\ Store(k, Built(k, fetched[k], desired))
  <2>1. Built(k, fetched[k], desired) \in Objects(k)
    BY <1>0, BuiltObject
  <2>2. server[k] = fetched[k]
    BY <1>0, <1>2 DEF CurrentTrue
  <2>3. k = "service" => Built(k, fetched[k], desired).port = desired.port
    BY DEF Built, buildService
  <2>4. k = "service" /\ server[k] # Missing /\ server[k].protocol = "TCP" =>
          server[k].port # desired.port
    BY <1>2, <2>2 DEF NeedsUpdate, serviceNeedsUpdate
  <2>5. QED
    BY <1>0, <1>2, <2>1, <2>3, <2>4, StoreRepair
<1>3. QED
  BY <1>1, <1>2 DEF Put, Fail

\* A Service repaired by hand stays TCP until its port changes.
THEOREM RepairCorrect == Spec => RepairKept
<1>1. IInv /\ [Next]_vars => [RepairStep]_vars
  <2> SUFFICES ASSUME IInv, [Next]_vars PROVE RepairStep
    OBVIOUS
  <2>0. TypeOK
    BY DEF IInv, KnowledgeInv
  <2>1. CASE UNCHANGED server
    BY <2>1 DEF RepairStep
  <2>2. CASE WritePlugin \/ WriteDeployment \/ WriteService
    BY <2>2, PutRepair DEF WritePlugin, WriteDeployment, WriteService, Kinds
  <2>3. CASE Tamper
    <3>1. PICK k \in Kinds : \E o \in Objects(k) \union {Missing} :
                               /\ Store(k, o)
                               /\ o # Missing /\ k = "service" => o.protocol = "TCP"
      BY <2>0, <2>3, TamperStores
    <3>2. QED
      BY <2>0, <3>1, StoreRepair
  <2>4. QED
    BY <2>1, <2>2, <2>3
       DEF Next, Reconcile, StartReconcile, CallFails, Fail, Restart, EditSpec, Inform,
           InformSpec, InformObject, Rollout, vars, objectVars
<1>2. QED
  BY <1>1, Invariance, PTL DEF Spec, RepairKept

-----------------------------------------------------------------------------
(* ConsolePlugin implements LevelTriggered.                                *)

\* What LevelTriggered calls wrong and due, in the words of ConsolePlugin.
Wrong == {k \in Kinds : ~Right(k, server[k], specCache)}
Due   == queued \/ late # {}

\* Of what the informers told, a write changes nothing, or it will have an event.
LEMMA StoreLevel ==
  ASSUME TypeOK, NEW k \in Kinds, NEW o \in Objects(k) \union {Missing}, Store(k, o),
         UNCHANGED specCache
  PROVE  (Wrong' = Wrong /\ late' = late) \/ late' # {}
<1>1. CASE server[k] = o
  <2>1. \A j \in Kinds : server'[j] = server[j]
    BY <1>1, StoreEffect
  <2>2. QED
    BY <1>1, <2>1 DEF Store, Wrong
<1>2. CASE server[k] # o
  BY <1>2 DEF Store
<1>3. QED
  BY <1>1, <1>2

\* A step that leaves the pass running, or not running, and changes nothing of what is
\* wrong, unless something is due after it.
LEMMA SameLevel ==
  ASSUME (pc' = "idle") = (pc = "idle"), (Wrong' = Wrong /\ Due' = Due) \/ Due'
  PROVE  [Level!Next]_(Level!vars)
<1>1. (Wrong' = Wrong /\ Due' = Due) \/ (Wrong' \subseteq Kinds /\ Due' = TRUE)
  BY DEF Wrong, Due
<1>2. QED
  BY <1>1 DEF Level!Next, Level!Disturb, Level!vars, Wrong, Due

\* A pass that ends leaves something due, or nothing wrong.
LEMMA EndLevel ==
  ASSUME pc # "idle", pc' = "idle", (Wrong = {} /\ Wrong' = Wrong /\ Due' = Due) \/ Due'
  PROVE  [Level!Next]_(Level!vars)
<1>1. CASE Due'
  <2>1. Due' = TRUE /\ Wrong' \subseteq Kinds
    BY <1>1 DEF Due, Wrong
  <2>2. QED
    BY <2>1 DEF Level!Next, Level!GiveUp, Wrong, Due
<1>2. CASE Wrong = {} /\ Wrong' = Wrong /\ Due' = Due
  BY <1>2 DEF Level!Next, Level!Finish, Wrong, Due
<1>3. QED
  BY <1>1, <1>2

\* A put writes and goes on, or fails and is queued again; the last one finds, or leaves,
\* everything right.
LEMMA PutLevel ==
  ASSUME IInv, IInv', NEW k \in Kinds, NEW next \in Kinds \union {"idle"}, Put(k, next),
         pc = k
  PROVE  [Level!Next]_(Level!vars)
<1>0. TypeOK /\ desired \in Specs /\ pc # "idle"
  BY DEF IInv, KnowledgeInv, TypeOK, Kinds
<1>1. CASE Fail
  BY <1>0, <1>1, EndLevel DEF Fail, Forget, Due
<1>2. CASE ((Wrong' = Wrong /\ late' = late) \/ late' # {}) /\ Advance(next)
  <2>1. pc' = next /\ queued' = queued
    BY <1>2, AdvanceEffect
  <2>2. CASE next # "idle"
    BY <1>0, <1>2, <2>1, <2>2, SameLevel DEF Due
  <2>3. CASE next = "idle" /\ Due'
    BY <1>0, <2>1, <2>3, EndLevel
  <2>4. CASE next = "idle" /\ ~Due'
    <3>1. Wrong' = {}
      BY <2>1, <2>4 DEF IInv, PassedRight, Passed, Due, Wrong
    <3>2. Wrong' = Wrong /\ Due' = Due
      BY <1>2, <2>1, <2>4 DEF Due
    <3>3. QED
      BY <1>0, <2>1, <2>4, <3>1, <3>2, EndLevel
  <2>5. QED
    BY <2>2, <2>3, <2>4
<1>3. CASE Store(k, Built(k, fetched[k], desired)) /\ Advance(next)
  <2>1. Built(k, fetched[k], desired) \in Objects(k)
    BY <1>0, BuiltObject
  <2>2. QED
    BY <1>0, <1>2, <1>3, <2>1, AdvanceEffect, StoreLevel
<1>4. CASE Advance(next) /\ UNCHANGED objectVars
  BY <1>2, <1>4, AdvanceEffect DEF objectVars, Wrong
<1>5. QED
  BY <1>1, <1>3, <1>4 DEF Put

\* Every step is one of LevelTriggered, or none.
LEMMA LevelStep == IInv /\ IInv' /\ [Next]_vars => [Level!Next]_(Level!vars)
<1> SUFFICES ASSUME IInv, IInv', [Next]_vars PROVE [Level!Next]_(Level!vars)
  OBVIOUS
<1>0. TypeOK
  BY DEF IInv, KnowledgeInv
<1>1. CASE StartReconcile
  <2>1. pc = "idle" /\ pc' # "idle" /\ Due = TRUE /\ Due' \in BOOLEAN /\ Wrong' = Wrong
    BY <1>1 DEF StartReconcile, specVars, Wrong, Due
  <2>2. QED
    BY <2>1 DEF Level!Next, Level!TakeUp, Wrong, Due
<1>2. CASE WritePlugin \/ WriteDeployment \/ WriteService
  BY <1>2, PutLevel DEF WritePlugin, WriteDeployment, WriteService, Kinds
<1>3. CASE CallFails
  BY <1>3, EndLevel DEF CallFails, Fail, Forget, Due
<1>4. CASE Restart
  BY <1>4, EndLevel, SameLevel DEF Restart, Forget, Due
<1>5. CASE EditSpec
  BY <1>5, SameLevel DEF EditSpec, objectVars, passVars, Wrong, Due
<1>6. CASE Inform
  BY <1>6, SameLevel DEF Inform, InformSpec, InformObject, Due
<1>7. CASE Tamper
  <2>1. UNCHANGED <<specCache, queued, pc>>
    BY <1>7 DEF Tamper, specVars, passVars
  <2>2. \E k \in Kinds : \E o \in Objects(k) \union {Missing} : Store(k, o)
    BY <1>0, <1>7, TamperStores
  <2>3. QED
    BY <1>0, <2>1, <2>2, StoreLevel, SameLevel DEF Due
<1>8. CASE Rollout
  BY <1>8, SameLevel DEF Rollout, passVars, Due
<1>9. CASE UNCHANGED vars
  BY <1>9, SameLevel DEF vars, specVars, objectVars, passVars, Wrong, Due
<1>10. QED
  BY <1>1, <1>2, <1>3, <1>4, <1>5, <1>6, <1>7, <1>8, <1>9 DEF Next, Reconcile

\* The reconciler is level-triggered, whatever happens to it.
THEOREM PluginLevel == Spec => ImplementsLevel
<1>1. Init => Level!Init
  BY DEF Init, Level!Init
<1>2. QED
  BY <1>1, LevelStep, Invariance, PTL DEF Spec, ImplementsLevel, Level!Spec
=============================================================================
