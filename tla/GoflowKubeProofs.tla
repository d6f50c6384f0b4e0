--------------------------- MODULE GoflowKubeProofs ---------------------------
(***************************************************************************)
(* Theorems about GoflowKube, for every set of configurations, every number *)
(* of replicas and any number of edits and failures.                        *)
(***************************************************************************)
EXTENDS GoflowKube, TLAPS

-----------------------------------------------------------------------------
(* What objects look like.                                                 *)

\* What the builders build is an object, and is not a missing one.
LEMMA BuiltObject ==
  ASSUME NEW c \in Configs
  PROVE  Built(c) \in Objects /\ Built(c) # Missing
BY ConstantAssumption DEF Built, Objects, Missing

\* The specification that stands for no specification is one.
LEMMA NoSpecType == NoSpec \in Specs
BY ConstantAssumption DEF NoSpec, Specs

\* Nothing is a set of objects.
LEMMA NothingType == Nothing \in [Kinds -> Objects]
BY DEF Nothing, Objects

\* The labels of the kinds.
LEMMA AfterConfigMapLabel ==
  AfterConfigMap \in {"dropDaemonSet", "dropDeployment"}
BY DEF AfterConfigMap

\* Scaling a Deployment by hand, or by the autoscaler, leaves it a Deployment.
LEMMA Scaled ==
  ASSUME NEW o \in Objects, o # Missing, NEW r \in Nat
  PROVE  [o EXCEPT !.replicas = r] \in Objects
BY DEF Objects, Missing

-----------------------------------------------------------------------------
(* Type correctness, one helper operator at a time.                        *)

\* A write of an object keeps the types of what is stored.
LEMMA StoreType ==
  ASSUME TypeOK, NEW k \in Kinds, NEW o \in Objects, Store(k, o)
  PROVE  /\ server' \in [Kinds -> Objects] /\ cache' \in [Kinds -> Objects]
         /\ late' \subseteq Kinds /\ current' \subseteq Kinds
BY DEF TypeOK, Store

\* Going to a label, or giving up, keeps the types of the pass.
LEMMA GotoType ==
  ASSUME TypeOK, NEW l \in Labels, Goto(l)
  PROVE  /\ spec' \in Specs /\ specCache' \in Specs /\ desired' \in Specs
         /\ fetched' \in [Kinds -> Objects] /\ queued' \in BOOLEAN /\ pc' \in Labels
BY DEF TypeOK, Goto, specVars

\* Put keeps the types.
LEMMA PutType ==
  ASSUME TypeOK, NEW k \in Kinds, NEW stale \in BOOLEAN, NEW next \in Labels,
         Put(k, stale, next), UNCHANGED <<undeleted, budgetVars>>
  PROVE  TypeOK'
<1>1. edits' \in Nat /\ faults' \in Nat /\ undeleted' \subseteq Kinds
  BY DEF TypeOK, budgetVars
<1>2. CASE Fail
  BY <1>1, <1>2 DEF Fail, TypeOK, specVars, objectVars, Labels
<1>3. CASE Store(k, Built(desired.config)) /\ Goto(next)
  <2>1. Built(desired.config) \in Objects
    BY BuiltObject DEF TypeOK, Specs
  <2>2. QED
    BY <1>1, <1>3, <2>1, StoreType, GotoType DEF TypeOK
<1>4. CASE Goto(next) /\ UNCHANGED <<objectVars, current>>
  BY <1>1, <1>4, GotoType DEF TypeOK, objectVars
<1>5. QED
  BY <1>2, <1>3, <1>4 DEF Put

\* Drop keeps the types.
LEMMA DropType ==
  ASSUME TypeOK, NEW k \in Kinds, NEW next \in Labels, Drop(k, next)
  PROVE  TypeOK'
<1>1. edits' \in Nat /\ faults' \in Nat /\ undeleted' \subseteq Kinds
  BY DEF TypeOK, Drop, budgetVars, SpendFault
<1>2. /\ server' \in [Kinds -> Objects] /\ cache' \in [Kinds -> Objects]
      /\ late' \subseteq Kinds /\ current' \subseteq Kinds
  <2>1. CASE Store(k, Missing)
    BY <2>1, StoreType DEF Objects
  <2>2. CASE UNCHANGED <<objectVars, current>>
    BY <2>2 DEF TypeOK, objectVars
  <2>3. QED
    BY <2>1, <2>2 DEF Drop
<1>3. Goto(next)
  BY DEF Drop
<1>4. QED
  BY <1>1, <1>2, <1>3, GotoType DEF TypeOK

\* Every step keeps the types.
LEMMA TypeStep == TypeOK /\ [Next]_vars => TypeOK'
<1> SUFFICES ASSUME TypeOK, [Next]_vars PROVE TypeOK'
  OBVIOUS
<1> USE DEF TypeOK
<1>1. CASE StartReconcile
  BY <1>1 DEF StartReconcile, specVars, objectVars, budgetVars, Labels
<1>2. CASE WriteConfigMap
  BY <1>2, PutType, AfterConfigMapLabel
     DEF WriteConfigMap, ConfigMapNeedsUpdate, Labels, Kinds
<1>3. CASE DropDaemonSet
  BY <1>3, DropType DEF DropDaemonSet, Labels, Kinds
<1>4. CASE WriteDeployment
  <2>1. NeedsUpdate("deployment") \in BOOLEAN
    BY DEF NeedsUpdate
  <2>2. QED
    BY <1>4, <2>1, PutType DEF WriteDeployment, Labels, Kinds
<1>5. CASE WriteService
  <2>1. NeedsUpdate("service") \in BOOLEAN
    BY DEF NeedsUpdate
  <2>2. QED
    BY <1>5, <2>1, PutType DEF WriteService, Labels, Kinds
<1>6. CASE WriteAutoScaler
  <2>1. NeedsUpdate("hpa") \in BOOLEAN
    BY DEF NeedsUpdate
  <2>2. QED
    BY <1>6, <2>1, PutType, DropType DEF WriteAutoScaler, Labels, Kinds
<1>7. CASE DropDeployment
  BY <1>7, DropType DEF DropDeployment, Labels, Kinds
<1>8. CASE DropService
  BY <1>8, DropType DEF DropService, Labels, Kinds
<1>9. CASE DropAutoScaler
  BY <1>9, DropType DEF DropAutoScaler, Labels, Kinds
<1>10. CASE WriteDaemonSet
  <2>1. NeedsUpdate("daemonSet") \in BOOLEAN
    BY DEF NeedsUpdate
  <2>2. QED
    BY <1>10, <2>1, PutType DEF WriteDaemonSet, Labels, Kinds
<1>11. CASE EndReconcile
  BY <1>11, NoSpecType, NothingType
     DEF EndReconcile, Forget, specVars, objectVars, budgetVars, Labels
<1>12. CASE CallFails
  BY <1>12 DEF CallFails, Fail, SpendFault, specVars, objectVars, Labels
<1>13. CASE Restart
  BY <1>13, NoSpecType, NothingType DEF Restart, Forget, SpendFault, Labels
<1>14. CASE EditSpec
  BY <1>14 DEF EditSpec, objectVars, passVars
<1>15. CASE Inform
  BY <1>15 DEF Inform, InformSpec, InformObject, specVars, objectVars, budgetVars
<1>16. CASE Tamper
  <2>1. /\ server' \in [Kinds -> Objects] /\ cache' \in [Kinds -> Objects]
        /\ late' \subseteq Kinds /\ current' \subseteq Kinds
    <3>1. CASE \E k \in Kinds : Store(k, Missing)
      BY <3>1, StoreType DEF Objects
    <3>2. CASE /\ server["deployment"] # Missing
               /\ \E r \in HandReplicas :
                    Store("deployment", [server["deployment"] EXCEPT !.replicas = r])
      BY <3>2, StoreType, Scaled, ConstantAssumption DEF Kinds
    <3>3. QED
      BY <1>16, <3>1, <3>2 DEF Tamper
  <2>2. QED
    BY <1>16, <2>1 DEF Tamper, SpendFault, specVars, passVars
<1>17. CASE Autoscale
  <2>1. /\ server' \in [Kinds -> Objects] /\ cache' \in [Kinds -> Objects]
        /\ late' \subseteq Kinds /\ current' \subseteq Kinds
    BY <1>17, StoreType, Scaled, ConstantAssumption DEF Autoscale, Kinds
  <2>2. QED
    BY <1>17, <2>1 DEF Autoscale, specVars, passVars, budgetVars
<1>18. CASE UNCHANGED vars
  BY <1>18 DEF vars, specVars, objectVars, passVars, budgetVars
<1>19. QED
  BY <1>1, <1>2, <1>3, <1>4, <1>5, <1>6, <1>7, <1>8, <1>9, <1>10, <1>11, <1>12,
     <1>13, <1>14, <1>15, <1>16, <1>17, <1>18
     DEF Next, Reconcile

\* Every variable of goflow-kube's reconciliation keeps its type.
THEOREM GoflowTypeCorrect == Spec => []TypeOK
<1>1. Init => TypeOK
  BY NoSpecType, NothingType, ConstantAssumption DEF Init, TypeOK, Labels
<1>2. QED
  BY <1>1, TypeStep, PTL DEF Spec

-----------------------------------------------------------------------------
(* The digest in the pods and the config map they read.                     *)

\* Once the pass has written the config map, it holds what the pass wants, unless
\* somebody deleted it since.
ConfigMapWritten ==
  pc \in Labels \ {"idle", "done", "configMap"} =>
    server["configMap"] \in {Missing, Built(desired.config)}

\* A write of the collector's objects spares the config map.
LEMMA StoreSpares ==
  ASSUME TypeOK, NEW k \in Kinds \ {"configMap"}, NEW o, Store(k, o)
  PROVE  server'["configMap"] = server["configMap"]
BY DEF TypeOK, Store, Kinds

\* The config map is written whatever the cache says of it: the pass goes on only with
\* its own configuration stored.
LEMMA ConfigMapStep ==
  ASSUME TypeOK, WriteConfigMap
  PROVE  ConfigMapWritten'
<1>1. CASE Fail
  BY <1>1 DEF Fail, ConfigMapWritten, Labels
<1>2. CASE Store("configMap", Built(desired.config)) /\ Goto(AfterConfigMap)
  BY <1>2 DEF Store, Goto, ConfigMapWritten, TypeOK, Kinds
<1>3. QED
  BY <1>1, <1>2 DEF WriteConfigMap, Put, ConfigMapNeedsUpdate

\* The steps that write another object of the pass keep the config map and the copy of
\* the specification.
LEMMA PutSpares ==
  ASSUME TypeOK, ConfigMapWritten, NEW k \in Kinds \ {"configMap"},
         NEW stale \in BOOLEAN, NEW next \in Labels, Put(k, stale, next),
         pc \in Labels \ {"idle", "done", "configMap"}
  PROVE  ConfigMapWritten'
<1>1. CASE Fail
  BY <1>1 DEF Fail, ConfigMapWritten, Labels
<1>2. CASE Store(k, Built(desired.config)) /\ Goto(next)
  BY <1>2, StoreSpares DEF Goto, ConfigMapWritten
<1>3. CASE Goto(next) /\ UNCHANGED <<objectVars, current>>
  BY <1>3 DEF Goto, ConfigMapWritten, objectVars
<1>4. QED
  BY <1>1, <1>2, <1>3 DEF Put

\* So do those that drop one.
LEMMA DropSpares ==
  ASSUME TypeOK, ConfigMapWritten, NEW k \in Kinds \ {"configMap"}, NEW next \in Labels,
         Drop(k, next), pc \in Labels \ {"idle", "done", "configMap"}
  PROVE  ConfigMapWritten'
<1>1. server'["configMap"] = server["configMap"]
  BY StoreSpares DEF Drop, objectVars
<1>2. QED
  BY <1>1 DEF Drop, Goto, ConfigMapWritten

\* Every step keeps the config map of the pass.
LEMMA ConfigMapKept == TypeOK /\ ConfigMapWritten /\ [Next]_vars => ConfigMapWritten'
<1> SUFFICES ASSUME TypeOK, ConfigMapWritten, [Next]_vars PROVE ConfigMapWritten'
  OBVIOUS
<1>0. NeedsUpdate("deployment") \in BOOLEAN /\ NeedsUpdate("daemonSet") \in BOOLEAN
      /\ NeedsUpdate("service") \in BOOLEAN /\ NeedsUpdate("hpa") \in BOOLEAN
  BY DEF NeedsUpdate
<1>1. CASE StartReconcile
  BY <1>1 DEF StartReconcile, ConfigMapWritten
<1>2. CASE WriteConfigMap
  BY <1>2, ConfigMapStep
<1>3. CASE DropDaemonSet \/ DropDeployment \/ DropService \/ DropAutoScaler
  BY <1>3, DropSpares
     DEF DropDaemonSet, DropDeployment, DropService, DropAutoScaler, Labels, Kinds
<1>4. CASE WriteDeployment
  BY <1>4, <1>0, PutSpares DEF WriteDeployment, Labels, Kinds
<1>5. CASE WriteService
  BY <1>5, <1>0, PutSpares DEF WriteService, Labels, Kinds
<1>6. CASE WriteAutoScaler
  BY <1>6, <1>0, PutSpares, DropSpares DEF WriteAutoScaler, Labels, Kinds
<1>7. CASE WriteDaemonSet
  BY <1>7, <1>0, PutSpares DEF WriteDaemonSet, Labels, Kinds
<1>8. CASE EndReconcile \/ CallFails \/ Restart
  BY <1>8 DEF EndReconcile, CallFails, Fail, Restart, ConfigMapWritten
<1>9. CASE EditSpec
  BY <1>9 DEF EditSpec, objectVars, passVars, ConfigMapWritten
<1>10. CASE Inform
  BY <1>10 DEF Inform, InformSpec, InformObject, objectVars, ConfigMapWritten
<1>11. CASE Tamper
  <2>1. server'["configMap"] \in {server["configMap"], Missing}
    <3>1. CASE \E k \in Kinds : Store(k, Missing)
      BY <3>1 DEF Store, TypeOK, Kinds
    <3>2. CASE \E r \in HandReplicas :
                 Store("deployment", [server["deployment"] EXCEPT !.replicas = r])
      BY <3>2, StoreSpares DEF Kinds
    <3>3. QED
      BY <1>11, <3>1, <3>2 DEF Tamper
  <2>2. QED
    BY <1>11, <2>1 DEF Tamper, passVars, ConfigMapWritten
<1>12. CASE Autoscale
  BY <1>12, StoreSpares DEF Autoscale, passVars, ConfigMapWritten, Kinds
<1>13. CASE UNCHANGED vars
  BY <1>13 DEF vars, objectVars, passVars, ConfigMapWritten
<1>14. QED
  BY <1>1, <1>2, <1>3, <1>4, <1>5, <1>6, <1>7, <1>8, <1>9, <1>10, <1>11, <1>12, <1>13
     DEF Next, Reconcile

\* A write of an object gives a collector a configuration only if it is that collector
\* which is written.
LEMMA StoreDigest ==
  ASSUME TypeOK, NEW k \in Kinds, NEW o, Store(k, o),
         \/ k \notin {"deployment", "daemonSet"}
         \/ o = Missing
         \/ server[k] # Missing /\ o.config = server[k].config
         \/ \E c \in Configs : o = Built(c) /\ k # "configMap"
                               /\ server["configMap"] \in {Missing, Built(c)}
  PROVE  DigestStep
BY DEF TypeOK, Store, DigestStep, Kinds, Built

\* A step that leaves the objects alone is no digest step.
LEMMA SameDigest == ASSUME server' = server PROVE DigestStep
BY DEF DigestStep

\* A collector is given a configuration only beside its config map.
LEMMA PutDigest ==
  ASSUME TypeOK, ConfigMapWritten, NEW k \in Kinds, NEW stale \in BOOLEAN,
         NEW next \in Labels, Put(k, stale, next),
         k \in {"deployment", "daemonSet"} =>
           pc \in Labels \ {"idle", "done", "configMap"}
  PROVE  DigestStep
<1>1. CASE Fail \/ UNCHANGED objectVars
  BY <1>1, SameDigest DEF Fail, objectVars
<1>2. CASE Store(k, Built(desired.config))
  <2>1. desired.config \in Configs
    BY DEF TypeOK, Specs
  <2>2. QED
    BY <1>2, <2>1, StoreDigest DEF ConfigMapWritten, Kinds
<1>3. QED
  BY <1>1, <1>2 DEF Put

\* Dropping an object gives no configuration to any.
LEMMA DropDigest ==
  ASSUME TypeOK, NEW k \in Kinds, NEW next, Drop(k, next)
  PROVE  DigestStep
BY StoreDigest, SameDigest DEF Drop, objectVars

\* Every step is a digest step.
LEMMA DigestKept == TypeOK /\ ConfigMapWritten /\ [Next]_vars => DigestStep
<1> SUFFICES ASSUME TypeOK, ConfigMapWritten, [Next]_vars PROVE DigestStep
  OBVIOUS
<1>0. NeedsUpdate("deployment") \in BOOLEAN /\ NeedsUpdate("daemonSet") \in BOOLEAN
      /\ NeedsUpdate("service") \in BOOLEAN /\ NeedsUpdate("hpa") \in BOOLEAN
  BY DEF NeedsUpdate
<1>1. CASE StartReconcile \/ EndReconcile \/ CallFails \/ Restart \/ EditSpec \/ Inform
  BY <1>1, SameDigest
     DEF StartReconcile, EndReconcile, CallFails, Fail, Restart, EditSpec, Inform,
         InformSpec, InformObject, objectVars
<1>2. CASE WriteConfigMap
  BY <1>2, PutDigest, AfterConfigMapLabel
     DEF WriteConfigMap, ConfigMapNeedsUpdate, Labels, Kinds
<1>3. CASE DropDaemonSet \/ DropDeployment \/ DropService \/ DropAutoScaler
  BY <1>3, DropDigest DEF DropDaemonSet, DropDeployment, DropService, DropAutoScaler, Kinds
<1>4. CASE WriteDeployment
  BY <1>4, <1>0, PutDigest DEF WriteDeployment, Labels, Kinds
<1>5. CASE WriteService
  BY <1>5, <1>0, PutDigest DEF WriteService, Labels, Kinds
<1>6. CASE WriteAutoScaler
  BY <1>6, <1>0, PutDigest, DropDigest DEF WriteAutoScaler, Labels, Kinds
<1>7. CASE WriteDaemonSet
  BY <1>7, <1>0, PutDigest DEF WriteDaemonSet, Labels, Kinds
<1>8. CASE Tamper
  <2>1. CASE \E k \in Kinds : Store(k, Missing)
    BY <2>1, StoreDigest
  <2>2. CASE /\ server["deployment"] # Missing
             /\ \E r \in HandReplicas :
                  Store("deployment", [server["deployment"] EXCEPT !.replicas = r])
    <3>1. PICK r \in HandReplicas :
            Store("deployment", [server["deployment"] EXCEPT !.replicas = r])
      BY <2>2
    <3>2. [server["deployment"] EXCEPT !.replicas = r].config = server["deployment"].config
      BY <2>2 DEF TypeOK, Objects, Missing, Kinds
    <3>3. QED
      BY <2>2, <3>1, <3>2, StoreDigest DEF Kinds
  <2>3. QED
    BY <1>8, <2>1, <2>2 DEF Tamper
<1>9. CASE Autoscale
  <2>1. PICK r \in LoadReplicas :
          Store("deployment", [server["deployment"] EXCEPT !.replicas = r])
    BY <1>9 DEF Autoscale
  <2>2. [server["deployment"] EXCEPT !.replicas = r].config = server["deployment"].config
    BY <1>9 DEF Autoscale, TypeOK, Objects, Missing, Kinds
  <2>3. QED
    BY <1>9, <2>1, <2>2, StoreDigest DEF Autoscale, Kinds
<1>10. CASE UNCHANGED vars
  BY <1>10, SameDigest DEF vars, objectVars
<1>11. QED
  BY <1>1, <1>2, <1>3, <1>4, <1>5, <1>6, <1>7, <1>8, <1>9, <1>10 DEF Next, Reconcile

\* However late the informers are, whatever fails and whoever interferes, the collector
\* pods are given a new digest only when the config map they will read is the one the
\* digest was computed from, or is missing.
THEOREM DigestCorrect == Spec => DigestServed
<1>1. Init => ConfigMapWritten
  BY DEF Init, ConfigMapWritten
<1>2. Spec => []ConfigMapWritten
  BY <1>1, ConfigMapKept, GoflowTypeCorrect, PTL DEF Spec
<1>3. TypeOK /\ ConfigMapWritten /\ [Next]_vars => [DigestStep]_vars
  BY DigestKept
<1>4. QED
  BY <1>2, <1>3, GoflowTypeCorrect, PTL DEF Spec, DigestServed

-----------------------------------------------------------------------------
(* What a pass that nothing disturbed has left behind it.                   *)

\* A cache without a late event is right.
CacheTrue == \A k \in Kinds \ late : cache[k] = server[k]

\* A pass during which nothing woke the operator up works on what it still knows.
Undisturbed == pc # "idle" /\ ~queued => desired = specCache /\ fetched = cache

\* Only a Deployment has replicas of its own.
Copies == {Missing} \union {Built(c) : c \in Configs}
BuiltOnly ==
  \A k \in Kinds \ {"deployment"} :
    server[k] \in Copies /\ cache[k] \in Copies /\ fetched[k] \in Copies

\* The pass follows the kind of its copy of the spec.
LabelRight ==
  /\ pc \in {"dropDaemonSet", "deployment", "service", "hpa"} => desired.kind = "Deployment"
  /\ pc \in {"dropDeployment", "dropService", "dropHpa", "daemonSet"} =>
       desired.kind = "DaemonSet"

\* The kinds the pass has dealt with.
Passed ==
  CASE pc \in {"idle", "done"} -> Kinds
    [] pc = "configMap"   -> {}
    [] pc \in {"dropDaemonSet", "dropDeployment"} -> {"configMap"}
    [] pc = "deployment"  -> {"configMap", "daemonSet"}
    [] pc = "service"     -> {"configMap", "daemonSet", "deployment"}
    [] pc = "hpa"         -> {"configMap", "daemonSet", "deployment", "service"}
    [] pc = "dropService" -> {"configMap", "deployment"}
    [] pc = "dropHpa"     -> {"configMap", "deployment", "service"}
    [] pc = "daemonSet"   -> {"configMap", "deployment", "service", "hpa"}

\* The object is what a specification asks for; one it does not ask for is gone, unless
\* its Delete failed.
Right(k, object, s, failed) ==
  /\ k \in WantedKinds(s) => object = Built(s.config)
  /\ k \notin WantedKinds(s) /\ k \notin failed => object = Missing

\* Unless something will wake the operator up, those it has dealt with are right.
PassedRight == ~queued => \A k \in Passed \ late : Right(k, server[k], specCache, undeleted)

KnowledgeInv == CacheTrue /\ Undisturbed /\ BuiltOnly /\ LabelRight
IInv == TypeOK /\ KnowledgeInv /\ PassedRight

\* A write touches one kind, and leaves the caches alone; without a new event the stored
\* object is what was written, and was before.
LEMMA StoreEffect ==
  ASSUME TypeOK, NEW k \in Kinds, NEW o, Store(k, o)
  PROVE  /\ server'[k] = o
         /\ \A j \in Kinds \ {k} : server'[j] = server[j]
         /\ cache' = cache
         /\ late \subseteq late'
         /\ k \notin late' => server'[k] = server[k]
BY DEF TypeOK, Store

\* A write keeps the right caches right, and the copies copies.
LEMMA StoreKnowledge ==
  ASSUME TypeOK, KnowledgeInv, NEW k \in Kinds, NEW o, Store(k, o), fetched' = fetched,
         k = "deployment" \/ o \in Copies
  PROVE  CacheTrue' /\ BuiltOnly'
<1>1. CacheTrue /\ BuiltOnly
  BY DEF KnowledgeInv
<1>2. CacheTrue'
  BY <1>1, StoreEffect DEF CacheTrue
<1>3. BuiltOnly'
  BY <1>1, StoreEffect DEF BuiltOnly
<1>4. QED
  BY <1>2, <1>3

\* A kind that was right and of which no event is on its way is right after a write.
LEMMA StoreSpared ==
  ASSUME TypeOK, PassedRight, ~queued, NEW k \in Kinds, NEW o, Store(k, o),
         NEW j \in Passed \ late', j \in Kinds
  PROVE  Right(j, server'[j], specCache, undeleted)
<1>1. j \in Passed \ late /\ server'[j] = server[j]
  BY StoreEffect
<1>2. QED
  BY <1>1 DEF PassedRight

\* What passed is of the kinds.
LEMMA PassedKinds == ASSUME TypeOK PROVE Passed \subseteq Kinds
BY DEF TypeOK, Labels, Passed, Kinds

\* An error leaves everything to the next pass.
LEMMA FailKnowledge ==
  ASSUME IInv, TypeOK', Fail
  PROVE  IInv'
BY DEF IInv, KnowledgeInv, Fail, objectVars, specVars, CacheTrue, Undisturbed, BuiltOnly,
       LabelRight, PassedRight

\* A step of the pass that makes one more kind right, and has no late event of it unless
\* one will come, keeps the invariant.
LEMMA StepRight ==
  ASSUME IInv, TypeOK', pc # "idle", NEW k \in Kinds, NEW next \in Labels, Goto(next),
         Passed' = Passed \union {k}, LabelRight',
         \/ UNCHANGED objectVars
         \/ \E o \in Copies : Store(k, o),
         undeleted \subseteq undeleted',
         ~queued /\ k \notin late' => Right(k, server'[k], desired, undeleted')
  PROVE  IInv'
<1>0. /\ TypeOK /\ CacheTrue /\ Undisturbed /\ BuiltOnly /\ PassedRight /\ KnowledgeInv
      /\ Passed \subseteq Kinds /\ pc' = next /\ queued' = queued /\ desired' = desired
      /\ fetched' = fetched /\ specCache' = specCache
  BY PassedKinds DEF IInv, KnowledgeInv, Goto, specVars
<1>1. CacheTrue' /\ BuiltOnly' /\ cache' = cache
  <2>1. CASE UNCHANGED objectVars
    BY <1>0, <2>1 DEF objectVars, CacheTrue, BuiltOnly
  <2>2. CASE \E o \in Copies : Store(k, o)
    BY <1>0, <2>2, StoreKnowledge, StoreEffect
  <2>3. QED
    BY <2>1, <2>2
<1>2. Undisturbed'
  BY <1>0, <1>1 DEF Undisturbed
<1>3. PassedRight'
  <2>1. SUFFICES ASSUME ~queued', NEW j \in Passed' \ late'
                 PROVE  Right(j, server'[j], specCache', undeleted')
    BY DEF PassedRight
  <2>2. ~queued /\ desired = specCache
    BY <1>0, <2>1 DEF Undisturbed
  <2>3. CASE j = k
    BY <1>0, <2>1, <2>2, <2>3
  <2>4. CASE j # k /\ UNCHANGED objectVars
    BY <1>0, <2>1, <2>2, <2>4 DEF PassedRight, Right, objectVars
  <2>5. CASE j # k /\ \E o \in Copies : Store(k, o)
    BY <1>0, <2>1, <2>2, <2>5, StoreSpared DEF Right
  <2>6. QED
    BY <2>3, <2>4, <2>5
<1>4. QED
  BY <1>0, <1>1, <1>2, <1>3 DEF IInv, KnowledgeInv

\* A kind that is put, or found to need no update, is right from then on.
LEMMA PutRight ==
  ASSUME IInv, TypeOK', pc # "idle", NEW k \in Kinds, NEW stale, NEW next \in Labels,
         Put(k, stale, next), ~stale => ~NeedsUpdate(k), k \in WantedKinds(desired),
         pc' = next => Passed' = Passed \union {k} /\ LabelRight', UNCHANGED undeleted
  PROVE  IInv'
<1>0. /\ TypeOK /\ CacheTrue /\ Undisturbed /\ BuiltOnly /\ desired.config \in Configs
      /\ fetched \in [Kinds -> Objects]
  BY DEF IInv, KnowledgeInv, TypeOK, Specs
<1>1. CASE Fail
  BY <1>1, FailKnowledge
<1>2. CASE Store(k, Built(desired.config)) /\ Goto(next)
  <2>1. Built(desired.config) \in Copies
    BY <1>0 DEF Copies
  <2>2. Right(k, server'[k], desired, undeleted')
    BY <1>0, <1>2, StoreEffect DEF Right
  <2>3. QED
    BY <1>2, <2>1, <2>2, StepRight DEF Goto
<1>3. CASE /\ fetched[k] # Missing /\ ~stale
           /\ Goto(next) /\ UNCHANGED <<objectVars, current>>
  <2>1. ASSUME ~queued, k \notin late' PROVE Right(k, server'[k], desired, undeleted')
    <3>1. server'[k] = fetched[k]
      BY <1>0, <1>3, <2>1 DEF CacheTrue, Undisturbed, objectVars
    <3>2. fetched[k].config = desired.config /\ (k = "deployment" => fetched[k].replicas = Replicas)
      BY <1>3 DEF NeedsUpdate
    <3>3. fetched[k] = Built(desired.config)
      <4>1. CASE k = "deployment"
        BY <1>0, <1>3, <3>2, <4>1 DEF Objects, Missing, Built
      <4>2. CASE k # "deployment"
        BY <1>0, <1>3, <3>2, <4>2 DEF BuiltOnly, Copies, Built
      <4>3. QED
        BY <4>1, <4>2
    <3>4. QED
      BY <3>1, <3>3 DEF Right
  <2>2. QED
    BY <1>3, <2>1, StepRight DEF Goto
<1>4. QED
  BY <1>1, <1>2, <1>3 DEF Put

\* A kind that is dropped is gone, unless its delete failed.
LEMMA DropRight ==
  ASSUME IInv, TypeOK', pc # "idle", NEW k \in Kinds, NEW next \in Labels, Drop(k, next),
         k \notin WantedKinds(desired), Passed' = Passed \union {k}, LabelRight'
  PROVE  IInv'
<1>0. TypeOK /\ CacheTrue /\ Undisturbed /\ Goto(next)
  BY DEF IInv, KnowledgeInv, Drop
<1>1. CASE fetched[k] # Missing /\ Store(k, Missing) /\ UNCHANGED undeleted
  <2>1. Missing \in Copies
    BY DEF Copies
  <2>2. Right(k, server'[k], desired, undeleted')
    BY <1>0, <1>1, StoreEffect DEF Right
  <2>3. QED
    BY <1>0, <1>1, <2>1, <2>2, StepRight
<1>2. CASE /\ (fetched[k] = Missing /\ UNCHANGED undeleted) \/ undeleted' = undeleted \union {k}
           /\ UNCHANGED objectVars
  <2>1. ASSUME ~queued, k \notin late' PROVE Right(k, server'[k], desired, undeleted')
    BY <1>0, <1>2, <2>1 DEF CacheTrue, Undisturbed, objectVars, Right
  <2>2. QED
    BY <1>0, <1>2, <2>1, StepRight
<1>3. QED
  BY <1>1, <1>2 DEF Drop

\* A write by somebody else of an object it leaves a copy, or of the Deployment.
LEMMA OthersRight ==
  ASSUME IInv, TypeOK', NEW k \in Kinds, NEW o, Store(k, o),
         UNCHANGED <<specVars, passVars>>, k = "deployment" \/ o \in Copies
  PROVE  IInv'
<1>0. /\ TypeOK /\ KnowledgeInv /\ Undisturbed /\ LabelRight /\ PassedRight
      /\ Passed \subseteq Kinds /\ Passed' = Passed
      /\ UNCHANGED <<specCache, queued, pc, desired, fetched, undeleted>>
  BY PassedKinds DEF IInv, KnowledgeInv, specVars, passVars, Passed
<1>1. CacheTrue' /\ BuiltOnly' /\ cache' = cache
  BY <1>0, StoreKnowledge, StoreEffect
<1>2. Undisturbed' /\ LabelRight'
  BY <1>0, <1>1 DEF Undisturbed, LabelRight
<1>3. PassedRight'
  BY <1>0, StoreSpared DEF PassedRight
<1>4. QED
  BY <1>0, <1>1, <1>2, <1>3 DEF IInv, KnowledgeInv

\* Every step keeps what the operator knows and has done.
LEMMA InvariantStep == IInv /\ [Next]_vars => IInv'
<1> SUFFICES ASSUME IInv, [Next]_vars PROVE IInv'
  OBVIOUS
<1>0. /\ TypeOK /\ CacheTrue /\ Undisturbed /\ BuiltOnly /\ LabelRight /\ PassedRight
      /\ TypeOK'
  BY TypeStep DEF IInv, KnowledgeInv
<1>1. CASE StartReconcile
  BY <1>0, <1>1
     DEF StartReconcile, IInv, KnowledgeInv, CacheTrue, Undisturbed, BuiltOnly, LabelRight,
         PassedRight, Passed, specVars, objectVars
<1>2. CASE WriteConfigMap
  <2>1. pc' = AfterConfigMap => Passed' = Passed \union {"configMap"}
    BY <1>2 DEF WriteConfigMap, AfterConfigMap, Passed
  <2>2. pc' = AfterConfigMap /\ desired' = desired => LabelRight'
    BY <1>0 DEF AfterConfigMap, LabelRight, TypeOK, Specs
  <2>3. CASE Fail
    BY <1>0, <2>3, FailKnowledge
  <2>4. CASE Goto(AfterConfigMap)
    BY <1>0, <1>2, <2>1, <2>2, <2>4, PutRight, AfterConfigMapLabel
       DEF WriteConfigMap, ConfigMapNeedsUpdate, Goto, WantedKinds, Kinds, Labels
  <2>5. QED
    BY <1>2, <2>3, <2>4 DEF WriteConfigMap, Put
<1>3. CASE DropDaemonSet
  <2>1. Passed' = Passed \union {"daemonSet"} /\ LabelRight'
    BY <1>0, <1>3 DEF DropDaemonSet, Drop, Goto, Passed, LabelRight
  <2>2. QED
    BY <1>0, <1>3, <2>1, DropRight DEF DropDaemonSet, LabelRight, WantedKinds, Kinds, Labels
<1>4. CASE WriteDeployment
  <2>1. pc' = "service" => Passed' = Passed \union {"deployment"}
    BY <1>4 DEF WriteDeployment, Passed
  <2>2. CASE Fail
    BY <1>0, <2>2, FailKnowledge
  <2>3. CASE Goto("service")
    <3>1. LabelRight'
      BY <1>0, <1>4, <2>3 DEF WriteDeployment, Goto, LabelRight
    <3>2. QED
      BY <1>0, <1>4, <2>1, <3>1, PutRight
         DEF WriteDeployment, LabelRight, WantedKinds, Kinds, Labels
  <2>4. QED
    BY <1>4, <2>2, <2>3 DEF WriteDeployment, Put
<1>5. CASE WriteService
  <2>1. pc' = "hpa" => Passed' = Passed \union {"service"}
    BY <1>5 DEF WriteService, Passed
  <2>2. CASE Fail
    BY <1>0, <2>2, FailKnowledge
  <2>3. CASE Goto("hpa")
    <3>1. LabelRight'
      BY <1>0, <1>5, <2>3 DEF WriteService, Goto, LabelRight
    <3>2. QED
      BY <1>0, <1>5, <2>1, <3>1, PutRight
         DEF WriteService, LabelRight, WantedKinds, Kinds, Labels
  <2>4. QED
    BY <1>5, <2>2, <2>3 DEF WriteService, Put
<1>6. CASE WriteAutoScaler
  <2>1. pc = "hpa" /\ desired.kind = "Deployment"
    BY <1>0, <1>6 DEF WriteAutoScaler, LabelRight
  <2>2. pc' = "done" => Passed' = Passed \union {"hpa"} /\ LabelRight'
    BY <2>1 DEF Passed, Kinds, LabelRight
  <2>3. CASE desired.hpa /\ Put("hpa", NeedsUpdate("hpa"), "done") /\ UNCHANGED undeleted
    BY <2>1, <1>0, <2>2, <2>3, PutRight DEF WantedKinds, Kinds, Labels
  <2>4. CASE ~desired.hpa /\ Drop("hpa", "done")
    BY <2>1, <1>0, <2>2, <2>4, DropRight DEF Drop, Goto, WantedKinds, Kinds, Labels
  <2>5. QED
    BY <1>6, <2>3, <2>4 DEF WriteAutoScaler
<1>7. CASE DropDeployment
  <2>1. Passed' = Passed \union {"deployment"} /\ LabelRight'
    BY <1>0, <1>7 DEF DropDeployment, Drop, Goto, Passed, LabelRight
  <2>2. QED
    BY <1>0, <1>7, <2>1, DropRight DEF DropDeployment, LabelRight, WantedKinds, Kinds, Labels
<1>8. CASE DropService
  <2>1. Passed' = Passed \union {"service"} /\ LabelRight'
    BY <1>0, <1>8 DEF DropService, Drop, Goto, Passed, LabelRight
  <2>2. QED
    BY <1>0, <1>8, <2>1, DropRight DEF DropService, LabelRight, WantedKinds, Kinds, Labels
<1>9. CASE DropAutoScaler
  <2>1. Passed' = Passed \union {"hpa"} /\ LabelRight'
    BY <1>0, <1>9 DEF DropAutoScaler, Drop, Goto, Passed, LabelRight
  <2>2. QED
    BY <1>0, <1>9, <2>1, DropRight DEF DropAutoScaler, LabelRight, WantedKinds, Kinds, Labels
<1>10. CASE WriteDaemonSet
  <2>1. pc = "daemonSet" /\ desired.kind = "DaemonSet"
    BY <1>0, <1>10 DEF WriteDaemonSet, LabelRight
  <2>2. pc' = "done" => Passed' = Passed \union {"daemonSet"} /\ LabelRight'
    BY <2>1 DEF Passed, Kinds, LabelRight
  <2>3. QED
    BY <1>0, <1>10, <2>1, <2>2, PutRight DEF WriteDaemonSet, WantedKinds, Kinds, Labels
<1>11. CASE EndReconcile
  BY <1>0, <1>11
     DEF EndReconcile, Forget, Nothing, IInv, KnowledgeInv, CacheTrue, Undisturbed, BuiltOnly,
         LabelRight, PassedRight, Passed, Copies, specVars, objectVars
<1>12. CASE CallFails
  BY <1>0, <1>12, FailKnowledge DEF CallFails
<1>13. CASE Restart
  BY <1>0, <1>13
     DEF Restart, Forget, Nothing, IInv, KnowledgeInv, CacheTrue, Undisturbed, BuiltOnly,
         LabelRight, PassedRight, Copies
<1>14. CASE EditSpec
  BY <1>0, <1>14
     DEF EditSpec, IInv, KnowledgeInv, CacheTrue, Undisturbed, BuiltOnly, LabelRight,
         PassedRight, Passed, objectVars, passVars
<1>15. CASE Inform
  <2>1. queued' /\ UNCHANGED <<server, pc, desired, fetched>>
    BY <1>15 DEF Inform, InformSpec, InformObject, objectVars
  <2>2. CacheTrue' /\ BuiltOnly'
    <3>1. CASE InformSpec
      BY <1>0, <3>1 DEF InformSpec, objectVars, CacheTrue, BuiltOnly
    <3>2. CASE \E k \in Kinds : InformObject(k)
      BY <1>0, <3>2 DEF InformObject, CacheTrue, BuiltOnly, TypeOK
    <3>3. QED
      BY <1>15, <3>1, <3>2 DEF Inform
  <2>3. QED
    BY <1>0, <2>1, <2>2 DEF IInv, KnowledgeInv, Undisturbed, LabelRight, PassedRight
<1>16. CASE Tamper
  BY <1>0, <1>16, OthersRight DEF Tamper, Copies, Kinds
<1>17. CASE Autoscale
  BY <1>0, <1>17, OthersRight DEF Autoscale, Kinds
<1>18. CASE UNCHANGED vars
  BY <1>0, <1>18
     DEF vars, IInv, KnowledgeInv, CacheTrue, Undisturbed, BuiltOnly, LabelRight, PassedRight,
         Passed, specVars, objectVars, passVars
<1>19. QED
  BY <1>1, <1>2, <1>3, <1>4, <1>5, <1>6, <1>7, <1>8, <1>9, <1>10, <1>11, <1>12,
     <1>13, <1>14, <1>15, <1>16, <1>17, <1>18
     DEF Next, Reconcile

\* The operator always knows, and has done, as much.
LEMMA Invariance == Spec => []IInv
<1>1. TypeOK /\ Init => IInv
  BY DEF Init, Nothing, IInv, KnowledgeInv, CacheTrue, Undisturbed, BuiltOnly, LabelRight,
         PassedRight, Copies
<1>2. QED
  BY <1>1, InvariantStep, GoflowTypeCorrect, PTL DEF Spec

\* However late the caches, whatever fails and whoever interferes: when nothing is left to
\* wake the operator up, what the spec asks for is served.
THEOREM GoflowServed == Spec => []SettledServed
<1>1. IInv => SettledServed
  BY DEF IInv, PassedRight, Passed, Right, SettledServed, Settled, Served, WantedKinds, Kinds
<1>2. QED
  BY <1>1, Invariance, PTL

\* Of what the spec does not ask for, only what the last pass has logged as not deleted is
\* left over.
THEOREM GoflowLeftovers == Spec => []LeftoversLogged
<1>1. IInv => LeftoversLogged
  BY DEF IInv, PassedRight, Passed, Right, LeftoversLogged, Settled
<1>2. QED
  BY <1>1, Invariance, PTL

\* Deletes fail only where they may.
NoneFailed == ~DeletesMayFail => undeleted = {}

\* No step makes one fail where it may not.
LEMMA NoneFailedStep == NoneFailed /\ [Next]_vars => NoneFailed'
BY DEF NoneFailed, Next, Reconcile, StartReconcile, WriteConfigMap, EndReconcile, DropDaemonSet,
       WriteDeployment, WriteService, WriteAutoScaler, DropDeployment, DropService,
       DropAutoScaler, WriteDaemonSet, Drop, CallFails, Restart, EditSpec, Inform, InformSpec,
       InformObject, Tamper, Autoscale, passVars, vars

\* When deletes succeed there is nothing else either: the change of the kind of collector
\* is complete.
THEOREM GoflowConverged ==
  ASSUME ~DeletesMayFail
  PROVE  Spec => []SettledConverged
<1>1. Init => NoneFailed
  BY DEF Init, NoneFailed
<1>2. SettledServed /\ LeftoversLogged /\ NoneFailed => SettledConverged
  BY DEF SettledServed, LeftoversLogged, NoneFailed, SettledConverged, Converged
<1>3. QED
  BY <1>1, <1>2, NoneFailedStep, GoflowServed, GoflowLeftovers, PTL DEF Spec

-----------------------------------------------------------------------------
(* GoflowKube implements LevelTriggered.                                   *)

\* What LevelTriggered calls wrong and due, in the words of GoflowKube.
Wrong == {k \in WantedKinds(specCache) : server[k] # Built(specCache.config)}
Due   == queued \/ late # {}

\* The kinds a specification wants are kinds.
LEMMA WrongKinds == Wrong \subseteq Kinds
BY DEF Wrong, WantedKinds, Kinds

\* Of what the informers told, a write changes nothing, or it will have an event.
LEMMA StoreLevel ==
  ASSUME TypeOK, NEW k \in Kinds, NEW o, Store(k, o), UNCHANGED specCache
  PROVE  (Wrong' = Wrong /\ late' = late) \/ late' # {}
<1>1. CASE server[k] = o
  BY <1>1 DEF Store, TypeOK, Wrong
<1>2. CASE server[k] # o
  BY <1>2 DEF Store
<1>3. QED
  BY <1>1, <1>2

\* A step that leaves the pass running, or not running, and changes nothing of what is
\* wrong, unless something is due after it.
LEMMA SameLevel ==
  ASSUME (pc' = "idle") = (pc = "idle"), (Wrong' = Wrong /\ Due' = Due) \/ Due'
  PROVE  [Level!Next]_(Level!vars)
<1>1. (Wrong' = Wrong /\ Due' = Due) \/ (Wrong' \subseteq Kinds /\ Due' = TRUE)
  BY WrongKinds DEF Wrong, Due, WantedKinds, Kinds
<1>2. QED
  BY <1>1 DEF Level!Next, Level!Disturb, Level!vars, Wrong, Due

\* A put writes and goes on, or fails and is queued again.
LEMMA PutLevel ==
  ASSUME TypeOK, pc # "idle", NEW k \in Kinds, NEW stale, NEW next \in Labels \ {"idle"},
         Put(k, stale, next)
  PROVE  [Level!Next]_(Level!vars)
<1>1. CASE Fail
  BY <1>1, SameLevel DEF Fail, Due
<1>2. CASE Store(k, Built(desired.config)) /\ Goto(next)
  BY <1>2, StoreLevel, SameLevel DEF Goto, specVars, Due
<1>3. CASE Goto(next) /\ UNCHANGED objectVars
  BY <1>3, SameLevel DEF Goto, specVars, objectVars, Due, Wrong
<1>4. QED
  BY <1>1, <1>2, <1>3 DEF Put

\* A delete that fails is no reason to leave off.
LEMMA DropLevel ==
  ASSUME TypeOK, pc # "idle", NEW k \in Kinds, NEW next \in Labels \ {"idle"}, Drop(k, next)
  PROVE  [Level!Next]_(Level!vars)
<1>1. CASE Store(k, Missing)
  BY <1>1, StoreLevel, SameLevel DEF Drop, Goto, specVars, Due
<1>2. CASE UNCHANGED objectVars
  BY <1>2, SameLevel DEF Drop, Goto, specVars, objectVars, Due, Wrong
<1>3. QED
  BY <1>1, <1>2 DEF Drop

\* A pass that ends with nothing due has nothing wrong behind it.
LEMMA EndLevel ==
  ASSUME IInv, EndReconcile
  PROVE  [Level!Next]_(Level!vars)
<1>1. pc = "done" /\ pc' = "idle" /\ Wrong' = Wrong /\ Due' = Due
  BY DEF EndReconcile, specVars, objectVars, Wrong, Due
<1>2. CASE Due
  BY <1>1, <1>2, WrongKinds DEF Level!Next, Level!GiveUp, Wrong, Due
<1>3. CASE ~Due
  <2>1. Wrong = {}
    BY <1>1, <1>3 DEF IInv, PassedRight, Passed, Right, Due, Wrong, WantedKinds, Kinds
  <2>2. QED
    BY <1>1, <2>1 DEF Level!Next, Level!Finish, Wrong, Due
<1>4. QED
  BY <1>2, <1>3

\* Every step is one of LevelTriggered, or none.
LEMMA LevelStep == IInv /\ [Next]_vars => [Level!Next]_(Level!vars)
<1> SUFFICES ASSUME IInv, [Next]_vars PROVE [Level!Next]_(Level!vars)
  OBVIOUS
<1>0. TypeOK
  BY DEF IInv
<1>1. CASE StartReconcile
  <2>1. pc = "idle" /\ pc' # "idle" /\ Due = TRUE /\ Due' \in BOOLEAN /\ Wrong' = Wrong
    BY <1>1 DEF StartReconcile, specVars, objectVars, Wrong, Due
  <2>2. QED
    BY <2>1 DEF Level!Next, Level!TakeUp, Wrong, Due
<1>2. CASE WriteConfigMap
  <2>1. AfterConfigMap \in Labels \ {"idle"}
    BY AfterConfigMapLabel DEF Labels
  <2>2. QED
    BY <1>0, <1>2, <2>1, PutLevel DEF WriteConfigMap, Kinds
<1>3. CASE DropDaemonSet \/ DropDeployment \/ DropService \/ DropAutoScaler
  BY <1>0, <1>3, DropLevel
     DEF DropDaemonSet, DropDeployment, DropService, DropAutoScaler, Labels, Kinds
<1>4. CASE WriteDeployment \/ WriteService \/ WriteDaemonSet
  BY <1>0, <1>4, PutLevel DEF WriteDeployment, WriteService, WriteDaemonSet, Labels, Kinds
<1>5. CASE WriteAutoScaler
  BY <1>0, <1>5, PutLevel, DropLevel DEF WriteAutoScaler, Labels, Kinds
<1>6. CASE EndReconcile
  BY <1>6, EndLevel
<1>7. CASE CallFails
  BY <1>7, SameLevel DEF CallFails, Fail, Due
<1>8. CASE Restart
  <2>1. pc' = "idle" /\ Due' = TRUE /\ Wrong' \subseteq Kinds
    BY <1>8, WrongKinds DEF Restart, Due, Wrong, WantedKinds, Kinds
  <2>2. QED
    BY <2>1 DEF Level!Next, Level!GiveUp, Level!Disturb, Wrong, Due
<1>9. CASE EditSpec
  BY <1>9, SameLevel DEF EditSpec, objectVars, passVars, Wrong, Due
<1>10. CASE Inform
  BY <1>10, SameLevel DEF Inform, InformSpec, InformObject, Due
<1>11. CASE Tamper \/ Autoscale
  <2>1. UNCHANGED specCache /\ \E k \in Kinds, o \in Objects : Store(k, o)
    <3>1. CASE Autoscale
      BY <1>0, <3>1, Scaled, ConstantAssumption DEF Autoscale, specVars, TypeOK, Kinds
    <3>2. CASE Tamper /\ \E k \in Kinds : Store(k, Missing)
      BY <3>2 DEF Tamper, specVars, Objects
    <3>3. CASE Tamper /\ server["deployment"] # Missing
                      /\ \E r \in HandReplicas :
                           Store("deployment", [server["deployment"] EXCEPT !.replicas = r])
      BY <1>0, <3>3, Scaled, ConstantAssumption DEF Tamper, specVars, TypeOK, Kinds
    <3>4. QED
      BY <1>11, <3>1, <3>2, <3>3 DEF Tamper
  <2>2. UNCHANGED <<queued, pc>>
    BY <1>11 DEF Tamper, Autoscale, passVars
  <2>3. QED
    BY <1>0, <2>1, <2>2, StoreLevel, SameLevel DEF Due
<1>12. CASE UNCHANGED vars
  BY <1>12, SameLevel DEF vars, specVars, objectVars, passVars, Wrong, Due
<1>13. QED
  BY <1>1, <1>2, <1>3, <1>4, <1>5, <1>6, <1>7, <1>8, <1>9, <1>10, <1>11, <1>12
     DEF Next, Reconcile

\* The reconciler is level-triggered, whatever happens to it.
THEOREM GoflowLevel == Spec => ImplementsLevel
<1>1. Init => Level!Init
  BY DEF Init, Level!Init, WantedKinds, Kinds
<1>2. QED
  BY <1>1, LevelStep, Invariance, PTL DEF Spec, ImplementsLevel, Level!Spec
=============================================================================
