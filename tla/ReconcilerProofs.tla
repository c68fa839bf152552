-------------------------- MODULE ReconcilerProofs --------------------------
(* Theorems about a reconcile, for any specifications users ask for, any
   number of retries and any interleaving with users, informers, the garbage
   collector, failures and restarts.                                       *)
EXTENDS Reconciler, TLAPS

-----------------------------------------------------------------------------
(* What a reconcile may write.                                             *)

(* The object that CreateFirst sends to the server.                        *)
Fresh(k) == addOwnerRefToObject(Content(k, dpl.spec))

(* An update of the object the cache holds: what was read is what is there,
   or the server would refuse it.                                          *)
Updates(k, o) == cache[k] # Absent /\ fresh[k] /\ Put(k, o)

WritesObject ==
    \/ \E k \in Owned : pc = k /\ obj[k] = Absent /\ Write(k, Fresh(k))
    \/ \E k \in Updated \ {"configmap"} : Updates(k, Restored(cache[k]))
    \/ /\ pc = "configmap" /\ op = "update"
       /\ Updates("configmap", [cache["configmap"] EXCEPT !.data = config])

WritesCondition(cond) ==
    \E value \in BOOLEAN :
        Updates("elasticsearch", [cache["elasticsearch"] EXCEPT !.status[cond] = value])

WritesStatus ==
    /\ pc \in {"record", "status"}
    /\ Updates("elasticsearch", [cache["elasticsearch"] EXCEPT !.status = status])

(* A reconcile writes to an object when it creates it or puts right what the
   cache holds of it, to a config map in the update after the announcement,
   and to the custom resource a condition or a status.                     *)
LEMMA ReconcileWrites ==
    ASSUME Reconcile
    PROVE  UNCHANGED store \/ WritesObject
           \/ WritesCondition("updating") \/ WritesCondition("invalid") \/ WritesStatus
<1>1. CASE Begin
  BY <1>1 DEF Begin
<1>2. CASE CreateOrUpdateServiceAccount \/ CreateOrUpdateServiceMonitors
           \/ CreateOrUpdatePrometheusRules
  BY <1>2 DEF CreateOrUpdateServiceAccount, CreateOrUpdateServiceMonitors,
     CreateOrUpdatePrometheusRules, CreateFirst, Create, WritesObject, Fresh, Owned, Created
<1>3. CASE createOrUpdateClusterRole
  BY <1>3 DEF createOrUpdateClusterRole, CreateFirst, Create, GetAndUpdate, WritesObject,
     Fresh, Updates, Owned, Updated
<1>4. CASE createOrUpdateClusterRoleBinding
  BY <1>4 DEF createOrUpdateClusterRoleBinding, CreateFirst, Create, GetAndUpdate,
     WritesObject, Fresh, Updates, Owned, Updated
<1>5. CASE createOrUpdateService
  BY <1>5 DEF createOrUpdateService, CreateFirst, Create, GetAndUpdate, WritesObject,
     Fresh, Updates, Owned, Updated
<1>6. CASE CreateConfigMap \/ CompareConfigMap
  BY <1>6 DEF CreateConfigMap, CompareConfigMap, CreateFirst, Create, WritesObject,
     Fresh, Owned, Updated
<1>7. CASE AnnounceChange \/ SettleChange
  BY <1>7 DEF AnnounceChange, SettleChange, updateConditionWithRetry, GetAndUpdate,
     WritesCondition, Updates
<1>8. CASE UpdateConfigMap
  BY <1>8 DEF UpdateConfigMap, UpdateStep, GetAndUpdate, WritesObject, Updates
<1>9. CASE ReportConf
  BY <1>9 DEF ReportConf, updateConditionWithRetry, GetAndUpdate, WritesCondition, Updates
<1>10. CASE updateNodeStatus \/ UpdateClusterStatus
  BY <1>10 DEF updateNodeStatus, UpdateClusterStatus, WriteStatus, GetAndUpdate,
     WritesStatus, Updates
<1>11. CASE isValidConf \/ WorkOnNodes \/ CreateNodeFails \/ NodesDone
  BY <1>11 DEF isValidConf, WorkOnNodes, CreateNodeFails, NodesDone
<1> QED
  BY <1>1, <1>2, <1>3, <1>4, <1>5, <1>6, <1>7, <1>8, <1>9, <1>10, <1>11
     DEF Reconcile, CreateOrUpdateConfigMaps, CreateOrUpdateElasticsearchCluster

-----------------------------------------------------------------------------
(* The store: objects have their types, and a cached object whose informer
   is up to date is the object.                                            *)

Kinds == Owned \cup {"elasticsearch"}

StoreTyped ==
    /\ uids \in Nat \ {0}
    /\ DOMAIN obj = Kinds /\ DOMAIN cache = Read /\ DOMAIN fresh = Read
    /\ \A k \in Kinds : obj[k] # Absent => obj[k] \in ObjType(k)
    /\ \A k \in Read : /\ cache[k] # Absent => cache[k] \in ObjType(k)
                       /\ fresh[k] => cache[k] = obj[k]

MemoryTyped ==
    dpl \in CRType /\ config \in {Rendered(s) : s \in Specs} /\ status \in StatusType

(* What was of its type stays so when there are more custom resources.     *)
LEMMA TypesGrow ==
    ASSUME uids \in Nat, uids' \in Nat, uids <= uids'
    PROVE  /\ CRType \subseteq CRType'
           /\ \A k : ObjType(k) \subseteq ObjType(k)'
<1>1. 1..uids \subseteq 1..uids'
  OBVIOUS
<1>2. CRType \subseteq CRType'
  BY <1>1 DEF CRType
<1> QED
  BY <1>1, <1>2 DEF ObjType

(* A write of an object of the right type keeps the store in order.        *)
LEMMA WriteKeepsStore ==
    ASSUME StoreTyped, NEW k \in Kinds, NEW o, Write(k, o),
           uids' \in Nat \ {0}, uids <= uids', o # Absent => o \in ObjType(k)'
    PROVE  StoreTyped'
<1>1. \A x : ObjType(x) \subseteq ObjType(x)'
  BY TypesGrow DEF StoreTyped
<1>2. /\ DOMAIN obj' = Kinds /\ DOMAIN fresh' = Read /\ cache' = cache
      /\ obj'[k] = o /\ \A x \in Kinds : x # k => obj'[x] = obj[x]
      /\ \A x \in Read : fresh'[x] => fresh[x] /\ x # k
  <2>1. fresh' = [x \in Read |-> fresh[x] /\ x # k]
    BY DEF Write
  <2>2. DOMAIN fresh' = Read /\ \A x \in Read : fresh'[x] => fresh[x] /\ x # k
    BY <2>1, Zenon
  <2> QED
    BY <2>2 DEF Write, StoreTyped
<1>3. Read \subseteq Kinds
  BY DEF Read, Kinds, Owned
<1>4. \A x \in Kinds : obj'[x] # Absent => obj'[x] \in ObjType(x)'
  BY <1>1, <1>2 DEF StoreTyped
<1>5. \A x \in Read : /\ cache'[x] # Absent => cache'[x] \in ObjType(x)'
                      /\ fresh'[x] => cache'[x] = obj'[x]
  BY <1>1, <1>2, <1>3 DEF StoreTyped
<1>6. DOMAIN cache' = Read
  BY <1>2 DEF StoreTyped
<1> QED
  BY <1>2, <1>4, <1>5, <1>6, Zenon DEF StoreTyped

(* What the operator makes of a custom resource and of its own objects has
   the right type.                                                         *)
LEMMA NewVersions ==
    ASSUME NEW c \in CRType
    PROVE  /\ \A value \in BOOLEAN :
                /\ [c EXCEPT !.status["updating"] = value] \in CRType
                /\ [c EXCEPT !.status["invalid"] = value] \in CRType
           /\ \A st \in StatusType : [c EXCEPT !.status = st] \in CRType
           /\ \A s \in Specs : [c EXCEPT !.spec = s] \in CRType
           /\ [c EXCEPT !.managed = ~@] \in CRType
BY DEF CRType, StatusType
(* A step that leaves the store alone keeps it in order.                   *)
LEMMA StoreKept == StoreTyped /\ UNCHANGED <<store, uids>> => StoreTyped'
BY DEF StoreTyped, store, ObjType, CRType

(* So does an update of what the cache holds.                              *)
LEMMA UpdateKeepsStore ==
    ASSUME StoreTyped, UNCHANGED uids, NEW k \in Read, NEW o, Updates(k, o), o \in ObjType(k)
    PROVE  StoreTyped'
<1>1. ObjType(k)' = ObjType(k) /\ uids' \in Nat \ {0} /\ uids <= uids' /\ k \in Kinds
  BY DEF StoreTyped, ObjType, CRType, Read, Kinds, Owned
<1>2. CASE UNCHANGED store
  BY <1>2, StoreKept
<1>3. CASE Write(k, o)
  BY <1>1, <1>3, WriteKeepsStore
<1> QED
  BY <1>2, <1>3 DEF Updates, Put

(* No step of a reconcile makes a custom resource.                         *)
LEMMA ReconcileKeepsUids == Reconcile => UNCHANGED uids
BY DEF Reconcile, Begin, CreateOrUpdateServiceAccount, CreateOrUpdateServiceMonitors,
   CreateOrUpdatePrometheusRules, createOrUpdateClusterRole,
   createOrUpdateClusterRoleBinding, createOrUpdateService, CreateOrUpdateConfigMaps,
   CreateConfigMap, CompareConfigMap, AnnounceChange, UpdateConfigMap, SettleChange,
   CreateOrUpdateElasticsearchCluster, isValidConf, ReportConf, WorkOnNodes,
   updateNodeStatus, CreateNodeFails, NodesDone, UpdateClusterStatus,
   CreateFirst, UpdateStep

(* The types of what a reconcile writes.                                   *)
LEMMA ReconcileKeepsStore ==
    ASSUME StoreTyped, MemoryTyped, Reconcile
    PROVE  StoreTyped'
<1>0. UNCHANGED uids
  BY ReconcileKeepsUids
<1>1. CASE UNCHANGED store
  BY <1>0, <1>1, StoreKept
<1>2. ASSUME NEW k \in Owned, Write(k, Fresh(k))
      PROVE  StoreTyped'
  <2>1. k # "elasticsearch"
    BY DEF Owned, Created, Updated
  <2>2. dpl.uid \in 1..uids /\ Content(k, dpl.spec) \in Contents(k)
    BY DEF MemoryTyped, CRType, Contents
  <2>3. Fresh(k) \in ObjType(k)
    BY <2>1, <2>2 DEF Fresh, addOwnerRefToObject, ObjType
  <2>4. ObjType(k)' = ObjType(k) /\ uids' \in Nat \ {0} /\ uids <= uids' /\ k \in Kinds
    BY <1>0 DEF StoreTyped, ObjType, CRType, Kinds
  <2> QED
    BY <1>2, <2>3, <2>4, WriteKeepsStore
<1>3. ASSUME NEW k \in Updated, Updates(k, [cache[k] EXCEPT !.data = Content(k, dpl.spec)])
      PROVE  StoreTyped'
  <2>1. k # "elasticsearch" /\ k \in Read
    BY DEF Updated, Read
  <2>2. Content(k, dpl.spec) \in Contents(k)
    BY DEF MemoryTyped, CRType, Contents
  <2>3. cache[k] \in [owner: 1..uids, data: Contents(k)]
    BY <1>3, <2>1 DEF Updates, StoreTyped, ObjType
  <2>4. [cache[k] EXCEPT !.data = Content(k, dpl.spec)] \in ObjType(k)
    BY <2>1, <2>2, <2>3 DEF ObjType
  <2> QED
    BY <1>0, <1>3, <2>1, <2>4, UpdateKeepsStore
<1>4. ASSUME Updates("configmap", [cache["configmap"] EXCEPT !.data = config])
      PROVE  StoreTyped'
  <2>1. "configmap" \in Read /\ config \in Contents("configmap")
    BY DEF Updated, Read, MemoryTyped, Contents, Content
  <2>2. cache["configmap"] \in [owner: 1..uids, data: Contents("configmap")]
    BY <1>4, <2>1 DEF Updates, StoreTyped, ObjType
  <2>3. [cache["configmap"] EXCEPT !.data = config] \in ObjType("configmap")
    BY <2>1, <2>2 DEF ObjType
  <2> QED
    BY <1>0, <1>4, <2>1, <2>3, UpdateKeepsStore
<1>5. ASSUME NEW o, Updates("elasticsearch", o), cache["elasticsearch"] \in CRType => o \in CRType
      PROVE  StoreTyped'
  <2>1. "elasticsearch" \in Read
    BY DEF Read
  <2>2. cache["elasticsearch"] \in CRType
    BY <1>5, <2>1 DEF Updates, StoreTyped, ObjType
  <2>3. o \in ObjType("elasticsearch")
    BY <1>5, <2>2 DEF ObjType
  <2> QED
    BY <1>0, <1>5, <2>1, <2>3, UpdateKeepsStore
<1>6. CASE WritesObject
  <2>1. \A k \in Updated \ {"configmap"} :
          Restored(cache[k]) = [cache[k] EXCEPT !.data = Content(k, dpl.spec)]
    BY DEF Restored, Content
  <2> QED
    BY <1>2, <1>3, <1>4, <1>6, <2>1 DEF WritesObject
<1>7. CASE WritesCondition("updating") \/ WritesCondition("invalid")
  BY <1>5, <1>7, NewVersions DEF WritesCondition
<1>8. CASE WritesStatus
  BY <1>5, <1>8, NewVersions DEF WritesStatus, MemoryTyped
<1> QED
  BY <1>1, <1>6, <1>7, <1>8, ReconcileWrites

(* Users, informers and the garbage collector keep the store in order.     *)
LEMMA StoreStep == StoreTyped /\ MemoryTyped /\ [Next]_vars => StoreTyped'
<1> SUFFICES ASSUME StoreTyped, MemoryTyped, [Next]_vars
             PROVE  StoreTyped'
  OBVIOUS
<1>0. "elasticsearch" \in Kinds /\ Read \subseteq Kinds /\ Owned \subseteq Kinds
  BY DEF Kinds, Read, Owned
<1>1. CASE Reconcile
  BY <1>1, ReconcileKeepsStore
<1>2. CASE Restart
  <2>1. /\ cache' = [k \in Read |-> obj[k]] /\ DOMAIN fresh' = Read
        /\ UNCHANGED <<obj, uids>>
    BY <1>2, Zenon DEF Restart
  <2>2. \A k \in Read : cache'[k] = obj[k]
    BY <2>1
  <2> QED
    BY <1>0, <2>1, <2>2 DEF StoreTyped, ObjType, CRType
<1>3. ASSUME NEW k \in Read, CatchUp(k)
      PROVE  StoreTyped'
  <2>1. /\ cache' = [cache EXCEPT ![k] = obj[k]] /\ fresh' = [fresh EXCEPT ![k] = TRUE]
        /\ UNCHANGED <<obj, uids>>
    BY <1>3 DEF CatchUp
  <2>2. \A x \in Read : cache'[x] = IF x = k THEN obj[k] ELSE cache[x]
    BY <2>1 DEF StoreTyped
  <2>3. DOMAIN fresh' = Read /\ \A x \in Read : x # k => (fresh'[x] <=> fresh[x])
    BY <2>1, Zenon DEF StoreTyped
  <2> QED
    BY <1>0, <2>1, <2>2, <2>3 DEF StoreTyped, ObjType, CRType
<1>4. ASSUME NEW k \in Kinds, NEW o, Write(k, o), UNCHANGED uids,
             obj[k] # Absent /\ obj[k] \in ObjType(k) => o = Absent \/ o \in ObjType(k),
             obj[k] # Absent
      PROVE  StoreTyped'
  <2>1. ObjType(k)' = ObjType(k) /\ uids' \in Nat \ {0} /\ uids <= uids'
    BY <1>4 DEF StoreTyped, ObjType, CRType
  <2>2. o # Absent => o \in ObjType(k)'
    BY <1>4, <2>1 DEF StoreTyped
  <2> QED
    BY <1>4, <2>1, <2>2, WriteKeepsStore
<1>5. ASSUME NEW s \in Specs, EditSpec(s)
      PROVE  StoreTyped'
  BY <1>0, <1>4, <1>5, NewVersions DEF EditSpec, CR, ObjType
<1>6. CASE EditManagementState
  BY <1>0, <1>4, <1>6, NewVersions DEF EditManagementState, CR, ObjType
<1>7. ASSUME NEW s \in Specs, CreateCR(s)
      PROVE  StoreTyped'
  <2>1. uids' = uids + 1 /\ uids' \in Nat \ {0} /\ uids <= uids'
    BY <1>7 DEF CreateCR, StoreTyped
  <2>2. Blank \in StatusType
    BY BoundsAssumption DEF Blank, StatusType
  <2>3. NewCR(uids + 1, s) \in CRType'
    BY <2>1, <2>2 DEF NewCR, CRType
  <2> QED
    BY <1>0, <1>7, <2>1, <2>3, WriteKeepsStore DEF CreateCR, ObjType
<1>8. ASSUME NEW k \in Kinds, Delete(k)
      PROVE  StoreTyped'
  BY <1>4, <1>8 DEF Delete
<1>9. ASSUME NEW k \in Updated, Overwrite(k)
      PROVE  StoreTyped'
  <2>1. k \in Kinds /\ k # "elasticsearch"
    BY DEF Kinds, Owned, Updated
  <2>2. obj[k] \in ObjType(k) => [obj[k] EXCEPT !.data = Foreign] \in ObjType(k)
    BY <2>1 DEF ObjType, Contents
  <2> QED
    BY <1>4, <1>9, <2>1, <2>2 DEF Overwrite
<1>10. CASE GarbageCollect
  <2>1. /\ obj' = [k \in Kinds |-> IF k \in Orphans THEN Absent ELSE obj[k]]
        /\ UNCHANGED <<cache, uids>>
    BY <1>10 DEF GarbageCollect, StoreTyped
  <2>2. DOMAIN fresh' = Read /\ \A k \in Read : fresh'[k] => fresh[k] /\ k \notin Orphans
    BY <1>10, Zenon DEF GarbageCollect
  <2>3. \A k \in Kinds : obj'[k] # Absent => obj'[k] = obj[k]
    BY <2>1
  <2>4. \A k \in Read : fresh'[k] => cache'[k] = obj'[k]
    BY <1>0, <2>1, <2>2 DEF StoreTyped
  <2> QED
    BY <2>1, <2>2, <2>3, <2>4 DEF StoreTyped, ObjType, CRType
<1>11. CASE UNCHANGED vars
  BY <1>11, StoreKept DEF vars
<1> QED
  BY <1>1, <1>2, <1>3, <1>5, <1>6, <1>7, <1>8, <1>9, <1>10, <1>11
     DEF Next, Environment, Kinds
-----------------------------------------------------------------------------
(* What a reconcile has in memory.                                         *)

(* What is read into memory is the custom resource of the cache, changed.  *)
LEMMA ReadIntoTyped ==
    ASSUME StoreTyped, MemoryTyped, NEW new, cache["elasticsearch"] \in CRType => new \in CRType,
           dpl' = IF cache["elasticsearch"] = Absent THEN dpl ELSE new
    PROVE  dpl' \in CRType
BY DEF StoreTyped, MemoryTyped, ObjType, Read

(* The custom resource, the config map and the status in memory keep their
   types.                                                                  *)
LEMMA MemoryStep == StoreTyped /\ MemoryTyped /\ [Next]_vars => MemoryTyped'
<1> SUFFICES ASSUME StoreTyped, MemoryTyped, [Next]_vars
             PROVE  MemoryTyped'
  OBVIOUS
<1>0. CRType \subseteq CRType' /\ (UNCHANGED uids => CRType' = CRType)
  <2>1. uids' \in Nat /\ uids \in Nat /\ uids <= uids'
    <3>1. uids' = uids \/ uids' = uids + 1
      BY ReconcileKeepsUids, Zenon DEF Next, Environment, Restart, CatchUp, EditSpec, CreateCR,
         EditManagementState, Delete, Overwrite, GarbageCollect, vars
    <3> QED
      BY <3>1 DEF StoreTyped
  <2> QED
    BY <2>1, TypesGrow DEF CRType
<1>1. ASSUME UNCHANGED <<dpl, config, status>>
      PROVE  MemoryTyped'
  BY <1>0, <1>1 DEF MemoryTyped, StatusType
<1>2. ASSUME dpl' \in CRType, UNCHANGED <<config, status>>
      PROVE  MemoryTyped'
  BY <1>0, <1>2 DEF MemoryTyped, StatusType
<1>3. CASE Begin
  BY <1>1, <1>2, <1>3 DEF Begin, StoreTyped, ObjType, Read
<1>4. CASE CreateConfigMap
  BY <1>0, <1>4 DEF CreateConfigMap, CreateFirst, MemoryTyped, CRType, StatusType
<1>5. CASE AnnounceChange \/ SettleChange
  <2>1. PICK value \in BOOLEAN :
          dpl' = IF cache["elasticsearch"] = Absent THEN dpl
                 ELSE [cache["elasticsearch"] EXCEPT !.status["updating"] = value]
    BY <1>5 DEF AnnounceChange, SettleChange, updateConditionWithRetry, ReadInto
  <2>2. UNCHANGED <<config, status>>
    BY <1>5 DEF AnnounceChange, SettleChange
  <2> QED
    BY <1>2, <2>1, <2>2, ReadIntoTyped, NewVersions
<1>6. CASE ReportConf
  <2>1. PICK value \in BOOLEAN :
          dpl' = IF cache["elasticsearch"] = Absent THEN dpl
                 ELSE [cache["elasticsearch"] EXCEPT !.status["invalid"] = value]
    BY <1>6 DEF ReportConf, updateConditionWithRetry, ReadInto
  <2>2. UNCHANGED <<config, status>>
    BY <1>6 DEF ReportConf
  <2> QED
    BY <1>2, <2>1, <2>2, ReadIntoTyped, NewVersions
<1>7. CASE updateNodeStatus \/ UpdateClusterStatus
  <2>1. dpl' = IF cache["elasticsearch"] = Absent THEN dpl
               ELSE [cache["elasticsearch"] EXCEPT !.status = status]
    BY <1>7 DEF updateNodeStatus, UpdateClusterStatus, WriteStatus, ReadInto
  <2>2. UNCHANGED <<config, status>>
    BY <1>7 DEF updateNodeStatus, UpdateClusterStatus
  <2> QED
    BY <1>2, <2>1, <2>2, ReadIntoTyped, NewVersions DEF MemoryTyped
<1>8. CASE WorkOnNodes
  <2>1. /\ dpl.status \in StatusType /\ dpl.status.progress < MaxProgress
        /\ dpl.uid \in Nat
    BY <1>8 DEF WorkOnNodes, MemoryTyped, CRType, StoreTyped
  <2>2. [dpl.status EXCEPT !.progress = @ + 1, !.names = dpl.uid] \in StatusType
    <3> DEFINE one == [dpl.status EXCEPT !.progress = @ + 1]
    <3>1. one \in StatusType
      BY <2>1, BoundsAssumption DEF StatusType
    <3>2. [one EXCEPT !.names = dpl.uid] \in StatusType
      <4> HIDE DEF one
      <4> QED
        BY <2>1, <3>1 DEF StatusType
    <3>3. [dpl.status EXCEPT !.progress = @ + 1, !.names = dpl.uid] = [one EXCEPT !.names = dpl.uid]
      BY <2>1 DEF StatusType
    <3> QED
      BY <3>2, <3>3
  <2> QED
    BY <1>0, <1>8, <2>2 DEF WorkOnNodes, MemoryTyped, StatusType
<1>9. CASE NodesDone
  BY <1>0, <1>9 DEF NodesDone, MemoryTyped, CRType, StatusType
<1>10. CASE CreateOrUpdateServiceAccount \/ CreateOrUpdateServiceMonitors
            \/ CreateOrUpdatePrometheusRules \/ createOrUpdateClusterRole
            \/ createOrUpdateClusterRoleBinding \/ createOrUpdateService
            \/ CompareConfigMap \/ UpdateConfigMap \/ isValidConf \/ CreateNodeFails
  BY <1>1, <1>10 DEF CreateOrUpdateServiceAccount, CreateOrUpdateServiceMonitors,
     CreateOrUpdatePrometheusRules, createOrUpdateClusterRole,
     createOrUpdateClusterRoleBinding, createOrUpdateService, CompareConfigMap,
     UpdateConfigMap, isValidConf, CreateNodeFails, CreateFirst, UpdateStep, memory
<1>11. CASE Environment \/ UNCHANGED vars
  BY <1>1, <1>11 DEF Environment, Restart, CatchUp, EditSpec, CreateCR,
     EditManagementState, Delete, Overwrite, GarbageCollect, User, memory, vars
<1> QED
  BY <1>3, <1>4, <1>5, <1>6, <1>7, <1>8, <1>9, <1>10, <1>11
     DEF Next, Reconcile, CreateOrUpdateConfigMaps, CreateOrUpdateElasticsearchCluster

-----------------------------------------------------------------------------
(* Where a reconcile is.                                                   *)

WhereTyped ==
    /\ pc \in DOMAIN After \cup {"idle", "validate", "nodes", "record"}
    /\ op \in {"create", "update", "compare", "announce", "settle", "valid", "invalid", "done"}
    /\ tries \in 0..(Tries - 1) /\ events \in 0..MaxEvents

FlagsTyped == fresh \in [Read -> BOOLEAN] /\ queued \in BOOLEAN /\ wrongConfig \in BOOLEAN

(* After every part of a reconcile comes another, or its end.              *)
LEMMA AfterType ==
    /\ DOMAIN After = {"serviceaccount", "clusterrole", "clusterrolebinding", "configmap",
                       "service", "status", "servicemonitor", "prometheusrule"}
    /\ \A k \in DOMAIN After : After[k] \in DOMAIN After \cup {"idle", "validate"}
BY DEF After
(* How the parts of a reconcile end and go on, once for all of them.       *)
LEMMA GoesOn ==
    ASSUME WhereTyped
    PROVE  /\ pc \in DOMAIN After /\ Succeed
                => pc' \in DOMAIN After \cup {"idle", "validate"} /\ op' = "create" /\ tries' = 0
           /\ Fail => pc' = "idle" /\ op' = "create" /\ tries' = 0
           /\ \A o : LookAt(o) => pc' = pc /\ op' = o /\ tries' = 0
BY AfterType DEF Succeed, Fail, LookAt, Move

(* A request works or counts as an event; so does a whole step.            *)
LEMMA EventsStep == events \in 0..MaxEvents /\ [Next]_vars => events' \in 0..MaxEvents
<1> SUFFICES ASSUME events \in 0..MaxEvents, [Next]_vars
             PROVE  events' \in 0..MaxEvents
  OBVIOUS
<1>1. UNCHANGED events \/ Event
  <2>1. CASE Reconcile
    BY <2>1, Zenon DEF Reconcile, Begin, CreateOrUpdateServiceAccount, CreateOrUpdateServiceMonitors,
       CreateOrUpdatePrometheusRules, createOrUpdateClusterRole,
       createOrUpdateClusterRoleBinding, createOrUpdateService, CreateOrUpdateConfigMaps,
       CreateConfigMap, CompareConfigMap, AnnounceChange, UpdateConfigMap, SettleChange,
       CreateOrUpdateElasticsearchCluster, isValidConf, ReportConf, WorkOnNodes,
       updateNodeStatus, CreateNodeFails, NodesDone, UpdateClusterStatus,
       CreateFirst, Create, GetAndUpdate, updateConditionWithRetry, WriteStatus, Works
  <2>2. CASE Environment \/ UNCHANGED vars
    BY <2>2 DEF Environment, Restart, CatchUp, EditSpec, CreateCR, EditManagementState,
       Delete, Overwrite, GarbageCollect, User, vars
  <2> QED
    BY <2>1, <2>2 DEF Next
<1> QED
  BY <1>1, BoundsAssumption DEF Event

(* A reconcile is always at one of its parts, in a try that is allowed.    *)
LEMMA WhereStep == WhereTyped /\ [Next]_vars => WhereTyped'
<1> SUFFICES ASSUME WhereTyped, [Next]_vars
             PROVE  WhereTyped'
  OBVIOUS
<1> DEFINE Somewhere == /\ pc' \in DOMAIN After \cup {"idle", "validate", "nodes", "record"}
                        /\ op' \in {"create", "update", "compare", "announce", "settle",
                                    "valid", "invalid", "done"}
                        /\ tries' \in 0..(Tries - 1)
<1>0. 0 \in 0..(Tries - 1) /\ DOMAIN After' = DOMAIN After
  BY TriesAssumption DEF After
<1> USE <1>0, GoesOn, TriesAssumption DEF WhereTyped, RetryOnConflict
<1>1. ASSUME Begin
      PROVE  Somewhere
  BY <1>1, AfterType DEF Begin, Move
<1>2. ASSUME CreateOrUpdateServiceAccount \/ CreateOrUpdateServiceMonitors
           \/ CreateOrUpdatePrometheusRules
      PROVE  Somewhere
  BY <1>2, AfterType DEF CreateOrUpdateServiceAccount, CreateOrUpdateServiceMonitors,
     CreateOrUpdatePrometheusRules, CreateFirst
<1>3. ASSUME createOrUpdateClusterRole
      PROVE  Somewhere
  BY <1>3, AfterType DEF createOrUpdateClusterRole, CreateFirst, UpdateStep
<1>4. ASSUME createOrUpdateClusterRoleBinding
      PROVE  Somewhere
  BY <1>4, AfterType DEF createOrUpdateClusterRoleBinding, CreateFirst, UpdateStep
<1>5. ASSUME createOrUpdateService
      PROVE  Somewhere
  BY <1>5, AfterType DEF createOrUpdateService, CreateFirst, UpdateStep
<1>6. ASSUME CreateConfigMap \/ CompareConfigMap
      PROVE  Somewhere
  BY <1>6, AfterType DEF CreateConfigMap, CompareConfigMap, CreateFirst
<1>7. ASSUME AnnounceChange \/ SettleChange
      PROVE  Somewhere
  BY <1>7, AfterType DEF AnnounceChange, SettleChange, updateConditionWithRetry
<1>8. ASSUME UpdateConfigMap
      PROVE  Somewhere
  BY <1>8, AfterType DEF UpdateConfigMap, UpdateStep
<1>9. ASSUME isValidConf
      PROVE  Somewhere
  BY <1>9 DEF isValidConf
<1>10. ASSUME ReportConf
      PROVE  Somewhere
  BY <1>10, AfterType DEF ReportConf, updateConditionWithRetry, Accept, Reject, Move
<1>11. ASSUME WorkOnNodes \/ CreateNodeFails \/ NodesDone
      PROVE  Somewhere
  BY <1>11, AfterType DEF WorkOnNodes, CreateNodeFails, NodesDone, Move
<1>12. ASSUME updateNodeStatus
      PROVE  Somewhere
  BY <1>12 DEF updateNodeStatus, WriteStatus, Move
<1>13. ASSUME UpdateClusterStatus
      PROVE  Somewhere
  BY <1>13, AfterType DEF UpdateClusterStatus, WriteStatus
<1>14. ASSUME Environment \/ UNCHANGED vars
      PROVE  Somewhere
  BY <1>14 DEF Environment, Restart, CatchUp, EditSpec, CreateCR, EditManagementState,
     Delete, Overwrite, GarbageCollect, User, Move, where, vars
<1>15. Somewhere
  BY <1>1, <1>2, <1>3, <1>4, <1>5, <1>6, <1>7, <1>8, <1>9, <1>10, <1>11, <1>12, <1>13, <1>14
     DEF Next, Reconcile, CreateOrUpdateConfigMaps, CreateOrUpdateElasticsearchCluster
<1> QED
  BY <1>15, EventsStep
(* The queue, the package variable and what is known of the informers are
   Boolean throughout.                                                     *)
LEMMA FlagsStep == FlagsTyped /\ [Next]_vars => FlagsTyped'
<1> SUFFICES ASSUME FlagsTyped, [Next]_vars
             PROVE  FlagsTyped'
  OBVIOUS
<1>1. fresh' \in [Read -> BOOLEAN]
  <2>1. CASE UNCHANGED fresh
    BY <2>1 DEF FlagsTyped
  <2>2. ASSUME NEW k, NEW o, Write(k, o)
        PROVE  fresh' \in [Read -> BOOLEAN]
    BY <2>2, Zenon DEF Write
  <2>3. CASE Reconcile
    <3>1. UNCHANGED fresh \/ \E k, o : Write(k, o)
      BY <2>3, ReconcileWrites, Zenon
         DEF WritesObject, WritesCondition, WritesStatus, Updates, Put, store
    <3> QED
      BY <2>1, <2>2, <3>1
  <2>4. CASE Restart
    BY <2>4, Zenon DEF Restart
  <2>5. ASSUME NEW k \in Read, CatchUp(k)
        PROVE  fresh' \in [Read -> BOOLEAN]
    <3>1. fresh' = [fresh EXCEPT ![k] = TRUE]
      BY <2>5 DEF CatchUp
    <3> QED
      BY <3>1 DEF FlagsTyped
  <2>6. CASE GarbageCollect
    BY <2>6, Zenon DEF GarbageCollect
  <2>7. CASE \E s \in Specs : EditSpec(s) \/ CreateCR(s)
    BY <2>2, <2>7 DEF EditSpec, CreateCR
  <2>8. CASE EditManagementState \/ (\E k \in Owned \cup {"elasticsearch"} : Delete(k))
             \/ (\E k \in Updated : Overwrite(k))
    BY <2>2, <2>8 DEF EditManagementState, Delete, Overwrite
  <2> QED
    BY <2>1, <2>3, <2>4, <2>5, <2>6, <2>7, <2>8 DEF Next, Environment, vars, store
<1>2. queued' \in BOOLEAN
  <2>1. CASE Reconcile
    BY <2>1, Zenon DEF FlagsTyped, Reconcile, Begin, CreateOrUpdateServiceAccount,
       CreateOrUpdateServiceMonitors, CreateOrUpdatePrometheusRules,
       createOrUpdateClusterRole, createOrUpdateClusterRoleBinding, createOrUpdateService,
       CreateOrUpdateConfigMaps, CreateConfigMap, CompareConfigMap, AnnounceChange,
       UpdateConfigMap, SettleChange, CreateOrUpdateElasticsearchCluster, isValidConf,
       ReportConf, WorkOnNodes, updateNodeStatus, CreateNodeFails, NodesDone,
       UpdateClusterStatus, CreateFirst, updateConditionWithRetry, WriteStatus,
       RetryOnConflict, Succeed, Fail, LookAt, Accept, Reject
  <2>2. CASE Environment \/ UNCHANGED vars
    BY <2>2, Zenon DEF FlagsTyped, Environment, Restart, CatchUp, EditSpec, CreateCR,
       EditManagementState, Delete, Overwrite, GarbageCollect, User, where, vars
  <2> QED
    BY <2>1, <2>2 DEF Next
<1>3. wrongConfig' \in BOOLEAN
  <2>1. CASE ReportConf
    <3>1. UNCHANGED wrongConfig \/ wrongConfig' = TRUE \/ wrongConfig' = FALSE
      <4>1. CASE tries' > tries
        BY <2>1, <4>1, Zenon DEF ReportConf
      <4>2. CASE ~(tries' > tries)
        BY <2>1, <4>2 DEF ReportConf, updateConditionWithRetry, RetryOnConflict, Accept, Reject
      <4> QED
        BY <4>1, <4>2
    <3> QED
      BY <3>1, Zenon DEF FlagsTyped
  <2>2. CASE Reconcile /\ ~ReportConf
    <3>1. UNCHANGED wrongConfig
      BY <2>2 DEF Reconcile, Begin, CreateOrUpdateServiceAccount,
       CreateOrUpdateServiceMonitors, CreateOrUpdatePrometheusRules,
       createOrUpdateClusterRole, createOrUpdateClusterRoleBinding, createOrUpdateService,
       CreateOrUpdateConfigMaps, CreateConfigMap, CompareConfigMap, AnnounceChange,
       UpdateConfigMap, SettleChange, CreateOrUpdateElasticsearchCluster, isValidConf,
       WorkOnNodes, updateNodeStatus, CreateNodeFails, NodesDone,
       UpdateClusterStatus, CreateFirst, UpdateStep, memory
    <3> QED
      BY <3>1, Zenon DEF FlagsTyped
  <2>3. CASE Environment \/ UNCHANGED vars
    BY <2>3, Zenon DEF FlagsTyped, Environment, Restart, CatchUp, EditSpec, CreateCR,
       EditManagementState, Delete, Overwrite, GarbageCollect, User, memory, vars
  <2> QED
    BY <2>1, <2>2, <2>3 DEF Next
<1> QED
  BY <1>1, <1>2, <1>3, Zenon DEF FlagsTyped
-----------------------------------------------------------------------------
(* Types.                                                                  *)

TypeInv == StoreTyped /\ MemoryTyped /\ WhereTyped /\ FlagsTyped

(* The types hold at the start and every step keeps them.                  *)
LEMMA Inductive == Spec => []TypeInv
<1>1. Init => TypeInv
  <2> SUFFICES ASSUME Init
               PROVE  TypeInv
    OBVIOUS
  <2>1. PICK s \in Specs : obj = [k \in Kinds |-> IF k \in Owned THEN Absent ELSE NewCR(1, s)]
    BY DEF Init, Kinds
  <2>2. "elasticsearch" \in Kinds /\ "elasticsearch" \notin Owned
    BY DEF Kinds, Owned, Created, Updated
  <2>3. CR = NewCR(1, s) /\ CR.spec = s
    BY <2>1, <2>2 DEF CR, NewCR
  <2>4. Blank \in StatusType
    BY BoundsAssumption DEF Blank, StatusType
  <2>5. NewCR(1, s) \in CRType
    BY <2>4 DEF Init, NewCR, CRType
  <2>6. MemoryTyped
    BY <2>3, <2>4, <2>5 DEF Init, MemoryTyped
  <2>7. \A k \in Kinds : obj[k] # Absent => obj[k] \in ObjType(k)
    BY <2>1, <2>5 DEF ObjType, Kinds
  <2>8. \A k \in Read \ {"elasticsearch"} : k \in Owned
    BY DEF Read, Owned
  <2>9. \A k \in Read : fresh[k] => k # "elasticsearch"
    BY Zenon DEF Init
  <2>10. \A k \in Read : cache[k] = Absent /\ (fresh[k] => cache[k] = obj[k])
    BY <2>1, <2>8, <2>9 DEF Init, Kinds
  <2>11. StoreTyped
    <3>1. DOMAIN fresh = Read /\ DOMAIN cache = Read /\ uids \in Nat \ {0}
      BY DEF Init
    <3> QED
      BY <2>1, <2>7, <2>10, <3>1 DEF StoreTyped
  <2>12. WhereTyped
    BY TriesAssumption, BoundsAssumption DEF Init, WhereTyped
  <2>13. FlagsTyped
    BY Zenon DEF Init, FlagsTyped
  <2> QED
    BY <2>6, <2>11, <2>12, <2>13 DEF TypeInv
<1>2. TypeInv /\ [Next]_vars => TypeInv'
  BY StoreStep, MemoryStep, WhereStep, FlagsStep DEF TypeInv
<1> QED
  BY <1>1, <1>2, PTL DEF Spec

(* Every object the operator keeps has one of the contents it can have and
   belongs to a custom resource there has been, whatever happens meanwhile. *)
THEOREM TypeCorrect == Spec => []TypeOK
<1>1. TypeInv => TypeOK
  BY Zenon DEF TypeInv, TypeOK, StoreTyped, MemoryTyped, WhereTyped, FlagsTyped, Kinds
<1> QED
  BY <1>1, Inductive, PTL

-----------------------------------------------------------------------------
(* The announcement of a change of the settings.                           *)

(* Between the announcement and the update of the config map the custom
   resource, if it is still the one in memory, says UpdatingSettings.      *)
Announced ==
    pc = "configmap" /\ op = "update" /\ CR # Absent /\ CR.uid = dpl.uid => CR.status.updating

(* A write to another object leaves the custom resource as it is.          *)
LEMMA OtherWrites ==
    ASSUME StoreTyped, NEW k \in Kinds \ {"elasticsearch"}, NEW o, Write(k, o)
    PROVE  CR' = CR
BY DEF StoreTyped, Write, CR, Kinds

(* An update of the custom resource that the server accepts makes it what
   was read, changed.                                                      *)
LEMMA UpdatesCR ==
    ASSUME StoreTyped, NEW o, Updates("elasticsearch", o)
    PROVE  CR' = o /\ CR = cache["elasticsearch"] /\ CR # Absent
<1>1. "elasticsearch" \in Read /\ "elasticsearch" \in Kinds
  BY DEF Read, Kinds
<1> QED
  BY <1>1 DEF StoreTyped, Updates, Put, Write, store, CR

(* Among the steps of a reconcile only the announcement leads to the update
   of the config map, and only that update stays there.                    *)
LEMMA WaysToUpdate ==
    ASSUME WhereTyped, Reconcile, pc' = "configmap", op' = "update"
    PROVE  AnnounceChange \/ UpdateConfigMap
<1> USE GoesOn, AfterType DEF RetryOnConflict
<1>1. ~Begin
  BY DEF Begin, Move
<1>2. ~(CreateOrUpdateServiceAccount \/ CreateOrUpdateServiceMonitors
         \/ CreateOrUpdatePrometheusRules)
  BY DEF CreateOrUpdateServiceAccount, CreateOrUpdateServiceMonitors,
     CreateOrUpdatePrometheusRules, CreateFirst
<1>3. ~createOrUpdateClusterRole /\ ~createOrUpdateClusterRoleBinding /\ ~createOrUpdateService
  BY DEF createOrUpdateClusterRole, createOrUpdateClusterRoleBinding, createOrUpdateService,
     CreateFirst, UpdateStep
<1>4. ~CreateConfigMap /\ ~CompareConfigMap
  BY DEF CreateConfigMap, CompareConfigMap, CreateFirst
<1>5. ~SettleChange
  BY DEF SettleChange, updateConditionWithRetry
<1>6. ~isValidConf /\ ~WorkOnNodes /\ ~CreateNodeFails /\ ~NodesDone
  BY DEF isValidConf, WorkOnNodes, CreateNodeFails, NodesDone, Move
<1>7. ~ReportConf
  BY DEF ReportConf, updateConditionWithRetry, Accept, Reject, Move
<1>8. ~updateNodeStatus /\ ~UpdateClusterStatus
  BY DEF updateNodeStatus, UpdateClusterStatus, WriteStatus, Move
<1> QED
  BY <1>1, <1>2, <1>3, <1>4, <1>5, <1>6, <1>7, <1>8
     DEF Reconcile, CreateOrUpdateConfigMaps, CreateOrUpdateElasticsearchCluster
(* The announcement holds until the config map is updated: whoever replaces
   the custom resource makes another one of it.                            *)
LEMMA AnnouncedStep == TypeInv /\ Announced /\ [Next]_vars => Announced'
<1> SUFFICES ASSUME TypeInv, Announced, [Next]_vars
             PROVE  Announced'
  OBVIOUS
<1>0. "elasticsearch" \in Kinds /\ DOMAIN obj = Kinds /\ Updated \subseteq Kinds \ {"elasticsearch"}
      /\ Owned \subseteq Kinds \ {"elasticsearch"}
  BY DEF TypeInv, StoreTyped, Kinds, Owned, Created, Updated
<1>1. ASSUME UNCHANGED <<pc, op, dpl>>, CR' = CR
      PROVE  Announced'
  BY <1>1 DEF Announced
<1>2. ASSUME ~(pc' = "configmap" /\ op' = "update")
      PROVE  Announced'
  BY <1>2 DEF Announced
<1>3. CASE AnnounceChange
  <2> SUFFICES ASSUME pc' = "configmap", op' = "update"
               PROVE  CR'.status.updating
    BY DEF Announced
  <2> DEFINE new == [cache["elasticsearch"] EXCEPT !.status["updating"] = TRUE]
  <2>1. Updates("elasticsearch", new)
    BY <1>3, GoesOn DEF TypeInv, AnnounceChange, updateConditionWithRetry, GetAndUpdate,
       RetryOnConflict, Updates
  <2>2. CR' = new /\ cache["elasticsearch"] # Absent
    BY <2>1, UpdatesCR DEF TypeInv, Updates
  <2>3. cache["elasticsearch"] \in CRType
    BY <2>2 DEF TypeInv, StoreTyped, ObjType, Read
  <2>4. new.status.updating = TRUE
    BY <2>3 DEF CRType, StatusType
  <2> HIDE DEF new
  <2> QED
    BY <2>2, <2>4, Zenon
<1>4. CASE UpdateConfigMap
  <2>1. pc = "configmap" /\ op = "update" /\ UNCHANGED dpl
    BY <1>4 DEF UpdateConfigMap, UpdateStep, memory
  <2>2. CR' = CR
    <3>1. \/ UNCHANGED store
          \/ Write("configmap", [cache["configmap"] EXCEPT !.data = config])
      BY <1>4 DEF UpdateConfigMap, GetAndUpdate, Put
    <3>2. "configmap" \in Kinds \ {"elasticsearch"}
      BY <1>0 DEF Updated
    <3> QED
      BY <3>1, <3>2, OtherWrites DEF TypeInv, store, CR
  <2> QED
    BY <2>1, <2>2 DEF Announced
<1>5. CASE Reconcile
  BY <1>2, <1>3, <1>4, <1>5, WaysToUpdate DEF TypeInv
<1>6. CASE Restart \/ GarbageCollect
  <2>1. pc' = "idle"
    BY <1>6 DEF Restart, GarbageCollect, Move, where
  <2> QED
    BY <1>2, <2>1
<1>7. ASSUME NEW k \in Read, CatchUp(k)
      PROVE  Announced'
  BY <1>1, <1>7 DEF CatchUp, memory, CR
<1>8. ASSUME NEW s \in Specs, EditSpec(s)
      PROVE  Announced'
  <2>1. CR' = [CR EXCEPT !.spec = s] /\ CR \in CRType /\ CR # Absent
    BY <1>0, <1>8 DEF EditSpec, Write, CR, TypeInv, StoreTyped, ObjType
  <2>2. CR'.uid = CR.uid /\ CR'.status = CR.status
    BY <2>1 DEF CRType
  <2> QED
    BY <1>8, <2>1, <2>2 DEF Announced, EditSpec, User, where, memory
<1>9. CASE EditManagementState
  <2>1. CR' = [CR EXCEPT !.managed = ~@] /\ CR \in CRType /\ CR # Absent
    BY <1>0, <1>9 DEF EditManagementState, Write, CR, TypeInv, StoreTyped, ObjType
  <2>2. CR'.uid = CR.uid /\ CR'.status = CR.status
    BY <2>1 DEF CRType
  <2> QED
    BY <1>9, <2>1, <2>2 DEF Announced, EditManagementState, User, where, memory
<1>10. ASSUME NEW s \in Specs, CreateCR(s)
       PROVE  Announced'
  <2>1. CR' = NewCR(uids + 1, s) /\ UNCHANGED dpl
    BY <1>0, <1>10 DEF CreateCR, Write, CR, User, memory
  <2>2. dpl.uid \in 1..uids /\ uids \in Nat
    BY DEF TypeInv, MemoryTyped, StoreTyped, CRType
  <2>3. CR'.uid # dpl'.uid
    BY <2>1, <2>2 DEF NewCR
  <2> QED
    BY <2>3 DEF Announced
<1>11. ASSUME NEW k \in Kinds, Delete(k)
       PROVE  Announced'
  <2>1. UNCHANGED <<pc, op, dpl>>
    BY <1>11 DEF Delete, User, where, memory
  <2>2. CASE k = "elasticsearch"
    BY <1>0, <1>11, <2>2 DEF Announced, Delete, Write, CR
  <2>3. CASE k # "elasticsearch"
    BY <1>1, <1>11, <2>1, <2>3, OtherWrites DEF Delete, TypeInv
  <2> QED
    BY <2>2, <2>3
<1>12. ASSUME NEW k \in Updated, Overwrite(k)
       PROVE  Announced'
  BY <1>0, <1>1, <1>12, OtherWrites DEF Overwrite, User, where, memory, TypeInv
<1>13. CASE UNCHANGED vars
  BY <1>1, <1>13 DEF vars, store, where, memory, CR
<1> QED
  BY <1>5, <1>6, <1>7, <1>8, <1>9, <1>10, <1>11, <1>12, <1>13 DEF Next, Environment, Kinds

(* Another content comes into a config map that was there and stays only by
   a user's hand, or by the update.                                        *)
LEMMA WhoWritesConfigMap ==
    ASSUME TypeInv, Next,
           obj["configmap"] # Absent, obj'["configmap"] # Absent,
           obj'["configmap"].data \notin {obj["configmap"].data, Foreign}
    PROVE  pc = "configmap" /\ op = "update"
<1>0. /\ "configmap" \in Kinds /\ DOMAIN obj = Kinds /\ "elasticsearch" \in Kinds
      /\ Owned \subseteq Kinds /\ Updated \subseteq Kinds
  BY DEF TypeInv, StoreTyped, Kinds, Owned, Updated
<1>1. ASSUME NEW k \in Kinds, k # "configmap", NEW o, Write(k, o)
      PROVE  FALSE
  BY <1>0, <1>1 DEF Write
<1>2. obj' # obj
  OBVIOUS
<1>3. CASE Reconcile
  <2>1. ~UNCHANGED store
    BY <1>2 DEF store
  <2>2. ~WritesCondition("updating") /\ ~WritesCondition("invalid") /\ ~WritesStatus
    BY <1>0, <1>1, <2>1 DEF WritesCondition, WritesStatus, Updates, Put
  <2>3. WritesObject
    BY <1>3, <2>1, <2>2, ReconcileWrites
  <2> QED
    BY <1>0, <1>1, <2>1, <2>3 DEF WritesObject, Updates, Put
<1>4. CASE Restart \/ \E k \in Read : CatchUp(k)
  BY <1>2, <1>4 DEF Restart, CatchUp
<1>5. CASE EditManagementState \/ \E s \in Specs : EditSpec(s) \/ CreateCR(s)
  BY <1>0, <1>1, <1>5 DEF EditManagementState, EditSpec, CreateCR
<1>6. ASSUME NEW k \in Kinds, Delete(k)
      PROVE  FALSE
  BY <1>0, <1>1, <1>6 DEF Delete, Write
<1>7. ASSUME NEW k \in Updated, Overwrite(k)
      PROVE  FALSE
  <2>1. k = "configmap"
    BY <1>0, <1>1, <1>7 DEF Overwrite
  <2>2. obj["configmap"] \in [owner: 1..uids, data: Contents("configmap")]
    BY <1>0 DEF TypeInv, StoreTyped, ObjType
  <2>3. obj'["configmap"] = [obj["configmap"] EXCEPT !.data = Foreign]
    BY <1>0, <1>7, <2>1 DEF Overwrite, Write
  <2> QED
    BY <2>2, <2>3
<1>8. CASE GarbageCollect
  BY <1>0, <1>8 DEF GarbageCollect
<1> QED
  BY <1>3, <1>4, <1>5, <1>6, <1>7, <1>8 DEF Next, Environment, Kinds

(* The operator never changes the settings of a cluster behind the back of
   its custom resource: CreateOrUpdateConfigMaps announces first, and what
   it has announced still stands when the config map is written.           *)
THEOREM ChangesAreAnnounced == Spec => NotUnnoticed
<1>1. Init => Announced
  BY DEF Init, Announced
<1>2. TypeInv /\ Announced /\ [Next]_vars =>
        [LET cm == obj["configmap"]
         IN  /\ cm # Absent /\ cm' # Absent
             /\ cm'.data \notin {cm.data, Foreign}
             /\ CR # Absent /\ CR.uid = dpl.uid
             => CR.status.updating]_vars
  BY WhoWritesConfigMap DEF Announced
<1> QED
  BY <1>1, <1>2, Inductive, AnnouncedStep, PTL DEF Spec, NotUnnoticed
-----------------------------------------------------------------------------
(* The progress that a custom resource records.                            *)

(* From isValidConf on the custom resource records no more progress than
   the operator has in memory, nor than what it is about to write.         *)
NotAhead ==
    CR # Absent =>
      /\ pc \in {"nodes", "record"} => CR.status.progress <= dpl.status.progress
      /\ pc \in {"record", "status"} => CR.status.progress <= status.progress

(* Progress is a number wherever it is kept.                               *)
LEMMA ProgressIsNat ==
    ASSUME TypeInv
    PROVE  /\ dpl.status.progress \in Nat /\ status.progress \in Nat
           /\ CR # Absent => CR \in CRType /\ CR.status.progress \in Nat
<1>1. \A c \in CRType : c.status.progress \in Nat
  BY BoundsAssumption DEF CRType, StatusType
<1>2. CR # Absent => CR \in CRType
  BY DEF TypeInv, StoreTyped, ObjType, CR, Kinds
<1> QED
  BY <1>1, <1>2, BoundsAssumption DEF TypeInv, MemoryTyped, StatusType

(* Neither the conditions nor what users edit say anything about progress. *)
LEMMA ProgressKept ==
    ASSUME NEW c \in CRType
    PROVE  /\ \A value \in BOOLEAN :
                /\ [c EXCEPT !.status["updating"] = value].status.progress = c.status.progress
                /\ [c EXCEPT !.status["invalid"] = value].status.progress = c.status.progress
           /\ \A st : [c EXCEPT !.status = st].status = st
           /\ \A s : [c EXCEPT !.spec = s].status = c.status
           /\ [c EXCEPT !.managed = ~@].status = c.status
BY DEF CRType, StatusType

(* How a reconcile gets to its nodes and to the end of them.               *)
LEMMA WaysToNodes ==
    ASSUME WhereTyped, Reconcile, pc' \in {"nodes", "record", "status"}
    PROVE  ReportConf \/ WorkOnNodes \/ updateNodeStatus \/ NodesDone \/ UpdateClusterStatus
<1> USE GoesOn, AfterType DEF RetryOnConflict
<1>0. \A k \in DOMAIN After : After[k] # "status"
  BY DEF After
<1>1. ~Begin
  BY DEF Begin, Move
<1>2. ~CreateOrUpdateServiceAccount /\ ~CreateOrUpdateServiceMonitors
      /\ ~CreateOrUpdatePrometheusRules
  BY <1>0 DEF CreateOrUpdateServiceAccount, CreateOrUpdateServiceMonitors,
     CreateOrUpdatePrometheusRules, CreateFirst, Succeed, Move
<1>3. ~createOrUpdateClusterRole /\ ~createOrUpdateClusterRoleBinding /\ ~createOrUpdateService
  BY <1>0 DEF createOrUpdateClusterRole, createOrUpdateClusterRoleBinding,
     createOrUpdateService, CreateFirst, UpdateStep, Succeed, Move
<1>4. ~CreateConfigMap /\ ~CompareConfigMap /\ ~UpdateConfigMap
  BY <1>0 DEF CreateConfigMap, CompareConfigMap, UpdateConfigMap, CreateFirst, UpdateStep,
     Succeed, Move
<1>5. ~AnnounceChange /\ ~SettleChange
  BY <1>0 DEF AnnounceChange, SettleChange, updateConditionWithRetry, Succeed, Move
<1>6. ~isValidConf /\ ~CreateNodeFails
  BY DEF isValidConf, CreateNodeFails
<1> QED
  BY <1>1, <1>2, <1>3, <1>4, <1>5, <1>6
     DEF Reconcile, CreateOrUpdateConfigMaps, CreateOrUpdateElasticsearchCluster

(* What isValidConf has written is what the nodes are worked on with, and
   nobody else records progress.                                           *)
LEMMA NotAheadStep == TypeInv /\ NotAhead /\ [Next]_vars => NotAhead'
<1> SUFFICES ASSUME TypeInv, NotAhead, [Next]_vars
             PROVE  NotAhead'
  OBVIOUS
<1>0. "elasticsearch" \in Kinds /\ DOMAIN obj = Kinds /\ Updated \subseteq Kinds \ {"elasticsearch"}
      /\ Owned \subseteq Kinds \ {"elasticsearch"}
  BY DEF TypeInv, StoreTyped, Kinds, Owned, Created, Updated
<1>1. ASSUME UNCHANGED <<pc, dpl, status>>,
             CR' = CR \/ CR' = Absent \/ (CR # Absent /\ CR'.status = CR.status)
                 \/ CR'.status.progress = 0
      PROVE  NotAhead'
  BY <1>1, ProgressIsNat DEF NotAhead
<1>2. ASSUME pc' \notin {"nodes", "record", "status"}
      PROVE  NotAhead'
  BY <1>2 DEF NotAhead
<1>3. CASE ReportConf
  <2> SUFFICES ASSUME pc' \in {"nodes", "record", "status"}
               PROVE  NotAhead'
    BY <1>2
  <2> DEFINE new == [cache["elasticsearch"] EXCEPT !.status["invalid"] = (op = "invalid")]
  <2>1. Updates("elasticsearch", new) /\ pc' = "nodes"
    BY <1>3, GoesOn DEF TypeInv, ReportConf, updateConditionWithRetry, GetAndUpdate,
       RetryOnConflict, Updates, Accept, Reject, Move
  <2>2. dpl' = new
    BY <1>3, <2>1 DEF ReportConf, updateConditionWithRetry, ReadInto, Updates
  <2>3. CR' = new
    BY <2>1, UpdatesCR DEF TypeInv
  <2>4. dpl'.status.progress \in Nat
    BY TypeInv, StoreStep, MemoryStep, BoundsAssumption DEF TypeInv, MemoryTyped, CRType, StatusType
  <2> HIDE DEF new
  <2> QED
    BY <2>1, <2>2, <2>3, <2>4 DEF NotAhead
<1>4. CASE WorkOnNodes
  <2>1. CR' = CR /\ dpl' = dpl /\ pc = "nodes" /\ pc' = "record"
    BY <1>4 DEF WorkOnNodes, Move, store, CR
  <2>2. status'.progress = dpl.status.progress + 1
    BY <1>4 DEF WorkOnNodes, TypeInv, MemoryTyped, CRType, StatusType
  <2> QED
    BY <2>1, <2>2, ProgressIsNat DEF NotAhead
<1>5. CASE NodesDone
  <2>1. CR' = CR /\ status' = dpl.status /\ pc = "nodes" /\ pc' = "status"
    BY <1>5 DEF NodesDone, Move, store, CR
  <2> QED
    BY <2>1 DEF NotAhead
<1>6. CASE updateNodeStatus \/ UpdateClusterStatus
  <2> DEFINE new == [cache["elasticsearch"] EXCEPT !.status = status]
  <2>1. /\ UNCHANGED store \/ Updates("elasticsearch", new)
        /\ dpl' = IF cache["elasticsearch"] = Absent THEN dpl ELSE new
        /\ pc \in {"record", "status"} /\ status' = status
        /\ pc' \in {"nodes", "record"} => pc = "record"
    BY <1>6, GoesOn, AfterType DEF updateNodeStatus, UpdateClusterStatus, WriteStatus, ReadInto,
       GetAndUpdate, RetryOnConflict, Updates, Move, TypeInv
  <2>2. cache["elasticsearch"] # Absent => new.status = status
    <3>1. cache["elasticsearch"] # Absent => cache["elasticsearch"] \in CRType
      BY DEF TypeInv, StoreTyped, ObjType, Read
    <3> QED
      BY <3>1, ProgressKept
  <2> HIDE DEF new
  <2>3. CASE UNCHANGED store
    <3>1. CR' = CR
      BY <2>3 DEF store, CR
    <3> QED
      BY <2>1, <2>2, <3>1 DEF NotAhead
  <2>4. CASE Updates("elasticsearch", new)
    <3>1. CR' = new /\ new.status = status /\ dpl' = new
      BY <2>1, <2>2, <2>4, UpdatesCR DEF TypeInv, Updates
    <3> QED
      BY <2>1, <3>1, ProgressIsNat DEF NotAhead
  <2> QED
    BY <2>1, <2>3, <2>4
<1>7. CASE Reconcile
  BY <1>2, <1>3, <1>4, <1>5, <1>6, <1>7, WaysToNodes DEF TypeInv
<1>8. CASE Restart \/ GarbageCollect
  <2>1. pc' = "idle"
    BY <1>8 DEF Restart, GarbageCollect, Move, where
  <2> QED
    BY <1>2, <2>1
<1>9. ASSUME NEW k \in Read, CatchUp(k)
      PROVE  NotAhead'
  BY <1>1, <1>9 DEF CatchUp, memory, CR
<1>10. ASSUME NEW s \in Specs, EditSpec(s)
       PROVE  NotAhead'
  <2>1. CR' = [CR EXCEPT !.spec = s] /\ CR # Absent
    BY <1>0, <1>10 DEF EditSpec, Write, CR
  <2> QED
    BY <1>1, <1>10, <2>1, ProgressIsNat, ProgressKept DEF EditSpec, User, where, memory
<1>11. CASE EditManagementState
  <2>1. CR' = [CR EXCEPT !.managed = ~@] /\ CR # Absent
    BY <1>0, <1>11 DEF EditManagementState, Write, CR
  <2> QED
    BY <1>1, <1>11, <2>1, ProgressIsNat, ProgressKept
       DEF EditManagementState, User, where, memory
<1>12. ASSUME NEW s \in Specs, CreateCR(s)
       PROVE  NotAhead'
  <2>1. CR' = NewCR(uids + 1, s)
    BY <1>0, <1>12 DEF CreateCR, Write, CR
  <2>2. CR'.status.progress = 0
    BY <2>1 DEF NewCR, Blank
  <2> QED
    BY <1>1, <1>12, <2>2 DEF CreateCR, User, where, memory
<1>13. ASSUME NEW k \in Kinds, Delete(k)
       PROVE  NotAhead'
  <2>1. UNCHANGED <<pc, dpl, status>>
    BY <1>13 DEF Delete, User, where, memory
  <2>2. CASE k = "elasticsearch"
    BY <1>0, <1>1, <1>13, <2>1, <2>2 DEF Delete, Write, CR
  <2>3. CASE k # "elasticsearch"
    BY <1>1, <1>13, <2>1, <2>3, OtherWrites DEF Delete, TypeInv
  <2> QED
    BY <2>2, <2>3
<1>14. ASSUME NEW k \in Updated, Overwrite(k)
       PROVE  NotAhead'
  BY <1>0, <1>1, <1>14, OtherWrites DEF Overwrite, User, where, memory, TypeInv
<1>15. CASE UNCHANGED vars
  BY <1>1, <1>15 DEF vars, store, where, memory, CR
<1> QED
  BY <1>7, <1>8, <1>9, <1>10, <1>11, <1>12, <1>13, <1>14, <1>15 DEF Next, Environment, Kinds
(* The progress of a custom resource that is there before and after a step
   of a reconcile has not become less.                                     *)
LEMMA ReconcileKeepsProgress ==
    ASSUME TypeInv, NotAhead, Reconcile, CR # Absent, CR' # Absent
    PROVE  CR'.status.progress >= CR.status.progress
<1>0. Owned \subseteq Kinds \ {"elasticsearch"} /\ Updated \subseteq Owned
  BY DEF Kinds, Owned, Created, Updated
<1>1. CR \in CRType /\ CR.status.progress \in Nat /\ status.progress \in Nat
  BY ProgressIsNat
<1>2. ASSUME CR' = CR \/ CR'.status.progress = CR.status.progress
      PROVE  CR'.status.progress >= CR.status.progress
  BY <1>1, <1>2
<1>3. CASE UNCHANGED store
  BY <1>2, <1>3 DEF store, CR
<1>4. CASE WritesObject
  <2>1. UNCHANGED store \/ \E k \in Kinds \ {"elasticsearch"} : \E o : Write(k, o)
    <3>1. "configmap" \in Kinds \ {"elasticsearch"}
      BY <1>0 DEF Updated
    <3>2. \A k, o : Put(k, o) => UNCHANGED store \/ Write(k, o)
      BY DEF Put
    <3> QED
      BY <1>0, <1>4, <3>1, <3>2, Zenon DEF WritesObject, Updates
  <2> QED
    BY <1>2, <1>3, <2>1, OtherWrites DEF TypeInv
<1>5. CASE WritesCondition("updating") \/ WritesCondition("invalid")
  <2>1. PICK value \in BOOLEAN :
          \/ Updates("elasticsearch", [cache["elasticsearch"] EXCEPT !.status["updating"] = value])
          \/ Updates("elasticsearch", [cache["elasticsearch"] EXCEPT !.status["invalid"] = value])
    BY <1>5 DEF WritesCondition
  <2>2. \/ CR' = [CR EXCEPT !.status["updating"] = value]
        \/ CR' = [CR EXCEPT !.status["invalid"] = value]
    BY <2>1, UpdatesCR DEF TypeInv
  <2> QED
    BY <1>1, <1>2, <2>2, ProgressKept
<1>6. CASE WritesStatus
  <2>1. CR' = [CR EXCEPT !.status = status] /\ pc \in {"record", "status"}
    BY <1>6, UpdatesCR DEF TypeInv, WritesStatus
  <2>2. CR'.status = status
    BY <1>1, <2>1, ProgressKept
  <2> QED
    BY <1>1, <2>1, <2>2 DEF NotAhead
<1> QED
  BY <1>3, <1>4, <1>5, <1>6, ReconcileWrites

(* Nor do users, informers or the garbage collector take progress back,
   unless they make another custom resource.                               *)
LEMMA OthersKeepProgress ==
    ASSUME TypeInv, Environment, CR # Absent, CR' # Absent
    PROVE  CR'.status.progress >= CR.status.progress
<1>0. "elasticsearch" \in Kinds /\ DOMAIN obj = Kinds /\ Updated \subseteq Kinds \ {"elasticsearch"}
      /\ Owned \subseteq Kinds \ {"elasticsearch"}
  BY DEF TypeInv, StoreTyped, Kinds, Owned, Created, Updated
<1>1. CR \in CRType /\ CR.status.progress \in Nat
  BY ProgressIsNat
<1>2. ASSUME CR' = CR \/ CR'.status = CR.status
      PROVE  CR'.status.progress >= CR.status.progress
  BY <1>1, <1>2
<1>3. CASE Restart \/ \E k \in Read : CatchUp(k)
  BY <1>2, <1>3 DEF Restart, CatchUp, CR
<1>4. ASSUME NEW s \in Specs, EditSpec(s) \/ CreateCR(s)
      PROVE  CR'.status = CR.status
  <2>1. CR' = [CR EXCEPT !.spec = s]
    BY <1>0, <1>4 DEF EditSpec, CreateCR, Write, CR
  <2> QED
    BY <1>1, <2>1, ProgressKept
<1>5. CASE EditManagementState
  <2>1. CR' = [CR EXCEPT !.managed = ~@]
    BY <1>0, <1>5 DEF EditManagementState, Write, CR
  <2> QED
    BY <1>1, <1>2, <2>1, ProgressKept
<1>6. ASSUME NEW k \in Kinds, Delete(k)
      PROVE  CR' = CR
  <2>1. k # "elasticsearch"
    BY <1>0, <1>6 DEF Delete, Write, CR
  <2> QED
    BY <1>6, <2>1, OtherWrites DEF Delete, TypeInv
<1>7. ASSUME NEW k \in Updated, Overwrite(k)
      PROVE  CR' = CR
  BY <1>0, <1>7, OtherWrites DEF Overwrite, TypeInv
<1>8. CASE GarbageCollect
  <2>1. "elasticsearch" \notin Orphans
    BY <1>0 DEF Orphans
  <2> QED
    BY <1>0, <1>2, <1>8, <2>1 DEF GarbageCollect, CR
<1> QED
  BY <1>2, <1>3, <1>4, <1>5, <1>6, <1>7, <1>8 DEF Environment, Kinds

(* A status that was worked out from a stale read of the cache never undoes
   progress that is recorded already: what isValidConf writes on the way
   orders the status writes after everything the operator has recorded.    *)
THEOREM ProgressIsKept == Spec => NoLostProgress
<1>1. Init => NotAhead
  BY DEF Init, NotAhead
<1>2. TypeInv /\ NotAhead /\ [Next]_vars =>
        [CR # Absent /\ CR' # Absent /\ CR'.uid = CR.uid
         => CR'.status.progress >= CR.status.progress]_vars
  BY ReconcileKeepsProgress, OthersKeepProgress DEF Next
<1> QED
  BY <1>1, <1>2, Inductive, NotAheadStep, PTL DEF Spec, NoLostProgress
=============================================================================
