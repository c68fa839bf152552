----------------------------- MODULE Reconciler -----------------------------
(***************************************************************************)
(* One reconcile from end to end (elasticsearch_controller.go and          *)
(* reconciler.go): the objects it creates and keeps up to date around the  *)
(* Elasticsearch nodes, in the order it does so, and how it writes the     *)
(* status of the custom resource.                                          *)
(*                                                                         *)
(* Reads come from an informer cache that lags behind the API server;      *)
(* writes go to the server, which refuses an update based on an old        *)
(* version.  Meanwhile users edit, delete and recreate things, the garbage *)
(* collector removes what has lost its owner, requests fail and the        *)
(* operator restarts.                                                      *)
(***************************************************************************)
EXTENDS Integers

CONSTANTS
    Specs,         \* what users ask for
    Absent,        \* no object
    Foreign,       \* content of an object that is not the operator's
    Tries,         \* DefaultRetry.Steps
    MaxProgress,   \* bound: the progress the node statuses record
    MaxEvents      \* bound: changes by users, failed requests and restarts

(* A specification by what the operator computes from it: getMasterCount,
   getDataCount, calculateReplicaCount and the verdict of isValidConf, all
   of them in ClusterNodes.                                                *)
Asked == [masters: Nat, data: Nat, replicas: Nat, valid: BOOLEAN]

ASSUME SpecsAssumption  == Specs \subseteq Asked
ASSUME TriesAssumption  == Tries \in Nat \ {0}
ASSUME BoundsAssumption == MaxProgress \in Nat /\ MaxEvents \in Nat

(* One object stands for the two cluster roles, one for their bindings, and
   one for the three services: each of them is treated in the same way.    *)
Created == {"serviceaccount", "servicemonitor", "prometheusrule"}
Updated == {"clusterrole", "clusterrolebinding", "configmap", "service"}
Owned   == Created \cup Updated
Read    == Updated \cup {"elasticsearch"}

VARIABLES
    obj,             \* the API server; a custom resource under "elasticsearch"
    cache, fresh,    \* the informers of what the operator reads
    uids,            \* the custom resources there have been
    queued,          \* the workqueue holds the request
    pc, op, tries,   \* one reconcile: where it is, and in which try
    dpl,             \* the custom resource in memory
    config,          \* the config map it has rendered
    status,          \* the status it is about to write
    wrongConfig,     \* package variable
    events

store  == <<obj, cache, fresh>>
where  == <<pc, op, tries, queued>>
memory == <<dpl, config, status, wrongConfig>>
vars   == <<store, uids, where, memory, events>>

\* names: the custom resource whose nodes the statuses name, 0 for none
Blank == [updating |-> FALSE, invalid |-> FALSE, progress |-> 0, names |-> 0]

NewCR(uid, s) == [uid |-> uid, managed |-> TRUE, spec |-> s, status |-> Blank]

\* renderData: minimum_master_nodes, expected nodes, and the index settings
Rendered(s) == [quorum |-> s.masters \div 2 + 1, expected |-> s.data,
                shards |-> s.data, replicas |-> s.replicas]

\* what an object of the operator contains
Content(k, s) == IF k = "configmap" THEN Rendered(s) ELSE "ours"

-----------------------------------------------------------------------------
(* The API server.                                                         *)

Works == UNCHANGED events
Event == events < MaxEvents /\ events' = events + 1

\* an object gets a new version, of which its informer is yet to hear
Write(k, o) ==
    /\ obj' = [obj EXCEPT ![k] = o]
    /\ fresh' = [x \in Read |-> fresh[x] /\ x # k]
    /\ UNCHANGED cache

\* r is the answer; a request that fails was carried out or not
Create(k, o, r) ==
    \/ r = "ok" /\ obj[k] = Absent /\ Write(k, o) /\ Works
    \/ r = "exists" /\ obj[k] # Absent /\ UNCHANGED store /\ Works
    \/ r = "error" /\ obj[k] = Absent /\ Write(k, o) /\ Event
    \/ r = "error" /\ UNCHANGED store /\ Event

\* an update without a difference makes no new version
Put(k, o) == IF obj[k] = o THEN UNCHANGED store ELSE Write(k, o)

(* Get and Update.  They are one step: whatever happens between the two
   makes the update fail as it does when it happened before them.          *)
GetAndUpdate(k, New(_), r) ==
    \/ r = "notfound" /\ cache[k] = Absent /\ UNCHANGED store /\ Works
    \/ /\ cache[k] # Absent
       /\ \/ r = "ok" /\ fresh[k] /\ Put(k, New(cache[k])) /\ Works
          \/ r = "conflict" /\ ~fresh[k] /\ obj[k] # Absent /\ UNCHANGED store /\ Works
          \/ r = "error" /\ ~fresh[k] /\ obj[k] = Absent /\ UNCHANGED store /\ Works
          \/ r = "error" /\ fresh[k] /\ Put(k, New(cache[k])) /\ Event
          \/ r = "error" /\ UNCHANGED store /\ Event

Answers == {"ok", "exists", "notfound", "conflict", "error"}

-----------------------------------------------------------------------------
(* How a reconcile goes on.                                                *)

Move(place, o) == pc' = place /\ op' = o /\ tries' = 0

After == [serviceaccount |-> "clusterrole", clusterrole |-> "clusterrolebinding",
          clusterrolebinding |-> "configmap", configmap |-> "service",
          service |-> "validate", status |-> "servicemonitor",
          servicemonitor |-> "prometheusrule", prometheusrule |-> "idle"]

Succeed_NoRequeue == Move(After[pc], "create") /\ UNCHANGED queued

\* the next part; after the last one the request comes back in 30 seconds
Succeed ==
    /\ Move(After[pc], "create")
    /\ queued' = (queued \/ After[pc] = "idle")

\* the first error ends a reconcile; the queue tries again
Fail == Move("idle", "create") /\ queued' = TRUE

RetryOnConflict(r, Done, Error) ==
    \/ r = "ok" /\ Done
    \/ r = "conflict" /\ tries + 1 < Tries /\ tries' = tries + 1 /\ UNCHANGED <<pc, op, queued>>
    \/ r = "conflict" /\ tries + 1 = Tries /\ Error
    \/ r \in {"notfound", "error"} /\ Error

-----------------------------------------------------------------------------
(* Objects.                                                                *)

addOwnerRefToObject_Dropped(content) == [owner |-> 0, data |-> content]

addOwnerRefToObject(content) == [owner |-> dpl.uid, data |-> content]

\* Exists: how it goes on when the object is already there
CreateFirst(k, Exists) ==
    /\ pc = k /\ op = "create"
    /\ \E r \in Answers :
        /\ Create(k, addOwnerRefToObject(Content(k, dpl.spec)), r)
        /\ \/ r = "ok" /\ Succeed
           \/ r = "exists" /\ Exists
           \/ r = "error" /\ Fail
    /\ UNCHANGED <<uids, dpl, status, wrongConfig>>

LookAt(o) == Move(pc, o) /\ UNCHANGED queued

CreateOrUpdateServiceAccount == CreateFirst("serviceaccount", Succeed) /\ UNCHANGED config
CreateOrUpdateServiceMonitors == CreateFirst("servicemonitor", Succeed) /\ UNCHANGED config
CreateOrUpdatePrometheusRules == CreateFirst("prometheusrule", Succeed) /\ UNCHANGED config

\* an update of an object, whose owner stays the one it was created for
Restored(o) == [o EXCEPT !.data = "ours"]

UpdateStep(k) == pc = k /\ op = "update" /\ UNCHANGED <<uids, memory>>

createOrUpdateClusterRole ==
    \/ CreateFirst("clusterrole", LookAt("update")) /\ UNCHANGED config
    \/ /\ UpdateStep("clusterrole")
       /\ \E r \in Answers : /\ GetAndUpdate("clusterrole", Restored, r)
                             /\ RetryOnConflict(r, Succeed, Fail)

\* errors are wrapped, so that RetryOnConflict does not know a conflict
createOrUpdateClusterRoleBinding ==
    \/ CreateFirst("clusterrolebinding", LookAt("update")) /\ UNCHANGED config
    \/ /\ UpdateStep("clusterrolebinding")
       /\ \E r \in Answers : /\ GetAndUpdate("clusterrolebinding", Restored, r)
                             /\ IF r = "ok" THEN Succeed ELSE Fail

\* a service that is gone is left to the next reconcile
createOrUpdateService ==
    \/ CreateFirst("service", LookAt("update")) /\ UNCHANGED config
    \/ /\ UpdateStep("service")
       /\ \E r \in Answers :
            /\ GetAndUpdate("service", Restored, r)
            /\ RetryOnConflict(IF r = "notfound" THEN "ok" ELSE r, Succeed, Fail)

-----------------------------------------------------------------------------
(* The custom resource and its status.                                     *)

\* the custom resource in memory is the one that was read, with the change
ReadInto(New(_)) == dpl' = IF cache["elasticsearch"] = Absent THEN dpl
                           ELSE New(cache["elasticsearch"])

updateConditionWithRetry_OnlyIfChanged(cond, value, Done, Error) ==
    LET New(c) == [c EXCEPT !.status[cond] = value]
        old == cache["elasticsearch"]
    IN  /\ ReadInto(New)
        /\ IF old # Absent /\ old.status[cond] = value
           THEN UNCHANGED <<store, events>> /\ Done
           ELSE \E r \in Answers : /\ GetAndUpdate("elasticsearch", New, r)
                                   /\ RetryOnConflict(r, Done, Error)

\* a condition that is as it should be is written all the same
updateConditionWithRetry(cond, value, Done, Error) ==
    LET New(c) == [c EXCEPT !.status[cond] = value]
    IN  /\ ReadInto(New)
        /\ \E r \in Answers : /\ GetAndUpdate("elasticsearch", New, r)
                              /\ RetryOnConflict(r, Done, Error)

WriteStatus(Done, Error) ==
    LET New(c) == [c EXCEPT !.status = status]
    IN  /\ ReadInto(New)
        /\ \E r \in Answers : /\ GetAndUpdate("elasticsearch", New, r)
                              /\ RetryOnConflict(r, Done, Error)

-----------------------------------------------------------------------------
(* CreateOrUpdateConfigMaps.                                               *)

CreateConfigMap ==
    /\ CreateFirst("configmap", LookAt("compare"))
    /\ config' = Rendered(dpl.spec)

configMapContentChanged(old) == old.data # config

CompareConfigMap ==
    /\ pc = "configmap" /\ op = "compare"
    /\ \/ cache["configmap"] = Absent /\ Fail
       \/ /\ cache["configmap"] # Absent
          /\ LookAt(IF configMapContentChanged(cache["configmap"])
                    THEN "announce" ELSE "settle")
    /\ UNCHANGED <<store, uids, memory, events>>

AnnounceChange_ErrorsIgnored ==
    /\ pc = "configmap" /\ op = "announce"
    /\ updateConditionWithRetry("updating", TRUE, LookAt("update"), LookAt("update"))
    /\ UNCHANGED <<uids, config, status, wrongConfig>>

\* "Cluster settings has changed, make sure it doesnt go unnoticed"
AnnounceChange ==
    /\ pc = "configmap" /\ op = "announce"
    /\ updateConditionWithRetry("updating", TRUE, LookAt("update"), Fail)
    /\ UNCHANGED <<uids, config, status, wrongConfig>>

\* the content is what was rendered, however old by now
UpdateConfigMap ==
    /\ UpdateStep("configmap")
    /\ LET New(o) == [o EXCEPT !.data = config]
       IN  \E r \in Answers : /\ GetAndUpdate("configmap", New, r)
                              /\ RetryOnConflict(r, Succeed, Fail)

SettleChange ==
    /\ pc = "configmap" /\ op = "settle"
    /\ updateConditionWithRetry("updating", FALSE, Succeed, Fail)
    /\ UNCHANGED <<uids, config, status, wrongConfig>>

CreateOrUpdateConfigMaps ==
    CreateConfigMap \/ CompareConfigMap \/ AnnounceChange \/ UpdateConfigMap \/ SettleChange

-----------------------------------------------------------------------------
(* CreateOrUpdateElasticsearchCluster.  The checks, the nodes and the      *)
(* contents of their statuses are the subject of the other modules: here   *)
(* one check stands for those of isValidConf on the specification, a number *)
(* for the statuses of the nodes, each of which is worked out from the one *)
(* before it, and one call of updateNodeStatus for those of a reconcile.   *)

(* hasValidUUIDs also wants every node that the status names to have its
   UUID in the specification, and a new custom resource draws new UUIDs.   *)
ValidConf(c) == c.spec.valid /\ c.status.names \in {0, c.uid}

isValidConf ==
    /\ pc = "validate" /\ op = "create"
    /\ LookAt(IF ValidConf(dpl) THEN "valid" ELSE "invalid")
    /\ UNCHANGED <<store, uids, memory, events>>

\* the second error in a row is kept from the caller, who goes on
Reject ==
    /\ wrongConfig' = TRUE
    /\ IF wrongConfig THEN Move("servicemonitor", "create") /\ UNCHANGED queued
       ELSE Fail

Accept == wrongConfig' = FALSE /\ Move("nodes", "create") /\ UNCHANGED queued

\* the verdict is recorded in the custom resource as it is by now
ReportConf ==
    /\ pc = "validate" /\ op \in {"valid", "invalid"}
    /\ updateConditionWithRetry("invalid", op = "invalid",
                                IF op = "valid" THEN Accept ELSE Reject, Reject)
    /\ IF tries' > tries THEN UNCHANGED wrongConfig ELSE TRUE
    /\ UNCHANGED <<uids, config, status>>

WorkOnNodes ==
    /\ pc = "nodes" /\ op = "create" /\ dpl.status.progress < MaxProgress
    /\ status' = [dpl.status EXCEPT !.progress = @ + 1, !.names = dpl.uid]
    /\ Move("record", "create")
    /\ UNCHANGED <<store, uids, queued, dpl, config, wrongConfig, events>>

\* updateNodeStatus: its error is dropped
updateNodeStatus ==
    /\ pc = "record"
    /\ LET Back == Move("nodes", "done") /\ UNCHANGED queued
       IN  WriteStatus(Back, Back)
    /\ UNCHANGED <<uids, config, status, wrongConfig>>

\* a node that cannot be created ends the reconcile
CreateNodeFails ==
    /\ pc = "nodes" /\ op = "create" /\ Event /\ Fail
    /\ UNCHANGED <<store, uids, memory>>

NodesDone ==
    /\ pc = "nodes"
    /\ status' = dpl.status
    /\ Move("status", "create")
    /\ UNCHANGED <<store, uids, queued, dpl, config, wrongConfig, events>>

UpdateClusterStatus ==
    /\ pc = "status"
    /\ WriteStatus(Succeed, Fail)
    /\ UNCHANGED <<uids, config, status, wrongConfig>>

CreateOrUpdateElasticsearchCluster ==
    \/ isValidConf \/ ReportConf
    \/ WorkOnNodes \/ updateNodeStatus \/ CreateNodeFails \/ NodesDone
    \/ UpdateClusterStatus

-----------------------------------------------------------------------------
(* The controller.                                                         *)

Begin_EvenUnmanaged ==
    /\ pc = "idle" /\ queued
    /\ queued' = FALSE
    /\ LET c == cache["elasticsearch"]
       IN  \/ c = Absent /\ UNCHANGED <<pc, op, tries, dpl>>
           \/ c # Absent /\ dpl' = c /\ Move("serviceaccount", "create")
    /\ UNCHANGED <<store, uids, config, status, wrongConfig, events>>

\* a custom resource that is gone or not managed does not come back by itself
Begin ==
    /\ pc = "idle" /\ queued
    /\ queued' = FALSE
    /\ LET c == cache["elasticsearch"]
       IN  \/ c = Absent /\ UNCHANGED <<pc, op, tries, dpl>>
           \/ c # Absent /\ ~c.managed /\ UNCHANGED <<pc, op, tries, dpl>>
           \/ c # Absent /\ c.managed /\ dpl' = c /\ Move("serviceaccount", "create")
    /\ UNCHANGED <<store, uids, config, status, wrongConfig, events>>

Reconcile ==
    \/ Begin
    \/ CreateOrUpdateServiceAccount
    \/ createOrUpdateClusterRole \/ createOrUpdateClusterRoleBinding
    \/ CreateOrUpdateConfigMaps
    \/ createOrUpdateService
    \/ CreateOrUpdateElasticsearchCluster
    \/ CreateOrUpdateServiceMonitors
    \/ CreateOrUpdatePrometheusRules

\* the informers list everything anew
Restart ==
    /\ Event
    /\ cache' = [k \in Read |-> obj[k]] /\ fresh' = [k \in Read |-> TRUE]
    /\ Move("idle", "create") /\ queued' = TRUE /\ wrongConfig' = FALSE
    /\ UNCHANGED <<obj, uids, dpl, config, status>>

(* The places where the operator uses an object.  What others do to it, and
   what its informer hears, shows only there: it may as well happen there. *)
Uses(k) ==
    IF k = "elasticsearch"
    THEN \/ pc \in {"idle", "record", "status"}
         \/ op \in {"announce", "settle", "valid", "invalid"}
    ELSE pc = k

\* an informer hears of the latest version; of a custom resource, by an event
CatchUp(k) ==
    /\ ~fresh[k] /\ Uses(k)
    /\ cache' = [cache EXCEPT ![k] = obj[k]] /\ fresh' = [fresh EXCEPT ![k] = TRUE]
    /\ queued' = (queued \/ k = "elasticsearch")
    /\ UNCHANGED <<obj, uids, pc, op, tries, memory, events>>

-----------------------------------------------------------------------------
(* Users and the garbage collector.                                        *)

User(k) == /\ Uses(k) \/ pc = "idle"
           /\ Event
           /\ UNCHANGED <<where, memory>>

CR == obj["elasticsearch"]

EditSpec(s) ==
    /\ User("elasticsearch") /\ CR # Absent /\ CR.spec # s
    /\ Write("elasticsearch", [CR EXCEPT !.spec = s]) /\ UNCHANGED uids

EditManagementState ==
    /\ User("elasticsearch") /\ CR # Absent
    /\ Write("elasticsearch", [CR EXCEPT !.managed = ~@]) /\ UNCHANGED uids

CreateCR(s) ==
    /\ User("elasticsearch") /\ CR = Absent
    /\ uids' = uids + 1
    /\ Write("elasticsearch", NewCR(uids + 1, s))

Delete(k) ==
    /\ User(k) /\ obj[k] # Absent
    /\ Write(k, Absent) /\ UNCHANGED uids

Overwrite(k) ==
    /\ User(k) /\ obj[k] # Absent /\ obj[k].data # Foreign
    /\ Write(k, [obj[k] EXCEPT !.data = Foreign]) /\ UNCHANGED uids

LiveOwner == IF CR = Absent THEN 0 ELSE CR.uid

Orphans == {k \in Owned : obj[k] # Absent /\ obj[k].owner # LiveOwner}

GarbageCollect ==
    /\ pc = "idle" /\ Orphans # {}
    /\ obj' = [k \in DOMAIN obj |-> IF k \in Orphans THEN Absent ELSE obj[k]]
    /\ fresh' = [k \in Read |-> fresh[k] /\ k \notin Orphans]
    /\ UNCHANGED <<cache, uids, where, memory, events>>

-----------------------------------------------------------------------------
Init ==
    /\ uids = 1
    /\ \E s \in Specs : obj = [k \in Owned \cup {"elasticsearch"} |->
                              IF k \in Owned THEN Absent ELSE NewCR(1, s)]
    /\ cache = [k \in Read |-> Absent]
    /\ fresh = [k \in Read |-> k # "elasticsearch"]
    /\ queued = FALSE /\ pc = "idle" /\ op = "create" /\ tries = 0
    /\ dpl = CR /\ config = Rendered(CR.spec) /\ status = Blank
    /\ wrongConfig = FALSE /\ events = 0

Environment ==
    \/ Restart
    \/ \E k \in Read : CatchUp(k)
    \/ \E s \in Specs : EditSpec(s) \/ CreateCR(s)
    \/ EditManagementState
    \/ \E k \in Owned \cup {"elasticsearch"} : Delete(k)
    \/ \E k \in Updated : Overwrite(k)
    \/ GarbageCollect

Next == Reconcile \/ Environment

Spec == Init /\ [][Next]_vars

(* Requests return.  Garbage is collected and no informer lags behind for
   ever: strong fairness, as this happens only where the operator looks.   *)
FairSpec ==
    /\ Spec
    /\ WF_vars(Reconcile) /\ SF_vars(GarbageCollect)
    /\ SF_vars(CatchUp("elasticsearch"))
    /\ SF_vars(\E k \in Updated : CatchUp(k))

-----------------------------------------------------------------------------
StatusType == [updating: BOOLEAN, invalid: BOOLEAN, progress: 0..MaxProgress,
               names: Nat]
CRType == [uid: 1..uids, managed: BOOLEAN, spec: Specs, status: StatusType]
Contents(k) == {Content(k, s) : s \in Specs} \cup {Foreign}
ObjType(k) == IF k = "elasticsearch" THEN CRType
              ELSE [owner: 1..uids, data: Contents(k)]

(* Every variable keeps its type; in particular every object of the operator
   has a custom resource for its owner (addOwnerRefToObject), or it would
   outlive it.                                                             *)
TypeOK ==
    /\ DOMAIN obj = Owned \cup {"elasticsearch"}
    /\ \A k \in DOMAIN obj : obj[k] # Absent => obj[k] \in ObjType(k)
    /\ DOMAIN cache = Read /\ fresh \in [Read -> BOOLEAN]
    /\ \A k \in Read : /\ cache[k] # Absent => cache[k] \in ObjType(k)
                       /\ fresh[k] => cache[k] = obj[k]
    /\ uids \in Nat \ {0} /\ queued \in BOOLEAN
    /\ pc \in DOMAIN After \cup {"idle", "validate", "nodes", "record"}
    /\ op \in {"create", "update", "compare", "announce", "settle", "valid", "invalid", "done"}
    /\ tries \in 0..(Tries - 1)
    /\ dpl \in CRType /\ config \in {Rendered(s) : s \in Specs}
    /\ status \in StatusType /\ wrongConfig \in BOOLEAN
    /\ events \in 0..MaxEvents

(* The progress recorded in a custom resource is never taken back, although
   the status that is written over it (updateNodeStatus, UpdateClusterStatus)
   was copied from a read of the cache: every reconcile has by then updated
   the custom resource at least once with what it had read (isValidConf),
   which the server refuses to what is out of date.                        *)
NoLostProgress ==
    [][CR # Absent /\ CR' # Absent /\ CR'.uid = CR.uid
       => CR'.status.progress >= CR.status.progress]_vars

(* The operator gives a config map another content only while the custom
   resource says UpdatingSettings (CreateOrUpdateConfigMaps: "make sure it
   doesnt go unnoticed"), however the two writes and their retries interleave
   with edits, failures and restarts.  A custom resource that has been
   recreated in between is not the one that was told.                      *)
NotUnnoticed ==
    [][LET cm == obj["configmap"]
       IN  /\ cm # Absent /\ cm' # Absent
           /\ cm'.data \notin {cm.data, Foreign}
           /\ CR # Absent /\ CR.uid = dpl.uid
           => CR.status.updating]_vars

(* A custom resource that stays Unmanaged, or deleted, is eventually left
   alone: neither the reconcile that has read it before, nor the requests
   that are still queued, keep the operator going.                         *)
HandsOff == <>[](CR = Absent \/ ~CR.managed) => <>[](pc = "idle")

InSync ==
    CR # Absent /\ CR.managed =>
        /\ \A k \in Owned : obj[k] # Absent /\ obj[k].owner = CR.uid
        /\ \A k \in Updated : obj[k].data = Content(k, CR.spec)
        /\ ~CR.status.updating
        /\ CR.status.invalid = ~ValidConf(CR)

(* When users, failures and restarts come to an end, the objects of a managed
   custom resource exist, belong to it and have the content it asks for, and
   its conditions say so: conflicts that are not retried, lookups in a stale
   cache and collected objects are made good by the reconciles that follow.
   The status of an earlier custom resource that was written over that of a
   later one is not: UUIDsBlamedRightly of ClusterNodes is about this.     *)
Converges == <>[]InSync
=============================================================================
