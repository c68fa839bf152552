---------------------------- MODULE ClusterNodes ----------------------------
(***************************************************************************)
(* Which Elasticsearch nodes exist: the part of a reconcile that checks    *)
(* the custom resource (isValidConf), gives its node groups their UUIDs    *)
(* (setUUIDs), derives the nodes from it (getNodes), purges the ones that  *)
(* are gone, creates the missing ones and sets the quorum and the replica  *)
(* count of the indices.  Upgrades of existing nodes are the subject of    *)
(* RollingUpgrade and StatefulSetRoll: here no node is scheduled for one.  *)
(*                                                                         *)
(* The operator serves several custom resources, one reconcile at a time.  *)
(* Each Get-and-Update of a custom resource is one step: RetryOnConflict   *)
(* repeats it until nobody wrote in between.  Users write between steps.   *)
(***************************************************************************)
EXTENDS Integers, Sequences, FiniteSets, SequencesExt

CONSTANTS
    Clusters,   \* the custom resources
    Lists,      \* the lists of node groups, [kind, count], a user can ask for
    Policies,   \* the redundancy policies a user can ask for
    MaxEdits,   \* bound: edits and deletions by users
    MaxLost,    \* bound: of the UUIDs drawn, the first ones may fail to be written
    MaxCrash,   \* bound: restarts of the operator
    Hazards     \* what may go wrong in a behaviour, a subset of
                \* "api":    a create or delete of a node object fails
                \* "status": a write of the custom resource fails
                \* "es":     a request to Elasticsearch fails
                \* "delete": users delete and recreate custom resources
                \* "recreate": also while a reconcile of the old one runs

Kind == {"dm", "d", "m"}     \* the roles of a group: data and master, data, master

ASSUME ListsAssumption == Lists \subseteq Seq([kind: Kind, count: Nat])
ASSUME BoundsAssumption == MaxEdits \in Nat /\ MaxLost \in Nat /\ MaxCrash \in Nat
ASSUME HazardsAssumption == Hazards \subseteq {"api", "status", "es", "delete", "recreate"}

VARIABLES
    cr,                  \* the custom resources: spec, policy, nodes, conds
    edits, tampered,     \* edits made; clusters that lost a used UUID to one
    objs, joined,        \* Kubernetes: replicas of the node objects; their pods
                         \* that have joined Elasticsearch
    min, repl,           \* Elasticsearch: minimum_master_nodes, number_of_replicas
    nodes, made, wrongConfig,   \* package variables: the map, whether it was made
    uuids, crashes, panicked,
    told,                \* errors returned, [resource, message], since it was last valid
    pc, req, dpl, again, idx, todo, copy      \* one reconcile

user  == <<edits, tampered>>
kube  == <<objs, joined>>
es    == <<min, repl>>
mem   == <<nodes, made, wrongConfig>>
hist  == <<crashes, panicked>>
local == <<pc, req, dpl, again, idx, todo, copy>>
vars  == <<cr, user, kube, es, mem, uuids, hist, told, local>>

maxMasterCount == 3
NoUuid == 0

isMasterNode(kind) == kind \in {"dm", "m"}
isDataNode(kind)   == kind \in {"dm", "d"}

Condition == {"InvalidMasters", "InvalidData", "InvalidRedundancy", "InvalidUUID"}

\* the custom resource before it is created and after it is deleted
NoCR == [exists |-> FALSE, spec |-> <<>>, policy |-> "", nodes |-> {}, conds |-> {}]

-----------------------------------------------------------------------------
(* What a custom resource asks for.                                        *)

CountOf(spec, Role(_)) ==
    FoldSeq(LAMBDA g, acc : acc + (IF Role(g.kind) THEN g.count ELSE 0), 0, spec)
getMasterCount(spec) == CountOf(spec, isMasterNode)
getDataCount(spec)   == CountOf(spec, isDataNode)

(* GetNodeTypeInterface: a Deployment per replica of a group with data, a
   StatefulSet for the others.  A node is named after its roles, the UUID of
   its group and its number, and carries the replicas of its object.       *)
GetNodeTypeInterface(g) ==
    IF isDataNode(g.kind)
    THEN [i \in 1..g.count |-> [name |-> <<g.kind, g.uuid, i>>, replicas |-> 1]]
    ELSE <<[name |-> <<g.kind, g.uuid, 0>>, replicas |-> g.count]>>
NodesOf(spec) == FlattenSeq([i \in DOMAIN spec |-> GetNodeTypeInterface(spec[i])])
Names(seq) == {seq[i].name : i \in DOMAIN seq}

isValidMasterCount(r) ==
    r.spec = <<>> \/ getMasterCount(r.spec) \in 1..maxMasterCount
isValidDataCount(r) == r.spec = <<>> \/ getDataCount(r.spec) > 0
isValidRedundancyPolicy(r) ==
    /\ r.policy \in {"", "Zero", "Single", "Multiple", "Full"}
    /\ ~(getDataCount(r.spec) = 1 /\ r.policy = "Single")

hasValidUUIDs_FirstGroupOnly(r) ==
    \A n \in r.nodes : r.spec # <<>> /\ r.spec[1].uuid = n[2]

\* every UUID in the name of a recorded node is that of a group
hasValidUUIDs(r) ==
    \A n \in r.nodes : \E i \in DOMAIN r.spec : r.spec[i].uuid = n[2]

\* the order of the checks, and the condition each one reports
Checks == <<"InvalidMasters", "InvalidData", "InvalidRedundancy", "InvalidUUID">>
Valid(cond, r) ==
    CASE cond = "InvalidMasters"    -> isValidMasterCount(r)
      [] cond = "InvalidData"       -> isValidDataCount(r)
      [] cond = "InvalidRedundancy" -> isValidRedundancyPolicy(r)
      [] cond = "InvalidUUID"       -> hasValidUUIDs(r)
ValidConf(r) == \A i \in DOMAIN Checks : Valid(Checks[i], r)

calculateReplicaCount_OneTooMany(r) ==
    LET n == getDataCount(r.spec)
    IN  CASE r.policy = "Full"     -> n
          [] r.policy = "Multiple" -> IF n = 0 THEN 0 ELSE (n - 1) \div 2
          [] r.policy = "Single"   -> 1
          [] r.policy = "Zero"     -> 0
          [] OTHER                 -> IF n = 1 THEN 0 ELSE 1

\* Go's division rounds towards zero
calculateReplicaCount(r) ==
    LET n == getDataCount(r.spec)
    IN  CASE r.policy = "Full"     -> n - 1
          [] r.policy = "Multiple" -> IF n = 0 THEN 0 ELSE (n - 1) \div 2
          [] r.policy = "Single"   -> 1
          [] r.policy = "Zero"     -> 0
          [] OTHER                 -> IF n = 1 THEN 0 ELSE 1

-----------------------------------------------------------------------------
(* Elasticsearch answers while a quorum of masters has joined.             *)

MastersIn(pods) == Cardinality({p \in pods : isMasterNode(p[1][1])})
EsUp(c) == MastersIn(joined[c]) >= 1 /\ MastersIn(joined[c]) >= min[c]

\* GetClusterNodeCount: all nodes, 0 when the request fails
GetClusterNodeCount(c) ==
    (IF EsUp(c) THEN {Cardinality(joined[c])} ELSE {0})
      \cup (IF "es" \in Hazards THEN {0} ELSE {})

\* Elasticsearch refuses a quorum its masters cannot meet
SetMinMasterNodes(n) ==
    \/ EsUp(req) /\ n <= MastersIn(joined[req]) /\ min' = [min EXCEPT ![req] = n]
    \/ (~EsUp(req) \/ n > MastersIn(joined[req]) \/ "es" \in Hazards) /\ UNCHANGED min

\* best effort: the errors of all requests are ignored
updateMinMasters ==
    LET desired == getMasterCount(dpl.spec) \div 2 + 1
    IN  \E count \in GetClusterNodeCount(req) :
          \/ count < desired /\ UNCHANGED min
          \/ count >= desired /\ SetMinMasterNodes(desired)

-----------------------------------------------------------------------------
(* Reconcile and isValidConf.                                              *)

\* what is local to a reconcile, once it has returned
Return == /\ pc' = "idle" /\ dpl' = NoCR /\ again' = FALSE /\ idx' = 1
          /\ todo' = <<>> /\ copy' = NoCR /\ UNCHANGED req

\* the process ends: package variables and locals are gone
Restart == /\ nodes' = [c \in Clusters |-> <<>>] /\ made' = FALSE /\ wrongConfig' = FALSE
           /\ Return
Panic(why) == panicked' = panicked \cup {why} /\ Restart

StartReconcile(c) ==
    /\ pc = "idle" /\ cr[c].exists
    /\ req' = c /\ dpl' = cr[c]
    /\ pc' = "check" /\ idx' = 1 /\ again' = FALSE
    /\ UNCHANGED <<cr, user, kube, es, mem, uuids, hist, told, todo, copy>>

\* the request of a deleted custom resource: an assignment to the map
FlushNodes(c) ==
    /\ pc = "idle" /\ ~cr[c].exists
    /\ \/ ~made /\ Panic("flush")
       \/ /\ made
          /\ nodes' = [nodes EXCEPT ![c] = <<>>]
          /\ UNCHANGED <<made, wrongConfig, panicked, local>>
    /\ UNCHANGED <<cr, user, kube, es, uuids, crashes, told>>

\* updateConditionWithRetry: reads the custom resource anew, and writes the
\* condition that the check of the copy read before deserves
updateConditionWithRetry(cond, value) ==
    LET old == cr[req].conds
        new == [cr[req] EXCEPT !.conds = IF value THEN old \cup {cond} ELSE old \ {cond}]
    IN  cr' = [cr EXCEPT ![req] = new] /\ dpl' = new

CannotWrite == ~cr[req].exists \/ "status" \in Hazards

\* the checks one after the other, each with its condition; the error returned
\* names the check that failed, or says that a condition was not written
NotWritten == Len(Checks) + 1
isValidConf ==
    /\ pc = "check"
    /\ LET cond == Checks[idx]
           ok   == Valid(cond, dpl)
       IN  \/ /\ cr[req].exists
              /\ updateConditionWithRetry(cond, ~ok)
              /\ \/ ~ok /\ pc' = "failed" /\ UNCHANGED idx
                 \/ ok /\ idx < Len(Checks) /\ idx' = idx + 1 /\ UNCHANGED pc
                 \/ /\ ok /\ idx = Len(Checks)
                    /\ pc' = IF again THEN "create" ELSE "valid"
                    /\ idx' = 1
           \/ CannotWrite /\ pc' = "failed" /\ idx' = NotWritten /\ UNCHANGED <<cr, dpl>>
    /\ UNCHANGED <<user, kube, es, mem, uuids, hist, told, req, again, todo, copy>>

\* "if wrongConfig=true then we've already print out error message"
Fail ==
    /\ pc = "failed"
    /\ told' = IF wrongConfig THEN told ELSE told \cup {<<req, idx>>}
    /\ wrongConfig' = TRUE
    /\ Return
    /\ UNCHANGED <<cr, user, kube, es, nodes, made, uuids, hist>>

Pass ==
    /\ pc = "valid"
    /\ wrongConfig' = FALSE
    /\ told' = {m \in told : m[1] # req}
    /\ pc' = "uuid"
    /\ UNCHANGED <<cr, user, kube, es, nodes, made, uuids, hist, req, dpl, again, idx, todo, copy>>

-----------------------------------------------------------------------------
(* getNodes                                                                *)

\* setUUIDs, one group at a time: the group is addressed by its index in the
\* list, which is read anew before it is written
setUUIDs ==
    /\ pc = "uuid" /\ idx \in DOMAIN dpl.spec
    /\ IF dpl.spec[idx].uuid # NoUuid
       THEN idx' = idx + 1 /\ UNCHANGED <<cr, mem, uuids, panicked, pc, req, dpl, again, todo, copy>>
       ELSE LET new(r) == [r EXCEPT !.spec[idx].uuid = uuids + 1]
            IN  \/ /\ cr[req].exists /\ idx \notin DOMAIN cr[req].spec
                   /\ Panic("index") /\ UNCHANGED <<cr, uuids>>
                \/ /\ cr[req].exists /\ idx \in DOMAIN cr[req].spec
                   /\ cr[req].spec[idx].uuid # NoUuid
                   /\ dpl' = cr[req] /\ idx' = idx + 1
                   /\ UNCHANGED <<cr, mem, uuids, panicked, pc, req, again, todo, copy>>
                \/ /\ cr[req].exists /\ idx \in DOMAIN cr[req].spec
                   /\ cr[req].spec[idx].uuid = NoUuid
                   /\ uuids' = uuids + 1 /\ idx' = idx + 1
                   /\ dpl' = new(cr[req])
                   /\ \/ cr' = [cr EXCEPT ![req] = new(@)]
                      \/ "status" \in Hazards /\ uuids < MaxLost /\ UNCHANGED cr
                   /\ UNCHANGED <<mem, panicked, pc, req, again, todo, copy>>
                \/ /\ ~cr[req].exists
                   /\ uuids' = uuids + 1 /\ idx' = idx + 1
                   /\ dpl' = new(dpl)
                   /\ UNCHANGED <<cr, mem, panicked, pc, req, again, todo, copy>>
    /\ UNCHANGED <<user, kube, es, crashes, told>>

\* the names of the nodes in memory that the spec does not ask for any more
Purged == Names(nodes[req]) \ Names(NodesOf(dpl.spec))

getNodes_NoUuid ==
    /\ pc = "uuid" /\ idx \notin DOMAIN dpl.spec
    /\ pc' = IF Purged = {} THEN "keep" ELSE "purgeMin"
    /\ made' = TRUE
    /\ UNCHANGED <<cr, user, kube, es, nodes, wrongConfig, uuids, hist, told, req, dpl, again, idx, todo, copy>>

getNodes_QuorumKept ==
    /\ pc = "uuid" /\ idx \notin DOMAIN dpl.spec
    /\ \/ /\ \E i \in DOMAIN dpl.spec : dpl.spec[i].uuid = NoUuid
          /\ Panic("uuid")
       \/ /\ \A i \in DOMAIN dpl.spec : dpl.spec[i].uuid # NoUuid
          /\ pc' = "keep" /\ made' = TRUE
          /\ UNCHANGED <<nodes, wrongConfig, panicked, req, dpl, again, idx, todo, copy>>
    /\ UNCHANGED <<cr, user, kube, es, uuids, crashes, told>>

\* a group without UUID is a nil pointer
getNodes ==
    /\ pc = "uuid" /\ idx \notin DOMAIN dpl.spec
    /\ \/ /\ \E i \in DOMAIN dpl.spec : dpl.spec[i].uuid = NoUuid
          /\ Panic("uuid")
       \/ /\ \A i \in DOMAIN dpl.spec : dpl.spec[i].uuid # NoUuid
          /\ pc' = IF Purged = {} THEN "keep" ELSE "purgeMin"
          /\ made' = TRUE
          /\ UNCHANGED <<nodes, wrongConfig, panicked, req, dpl, again, idx, todo, copy>>
    /\ UNCHANGED <<cr, user, kube, es, uuids, crashes, told>>

\* "if we're removing a node make sure we set a lower min masters"
PurgeMinMasters ==
    /\ pc = "purgeMin"
    /\ updateMinMasters
    /\ pc' = "keep"
    /\ UNCHANGED <<cr, user, kube, repl, mem, uuids, hist, told, req, dpl, again, idx, todo, copy>>

\* delete what is not in the spec any more (errors ignored), forget it in the
\* status in memory, and keep the rest
Keep ==
    /\ pc = "keep"
    /\ \E gone \in SUBSET Purged :
         /\ gone = Purged \/ "api" \in Hazards
         /\ objs' = [objs EXCEPT ![req] = [n \in DOMAIN @ \ gone |-> @[n]]]
    /\ dpl' = [dpl EXCEPT !.nodes = @ \ Purged]
    /\ nodes' = [nodes EXCEPT ![req] = NodesOf(dpl.spec)]
    /\ todo' = NodesOf(dpl.spec)
    /\ pc' = "loop"
    /\ UNCHANGED <<cr, user, joined, es, made, wrongConfig, uuids, hist, told, req, again, idx, copy>>

-----------------------------------------------------------------------------
(* The create loop of CreateOrUpdateElasticsearchCluster.                  *)

NextNode_NotCheckedAgain ==
    /\ pc = "loop" /\ todo # <<>>
    /\ copy' = dpl
    /\ again' = TRUE /\ pc' = "create" /\ idx' = 1
    /\ UNCHANGED <<cr, user, kube, es, mem, uuids, hist, told, req, dpl, todo>>

\* the status is copied, then the configuration is checked again
NextNode ==
    /\ pc = "loop" /\ todo # <<>>
    /\ copy' = dpl
    /\ again' = TRUE /\ pc' = "check" /\ idx' = 1
    /\ UNCHANGED <<cr, user, kube, es, mem, uuids, hist, told, req, dpl, todo>>

\* create: an existing Deployment is left alone, a StatefulSet is scaled, and
\* scale ignores its errors; an object whose owner is gone is garbage
\* collected, also when a custom resource of the same name is there again
Create ==
    LET n == Head(todo)
        new == [m \in DOMAIN objs[req] \cup {n.name} |-> IF m = n.name THEN n.replicas ELSE objs[req][m]]
    IN  /\ pc = "create"
        /\ \/ /\ objs' = IF cr[req].exists THEN [objs EXCEPT ![req] = new] ELSE objs
              /\ pc' = "save" /\ UNCHANGED <<req, dpl, again, idx, todo, copy>>
           \/ /\ \/ "recreate" \in Hazards
                 \/ "api" \in Hazards /\ n.name \in DOMAIN objs[req]
              /\ pc' = "save" /\ UNCHANGED <<objs, req, dpl, again, idx, todo, copy>>
           \/ "api" \in Hazards /\ Return /\ UNCHANGED objs
        /\ UNCHANGED <<cr, user, joined, es, mem, uuids, hist, told>>

\* updateNodeStatus writes the copied status with the node appended, unless
\* the status in memory has it already; its error is ignored, and what it
\* read and meant to write stays in memory
SaveNode ==
    /\ pc = "save"
    /\ LET recorded == copy.nodes \cup {Head(todo).name}
           same == dpl.nodes = recorded /\ dpl.conds = copy.conds
           new  == [cr[req] EXCEPT !.nodes = recorded, !.conds = copy.conds]
       IN  \/ /\ ~same /\ cr[req].exists /\ dpl' = new
              /\ \/ cr' = [cr EXCEPT ![req] = new]
                 \/ "status" \in Hazards /\ UNCHANGED cr
           \/ (same \/ CannotWrite) /\ UNCHANGED <<cr, dpl>>
    /\ pc' = "min"
    /\ UNCHANGED <<user, kube, es, mem, uuids, hist, told, req, again, idx, todo, copy>>

UpdateMinMasters ==
    /\ pc = "min"
    /\ updateMinMasters
    /\ todo' = Tail(todo)
    /\ pc' = "loop"
    /\ UNCHANGED <<cr, user, kube, repl, mem, uuids, hist, told, req, dpl, again, idx, copy>>

\* UpdateReplicaCount: best effort; Elasticsearch refuses a negative number
UpdateReplicaCount ==
    /\ pc = "loop" /\ todo = <<>>
    /\ LET r == calculateReplicaCount(dpl)
       IN  \/ EsUp(req) /\ r >= 0 /\ repl' = [repl EXCEPT ![req] = r]
           \/ (~EsUp(req) \/ r < 0 \/ "es" \in Hazards) /\ UNCHANGED repl
    /\ pc' = "finish"
    /\ UNCHANGED <<cr, user, kube, min, mem, uuids, hist, told, req, dpl, again, idx, todo, copy>>

\* UpdateClusterStatus writes the nodes and the conditions it has in memory
UpdateClusterStatus ==
    /\ pc = "finish"
    /\ \/ cr[req].exists /\ cr' = [cr EXCEPT ![req].nodes = dpl.nodes, ![req].conds = dpl.conds]
       \/ CannotWrite /\ UNCHANGED cr
    /\ Return
    /\ UNCHANGED <<user, kube, es, mem, uuids, hist, told>>

-----------------------------------------------------------------------------
(* The environment.                                                        *)

envFrame == UNCHANGED <<es, mem, uuids, hist, told, local>>

Groups(l, uuid(_)) ==
    [i \in DOMAIN l |-> [kind |-> l[i].kind, count |-> l[i].count, uuid |-> uuid(i)]]

\* a group that keeps its place and its roles keeps its UUID
EditSpec(c, l, p) ==
    LET old  == cr[c].spec
        kept(i) == IF i \in DOMAIN old /\ old[i].kind = l[i].kind THEN old[i].uuid ELSE NoUuid
        new  == Groups(l, kept)
        lost == \E i \in DOMAIN old : old[i].uuid # NoUuid /\ \A j \in DOMAIN new : new[j].uuid # old[i].uuid
    IN  /\ edits < MaxEdits /\ cr[c].exists /\ <<new, p>> # <<old, cr[c].policy>>
        /\ edits' = edits + 1
        /\ cr' = [cr EXCEPT ![c].spec = new, ![c].policy = p]
        /\ tampered' = IF lost THEN tampered \cup {c} ELSE tampered
        /\ envFrame /\ UNCHANGED kube

NewCR(l, p) == [NoCR EXCEPT !.exists = TRUE, !.spec = Groups(l, LAMBDA i : NoUuid), !.policy = p]

\* Kubernetes deletes what the custom resource owned, with it the cluster
DeleteCR(c) ==
    /\ "delete" \in Hazards /\ edits < MaxEdits /\ cr[c].exists
    /\ edits' = edits + 1
    /\ cr' = [cr EXCEPT ![c] = NoCR]
    /\ objs' = [objs EXCEPT ![c] = <<>>] /\ joined' = [joined EXCEPT ![c] = {}]
    /\ min' = [min EXCEPT ![c] = 0] /\ repl' = [repl EXCEPT ![c] = 0]
    /\ tampered' = tampered \ {c}
    /\ UNCHANGED <<mem, uuids, hist, told, local>>

\* unless "recreate" is a hazard, a user takes longer than the operator to let
\* go of the old one; there is one recreation per deletion
RecreateCR(c, l, p) ==
    /\ ~cr[c].exists
    /\ pc = "idle" \/ req # c \/ "recreate" \in Hazards
    /\ cr' = [cr EXCEPT ![c] = NewCR(l, p)]
    /\ envFrame /\ UNCHANGED <<kube, user>>

\* the pods the node objects of a cluster ask for come up and join, the
\* others are stopped
PodsOf(c) == UNION {{<<n, i>> : i \in 1..objs[c][n]} : n \in DOMAIN objs[c]}

JoinCluster(c) ==
    /\ \E p \in PodsOf(c) \ joined[c] : joined' = [joined EXCEPT ![c] = @ \cup {p}]
    /\ envFrame /\ UNCHANGED <<cr, user, objs>>

LeaveCluster(c) ==
    /\ \E p \in joined[c] \ PodsOf(c) : joined' = [joined EXCEPT ![c] = @ \ {p}]
    /\ envFrame /\ UNCHANGED <<cr, user, objs>>

OperatorRestart ==
    /\ crashes < MaxCrash
    /\ crashes' = crashes + 1
    /\ Restart
    /\ UNCHANGED <<cr, user, kube, es, uuids, panicked, told>>

-----------------------------------------------------------------------------
Init ==
    /\ \E f \in [Clusters -> Lists], g \in [Clusters -> Policies] :
          cr = [c \in Clusters |-> NewCR(f[c], g[c])]
    /\ edits = 0 /\ tampered = {}
    /\ objs = [c \in Clusters |-> <<>>] /\ joined = [c \in Clusters |-> {}]
    /\ min = [c \in Clusters |-> 0] /\ repl = [c \in Clusters |-> 0]
    /\ nodes = [c \in Clusters |-> <<>>] /\ made = FALSE /\ wrongConfig = FALSE
    /\ uuids = 0 /\ crashes = 0 /\ panicked = {} /\ told = {}
    /\ req \in Clusters
    /\ pc = "idle" /\ dpl = NoCR /\ again = FALSE /\ idx = 1 /\ todo = <<>> /\ copy = NoCR

Reconcile ==
    \/ isValidConf \/ Fail \/ Pass \/ setUUIDs \/ getNodes \/ PurgeMinMasters \/ Keep
    \/ NextNode \/ Create \/ SaveNode \/ UpdateMinMasters
    \/ UpdateReplicaCount \/ UpdateClusterStatus

Pods == \E c \in Clusters : JoinCluster(c) \/ LeaveCluster(c)

Next ==
    \/ Reconcile \/ Pods
    \/ \E c \in Clusters : StartReconcile(c) \/ FlushNodes(c) \/ DeleteCR(c)
    \/ \E c \in Clusters, l \in Lists, p \in Policies : EditSpec(c, l, p) \/ RecreateCR(c, l, p)
    \/ OperatorRestart

Spec == Init /\ [][Next]_vars

\* every custom resource is requeued after 30 seconds, pods come up
FairSpec ==
    /\ Spec /\ WF_vars(Reconcile) /\ WF_vars(Pods)
    /\ \A c \in Clusters : SF_vars(StartReconcile(c))

-----------------------------------------------------------------------------
(* Properties.                                                             *)

(* The type invariant: the resources, what is in Elasticsearch and the locals
   of a reconcile; every node a status records or a reconcile creates is
   named after a UUID that was drawn (getNodes dereferences it).           *)
Group    == [kind: Kind, count: Nat, uuid: 0..uuids]
NodeName == Kind \X (1..uuids) \X Nat
Resource == [exists: BOOLEAN, spec: Seq(Group), policy: Policies \cup {""},
             nodes: SUBSET NodeName, conds: SUBSET Condition]
TypeOK ==
    /\ cr \in [Clusters -> Resource] /\ dpl \in Resource /\ copy \in Resource
    /\ min \in [Clusters -> Nat] /\ repl \in [Clusters -> Nat]
    /\ todo \in Seq([name: NodeName, replicas: Nat])
    /\ edits \in 0..MaxEdits /\ uuids \in Nat /\ crashes \in 0..MaxCrash
    /\ tampered \subseteq Clusters /\ told \subseteq Clusters \X Nat
    /\ panicked \subseteq {"flush", "index", "uuid"}
    /\ made \in BOOLEAN /\ wrongConfig \in BOOLEAN /\ again \in BOOLEAN
    /\ pc \in {"idle", "check", "failed", "valid", "uuid", "purgeMin", "keep",
               "loop", "create", "save", "min", "finish"}
    /\ req \in Clusters /\ idx \in Nat \ {0}

(* The operator never creates more than three nodes with the master role,
   whatever the users edit while it works ("Verify that we didn't scale up
   too many masters").                                                     *)
MastersBounded == \A c \in Clusters : MastersIn(PodsOf(c)) <= maxMasterCount

(* The quorum the operator asks Elasticsearch for can be met by the masters
   that exist (updateMinMasters: "check that we have the required number of
   master nodes in the cluster").                                          *)
QuorumReachable == \A c \in Clusters : min[c] <= MastersIn(PodsOf(c))

(* A custom resource is only refused for its UUIDs when a user took away a
   UUID that was in use (hasValidUUIDs: "then someone did something bad"). *)
UUIDsBlamedRightly ==
    \A c \in Clusters : "InvalidUUID" \in cr[c].conds => c \in tampered

(* The error of a reconcile is passed over in silence only if the same one
   was returned before ("if wrongConfig=true then we've already print out
   error message, don't flood the stderr of the operator with the same
   message").                                                              *)
NoSilentError == pc = "failed" /\ wrongConfig => <<req, idx>> \in told

(* The operator does not panic.                                            *)
NoPanic == panicked = {}

(* Once the users leave it alone, a valid custom resource ends with exactly
   the node objects it asks for, each recorded in the status, with no
   Invalid condition, the quorum of its masters and the replicas of its
   redundancy policy; an invalid one ends with a condition that says so.   *)
Converges ==
    <>[](\A c \in Clusters :
           cr[c].exists =>
             IF ValidConf(cr[c])
             THEN LET want == NodesOf(cr[c].spec)
                  IN  /\ DOMAIN objs[c] = Names(want) /\ cr[c].nodes = Names(want)
                      /\ \A i \in DOMAIN want : objs[c][want[i].name] = want[i].replicas
                      /\ cr[c].conds = {}
                      /\ cr[c].spec # <<>> => /\ min[c] = getMasterCount(cr[c].spec) \div 2 + 1
                                              /\ repl[c] = calculateReplicaCount(cr[c])
                                              /\ repl[c] < getDataCount(cr[c].spec)
             ELSE \E cond \in cr[c].conds : ~Valid(cond, cr[c]))

=============================================================================
