-------------------------- MODULE StatusConditions --------------------------
(***************************************************************************)
(* UpdateClusterStatus (status.go), the end of every reconcile: what the   *)
(* status of a custom resource says about the health of the cluster, its   *)
(* shard allocation, its pods and the conditions of its nodes, and the     *)
(* disk watermarks it judges the nodes by, which are package variables     *)
(* shared by all custom resources.                                         *)
(*                                                                         *)
(* A pass makes one request after the other; pods, disks and settings      *)
(* change in between.  A status in memory is written at the end.           *)
(***************************************************************************)
EXTENDS Integers, Sequences, FiniteSets

CONSTANTS
    Clusters,     \* the custom resources
    Node,         \* the nodes in their status
    Home,         \* [Node -> Clusters]: whose node it is
    PodLists,     \* the lists of pods a node can have
    Settings,     \* the disk allocation settings Elasticsearch can have
    MaxDisk,      \* the fullest disk; a usage is a number in 0..MaxDisk
    Unreadable,   \* the usages with a unit ParseQuantity does not know ("512K")
    MaxChanges,   \* bound: changes of pods, disks, settings and health
    MaxFaults     \* bound: failed requests, failed writes and restarts

\* "unready": running, but not ready, as its readiness probe fails
ContainerState == {"", "running", "unready", "waiting", "terminated"}

(* A pod as the status code sees it: its phase, whether PodScheduled is
   false, and the states of its two containers ("" before it has any).     *)
Pod == [phase: {"Pending", "Running", "Failed"}, unscheduled: BOOLEAN,
        elasticsearch: ContainerState, proxy: ContainerState]

(* A watermark as Elasticsearch reports it: a percentage, a size, or a size
   whose unit ParseQuantity does not know.                                 *)
Watermark == [kind: {"pct", "abs", "bad"}, value: 0..MaxDisk]
Setting == [enabled: BOOLEAN, low: Watermark, high: Watermark]

ASSUME HomeAssumption == Clusters # {} /\ Home \in [Node -> Clusters]
ASSUME PodsAssumption == PodLists \subseteq Seq(Pod) /\ <<>> \in PodLists
ASSUME SettingsAssumption == Settings \subseteq Setting
ASSUME UnreadableAssumption == Unreadable \subseteq 1..MaxDisk
ASSUME BoundsAssumption == MaxDisk \in Nat \ {0} /\ MaxChanges \in Nat /\ MaxFaults \in Nat

Nil == -1   \* a watermark variable that is not set, a usage that is not known

VARIABLES
    pods, disk,               \* the pods of a node, the usage of its disk
    setting, health, alloc,   \* Elasticsearch, per cluster
    cr,                       \* the status in the custom resource
    marks,                    \* package variables DISK_WATERMARK_*
    pc, req, st, todo, enabled, list,   \* one pass
    changes, faults,
    seen                      \* history: the setting this pass has read, if any

world == <<pods, disk, setting, health, alloc>>
local == <<pc, req, st, todo, enabled, list>>
vars  == <<world, cr, marks, local, changes, faults, seen>>

Marks == [lowPct: {Nil} \cup 0..MaxDisk, lowAbs: {Nil} \cup 0..MaxDisk,
          highPct: {Nil} \cup 0..MaxDisk, highAbs: {Nil} \cup 0..MaxDisk]
NoMarks == [lowPct |-> Nil, lowAbs |-> Nil, highPct |-> Nil, highAbs |-> Nil]

Containers == {"elasticsearch", "proxy"}
Condition == {<<"Unschedulable">>} \cup (Containers \X {"waiting", "terminated"})
Storage == {"", "Disk Watermark Low", "Disk Watermark High"}
PodState == {"ready", "notReady", "failed"}

NodesOf(c) == {n \in Node : Home[n] = c}
AllPods(c) == UNION {{<<n, i>> : i \in DOMAIN pods[n]} : n \in NodesOf(c)}

\* the status of one custom resource; the nodes of others stay blank in it
BlankStatus == [health |-> "", alloc |-> "", pods |-> [s \in PodState |-> {}],
                conds |-> [n \in Node |-> {}], storage |-> [n \in Node |-> ""]]

-----------------------------------------------------------------------------
(* Requests to Elasticsearch.  One that fails either returns an error or   *)
(* answers without the fields that are asked for.                          *)

Works == UNCHANGED faults
Fails == faults < MaxFaults /\ faults' = faults + 1

\* the answers of the two requests, with the number of failures: without an
\* error the health is taken as it is
GetClusterHealth == {<<health[req], 0>>, <<"cluster health unknown", 1>>, <<"", 1>>}

GetShardAllocation_Raw == {<<alloc[req], 0>>, <<"shard allocation unknown", 1>>, <<"", 1>>}

\* an answer without the setting is read as "all"
GetShardAllocation == {<<alloc[req], 0>>, <<"shard allocation unknown", 1>>, <<"all", 1>>}

\* unreadable means disabled
GetThresholdEnabled(value) ==
    \/ value = setting[req].enabled /\ Works
    \/ value = FALSE /\ Fails

\* Nil without an answer, or with one that does not list the node
GetNodeDiskUsage(n, usage) ==
    \/ usage = disk[n] /\ Works
    \/ usage = Nil /\ Fails

\* ParseQuantity returns zero with its error
Quantity(w) == IF w.kind = "bad" THEN 0 ELSE w.value

refreshed_KeepsOther(m, s) ==
    [lowPct  |-> IF s.low.kind  = "pct" THEN s.low.value  ELSE m.lowPct,
     lowAbs  |-> IF s.low.kind  = "pct" THEN m.lowAbs  ELSE Quantity(s.low),
     highPct |-> IF s.high.kind = "pct" THEN s.high.value ELSE m.highPct,
     highAbs |-> IF s.high.kind = "pct" THEN m.highAbs ELSE Quantity(s.high)]

\* a percentage replaces a size and the other way round
refreshed(m, s) ==
    [lowPct  |-> IF s.low.kind  = "pct" THEN s.low.value  ELSE Nil,
     lowAbs  |-> IF s.low.kind  = "pct" THEN Nil ELSE Quantity(s.low),
     highPct |-> IF s.high.kind = "pct" THEN s.high.value ELSE Nil,
     highAbs |-> IF s.high.kind = "pct" THEN Nil ELSE Quantity(s.high)]

\* a usage that cannot be read exceeds nothing, nor does the percentage with it
exceedsWatermarks(usage, abs, pct) ==
    /\ usage # Nil /\ usage \notin Unreadable
    /\ \/ abs # Nil /\ usage > abs
       \/ pct # Nil /\ usage > pct
exceedsLowWatermark(m, usage)  == exceedsWatermarks(usage, m.lowAbs, m.lowPct)
exceedsHighWatermark(m, usage) == exceedsWatermarks(usage, m.highAbs, m.highPct)

\* neither an unknown usage nor one of 0 % clears the condition, but one that
\* cannot be read does: its percentage is above 0
storageCondition(m, usage, old) ==
    IF ~exceedsLowWatermark(m, usage) THEN IF usage > 0 THEN "" ELSE old
    ELSE IF exceedsHighWatermark(m, usage)
         THEN "Disk Watermark High" ELSE "Disk Watermark Low"

-----------------------------------------------------------------------------
(* Pods.                                                                   *)

isPodReady(p) == \A c \in Containers : p[c] \in {"", "running"}

stateOf(p) == CASE p.phase = "Pending" -> "notReady"
                [] p.phase = "Running" -> IF isPodReady(p) THEN "ready" ELSE "notReady"
                [] p.phase = "Failed"  -> "failed"

\* rolePodStateMap; the three roles are three selections of the same pods
podStateMap(c) ==
    [s \in PodState |-> {p \in AllPods(c) : stateOf(pods[p[1]][p[2]]) = s}]

\* of the conditions in types exactly those in on are left or added
updatePodCondition(old, types, on) == (old \ types) \cup on

podConditions_NotCleared(old, p) ==
    IF p.unscheduled THEN old \cup {<<"Unschedulable">>}
    ELSE (old \ {<<"Unschedulable">>})
           \cup {<<c, p[c]>> : c \in {c \in Containers : p[c] \in {"waiting", "terminated"}}}

(* One pod's turn in updateNodeConditions: an unschedulable pod leaves the
   conditions about containers as they are, another one clears the
   Unschedulable condition and decides those of its containers that have a
   status.                                                                 *)
podConditions(old, p) ==
    IF p.unscheduled THEN updatePodCondition(old, {<<"Unschedulable">>}, {<<"Unschedulable">>})
    ELSE LET reported == {c \in Containers : p[c] # ""}
         IN  updatePodCondition(old,
               {<<"Unschedulable">>} \cup (reported \X {"waiting", "terminated"}),
               {<<c, p[c]>> : c \in {c \in reported : p[c] \in {"waiting", "terminated"}}})

-----------------------------------------------------------------------------
(* One pass.                                                               *)

UpdateClusterStatus(c) ==
    /\ pc = "idle"
    /\ pc' = "health" /\ req' = c /\ st' = cr[c] /\ seen' = {}
    /\ UNCHANGED <<world, cr, marks, todo, enabled, list, changes, faults>>

\* three independent reads, taken together; the last, rolePodStateMap, lists
\* the pods of each role
ReadCluster ==
    /\ pc = "health" /\ pc' = "threshold"
    /\ \E h \in GetClusterHealth, a \in GetShardAllocation :
         /\ faults' = faults + h[2] + a[2] /\ faults' <= MaxFaults
         /\ st' = [st EXCEPT !.health = h[1], !.alloc = a[1], !.pods = podStateMap(req)]
    /\ UNCHANGED <<world, cr, marks, req, todo, enabled, list, changes, seen>>

\* updateNodeConditions begins
ReadThresholdEnabled ==
    /\ pc = "threshold"
    /\ \E value \in BOOLEAN :
         /\ GetThresholdEnabled(value)
         /\ enabled' = value
         /\ pc' = IF value THEN "refresh" ELSE "node"
    /\ todo' = NodesOf(req)
    /\ UNCHANGED <<world, cr, marks, req, st, list, changes, seen>>

\* watermarks that cannot be read leave the variables as they are
refreshDiskWatermarkThresholds ==
    /\ pc = "refresh" /\ pc' = "node"
    /\ \/ marks' = refreshed(marks, setting[req]) /\ seen' = {setting[req]} /\ Works
       \/ UNCHANGED <<marks, seen>> /\ Fails
    /\ UNCHANGED <<world, cr, req, st, todo, enabled, list, changes>>

\* the pods of the next node
GetPodList(n) ==
    /\ pc = "node" /\ n \in todo
    /\ pc' = "pod" /\ list' = pods[n]
    /\ UNCHANGED <<world, cr, marks, req, st, todo, enabled, changes, faults, seen>>

updateNodeConditions(n) ==
    /\ pc = "pod" /\ n \in todo /\ list # <<>>
    /\ list' = Tail(list)
    /\ LET p == Head(list)
           new == [st EXCEPT !.conds[n] = podConditions(@, p)]
       IN  \/ (p.unscheduled \/ ~enabled) /\ st' = new /\ Works
           \/ /\ ~p.unscheduled /\ enabled
              /\ \E usage \in Nil..MaxDisk :
                   /\ GetNodeDiskUsage(n, usage)
                   /\ st' = [new EXCEPT !.storage[n] = storageCondition(marks, usage, @)]
    /\ UNCHANGED <<world, cr, marks, pc, req, todo, enabled, changes, seen>>

NodeDone(n) ==
    /\ pc = "pod" /\ n \in todo /\ list = <<>>
    /\ pc' = "node" /\ todo' = todo \ {n}
    /\ UNCHANGED <<world, cr, marks, req, st, enabled, list, changes, faults, seen>>

\* the comparison with the old status never finds it equal: always written
SaveStatus ==
    /\ pc = "node" /\ todo = {}
    /\ \/ cr' = [cr EXCEPT ![req] = st] /\ Works
       \/ UNCHANGED cr /\ Fails
    /\ pc' = "idle" /\ st' = BlankStatus /\ enabled' = FALSE /\ seen' = {}
    /\ UNCHANGED <<world, marks, req, todo, list, changes>>

-----------------------------------------------------------------------------
Changed == /\ changes < MaxChanges /\ changes' = changes + 1
           /\ UNCHANGED <<cr, marks, local, faults, seen>>

PodsChange(n) ==
    /\ \E l \in PodLists \ {pods[n]} : pods' = [pods EXCEPT ![n] = l]
    /\ UNCHANGED <<disk, setting, health, alloc>> /\ Changed

DiskChanges(n) ==
    /\ \E u \in 0..MaxDisk \ {disk[n]} : disk' = [disk EXCEPT ![n] = u]
    /\ UNCHANGED <<pods, setting, health, alloc>> /\ Changed

SettingChanges(c) ==
    /\ \E s \in Settings \ {setting[c]} : setting' = [setting EXCEPT ![c] = s]
    /\ UNCHANGED <<pods, disk, health, alloc>> /\ Changed

ClusterChanges(c) ==
    /\ \/ health' = [health EXCEPT ![c] = IF @ = "green" THEN "red" ELSE "green"] /\ UNCHANGED alloc
       \/ alloc' = [alloc EXCEPT ![c] = IF @ = "all" THEN "none" ELSE "all"] /\ UNCHANGED health
    /\ UNCHANGED <<pods, disk, setting>> /\ Changed

\* the package variables go with the process
OperatorRestart ==
    /\ faults < MaxFaults /\ faults' = faults + 1
    /\ marks' = NoMarks
    /\ pc' = "idle" /\ st' = BlankStatus /\ todo' = {} /\ list' = <<>>
    /\ enabled' = FALSE /\ seen' = {}
    /\ UNCHANGED <<world, cr, req, changes>>

Init ==
    /\ pods = [n \in Node |-> <<>>]
    /\ disk = [n \in Node |-> 1]
    /\ setting \in [Clusters -> Settings]
    /\ health = [c \in Clusters |-> "green"] /\ alloc = [c \in Clusters |-> "all"]
    /\ cr = [c \in Clusters |-> BlankStatus]
    /\ marks = NoMarks
    /\ pc = "idle" /\ req = (CHOOSE c \in Clusters : TRUE) /\ st = BlankStatus /\ todo = {}
    /\ enabled = FALSE /\ list = <<>>
    /\ changes = 0 /\ faults = 0 /\ seen = {}

Operator ==
    \/ \E c \in Clusters : UpdateClusterStatus(c)
    \/ ReadCluster \/ ReadThresholdEnabled \/ refreshDiskWatermarkThresholds
    \/ \E n \in Node : GetPodList(n) \/ updateNodeConditions(n) \/ NodeDone(n)
    \/ SaveStatus

Environment ==
    \/ \E n \in Node : PodsChange(n) \/ DiskChanges(n)
    \/ \E c \in Clusters : SettingChanges(c) \/ ClusterChanges(c)
    \/ OperatorRestart

Next == Operator \/ Environment

Spec == Init /\ [][Next]_vars

\* every custom resource is requeued again and again, every request returns
FairSpec == /\ Spec /\ WF_vars(Operator)
            /\ \A c \in Clusters : SF_vars(UpdateClusterStatus(c))

-----------------------------------------------------------------------------
Status == [health: {"green", "red", "cluster health unknown", ""},
           alloc: {"all", "none", "shard allocation unknown", ""},
           pods: [PodState -> SUBSET (Node \X Nat)],
           conds: [Node -> SUBSET Condition], storage: [Node -> Storage]]

(* Every variable keeps its type; in particular the shard allocation in a
   status that was written is one of the three states of the API, whatever
   Elasticsearch answered.                                                 *)
TypeOK ==
    /\ pods \in [Node -> PodLists] /\ disk \in [Node -> 0..MaxDisk]
    /\ setting \in [Clusters -> Settings]
    /\ health \in [Clusters -> {"green", "red"}] /\ alloc \in [Clusters -> {"all", "none"}]
    /\ cr \in [Clusters -> Status] /\ st \in Status
    /\ \A c \in Clusters : cr[c].alloc = "" => cr[c] = BlankStatus
    /\ marks \in Marks
    /\ pc \in {"idle", "health", "threshold", "refresh", "node", "pod"}
    /\ req \in Clusters /\ todo \subseteq NodesOf(req) /\ enabled \in BOOLEAN
    /\ list \in Seq(Pod)
    /\ changes \in 0..MaxChanges /\ faults \in 0..MaxFaults /\ seen \subseteq Settings

(* A usage judged by a watermark as Elasticsearch reports it.              *)
Exceeds(usage, w) == usage > Quantity(w)

(* The storage condition a usage deserves.                                 *)
Deserved(usage, s) == CASE ~Exceeds(usage, s.low) -> ""
                        [] Exceeds(usage, s.low) /\ Exceeds(usage, s.high) -> "Disk Watermark High"
                        [] OTHER -> "Disk Watermark Low"

(* Once a pass has read the watermarks of its cluster, it judges disks by
   these alone: of the four package variables nothing is left over that an
   earlier pass, for this or another custom resource, has put there.       *)
OwnWatermarks ==
    \A s \in seen, u \in (0..MaxDisk) \ Unreadable :
        pc \in {"node", "pod"} =>
            /\ exceedsLowWatermark(marks, u) <=> Exceeds(u, s.low)
            /\ exceedsHighWatermark(marks, u) <=> Exceeds(u, s.high)

(* What the status should say of a node: the conditions of the last of its
   pods, once that pod is scheduled and its containers have states, and the
   storage condition its disk deserves, when thresholds are enabled and the
   usage is neither 0 % nor unreadable.                                    *)
Truthful(n) ==
    LET c == Home[n]
        p == pods[n][Len(pods[n])]
        s == setting[c]
    IN  pods[n] # <<>> =>
          /\ p.unscheduled <=> <<"Unschedulable">> \in cr[c].conds[n]
          /\ ~p.unscheduled => \A k \in Containers : p[k] # "" =>
               \A v \in {"waiting", "terminated"} : p[k] = v <=> <<k, v>> \in cr[c].conds[n]
          /\ ~p.unscheduled /\ s.enabled /\ disk[n] \notin Unreadable \cup {0} =>
               cr[c].storage[n] = Deserved(disk[n], s)

(* Once pods, disks and Elasticsearch stay as they are and requests no
   longer fail, the status of every custom resource becomes and stays true,
   although nothing of it is reset by a pass that does not look at it.     *)
StatusBecomesTrue ==
    <>[](/\ \A c \in Clusters : /\ cr[c].health = health[c] /\ cr[c].alloc = alloc[c]
                                /\ cr[c].pods = podStateMap(c)
         /\ \A n \in Node : Truthful(n))
=============================================================================
