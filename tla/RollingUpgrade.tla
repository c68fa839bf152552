--------------------------- MODULE RollingUpgrade ---------------------------
(***************************************************************************)
(* The operator's rolling upgrade of an Elasticsearch cluster whose nodes  *)
(* are Deployments: CreateOrUpdateElasticsearchCluster (cluster.go), the   *)
(* operations of deploymentNode it drives (deployment.go) and the part of  *)
(* UpdateClusterStatus (status.go) that feeds back into it.                *)
(*                                                                         *)
(* The operator is one goroutine: every API or Elasticsearch call is a     *)
(* step of its own, between which the Deployment controller, the kubelet,  *)
(* Elasticsearch and the user take steps.  Its state is split the way the  *)
(* program splits it: what is in the custom resource (cr) survives a       *)
(* restart of the operator, what is in the package variable "nodes"        *)
(* (size, curRev, hash) and in local variables does not.                   *)
(***************************************************************************)
EXTENDS Integers, FiniteSets

CONSTANTS
    N,          \* number of Elasticsearch nodes
    Tmpls,      \* pod templates the spec can ask for
    Unsched,    \* the templates among them whose pods cannot be scheduled
    NoTmpl,     \* no template: an absent Deployment, ReplicaSet or pod
    MaxEdits,   \* bound: how often the user edits the spec
    MaxSecret,  \* bound: versions of the certificate secret
    Hazards     \* what may go wrong in a behaviour, see HazardKind

(* "slow":   a poll gives up although the cluster is still making progress
   "api":    a write to a Deployment returns an error (applied or not)
   "status": a write of the custom resource returns an error and is lost
   "es":     a request to Elasticsearch returns an error (applied or not)
   "rotate": the secret changes in the middle of a reconcile
   "pod":    a pod dies by itself
   "crash":  the operator process is restarted                             *)
HazardKind == {"slow", "api", "status", "es", "rotate", "pod", "crash"}

Node == 1..N

ASSUME NAssumption == N \in Nat \ {0}
ASSUME TmplsAssumption == NoTmpl \notin Tmpls /\ Unsched \subseteq Tmpls
ASSUME BoundsAssumption == MaxEdits \in Nat /\ MaxSecret \in Nat \ {0}
ASSUME HazardsAssumption == Hazards \subseteq HazardKind

VARIABLES
    spec, secret, edits,                                  \* the user's input
    cr,                                                   \* Status.Nodes
    tmpl, paused, replicas, rs, rev, pod, loaded,         \* Kubernetes
    members, dirty, alloc,                                \* Elasticsearch
    size, curRev, hash,                                   \* package variable
    pc, mode, cur, todo, ns, st, desired, self            \* one reconcile

user  == <<spec, secret, edits>>
kube  == <<tmpl, paused, replicas, rs, rev, pod, loaded>>
es    == <<members, dirty, alloc>>
mem   == <<size, curRev, hash>>
local == <<pc, mode, cur, todo, ns, st, desired, self>>
vars  == <<user, cr, kube, es, mem, local>>

Template == Tmpls \cup {NoTmpl}
Cond     == {"True", ""}

\* ElasticsearchUpgradePhase
NodeRestarting    == "nodeRestarting"
RecoveringData    == "recoveringData"
ControllerUpdated == "controllerUpdated"
Phase == {"", NodeRestarting, RecoveringData, ControllerUpdated}

(* One element of Status.Nodes: scheduledUpgrade, scheduledRedeploy,
   underUpgrade, upgradePhase, the Unschedulable condition, and whether the
   element has been appended yet (a missing one reads as a blank one).     *)
NodeStatus == [up: Cond, re: Cond, under: Cond, phase: Phase,
               unsched: Cond, listed: Cond]
BlankStatus == [up |-> "", re |-> "", under |-> "", phase |-> "",
                unsched |-> "", listed |-> ""]

Flag(b) == IF b THEN "True" ELSE ""

PC == {"idle", "unsched", "uExec", "uUnpause", "uWait", "uPause", "next",
       "health0", "size0", "replicas", "allocNone", "exec", "unpause",
       "waitRollout", "pause", "scale0", "waitLeave", "scale1", "waitRejoin",
       "allocAll", "health1", "create", "initWait", "createPause", "state"}

IsFirst(n, S) == n \in S /\ \A m \in S : n <= m

-----------------------------------------------------------------------------
(* What the calls of the operator see.                                     *)

\* GetClusterHealthStatus answers "green"
Green == members # {} /\ dirty = {}

EsFails == members = {} \/ "es" \in Hazards

Counts_MinusOne == {Cardinality(members)} \cup (IF EsFails THEN {-1} ELSE {})

\* the node counts GetClusterNodeCount can return: 0 when the call fails
Counts == {Cardinality(members)} \cup (IF EsFails THEN {0} ELSE {})

\* updates that return an error: the object may or may not have changed
FailedWrite(old, new) ==
    IF "api" \in Hazards /\ old # new THEN {old, new} ELSE {}

RolledOut_AnyTime(n) == TRUE

\* waitForNodeRollout compares the revision annotation with the remembered one
RolledOut(n) == rev[n] # curRev[n]

refreshHashes_Forgotten == UNCHANGED hash

\* the node remembers the secret it has just (re)started with
refreshHashes == hash' = [hash EXCEPT ![cur] = secret]

\* isChanged: the live Deployment differs from the node's own object
isChanged(n, want) == tmpl[n] # NoTmpl /\ tmpl[n] # want

\* executeUpdate writes the desired template into the live object
executeUpdate(n, want) == [tmpl EXCEPT ![n] = want]

\* state(): what the node still needs, computed from its own object, the live
\* one, and the secret it remembers
state(n, s) == [s EXCEPT !.up = Flag(isChanged(n, self)),
                         !.re = Flag(secret # hash[n]),
                         !.listed = "True"]

\* wait.Poll gives up: only after everything that was under way has finished,
\* unless the environment is slow
CanKillOld(n) == n \notin paused /\ tmpl[n] # NoTmpl /\ rs[n] # tmpl[n] /\ pod[n] # NoTmpl
CanNewRS(n)   == n \notin paused /\ tmpl[n] # NoTmpl /\ rs[n] # tmpl[n] /\ pod[n] = NoTmpl
CanScaleDown(n) == replicas[n] = 0 /\ pod[n] # NoTmpl
CanStart(n)   == /\ replicas[n] = 1 /\ pod[n] = NoTmpl /\ rs[n] # NoTmpl
                 /\ n \in paused \/ rs[n] = tmpl[n]
CanJoin(n)    == pod[n] \in Tmpls \ Unsched /\ n \notin members
CanRecover(n) == n \in dirty /\ alloc = "all" /\ members # {}
Busy == \E n \in Node : \/ CanKillOld(n) \/ CanNewRS(n) \/ CanScaleDown(n)
                        \/ CanStart(n) \/ CanJoin(n) \/ CanRecover(n)
TimedOut == "slow" \in Hazards \/ ~Busy

-----------------------------------------------------------------------------
(* One reconcile: Reconcile reads the custom resource, getNodes rebuilds   *)
(* every node's object from the spec, and the nodes with an Unschedulable  *)
(* condition are progressed first (progressUnshedulableNodes).             *)

reconcileFrame == UNCHANGED <<user, kube, es>>

\* every node's object is rebuilt from the spec that was read
getNodes == desired' = spec

StartReconcile ==
    /\ pc = "idle"
    /\ pc' = "unsched"
    /\ st' = cr
    /\ getNodes
    /\ todo' = {n \in Node : cr[n].unsched = "True"}
    /\ reconcileFrame /\ UNCHANGED <<cr, mem, mode, cur, ns, self>>

\* the reconcile returns: what was local to it is gone
Return ==
    /\ pc' = "idle" /\ mode' = "create" /\ cur' = 1 /\ todo' = {}
    /\ ns' = BlankStatus /\ st' = cr' /\ desired' = NoTmpl /\ self' = NoTmpl

\* progressUnshedulableNode looks at the next unschedulable node
progressUnshedulableNode(n) ==
    /\ pc = "unsched" /\ IsFirst(n, todo)
    /\ cur' = n
    /\ todo' = todo \ {n}
    /\ pc' = IF isChanged(n, desired) THEN "uExec" ELSE "unsched"
    /\ reconcileFrame /\ UNCHANGED <<cr, mem, mode, ns, st, desired, self>>

unschedFrame == UNCHANGED <<user, cr, es, size, hash, mode, cur, todo, ns, st, desired, self>>

\* executeUpdate of the unschedulable node
UnschedExecute ==
    /\ pc = "uExec"
    /\ LET new == executeUpdate(cur, desired)
       IN  \/ tmpl' = new /\ pc' = "uUnpause"
           \/ tmpl' \in FailedWrite(tmpl, new) /\ pc' = "unsched"
    /\ unschedFrame /\ UNCHANGED <<paused, replicas, rs, rev, pod, loaded, curRev>>

setPaused_Skipped(new, ok, failed) == UNCHANGED paused /\ pc' = ok

\* setPaused: only the write of a changed value can fail
setPaused(new, ok, failed) ==
    \/ paused' = new /\ pc' = ok
    \/ paused' \in FailedWrite(paused, new) /\ pc' = failed

UnschedUnpause ==
    /\ pc = "uUnpause"
    /\ setPaused(paused \ {cur}, "uWait", "unsched")
    /\ unschedFrame /\ UNCHANGED <<tmpl, replicas, rs, rev, pod, loaded, curRev>>

\* waitForNodeRollout against whatever revision the node remembers; the
\* phase it then writes goes to a copy of the status and is lost
UnschedWait ==
    /\ pc = "uWait"
    /\ \/ RolledOut(cur) /\ curRev' = [curRev EXCEPT ![cur] = rev[cur]]
       \/ ~RolledOut(cur) /\ TimedOut /\ UNCHANGED curRev
    /\ pc' = "uPause"
    /\ unschedFrame /\ UNCHANGED kube

\* the deferred pause, its error ignored
UnschedPause ==
    /\ pc = "uPause"
    /\ setPaused(paused \cup {cur}, "unsched", "unsched")
    /\ unschedFrame /\ UNCHANGED <<tmpl, replicas, rs, rev, pod, loaded, curRev>>

(* Which nodes this reconcile works on, and how.                           *)

UpgradeInProgress == {n \in Node : st[n].under = "True"}
getScheduledUpgradeNodes == {n \in Node : st[n].up = "True"}
getScheduledRedeployOnlyNodes == {n \in Node : st[n].re = "True" /\ st[n].up = ""}

SelectNodes ==
    LET S == getScheduledUpgradeNodes
        R == getScheduledRedeployOnlyNodes
    IN  \/ \E n \in Node :
             /\ IsFirst(n, UpgradeInProgress)
             /\ todo' = {n}
             /\ mode' = IF n \in S THEN "update" ELSE "restart"
        \/ /\ UpgradeInProgress = {}
           /\ \/ S # {} /\ todo' = S /\ mode' = "update"
              \/ S = {} /\ R # {} /\ todo' = R /\ mode' = "restart"
              \/ S = {} /\ R = {} /\ todo' = Node /\ mode' = "create"

CreateOrUpdateElasticsearchCluster ==
    /\ pc = "unsched" /\ todo = {}
    /\ SelectNodes
    /\ pc' = "next"
    /\ reconcileFrame /\ UNCHANGED <<cr, mem, cur, ns, st, desired, self>>

-----------------------------------------------------------------------------
(* The loop over the selected nodes.                                       *)

AtPhase_SkipDisable(m, phase) ==
    CASE phase \in {"", ControllerUpdated} -> IF m = "update" THEN "exec" ELSE "scale0"
      [] phase = NodeRestarting            -> IF m = "update" THEN "unpause" ELSE "scale1"
      [] phase = RecoveringData            -> "health1"

AtPhase_StartOver(m, phase) ==
    IF phase = NodeRestarting THEN IF m = "update" THEN "unpause" ELSE "scale1"
    ELSE IF m = "update" THEN "allocNone" ELSE "replicas"

\* where update and restart go once the node is under upgrade
AtPhase(m, phase) ==
    CASE phase \in {"", ControllerUpdated} -> IF m = "update" THEN "allocNone" ELSE "replicas"
      [] phase = NodeRestarting            -> IF m = "update" THEN "unpause" ELSE "scale1"
      [] phase = RecoveringData            -> "health1"

Entry(m, s) == IF m = "create" THEN "create"
               ELSE IF s.under # "True" THEN "health0" ELSE AtPhase(m, s.phase)

NextNode(n) ==
    /\ pc = "next" /\ IsFirst(n, todo)
    /\ cur' = n
    /\ todo' = todo \ {n}
    /\ ns' = st[n]
    /\ self' = desired
    /\ pc' = Entry(mode, st[n])
    /\ reconcileFrame /\ UNCHANGED <<cr, mem, mode, st, desired>>

\* a status write that fails leaves the in-memory status updated
SaveStatus(new) ==
    \/ cr' = new
    \/ "status" \in Hazards /\ new # cr /\ cr' = cr

\* node.state() after the node was worked on, then updateNodeStatus
UpdateNodeStatus ==
    /\ pc = "state"
    /\ st' = [st EXCEPT ![cur] = state(cur, ns)]
    /\ SaveStatus(st')
    /\ pc' = "next"
    /\ reconcileFrame /\ UNCHANGED <<mem, mode, cur, todo, ns, desired, self>>

\* updateNodeConditions: a node without a pod keeps its condition
PodCondition(n) ==
    IF st[n].listed = "" \/ pod[n] = NoTmpl THEN st[n].unsched
    ELSE Flag(pod[n] \in Unsched)

UpdateClusterStatus ==
    /\ pc = "next" /\ todo = {}
    /\ SaveStatus([n \in Node |-> [st[n] EXCEPT !.unsched = PodCondition(n)]])
    /\ Return
    /\ reconcileFrame /\ UNCHANGED mem

-----------------------------------------------------------------------------
(* deploymentNode.create                                                   *)

createFrame == UNCHANGED <<user, cr, es, size, curRev>>
stepFrame == UNCHANGED <<user, cr, mode, cur, todo, st, desired>>

Created == /\ tmpl' = [tmpl EXCEPT ![cur] = desired]
           /\ paused' = paused \ {cur}
           /\ replicas' = [replicas EXCEPT ![cur] = 1]

Create ==
    /\ pc = "create" /\ tmpl[cur] = NoTmpl
    /\ createFrame /\ UNCHANGED <<rs, rev, pod, loaded, hash>>
    /\ \/ /\ Created
          /\ pc' = "initWait"
          /\ UNCHANGED <<mode, cur, todo, ns, st, desired, self>>
       \/ /\ "api" \in Hazards
          /\ Created \/ UNCHANGED <<tmpl, paused, replicas>>
          /\ Return

\* isValidConf is repeated for every node and writes the custom resource:
\* an error ends the reconcile
RecheckConfFails ==
    /\ pc = "create" /\ "status" \in Hazards
    /\ createFrame /\ UNCHANGED <<kube, hash>>
    /\ Return

CreateAlreadyExists ==
    /\ pc = "create" /\ tmpl[cur] # NoTmpl
    /\ pc' = "createPause"
    /\ stepFrame /\ UNCHANGED <<kube, es, mem, ns, self>>

\* waitForInitialRollout: until the Deployment has a revision annotation
WaitForInitialRollout ==
    /\ pc = "initWait"
    /\ createFrame /\ UNCHANGED kube
    /\ \/ /\ rev[cur] > 0
          /\ refreshHashes
          /\ self' = tmpl[cur]
          /\ pc' = "createPause"
          /\ UNCHANGED <<mode, cur, todo, ns, st, desired>>
       \/ rev[cur] = 0 /\ TimedOut /\ Return /\ UNCHANGED hash

CreatePause ==
    /\ pc = "createPause"
    /\ createFrame /\ UNCHANGED <<tmpl, replicas, rs, rev, pod, loaded, hash>>
    /\ LET new == paused \cup {cur}
       IN  \/ paused' = new /\ pc' = "state" /\ UNCHANGED <<mode, cur, todo, ns, st, desired, self>>
           \/ paused' \in FailedWrite(paused, new) /\ Return

-----------------------------------------------------------------------------
(* deploymentNode.update and deploymentNode.restart, which share the steps *)
(* before the node goes down and after it has come back.                   *)

CheckHealthBefore_Skipped ==
    /\ pc = "health0"
    /\ pc' = "size0"
    /\ stepFrame /\ UNCHANGED <<kube, es, mem, ns, self>>

\* "Waiting for cluster to be fully recovered before ..."
CheckHealthBefore ==
    /\ pc = "health0"
    /\ \/ Green /\ pc' = "size0"
       \/ (~Green \/ "es" \in Hazards) /\ pc' = "state"
    /\ stepFrame /\ UNCHANGED <<kube, es, mem, ns, self>>

MarkUnderUpgrade_Forgotten(s) == s

MarkUnderUpgrade(s) == [s EXCEPT !.under = "True"]

\* the cluster size the waits compare with; only restart looks at the error of
\* the count, and an answer that is none of Elasticsearch's reads 0 without one
RecordClusterSize ==
    /\ pc = "size0"
    /\ \E c \in Counts :
         \/ /\ size' = [size EXCEPT ![cur] = c]
            /\ ns' = MarkUnderUpgrade(ns)
            /\ pc' = AtPhase(mode, ns.phase)
         \/ /\ mode = "restart" /\ c = 0
            /\ pc' = "state" /\ UNCHANGED <<size, ns>>
    /\ stepFrame /\ UNCHANGED <<kube, es, curRev, hash, self>>

AtNodeRestarting(s) == [s EXCEPT !.phase = NodeRestarting]

CheckReplicaCount_Inverted ==
    /\ pc = "replicas"
    /\ \/ pod[cur] = NoTmpl /\ pc' = "allocNone" /\ UNCHANGED ns
       \/ pod[cur] # NoTmpl /\ pc' = "scale1" /\ ns' = AtNodeRestarting(ns)
    /\ stepFrame /\ UNCHANGED <<kube, es, mem, self>>

\* restart only: replicaCount is the Deployment's Status.Replicas
CheckReplicaCount ==
    /\ pc = "replicas"
    /\ \/ pod[cur] # NoTmpl /\ pc' = "allocNone" /\ UNCHANGED ns
       \/ pod[cur] = NoTmpl /\ pc' = "scale1" /\ ns' = AtNodeRestarting(ns)
    /\ stepFrame /\ UNCHANGED <<kube, es, mem, self>>

SetShardAllocation_Unchecked(value, acknowledged) ==
    /\ acknowledged
    /\ alloc' \in (IF members # {} THEN {value} ELSE {}) \cup (IF EsFails THEN {alloc} ELSE {})
    /\ UNCHANGED <<members, dirty>>

\* SetShardAllocation: a transient cluster setting
SetShardAllocation(value, acknowledged) ==
    /\ \/ acknowledged /\ members # {} /\ alloc' = value
       \/ /\ ~acknowledged /\ EsFails
          /\ alloc' \in {alloc} \cup (IF members # {} THEN {value} ELSE {})
    /\ UNCHANGED <<members, dirty>>

\* disable allocation, then flush (best effort, no state here)
DisableAllocation ==
    /\ pc = "allocNone"
    /\ \/ SetShardAllocation("none", TRUE) /\ pc' = IF mode = "update" THEN "exec" ELSE "scale0"
       \/ SetShardAllocation("none", FALSE) /\ pc' = "state"
    /\ stepFrame /\ UNCHANGED <<kube, mem, ns, self>>

\* update: executeUpdate writes the new template to the (paused) Deployment
ExecuteUpdate ==
    /\ pc = "exec"
    /\ LET new == executeUpdate(cur, self)
       IN  \/ /\ tmpl' = new
              /\ ns' = AtNodeRestarting(ns)
              /\ curRev' = [curRev EXCEPT ![cur] = rev[cur]]
              /\ pc' = "unpause"
           \/ /\ tmpl' \in FailedWrite(tmpl, new)
              /\ pc' = "state" /\ UNCHANGED <<ns, curRev>>
    /\ stepFrame /\ UNCHANGED <<paused, replicas, rs, rev, pod, loaded, es, size, hash, self>>

\* "do a unpause, wait, and pause again": the error of unpause is ignored
Unpause ==
    /\ pc = "unpause"
    /\ setPaused(paused \ {cur}, "waitRollout", "waitRollout")
    /\ stepFrame /\ UNCHANGED <<tmpl, replicas, rs, rev, pod, loaded, es, mem, ns, self>>

WaitForNodeRollout ==
    /\ pc = "waitRollout"
    /\ \/ RolledOut(cur) /\ pc' = "pause"
       \/ ~RolledOut(cur) /\ TimedOut /\ pc' = "state"
    /\ self' = tmpl[cur]
    /\ stepFrame /\ UNCHANGED <<kube, es, mem, ns>>

\* pause again (error ignored) and refreshHashes
PauseAgain ==
    /\ pc = "pause"
    /\ setPaused(paused \cup {cur}, "waitRejoin", "waitRejoin")
    /\ refreshHashes
    /\ stepFrame /\ UNCHANGED <<tmpl, replicas, rs, rev, pod, loaded, es, size, curRev, ns, self>>

\* setReplicaCount reads the live Deployment into the node's own object
setReplicaCount(k, next) ==
    LET new == [replicas EXCEPT ![cur] = k]
    IN  /\ self' = tmpl[cur]
        /\ \/ replicas' = new /\ pc' = next
           \/ replicas' \in FailedWrite(replicas, new) /\ pc' = "state"

ScaleDownNode ==
    /\ pc = "scale0"
    /\ setReplicaCount(0, "waitLeave")
    /\ stepFrame /\ UNCHANGED <<tmpl, paused, rs, rev, pod, loaded, es, mem, ns>>

\* a failed count reads 0, which looks like every node having left
WaitForNodeLeaveCluster ==
    /\ pc = "waitLeave"
    /\ \E c \in Counts :
         \/ size[cur] > c /\ pc' = "scale1" /\ ns' = AtNodeRestarting(ns)
         \/ size[cur] <= c /\ TimedOut /\ pc' = "state" /\ UNCHANGED ns
    /\ stepFrame /\ UNCHANGED <<kube, es, mem, self>>

ScaleUpNode ==
    /\ pc = "scale1"
    /\ setReplicaCount(1, "waitRejoin")
    /\ stepFrame /\ UNCHANGED <<tmpl, paused, rs, rev, pod, loaded, es, mem, ns>>

\* restart refreshes the hashes here, update did so when it paused
WaitForNodeRejoinCluster ==
    /\ pc = "waitRejoin"
    /\ \E c \in Counts :
         \/ /\ size[cur] <= c /\ pc' = "allocAll"
            /\ IF mode = "restart" THEN refreshHashes ELSE UNCHANGED hash
         \/ size[cur] > c /\ TimedOut /\ pc' = "state" /\ UNCHANGED hash
    /\ stepFrame /\ UNCHANGED <<kube, es, size, curRev, ns, self>>

EnableAllocation ==
    /\ pc = "allocAll"
    /\ \/ /\ SetShardAllocation("all", TRUE) /\ pc' = "health1"
          /\ ns' = [ns EXCEPT !.phase = RecoveringData]
       \/ SetShardAllocation("all", FALSE) /\ pc' = "state" /\ UNCHANGED ns
    /\ stepFrame /\ UNCHANGED <<kube, mem, self>>

UpgradeDone_KeepsPhase(s) == [s EXCEPT !.under = ""]

UpgradeDone_StaysUnder(s) == [s EXCEPT !.phase = ControllerUpdated]

UpgradeDone(s) == [s EXCEPT !.phase = ControllerUpdated, !.under = ""]

CheckHealthAfter ==
    /\ pc = "health1"
    /\ \/ Green /\ ns' = UpgradeDone(ns)
       \/ (~Green \/ "es" \in Hazards) /\ UNCHANGED ns
    /\ pc' = "state"
    /\ stepFrame /\ UNCHANGED <<kube, es, mem, self>>

-----------------------------------------------------------------------------
(* The environment.                                                        *)

envFrame == UNCHANGED <<cr, mem, local>>

EditSpec(t) ==
    /\ edits < MaxEdits /\ t # spec
    /\ spec' = t /\ edits' = edits + 1
    /\ envFrame /\ UNCHANGED <<secret, kube, es>>

RotateSecret ==
    /\ secret < MaxSecret
    /\ "rotate" \in Hazards \/ (pc = "idle" /\ ~Busy)
    /\ secret' = secret + 1
    /\ envFrame /\ UNCHANGED <<spec, edits, kube, es>>

\* a pod goes away: its node leaves and its shards are missing; transient
\* settings do not survive the last node
StopPod(n) ==
    /\ pod' = [pod EXCEPT ![n] = NoTmpl]
    /\ members' = members \ {n}
    /\ dirty' = IF n \in members THEN dirty \cup {n} ELSE dirty
    /\ alloc' = IF members \subseteq {n} THEN "all" ELSE alloc

podFrame == envFrame /\ UNCHANGED <<user, tmpl, paused, replicas>>

\* the Recreate strategy: kill the old pod, then create the new ReplicaSet
KillOldPod(n) ==
    CanKillOld(n) /\ StopPod(n) /\ podFrame /\ UNCHANGED <<rs, rev, loaded>>

CreateReplicaSet(n) ==
    /\ CanNewRS(n)
    /\ rs' = [rs EXCEPT ![n] = tmpl[n]]
    /\ rev' = [rev EXCEPT ![n] = @ + 1]
    /\ podFrame /\ UNCHANGED <<pod, loaded, es>>

ScaleDownPod(n) ==
    CanScaleDown(n) /\ StopPod(n) /\ podFrame /\ UNCHANGED <<rs, rev, loaded>>

\* a pod reads the secret when it starts
StartPod(n) ==
    /\ CanStart(n)
    /\ pod' = [pod EXCEPT ![n] = rs[n]]
    /\ loaded' = [loaded EXCEPT ![n] = secret]
    /\ podFrame /\ UNCHANGED <<rs, rev, es>>

JoinCluster(n) ==
    /\ CanJoin(n)
    /\ members' = members \cup {n}
    /\ podFrame /\ UNCHANGED <<rs, rev, pod, loaded, dirty, alloc>>

RecoverShards(n) ==
    /\ CanRecover(n)
    /\ dirty' = dirty \ {n}
    /\ podFrame /\ UNCHANGED <<rs, rev, pod, loaded, members, alloc>>

PodDies(n) ==
    /\ "pod" \in Hazards /\ pod[n] # NoTmpl
    /\ StopPod(n) /\ podFrame /\ UNCHANGED <<rs, rev, loaded>>

\* a restarted operator starts from the custom resource alone
OperatorRestart ==
    /\ "crash" \in Hazards
    /\ size' = [n \in Node |-> 0]
    /\ curRev' = [n \in Node |-> 0]
    /\ hash' = [n \in Node |-> 0]
    /\ reconcileFrame /\ UNCHANGED cr
    /\ Return

-----------------------------------------------------------------------------
Init ==
    /\ spec \in Tmpls /\ secret = 1 /\ edits = 0
    /\ cr = [n \in Node |-> BlankStatus]
    /\ tmpl = [n \in Node |-> NoTmpl] /\ paused = {}
    /\ replicas = [n \in Node |-> 1]
    /\ rs = [n \in Node |-> NoTmpl] /\ rev = [n \in Node |-> 0]
    /\ pod = [n \in Node |-> NoTmpl] /\ loaded = [n \in Node |-> 0]
    /\ members = {} /\ dirty = {} /\ alloc = "all"
    /\ size = [n \in Node |-> 0] /\ curRev = [n \in Node |-> 0]
    /\ hash = [n \in Node |-> 0]
    /\ pc = "idle" /\ mode = "create" /\ cur = 1 /\ todo = {}
    /\ ns = BlankStatus /\ st = cr /\ desired = NoTmpl /\ self = NoTmpl

Operator ==
    \/ StartReconcile
    \/ \E n \in Node : progressUnshedulableNode(n) \/ NextNode(n)
    \/ UnschedExecute \/ UnschedUnpause \/ UnschedWait \/ UnschedPause
    \/ CreateOrUpdateElasticsearchCluster
    \/ UpdateNodeStatus \/ UpdateClusterStatus
    \/ RecheckConfFails \/ Create \/ CreateAlreadyExists \/ WaitForInitialRollout \/ CreatePause
    \/ CheckHealthBefore \/ RecordClusterSize \/ CheckReplicaCount
    \/ DisableAllocation \/ ExecuteUpdate \/ Unpause \/ WaitForNodeRollout
    \/ PauseAgain \/ ScaleDownNode \/ WaitForNodeLeaveCluster \/ ScaleUpNode
    \/ WaitForNodeRejoinCluster \/ EnableAllocation \/ CheckHealthAfter

Platform(n) ==
    \/ KillOldPod(n) \/ CreateReplicaSet(n) \/ ScaleDownPod(n)
    \/ StartPod(n) \/ JoinCluster(n) \/ RecoverShards(n)

Environment ==
    \/ \E t \in Tmpls : EditSpec(t)
    \/ RotateSecret
    \/ \E n \in Node : Platform(n) \/ PodDies(n)
    \/ OperatorRestart

Next == Operator \/ Environment

Spec == Init /\ [][Next]_vars

\* the work queue calls Reconcile again and again; Kubernetes and
\* Elasticsearch complete what they have started
FairSpec == Spec /\ WF_vars(Operator) /\ \A n \in Node : WF_vars(Platform(n))

-----------------------------------------------------------------------------
(* Properties.                                                             *)

\* the statuses that count: the one being worked on, else the in-memory one
Working == {"health0", "size0", "replicas", "allocNone", "exec", "unpause",
            "waitRollout", "pause", "scale0", "waitLeave", "scale1",
            "waitRejoin", "allocAll", "health1", "create", "initWait",
            "createPause", "state"}
Current(n) == IF n = cur /\ pc \in Working THEN ns ELSE st[n]
Owned(n) == Current(n).under = "True" /\ Current(n).phase # RecoveringData

(* Every variable keeps its type; in particular the cluster size that
   GetClusterNodeCount reports and a node remembers is a count of nodes, and
   every branch of create, update and restart continues at a known step.   *)
TypeOK ==
    /\ spec \in Tmpls /\ secret \in 1..MaxSecret /\ edits \in 0..MaxEdits
    /\ cr \in [Node -> NodeStatus]
    /\ tmpl \in [Node -> Template] /\ paused \subseteq Node
    /\ replicas \in [Node -> 0..1] /\ rs \in [Node -> Template]
    /\ rev \in [Node -> Nat] /\ pod \in [Node -> Template]
    /\ loaded \in [Node -> 0..MaxSecret]
    /\ members \subseteq Node /\ dirty \subseteq Node /\ alloc \in {"all", "none"}
    /\ size \in [Node -> 0..N] /\ curRev \in [Node -> Nat]
    /\ hash \in [Node -> 0..MaxSecret]
    /\ pc \in PC /\ mode \in {"update", "restart", "create"}
    /\ cur \in Node /\ todo \subseteq Node
    /\ ns \in NodeStatus /\ st \in [Node -> NodeStatus]
    /\ desired \in Template /\ self \in Template

(* A phase in the middle of an upgrade is only ever recorded, in the custom
   resource or in memory, together with underUpgrade: update and restart
   never leave a node half way without marking it so that
   getNodeUpgradeInProgress finds it again.                                *)
WellFormed(s) == s.phase \in {NodeRestarting, RecoveringData} => s.under = "True"
StatusConsistent == \A n \in Node : WellFormed(cr[n]) /\ WellFormed(Current(n))

(* The recorded phase of a node advances in the order the phases of update
   and restart gate: data recovery is never followed by another restart of
   the same upgrade, a restart is never forgotten, and a node stops being
   under upgrade only by completing it.                                    *)
Follows(a, b) ==
    /\ a.phase = RecoveringData => b.phase \in {RecoveringData, ControllerUpdated}
    /\ a.phase = NodeRestarting => b.phase \in {NodeRestarting, RecoveringData, ControllerUpdated}
    /\ a.under = "True" /\ b.under = "" => b.phase = ControllerUpdated
PhaseAdvances == [][\A n \in Node : Follows(cr[n], cr'[n])]_vars

(* Shard allocation is off only on behalf of a node that the operator knows
   to be under upgrade and that has not reached data recovery: some later
   reconcile will switch it on again (update and restart, the calls of
   SetShardAllocation).                                                    *)
AllocationOwned == alloc = "none" => \E n \in Node : Owned(n)

(* A Deployment that restart scaled down to 0 belongs to a node under
   upgrade, so setReplicaCount(1) will be called for it.                   *)
ScaledDownOwned == \A n \in Node : replicas[n] = 0 => Owned(n)

(* The rolling restart takes one node at a time: no two nodes are between
   going down and having rejoined ("if there is a node currently being
   upgraded, work on that first").                                         *)
AtMostOneRestarting ==
    \A m, n \in Node : Current(m).phase = NodeRestarting /\ Current(n).phase = NodeRestarting => m = n

(* A Deployment is paused with a template its pods have not been rolled out
   to only while the operator still means to unpause it (create, update and
   progressUnshedulableNode all pause "after" the rollout).                *)
NoLostRollout ==
    \A n \in paused : rs[n] # tmpl[n] => Owned(n) \/ (n = cur /\ pc = "uUnpause")

(* A pod that runs with an old certificate secret is going to be noticed:
   the hash the operator remembers for its node (refreshHashes) differs
   from the current one, so state() schedules a redeploy.                  *)
NoMissedRedeploy ==
    \A n \in Node : pod[n] # NoTmpl /\ loaded[n] # secret => hash[n] # secret

(* state() schedules a redeploy only for a node whose pod did not load the
   current secret ("check if the secretHash changed").                     *)
NoSpuriousRedeploy ==
    [][\A n \in Node : cr[n].re = "" /\ cr'[n].re = "True" => loaded[n] # secret]_vars

(* A node leaves the Elasticsearch cluster on the operator's account only
   while shard allocation is off ("disable shard allocation").             *)
LeaveWithAllocationOff ==
    [][\A n \in members \ members' : alloc = "none"]_vars

(* When nothing fails, the upgrade is a rolling restart as RollingRestart
   states it: a node has its turn while it is under upgrade and not yet
   recovering, turns follow one another, each begins in a green cluster, and
   shards go missing only in a turn with allocation off.                   *)
Turn == {n \in Node : Owned(n)}
Abstract == INSTANCE RollingRestart WITH turn <- Turn, missing <- dirty
IsRollingRestart == Abstract!Spec

(* Every change of the spec and of the secret ends with all pods running it,
   all nodes back in a green cluster with allocation on, all Deployments
   paused and no node under upgrade.                                       *)
Converges ==
    <>[](/\ \A n \in Node : pod[n] = spec /\ loaded[n] = secret /\ cr[n].under = ""
         /\ paused = Node /\ members = Node /\ dirty = {} /\ alloc = "all")

=============================================================================
