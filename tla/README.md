# A TLA+ model of the Elasticsearch operator

The operator reconciles `Elasticsearch` custom resources: for each one it keeps
Deployments and StatefulSets of Elasticsearch nodes, and it upgrades and
redeploys those nodes without taking the cluster down. The models here follow
the code of `src/pkg/k8shandler` and `src/pkg/controller`; the vendored
libraries, Kubernetes and Elasticsearch themselves appear only through what the
operator asks of them and sees of them.

## The system

The operator is one process with one worker: `Reconcile`
(`elasticsearch_controller.go`) is called for one custom resource at a time,
again at the latest 30 seconds after the last call. There is no concurrency
inside the operator, but every request it makes is a point at which users,
Kubernetes, the pods and Elasticsearch do something, at which the request may
fail, and at which the process may be restarted. What it must carry from one
reconcile to the next lives in three places: in the status of the custom
resource (survives a restart), in the package variables `nodes`, `wrongConfig`
and `DISK_WATERMARK_*` (do not), and in Kubernetes and Elasticsearch
themselves.

| component | source | state | operations |
|---|---|---|---|
| Controller | `controller/elasticsearch` | the work queue | `Reconcile`: flush a deleted resource, leave an Unmanaged one alone, else reconcile it and have it come back |
| Reconciler | `k8shandler/reconciler.go` | - | service account, RBAC, config maps, services, the cluster, service monitor, Prometheus rules, in this order; the first error ends it |
| Cluster membership | `k8shandler/cluster.go`, `util.go`, `defaults.go` | map `nodes`, `wrongConfig`, UUIDs in the spec | `isValidConf`, `setUUIDs`, `getNodes`, purge, create, minimum masters, replica count |
| Rolling upgrade of Deployments | `cluster.go`, `deployment.go` | `clusterSize`, `currentRevision`, `secretHash` per node; upgrade status per node in the resource | `create`, `update`, `restart`, `progressUnshedulableNode`, `state` |
| Rolling restart of StatefulSets | `statefulset.go` | `clusterSize`, `secretHash`; the partition of the live object | the same, by ordinals |
| Status | `status.go` | `Status.Nodes`, `Status.Conditions`; `DISK_WATERMARK_*` | `UpdateClusterStatus`, `updateNodeStatus`, `updateConditionWithRetry` |
| Elasticsearch client | `elasticsearch.go` | - | health, node count, shard allocation, minimum masters, replicas of templates and indices, disk use and watermarks |
| Secrets | `secret.go`, `util.go` | certificates of the cluster | mount, hash |
| Static resources | `configmaps.go`, `service.go`, `serviceaccount.go`, `rbac.go`, `service_monitor.go`, `prometheus_rule.go` | Kubernetes objects | create; get and update those there are, except the service account, the monitor and the rules |
| Pod templates | `common.go`, `persistentvolumeclaims.go` | - | construct the pod of a node group |

Hard to get right, and what the properties are about:

* An upgrade of a node takes many requests over several reconciles and is
  resumed from two fields, `underUpgrade` and `upgradePhase`. They are edited
  in memory and written when `update` or `restart` returns.
* While a node is down, shard allocation is off, the Deployment is unpaused or
  scaled to 0, and all of that must be undone by somebody.
* Polls give up after 30 or 60 seconds, whether or not what they wait for is
  still coming.
* Counts, revisions, hashes and lists of nodes are remembered in memory and
  compared with the outside world later.
* Users edit the resource between any two of the operator's reads of it, and
  what the operator reads comes from a cache that lags behind its own writes.
* A status is assembled over many requests and written at the end, over
  whatever is there by then.

## Modules

| module | models |
|---|---|
| `RollingUpgrade` | `CreateOrUpdateElasticsearchCluster` over `N` Deployments: creation, update, restart, unschedulable nodes, the status that comes back |
| `RollingUpgradeProofs` | theorems about it, whatever fails and then when little or nothing fails, the refinement of `RollingRestart` among them |
| `RollingRestart` | what a rolling upgrade promises, in three variables, and what follows from it; `RollingUpgrade` implements it |
| `StatefulSetRoll` | the same loop over one StatefulSet of several pods |
| `ClusterNodes` | validation, UUIDs, creation and purging of nodes, quorum and replicas, for several custom resources |
| `MCClusterNodes` | the lists of node groups its runs use |
| `IndexReplicas` | `UpdateReplicaCount`, request by request, while indices come and go |
| `StatusConditions` | `UpdateClusterStatus`: health, allocation, pods, node conditions and disk watermarks, for several custom resources |
| `MCStatusConditions` | the pods and settings its run uses |
| `Reconciler` | `Reconcile` from end to end, over an API server with versions and a cache that lags |
| `MCReconciler` | the specifications its run uses |
| `PodResources` | `newResourceRequirements`, with theorems |
| `StatefulSetRollProofs`, `ClusterNodesProofs`, `IndexReplicasProofs`, `StatusConditionsProofs`, `ReconcilerProofs` | theorems about these modules |

### RollingUpgrade

`pc` is the next request of the running reconcile, `mode` the operation it is
in, `cur` its node. Per node: `cr` is the element of `Status.Nodes` in the
custom resource, `st` the copy in memory, `ns` the one being edited; `tmpl`,
`paused`, `replicas`, `rs`, `rev`, `pod` and `loaded` are the Deployment, its
newest ReplicaSet, its revision annotation, its pod and the secret the pod read
when it started; `size`, `curRev` and `hash` are the fields of `deploymentNode`
that live in `nodes`. `members`, `dirty` and `alloc` are the Elasticsearch
cluster: who has joined, whose shards are missing, and
`cluster.routing.allocation.enable`. A pod template and a secret are an element
of `Tmpls` and a version number; the hash of a secret is its version.

An action of the operator is one request with the assignments up to the next
request. `update` is `CheckHealthBefore`, `RecordClusterSize`,
`CheckReplicaCount`, `DisableAllocation`, `ExecuteUpdate`, `Unpause`,
`WaitForNodeRollout`, `PauseAgain`, `WaitForNodeRejoinCluster`,
`EnableAllocation`, `CheckHealthAfter`; `restart` replaces the rollout by
`ScaleDownNode`, `WaitForNodeLeaveCluster`, `ScaleUpNode`. `AtPhase` is the
switch on the recorded phase at which both resume. The loops of
`CreateOrUpdateElasticsearchCluster` are `todo` and `NextNode`; what follows
each node is `UpdateNodeStatus`; the end of the reconcile is
`UpdateClusterStatus`. Helpers that read the live object over `node.self` do so
here (`self`).

External: the Deployment controller with the Recreate strategy
(`KillOldPod`, `CreateReplicaSet`, `ScaleDownPod`, `StartPod`), Elasticsearch
(`JoinCluster`, `RecoverShards`), users and pods that die.

`Hazards` selects what may go wrong in a behaviour: slow rollouts, failing
writes (which may have been applied), lost status writes, failing Elasticsearch
requests (which may have been applied), a secret that changes during a
reconcile, pods that die, restarts of the operator. One constant for all of it
lets a run say exactly under which conditions a property holds, and lets the
theorems take the conditions as assumptions.

### StatefulSetRoll

One StatefulSet with up to `MaxPods` pods in a cluster with `Others` further
nodes. `tmpl` and `base` are the update and the current revision, `part` the
partition, `reps` the replicas, `term` the pods being terminated. `update`
lowers the partition from the highest ordinal, `restart` deletes the pod of
that ordinal and records the partition when it has left. `scale` and
`setPartition` read the live StatefulSet over `node.self`, so `state` and
`isChanged` compare the live object with itself: `self` models it.

### ClusterNodes

`cr` holds the whole custom resources: the groups with their UUIDs, the policy,
the names in the status and the Invalid conditions. `dpl` is the operator's
copy, which `updateConditionWithRetry`, `setUUIDs` and `updateNodeStatus`
replace by what they read; `copy` is the status copied before a node is
created. `objs` maps the node objects to their replicas, `joined` are the pods
in Elasticsearch, `min` and `repl` the two settings the operator writes.
`nodes`, `made` and `wrongConfig` are the package variables; `made` tells
whether the map exists. `isValidConf` takes one step per check, since each one
writes a condition and thereby picks up what users wrote. `Panic` is a restart
of the process with the reason recorded.

`edits`, `tampered`, `crashes`, `panicked` and `told` (which errors were
returned, of which resource) are history, for bounds and properties only. No node needs an upgrade here; the upgrade loops are the
subject of the other two modules.

### RollingRestart

`turn` is the node being taken down, `missing` the nodes whose shards are not
assigned. `RollingUpgrade` maps its nodes between `MarkUnderUpgrade` and
`EnableAllocation` to `turn`, `dirty` to `missing` and `alloc` to itself;
`IsRollingRestart` is the abstract specification under this mapping. What it
adds to `AtMostOneRestarting` is the order: a turn begins in a green cluster.

### IndexReplicas

A pass lists the `common.*` templates, reads and writes one after the other,
lists the indices and writes those that differ; `todo` is what is left of a
list. `OneField` are the templates whose line in the list is a single field,
the only ones that the parser takes (`elasticsearch.go:555`). Elasticsearch
answers `_cat/templates/common.*` with name, pattern, order and version, so in
reality it is empty and the operator writes no template (D29); a template in it
is the line the parser was written for, and the run has one of each. `clean`
and `missed` are history: whether a request of this pass failed, and which
indices the pass could not see, could not write because they were closed, or
that were created from a template it does not write. A failed request has or has
not been applied, and its error is dropped, as in the code. The count comes from
`calculateReplicaCount`, which is in `ClusterNodes`.

### StatusConditions

`cr` is the written status per custom resource, `st` the one being assembled,
`marks` the four package variables, `list` the pods of the node whose turn it
is. A pass is `UpdateClusterStatus`, `ReadCluster`, `ReadThresholdEnabled`,
`refreshDiskWatermarkThresholds`, then per node `GetPodList` and
`updateNodeConditions` for each pod, and `SaveStatus`. `conds` and `storage`
are the node conditions; a condition that is false is one that is not there.
Percentages and sizes are numbers on one scale, since usage in bytes and in
percent are two readings of one disk; `Unreadable` are the usages in a unit that
`ParseQuantity` refuses, as it does "512K". A container that runs but is not
ready is a state of its own: it makes a pod not ready and no condition. The first three requests of a pass are
one step: none of them depends on another, and each result is written as it
is. `DeepEqual` compares a pointer with a value, so the status is always
written (`status.go:54`).

### Reconciler

`obj` is the API server, `cache` what the informers have heard and `fresh`
whether that is the latest version: an update from a cached object succeeds
exactly if it is. `pc` is the part of the reconcile, `op` the request in it,
`tries` the attempts of `RetryOnConflict`, `dpl` the custom resource in memory,
which every read replaces, `status` the copy about to be written, `queued` the
work queue. Objects carry the `uid` of their owner; deleting or recreating the
custom resource makes them orphans, which `GarbageCollect` removes.

Abstracted: one role, one binding and one service stand for the two, two and
three there are, each of them treated alike. Get and update are one step, as
anything between them makes the update fail just as if it had come before. A
cache jumps from an old version to the latest. Users and informers act on an
object where the operator uses it or between reconciles: anywhere else it makes
no difference. One check stands for those of `isValidConf` on the specification;
`Status.Nodes` are a number, the progress, and the `uid` of the resource whose
nodes they name, which `hasValidUUIDs` compares (`ValidConf`). Their contents are
the subject of the other modules. Objects
that the code only creates (`TODO: handle update`) may be deleted by users but
are not edited.

### PodResources

Operators only. A quantity is a number and 0 is one that is not set; `Memory`
and `CPU` are the two halves of `newResourceRequirements`.

## Runs

These runs pass:

| run | what is allowed to happen | what it shows | distinct states |
|---|---|---|---|
| `rolling_calm` | 3 nodes, an edit and a new secret, nothing fails | `AtMostOneRestarting`, `LeaveWithAllocationOff`: the restart is rolling. `IsRollingRestart`: it implements `RollingRestart`. `NoMissedRedeploy`, `NoSpuriousRedeploy`: redeploys are scheduled for the right nodes. `Converges`: it ends in a green cluster | 195,000 |
| `rolling_es_faults` | 2 nodes, failing Elasticsearch requests | nothing is forgotten: `AllocationOwned`, `ScaledDownOwned`, `NoLostRollout`; `TypeOK` | 474,000 |
| `rolling_any_hazard` | 1 node, unschedulable template, every hazard at once | `StatusConsistent`, `PhaseAdvances`: what is recorded can always be resumed | 435,000 |
| `sts_alone` | 3 pods, failing writes, lost status, rotations during a reconcile, fast pods | `TakenDownAlone`: a pod is taken down only while all others are there | 177,000 |
| `sts_converges` | 3 pods, two new secrets, nothing fails | `NoMissedRedeploy`, and `SecretReachesPods`: every new secret arrives | 843 |
| `sts_any_hazard` | 2 pods, two edits among three templates, one of them unschedulable, failing Elasticsearch requests, lost status, deletions answered by an error, a restart of the operator | `TypeOK`, `StatusConsistent` | 5,408,000 |
| `nodes_scaling` | one edit between 1, 3 and 4 masters or a deletion, failing writes | `MastersBounded`, `QuorumReachable` | 169,000 |
| `nodes_uuids` | groups added, removed, regrouped or invalid, a deletion, failures, a restart, panics | `UUIDsBlamedRightly`, `TypeOK` | 678,000 |
| `nodes_converges` | one edit of sizes, roles or policy, nothing fails | `Converges`: exactly the nodes, quorum and replicas asked for, or the right condition | 479,000 |
| `index_replicas` | 2 templates, one listed as Elasticsearch lists it and one by its name alone, 2 indices that come, go, close and open, an edit, a failed request | `NoneLeftBehind`: a pass gives every open index of its list the count, and templates before indices leaves none behind that comes from a template it takes; `Converges`: later passes correct what the other templates hand out; `TypeOK` | 444,000 |
| `status_conditions` | 2 clusters with different watermarks, pods, disks, settings and health that change during a pass, a failure or a restart | `OwnWatermarks`: shared variables do not mix clusters up; `StatusBecomesTrue`; `TypeOK` | 1,127,000 |
| `reconciler` | any two of: an edit, a deletion, a recreation, a change of the management state, a failed request, a restart; a cache that lags | `NoLostProgress`, `NotUnnoticed`, `HandsOff`, `Converges`, `TypeOK` | 552,000 |

Bounds. Two nodes are needed for everything that involves a second one, and the
run about the order of restarts has three. Two templates distinguish old from
new; one edit and one new secret let an edit meet an upgrade, a redeploy meet
an update, and a change arrive before, during and after each of them. A
StatefulSet gets a new template only while a pod is recorded as unschedulable,
so a running pod is rolled only after a second correction: `sts_any_hazard` has
three templates and two edits. Two pods
are the first number with a partition between 0 and the replicas; three let a
restart be interrupted between two others. One, two and three masters have the
quorums 1, 2 and 2, and four is the first number refused. `MaxCrash` is 1: a
second restart finds no less in memory than the first one left. `MaxLost` is
0: with it a lost UUID write is allowed, and D10 follows. Three replica counts
are one to raise, one to lower and the default. Of two clusters one has a node,
whose conditions are followed, and the other one only watermarks, which are
what it can disturb. Pods and settings are those that the code tells apart. In
`reconciler` two events let one interrupt what the other one began; `Tries` is
2 instead of 5, the least with a retry and an exhausted one.

Fairness. The work queue hands the resource to `Reconcile` again and again and
every request returns: weak fairness of the operator as a whole. The
controllers of Kubernetes and Elasticsearch complete what they have started:
weak fairness of each node's platform steps. With several resources each one is
requeued: strong fairness of `StartReconcile(c)`, since other resources keep
disabling it. An informer hears of every version in the end and garbage is
collected; both happen in `Reconciler` only where they can make a difference,
so this is strong fairness there. Nothing is assumed of users, and no failure is required to stop
other than by the bounds. Liveness of upgrades and of membership is checked with
no hazard, that of the replicas, the status and the reconcile with failures.

Deadlock is checked in every run but `reconciler`: the operator always has a
next step, except for a resource that is gone or Unmanaged.

## Where the code departs from a property

Each entry names the property that fails and the constants with which TLC shows
it (what is not named is as in the run of the same module that checks the
property). No run does: the runs are about what holds.

| | property | with | what happens |
|---|---|---|---|
| D1 | `AtMostOneRestarting` | `MaxEdits = 2`, 2 nodes | an edit is taken back before its rollout: `update` waits for a rollout that never comes, returns with the node in `NodeRestarting`, and the loop (`cluster.go:80`) goes on to the next node |
| D2 | `NoLostRollout` | `"slow"` | `create` gives up on a slow first rollout; the next reconcile pauses the Deployment before it has a ReplicaSet (`deployment.go:127`) |
| D3 | `AllocationOwned` | `"crash"` or `"status"` | allocation is off, and who switched it off was never written |
| D4 | `NoSpuriousRedeploy` | `"crash"` | a new process has no secret hashes, so every node is scheduled for a redeploy (`deployment.go:102`) |
| D5 | `NoLostRollout` | `Unsched = {t2}` | `progressUnshedulableNode` compares with a stale revision and pauses before the rollout (`deployment.go:500`) |
| D6 | `NoMissedRedeploy` | `"rotate"` | a secret that changes while a node restarts is taken for the one its pod loaded (`deployment.go:362`), though `deployment.go:438` says of the call "once we've restarted this is taken care of" |
| D7 | `TemplateApplied` | `sts_converges` with `MaxEdits = 1`, two templates | an existing StatefulSet is compared with itself and never updated (`statefulset.go:318`) |
| D8 | `TakenDownAlone` | `"es"` | the wrong error variable is tested (`statefulset.go:131`): a failed count reads 0, "the pod has left"; and a restart that begins with an answer other than 200 records a cluster of size 0 (`statefulset.go:230`), with which every wait for pods to rejoin is over at once |
| D9 | `SecretReachesPods` | `MaxCrash = 1` | a restart resumed with `clusterSize` 0 deletes the same pod again and again |
| D10 | `UUIDsBlamedRightly` | `MaxLost = 1`, `"status"` | a UUID whose write failed is used, and the resource is refused from then on; `MastersBounded` fails as well, with `Scaling` and `MaxEdits = 2` |
| D11 | `NoSilentError` | `nodes_uuids` with `TooManyOrNoData` and no hazard | `wrongConfig` does not know which error was returned (`cluster.go:36`): a second, different one is passed over in silence although the comment speaks of "the same message"; with two clusters, also the first error of the other one |
| D12 | `NoPanic` | `"delete"` | `FlushNodes` assigns to a map that no reconcile has made (`cluster.go:21`) |
| D13 | `Converges` (nodes) | `MaxCrash = 1`, `TwoOrThree` | a node removed around a restart is never purged |
| D14 | `QuorumReachable` | `MastersFirst` | a StatefulSet of masters listed first is scaled down before the quorum is lowered |
| D15 | `QuorumReachable` | `TwoOrThree`, `MaxEdits = 2` | the quorum is raised on account of a node that is leaving |
| D16 | `Converges` (rolling) | `MaxEdits = 2` | a reverted edit swallows a pending redeploy |
| D17 | `Converges` (nodes) | `TwoOrThree`, `MaxEdits = 2` | two scale downs: lowering the quorum is refused while Elasticsearch is down, and the node is deleted anyway |
| D18 | `SecretReachesPods` | `MaxEdits = 1`, `MaxPods = 2` | a pod of a scale up joins after the size was recorded and stands in for one that is down |
| D19 | `ScaledDownOwned` | `"slow"` | a node scaled to 0 is left so when its wait gives up in an unlucky moment |
| D20 | `OwnWatermarks`, if asked of every pass | `status_conditions` | watermarks that cannot be read leave the variables as they are, possibly another cluster's, after a restart unset; `status.go:330` logs "using defaults" |
| D21 | `UUIDsBlamedRightly` | `Fixed`, `"delete"`, `"recreate"` | a resource recreated during a reconcile is given the status of the old one (`cluster.go:385`), whose node names are not those of its UUIDs: it is refused with InvalidUUID (`util.go:316`) for good, valid as it is, until somebody deletes it or its status. In `reconciler`, where this happens too, `Converges` therefore asks that the Invalid condition agrees with `ValidConf`, names included |
| D22 | "no node is created for a specification that was not checked" | `reconciler` | the resource checked by `isValidConf` is replaced by the one read to record the verdict (`util.go:230`) |
| D28 | `TakenDownAlone` | `"lateError"` | `setPartition` fails and its error is ignored (`statefulset.go:286`), then a deletion is carried out but answered by an error (`statefulset.go:274`): the next reconcile begins at the old partition, still counts the pod that is terminating, and deletes another one |
| D29 | `TemplatesFollow` | `OneField = {}` | `_cat/templates/common.*` is asked for without `h=name` and only lines of one field are taken (`elasticsearch.go:539`, `:555`): no template is ever written, and indices get the count only from the pass after their creation |

Seen while modelling, and excepted by how a property is stated:

* D23. A node condition survives if nothing looks at it: those of a node without
  a pod, those about containers while the pod is unschedulable, the storage
  condition when thresholds are disabled or the usage is 0 %. A usage that
  `ParseQuantity` cannot read exceeds nothing and clears the storage condition,
  whatever its percentage (`status.go:385`, `:316`). Of several pods
  the last one decides. An answer without the allocation setting is reported as
  "all". A watermark in a unit `ParseQuantity` does not know becomes 0.
* D24. The binding for the proxy is cluster-scoped and has one name: its subject
  is the cluster reconciled last, and with its creator it goes for all.
* D25. The config map is written before the resource is checked, so settings of
  a resource that is refused are already in it.
* D26. A group that sets only a limit, below the common request, gets a request
  above its limit (`RequestsWithinLimits` excludes it).
* D27. A conflict of a role binding is wrapped and therefore not retried
  (`rbac.go:152`); the reconcile ends and the next one makes it good.

## Proofs

`RollingUpgradeProofs` proves, for every `N`, every set of templates, every
bound and, unless said otherwise, every set of hazards:

* `TypeCorrect`: `Spec => []TypeOK`. The only conjunct that is not immediate is
  the cluster size: `CountsInRange` derives it from the cardinality of subsets
  of `Node`.
* `StatusAlwaysConsistent`: `Spec => []StatusConsistent`. The property is not
  inductive: `EnableAllocation` records the phase `RecoveringData` without
  looking at `underUpgrade`. `StatusInv` adds that the status being edited is
  marked at every step between `CheckReplicaCount` and `CheckHealthAfter`.
* `PhasesAlwaysAdvance`: `Spec => PhaseAdvances`. A write replaces the recorded
  statuses of all nodes by those in memory, which may contain edits whose own
  write was lost. `OrderInv` says that memory is ahead of the record in the
  right direction for every node, that a node still to be worked on in this
  reconcile is as recorded, and that a restart is under way only for a node
  that is not recorded as recovering.
* `AllocationAlwaysOwned`: if no status write is lost and the operator is not
  restarted, `Spec => []AllocationOwned`. Without these two assumptions the
  property is false (D3). `AllocInv` adds that memory and record agree and that
  the phase of the status being edited fits the step.
* `RolloutsAreFinished`: `Spec => []NoLostRollout` if nothing is slow, no
  Kubernetes request fails, the operator is not restarted (`Steady`) and every
  template can be scheduled (otherwise D2 and D5); Elasticsearch requests and
  status writes may fail, secrets be rotated in a reconcile and pods die. The
  property speaks of paused
  Deployments only, and a Deployment left unpaused in a rollout would be paused
  by the next `create`. `RolloutInv` therefore says that no Deployment at all
  has a rollout under way outside the three steps that pause, unpause and wait
  for it, and that those recognise it by its revision. `OwnObject` is the
  object `getNodes` built, which the update writes.
* `ScaledDownAlwaysOwned`: `Spec => []ScaledDownOwned` if it is `Steady` and no
  status write is lost (with slow waits it is false, D19). A restart whose wait
  gave up leaves its node at 0 replicas. `ScaledInv` says why the next reconcile scales
  it up: it is recorded as under upgrade in a phase that begins again, its pod
  is gone, and `state` has seen no difference, so that `restart` is called and
  not `update`, which would not scale it.

The invariants behind the last two were checked by TLC on up to three nodes and
four edits first.

`RollingRestart` proves of itself, for any set of nodes,
`AtMostOneNodeMissing`: `Spec => []OneNodeMissing`. `Disable` and `Enable` do
not look at `missing`, so the invariant has to say that whatever is missing
belongs to the node whose turn it is, and that a turn begins with nothing
missing.

The second half of `RollingUpgradeProofs` proves what `RollingUpgrade` promises
when things go well, for every number of nodes, edits and secrets:

* `NodesLeaveWithAllocationOff`: `Spec => LeaveWithAllocationOff` if no
  Kubernetes call, wait or status write fails, the operator is not restarted,
  no pod dies by itself and every template can be scheduled (`Careful`).
  Elasticsearch requests may fail, the spec be edited and secrets rotated in any
  step. `LeaveInv` says that allocation is off from `DisableAllocation` until
  the pod of the node whose turn it is has gone, and that no other pod goes.
* `OneNodeAtATime` (`AtMostOneRestarting`), `RedeploysAreNoticed`
  (`NoMissedRedeploy`), `RedeploysAreNeeded` (`NoSpuriousRedeploy`) and
  `ImplementsRollingRestart` (`IsRollingRestart`): if nothing fails (`Calm`) and
  the spec is edited only when every Deployment has the template of the last
  edit (`EditsWait`). Without `EditsWait` the first is false (D1): an update
  whose edit was taken back waits for a rollout that never comes, and its turn
  does not end in the reconcile in which it began.
* `NoTwoNodesMissing`: the refinement and `AtMostOneNodeMissing` together. The
  shards of two nodes are never missing at once, so a shard with a replica
  always has a copy.
* `OneEditWaits`: with `MaxEdits <= 1` `EditsWait` holds in every behaviour,
  whatever fails. So the theorems cover all behaviours of `rolling_calm`, for
  any number of nodes and secrets.

The inductive invariant behind the last four points is `CalmInv`, on top of the
invariants of `RollingUpgradeProofs`: upgrades are scheduled only for
Deployments that differ (`PlanInv`); a first reconcile creates all nodes before
any is upgraded (`CreateInv`); a turn ends, at the latest with data recovery, in
the reconcile in which it began (`TurnInv`); from the first rotation on the
cluster is whole but for the node in its turn (`WholeInv`); a redeploy is
scheduled only for a node that remembers an older secret (`DueInv`), and a hash
is that of the pod's secret except while that pod is being replaced
(`SecretInv`). The parts need each other: that the wait for a rollout ends needs
that there is one, which needs that what was scheduled still differs. TLC
checked it for one and two nodes with three edits and three secrets before it
was proved.

`StatefulSetRollProofs`, for any number of pods:

* `TypeCorrect` and `InterruptedRollIsResumed` (`StatusConsistent`), under every
  hazard. Both follow from `RollInv`: the types, and that the status being
  edited is marked as under upgrade wherever its phase may be set.
* `PodsTakenDownAlone`: `Spec => TakenDownAlone` if the resource is not edited,
  the operator not restarted, Elasticsearch answers, no wait is given up early
  and a deletion answered by an error has deleted nothing (`Undisturbed`; with
  failing requests it is false, D8, and so it is with late errors, D28). All
  other writes may fail with or without effect, deletions without, and pods be
  back between two polls. `FixedPlan` says that with one
  template and one number of replicas nobody but the operator takes a pod;
  `AllThere` that a pod terminates only while the operator waits for it to
  leave, and that until then the recorded cluster size is met.
* `SecretsAreNoticed`: `Spec => []NoMissedRedeploy` if in addition nothing fails
  (`Calm`, which `sts_converges` satisfies), for any number of pods and secrets.
  `Wanted`: the replicas a reconcile writes are those asked for.
  `AtRest` and `RestartsOnly`: secrets are rotated in a cluster at rest, so the
  size recorded is that of the whole cluster and a restart ends in the
  reconcile in which it began. `TurnInv`: in its loop, the pods from the
  current ordinal up run on the new secret. So when the hash is taken over, at
  ordinal 0, all of them do.

`ClusterNodesProofs`, for any custom resources, lists of groups of any length,
policies and bounds:

* `TypeCorrect`: `Spec => []TypeOK`. That a node is named after a UUID that was
  drawn needs that `getNodes` has seen every group with one, and that nodes
  derived from groups carry their UUIDs; that the quorum and the replicas are
  numbers needs that counting roles yields one. The last two are facts about
  folds over lists (`NodesType`, `CountsType`). They are proved by the
  least-number principle, `LeastNumber`, which follows from the
  well-foundedness of the natural numbers: of the positions at which a
  recursively defined function had a wrong value, or could not be defined, take
  the smallest.
* `UsersAreBlamedRightly`: `Spec => []UUIDsBlamedRightly` if every UUID drawn is
  written (`MaxLost = 0`; otherwise D10) and no resource is recreated while its
  predecessor is worked on (`"recreate"` not in `Hazards`; otherwise D21; the
  next two theorems assume it as well). Conditions, statuses, creations and
  deletions may fail, the process may be restarted in any step, users edit,
  delete and recreate, and there may be any number of resources. A reconcile
  writes node names and conditions it has read or derived several requests ago,
  so `UuidInv` speaks of everything it may still write (the resource in memory,
  the copied status, the nodes still to be created): all of it is named after
  UUIDs that the resource has kept since.
* `MastersAreBounded`: `Spec => []MastersBounded` if every list has one group
  with both roles (`OneGroup`) and `MaxLost = 0` (otherwise D10), under every
  other hazard, with any number of resources, edits, deletions and restarts. Nothing
  deletes an object that a reconcile left over, so `ObjectsInv` says that
  whatever exists is one of the first three nodes of the group. `TodoInv` says
  why: the nodes to create may be too many, but then they are those of the
  resource in memory, whose number is checked before the first one is created.
  It is this second check that counts, since the first one may have seen another
  specification (D22). Several groups are outside: a group given up in an
  unlucky moment leaves nodes behind that nobody counts.
* `QuorumStaysReachable`: `Spec /\ ScalingWaits => []QuorumReachable` if in
  addition no group is scaled to zero (`NeverEmpty`) and Elasticsearch answers
  (`"es"` not in `Hazards`). `ScalingWaits`: the size of a group is changed only
  while the pods in Elasticsearch are those its objects ask for, and these are
  the first ones of the group (all of it, if a reconcile is under way); the
  policy may change at any time. Without any one of the three the property is
  false, as TLC shows: two quick changes (D15), a request that fails as the
  quorum is lowered, a size of zero read after the checks were made. The
  property is not inductive, since pods that are leaving are counted as
  masters: `Quorate` counts those that stay, and says that if there are pods or
  objects too many, every node that was asked for is up. `InFlight` relates the
  size the running reconcile works with to the one the resource has by now.
  Deletions in between, restarts and failing Kubernetes requests are allowed.
  The run `nodes_scaling` asks the complementary question: one change, at any
  moment.

`IndexReplicasProofs`, for any templates, indices and counts: `TypeCorrect`, and
`CleanPassIsComplete` (`NoneLeftBehind`), for any `OneField`: with none, which is
what Elasticsearch answers, it is about the open indices in the list of the pass;
for every template whose line is taken it adds the indices created from it.
`TemplatesServed` says which templates already hand out the count of the pass,
`IndicesServed` that an index the pass is through with has it; together they make
it matter that the templates are written before the indices are listed. That all
templates are written (`TemplatesFollow`) is false (D29).

`StatusConditionsProofs`, for any clusters, nodes, pods and settings:
`TypeCorrect`, and `JudgedByOwnWatermarks` (`OwnWatermarks`), for usages that can
be read. `MarksOfSeen` says that the four shared variables are what the setting read in this pass makes of
them.

`ReconcilerProofs`, for any specifications, retries and number of events:
`TypeCorrect`; `ChangesAreAnnounced` (`NotUnnoticed`), by `Announced`: between
the announcement and the update of the config map the resource says so, if it
is still the same one; `ProgressIsKept` (`NoLostProgress`), by `NotAhead`: from
`isValidConf` on the resource records no more than the operator has in memory.
Both rest on the invariant that a cached object whose informer is up to date is
the object, and on `ReconcileWrites`, which lists what a reconcile may write.

`PodResources` proves `AlwaysRequested` and `RequestsWithinLimits`, by cases on
what a group and the common settings leave out.

The proofs use the named assumptions of the modules on their constants, which
the runs evaluate, and facts of `FiniteSetTheorems`, `SequenceTheorems` and
`WellFoundedInduction`. The assumptions are about the form of the inputs only:
groups have a role and a count, pods a state, clusters there are, and bounds are
numbers. Conditions on what may fail are hypotheses of the theorems that need
them, and each is met by the run that checks the same property, except for
`ScalingWaits`. A preservation lemma has one step per action or per group of actions that leave
the variables in question alone (`QuietSteps`, `EnvironmentFrame`, the frame
steps `<1>b`).

Only model-checked:

* liveness (`Converges`, `SecretReachesPods`, `StatusBecomesTrue`, `HandsOff`),
  which is out of the prover's reach;
* `QuorumReachable` for a change of the size in any state (`nodes_scaling`).
  Several groups with the master role are in no run that checks `MastersBounded`
  or `QuorumReachable`, nor in the theorems;
* `IsRollingRestart` and the properties proved with it once users take
  an edit back: they fail (D1, D16).

## What is assumed, and what is left out

* In the modules about nodes, reads succeed and return the current objects, and
  a get-and-update with `RetryOnConflict` is one step. The cache that lags, and
  the conflicts that come of it, are in `Reconciler`, for the custom resource
  and the objects around the nodes.
* In `ClusterNodes` the replica count is written in one step; its requests are
  those of `IndexReplicas`.
* Elasticsearch ignores the second closing brace of the request in
  `updateIndexReplicas`, and refuses to change the replicas of a closed index.
* Deployments use the Recreate strategy, as the code creates them.
* Elasticsearch refuses a quorum its joined masters cannot meet, does not answer
  without a quorum, and loses transient settings with its last node.
* Unless `"fast"` is allowed, a poll sees a node leave before it rejoins.
* Deleting a custom resource deletes what it owns, its cluster included, and an
  object created for an owner that is gone is garbage collected. In
  `ClusterNodes` a resource is recreated only after the reconcile that was
  running for the old one, unless `"recreate"` is a hazard; in `Reconciler` at
  any time.
* Not modelled: the text of pod templates, config maps and rules; HTTP,
  certificates and the hashing of secrets; leader election, start-up and the
  registration of watches. They are construction of objects, input and output,
  or library code, and keep no state that the properties are about.

## Plan

Done: the modules above, the refinement of the rolling upgrade, the status, the
replicas and the reconcile with its cache; proofs of the invariants and action
properties that the passing runs check. Next:

1. Membership and upgrade composed: a scale up during a rolling restart.
2. A lagging cache for the Deployments.
3. The number of masters for several groups, with what a group given up leaves
   behind.
