------------------------ MODULE RollingUpgradeProofs ------------------------
(***************************************************************************)
(* Theorems about RollingUpgrade, for every number of nodes, every set of  *)
(* templates and every bound.                                              *)
(***************************************************************************)
EXTENDS RollingUpgrade, FiniteSetTheorems, TLAPS

-----------------------------------------------------------------------------
(* Facts about the operators the model is built from.                      *)

(* The node counts GetClusterNodeCount can return are cluster sizes: a
   count never exceeds the number of nodes the operator created.           *)
LEMMA CountsInRange ==
    ASSUME members \subseteq Node
    PROVE  Counts \subseteq 0..N
<1>1. IsFiniteSet(Node) /\ Cardinality(Node) = N
  BY FS_Interval, NAssumption DEF Node
<1>2. IsFiniteSet(members) /\ Cardinality(members) <= N
  BY <1>1, FS_Subset
<1>3. Cardinality(members) \in Nat
  BY <1>2, FS_CardinalityType
<1> QED
  BY <1>2, <1>3, NAssumption DEF Counts

(* Every update that update, restart and state make to a node's status
   yields a status.                                                        *)
LEMMA StatusUpdates ==
    ASSUME NEW s \in NodeStatus
    PROVE  /\ MarkUnderUpgrade(s) \in NodeStatus
           /\ AtNodeRestarting(s) \in NodeStatus
           /\ UpgradeDone(s) \in NodeStatus
           /\ [s EXCEPT !.phase = RecoveringData] \in NodeStatus
           /\ \A n \in Node : state(n, s) \in NodeStatus
           /\ \A c \in Cond : [s EXCEPT !.unsched = c] \in NodeStatus
BY DEF NodeStatus, MarkUnderUpgrade, AtNodeRestarting, UpgradeDone, state, Flag,
       Cond, Phase, NodeRestarting, RecoveringData, ControllerUpdated

\* a node the status does not list yet reads as a status, too (getNodeStatus)
LEMMA BlankIsStatus == BlankStatus \in NodeStatus
BY DEF BlankStatus, NodeStatus, Cond, Phase

(* What those updates do to the two fields the invariants speak of.        *)
LEMMA StatusFields ==
    ASSUME NEW s \in NodeStatus
    PROVE  /\ MarkUnderUpgrade(s).under = "True"
           /\ MarkUnderUpgrade(s).phase = s.phase
           /\ AtNodeRestarting(s).under = s.under
           /\ AtNodeRestarting(s).phase = NodeRestarting
           /\ UpgradeDone(s).under = ""
           /\ UpgradeDone(s).phase = ControllerUpdated
           /\ [s EXCEPT !.phase = RecoveringData].under = s.under
           /\ [s EXCEPT !.phase = RecoveringData].phase = RecoveringData
           /\ \A n \in Node : state(n, s).under = s.under /\ state(n, s).phase = s.phase
           /\ \A c \in Cond : /\ [s EXCEPT !.unsched = c].under = s.under
                              /\ [s EXCEPT !.unsched = c].phase = s.phase
BY DEF NodeStatus, MarkUnderUpgrade, AtNodeRestarting, UpgradeDone, state

(* update and restart always go on at one of their own steps.              *)
LEMMA AtPhaseStep ==
    ASSUME NEW m, NEW p \in Phase
    PROVE  /\ AtPhase(m, p) \in {"allocNone", "replicas", "unpause", "scale1", "health1"}
           /\ AtPhase(m, p) = "health1" <=> p = RecoveringData
BY DEF AtPhase, Phase, NodeRestarting, RecoveringData, ControllerUpdated

-----------------------------------------------------------------------------
(* Type correctness.                                                       *)

\* a reconcile that returns leaves its locals in states they can have
LEMMA ReturnType ==
    ASSUME TypeOK, Return, cr' \in [Node -> NodeStatus]
    PROVE  /\ pc' \in PC /\ mode' \in {"update", "restart", "create"}
           /\ cur' \in Node /\ todo' \subseteq Node
           /\ ns' \in NodeStatus /\ st' \in [Node -> NodeStatus]
           /\ desired' \in Template /\ self' \in Template
BY BlankIsStatus, NAssumption DEF Return, PC, Node, Template, TypeOK

\* TypeOK is inductive: one step per action, grouped by what they write
LEMMA TypeStep == TypeOK /\ [Next]_vars => TypeOK'
<1> SUFFICES ASSUME TypeOK, [Next]_vars PROVE TypeOK'
  OBVIOUS
<1> USE NAssumption, TmplsAssumption, BoundsAssumption
<1> USE DEF Template
<1>1. CASE StartReconcile
  BY <1>1 DEF TypeOK, StartReconcile, getNodes, reconcileFrame, user, kube, es, mem, PC
<1>2. CASE \E n \in Node : progressUnshedulableNode(n)
  BY <1>2 DEF TypeOK, progressUnshedulableNode, reconcileFrame, user, kube, es, mem, PC
<1>3. CASE \E n \in Node : NextNode(n)
  <2>1. PICK n \in Node : NextNode(n)
    BY <1>3
  <2>2. st[n] \in NodeStatus /\ st[n].phase \in Phase
    BY DEF TypeOK, NodeStatus
  <2>3. pc' \in PC
    BY <2>1, <2>2, AtPhaseStep DEF NextNode, Entry, PC
  <2> QED
    BY <2>1, <2>2, <2>3 DEF TypeOK, NextNode, reconcileFrame, user, kube, es, mem
<1>4. CASE UnschedExecute
  BY <1>4 DEF TypeOK, UnschedExecute, unschedFrame, executeUpdate, FailedWrite, user, es, PC
<1>5. CASE UnschedUnpause
  BY <1>5 DEF TypeOK, UnschedUnpause, unschedFrame, setPaused, FailedWrite, user, es, PC
<1>6. CASE UnschedWait
  BY <1>6 DEF TypeOK, UnschedWait, unschedFrame, user, es, kube, PC
<1>7. CASE UnschedPause
  BY <1>7 DEF TypeOK, UnschedPause, unschedFrame, setPaused, FailedWrite, user, es, PC
<1>8. CASE CreateOrUpdateElasticsearchCluster
  BY <1>8 DEF TypeOK, CreateOrUpdateElasticsearchCluster, SelectNodes, getScheduledUpgradeNodes,
              getScheduledRedeployOnlyNodes, reconcileFrame, user, kube, es, mem, PC
<1>9. CASE UpdateNodeStatus
  <2>1. state(cur, ns) \in NodeStatus
    BY StatusUpdates DEF TypeOK
  <2>2. st' \in [Node -> NodeStatus]
    BY <1>9, <2>1 DEF TypeOK, UpdateNodeStatus
  <2>3. cr' \in [Node -> NodeStatus]
    BY <1>9, <2>2 DEF TypeOK, UpdateNodeStatus, SaveStatus
  <2> QED
    BY <1>9, <2>2, <2>3 DEF TypeOK, UpdateNodeStatus, reconcileFrame, user, kube, es, mem, PC
<1>10. CASE UpdateClusterStatus
  <2> DEFINE new == [n \in Node |-> [st[n] EXCEPT !.unsched = PodCondition(n)]]
  <2>1. \A n \in Node : PodCondition(n) \in Cond
    BY DEF TypeOK, PodCondition, NodeStatus, Flag, Cond
  <2>2. new \in [Node -> NodeStatus]
    BY <2>1, StatusUpdates DEF TypeOK
  <2>3. cr' \in [Node -> NodeStatus]
    BY <1>10, <2>2 DEF TypeOK, UpdateClusterStatus, SaveStatus
  <2> QED
    BY <1>10, <2>3, ReturnType DEF TypeOK, UpdateClusterStatus, reconcileFrame, user, kube, es, mem
<1>11. CASE RecheckConfFails
  BY <1>11, ReturnType DEF TypeOK, RecheckConfFails, createFrame, user, kube, es
<1>12. CASE Create
  <2>1. /\ tmpl' \in [Node -> Template] /\ paused' \subseteq Node
        /\ replicas' \in [Node -> 0..1]
    BY <1>12 DEF TypeOK, Create, Created
  <2>2. CASE Return
    BY <1>12, <2>1, <2>2, ReturnType DEF TypeOK, Create, createFrame, user, es
  <2>3. CASE pc' = "initWait" /\ UNCHANGED <<mode, cur, todo, ns, st, desired, self>>
    BY <1>12, <2>1, <2>3 DEF TypeOK, Create, createFrame, user, es, PC
  <2> QED
    BY <1>12, <2>2, <2>3 DEF Create
<1>13. CASE CreateAlreadyExists
  BY <1>13 DEF TypeOK, CreateAlreadyExists, stepFrame, user, kube, es, mem, PC
<1>14. CASE WaitForInitialRollout
  <2>1. CASE Return /\ UNCHANGED hash
    BY <1>14, <2>1, ReturnType DEF TypeOK, WaitForInitialRollout, createFrame, user, kube, es
  <2>2. CASE refreshHashes /\ self' = tmpl[cur] /\ pc' = "createPause"
             /\ UNCHANGED <<mode, cur, todo, ns, st, desired>>
    BY <1>14, <2>2 DEF TypeOK, WaitForInitialRollout, createFrame, refreshHashes, user, kube, es, PC
  <2> QED
    BY <1>14, <2>1, <2>2 DEF WaitForInitialRollout
<1>15. CASE CreatePause
  <2>1. paused' \subseteq Node
    BY <1>15 DEF TypeOK, CreatePause, FailedWrite
  <2>2. CASE Return
    BY <1>15, <2>1, <2>2, ReturnType DEF TypeOK, CreatePause, createFrame, user, es
  <2>3. CASE pc' = "state" /\ UNCHANGED <<mode, cur, todo, ns, st, desired, self>>
    BY <1>15, <2>1, <2>3 DEF TypeOK, CreatePause, createFrame, user, es, PC
  <2> QED
    BY <1>15, <2>2, <2>3 DEF CreatePause
<1>16. CASE CheckHealthBefore
  BY <1>16 DEF TypeOK, CheckHealthBefore, stepFrame, user, kube, es, mem, PC
<1>17. CASE RecordClusterSize
  <2>1. ns.phase \in Phase /\ AtPhase(mode, ns.phase) \in PC
    BY AtPhaseStep DEF TypeOK, NodeStatus, PC
  <2>2. ns' \in NodeStatus
    BY <1>17, StatusUpdates DEF TypeOK, RecordClusterSize
  <2>3. size' \in [Node -> 0..N]
    BY <1>17, CountsInRange DEF TypeOK, RecordClusterSize
  <2> QED
    BY <1>17, <2>1, <2>2, <2>3 DEF TypeOK, RecordClusterSize, stepFrame, user, kube, es, PC
<1>18. CASE CheckReplicaCount
  BY <1>18, StatusUpdates DEF TypeOK, CheckReplicaCount, stepFrame, user, kube, es, mem, PC
<1>19. CASE DisableAllocation
  BY <1>19 DEF TypeOK, DisableAllocation, SetShardAllocation, stepFrame, user, kube, mem, PC
<1>20. CASE ExecuteUpdate
  BY <1>20, StatusUpdates DEF TypeOK, ExecuteUpdate, executeUpdate, FailedWrite, stepFrame, user, es, PC
<1>21. CASE Unpause
  BY <1>21 DEF TypeOK, Unpause, setPaused, FailedWrite, stepFrame, user, es, mem, PC
<1>22. CASE WaitForNodeRollout
  BY <1>22 DEF TypeOK, WaitForNodeRollout, stepFrame, user, kube, es, mem, PC
<1>23. CASE PauseAgain
  BY <1>23 DEF TypeOK, PauseAgain, setPaused, FailedWrite, refreshHashes, stepFrame, user, es, PC
<1>24. CASE ScaleDownNode
  BY <1>24 DEF TypeOK, ScaleDownNode, setReplicaCount, FailedWrite, stepFrame, user, es, mem, PC
<1>25. CASE WaitForNodeLeaveCluster
  BY <1>25, StatusUpdates DEF TypeOK, WaitForNodeLeaveCluster, stepFrame, user, kube, es, mem, PC
<1>26. CASE ScaleUpNode
  BY <1>26 DEF TypeOK, ScaleUpNode, setReplicaCount, FailedWrite, stepFrame, user, es, mem, PC
<1>27. CASE WaitForNodeRejoinCluster
  BY <1>27 DEF TypeOK, WaitForNodeRejoinCluster, refreshHashes, stepFrame, user, kube, es, PC
<1>28. CASE EnableAllocation
  BY <1>28, StatusUpdates DEF TypeOK, EnableAllocation, SetShardAllocation, stepFrame, user, kube, mem, PC
<1>29. CASE CheckHealthAfter
  BY <1>29, StatusUpdates DEF TypeOK, CheckHealthAfter, stepFrame, user, kube, es, mem, PC
<1>30. CASE \E t \in Tmpls : EditSpec(t)
  BY <1>30 DEF TypeOK, EditSpec, envFrame, mem, local, kube, es
<1>31. CASE RotateSecret
  BY <1>31 DEF TypeOK, RotateSecret, envFrame, mem, local, kube, es
<1>32. CASE \E n \in Node : Platform(n) \/ PodDies(n)
  <2> PICK n \in Node : Platform(n) \/ PodDies(n)
    BY <1>32
  <2> USE DEF podFrame, envFrame, user, mem, local
  <2>1. ASSUME StopPod(n)
        PROVE  /\ pod' \in [Node -> Template] /\ members' \subseteq Node
               /\ dirty' \subseteq Node /\ alloc' \in {"all", "none"}
    BY <2>1 DEF TypeOK, StopPod
  <2>2. CASE KillOldPod(n) \/ ScaleDownPod(n) \/ PodDies(n)
    BY <2>1, <2>2 DEF TypeOK, KillOldPod, ScaleDownPod, PodDies
  <2>3. CASE CreateReplicaSet(n)
    BY <2>3 DEF TypeOK, CreateReplicaSet, es
  <2>4. CASE StartPod(n)
    BY <2>4 DEF TypeOK, StartPod, es
  <2>5. CASE JoinCluster(n)
    BY <2>5 DEF TypeOK, JoinCluster
  <2>6. CASE RecoverShards(n)
    BY <2>6 DEF TypeOK, RecoverShards
  <2> QED
    BY <2>2, <2>3, <2>4, <2>5, <2>6 DEF Platform
<1>33. CASE OperatorRestart
  BY <1>33, ReturnType DEF TypeOK, OperatorRestart, reconcileFrame, user, kube, es
<1>34. CASE UNCHANGED vars
  BY <1>34 DEF TypeOK, vars, user, kube, es, mem, local
<1> QED
  BY <1>1, <1>2, <1>3, <1>4, <1>5, <1>6, <1>7, <1>8, <1>9, <1>10, <1>11, <1>12, <1>13, <1>14,
     <1>15, <1>16, <1>17, <1>18, <1>19, <1>20, <1>21, <1>22, <1>23, <1>24, <1>25, <1>26, <1>27,
     <1>28, <1>29, <1>30, <1>31, <1>32, <1>33, <1>34 DEF Next, Operator, Environment

(* Every variable keeps its type: in particular the cluster size a node
   remembers is a count of nodes, whatever GetClusterNodeCount returned,
   and every path through update and restart ends at a step of theirs.     *)
THEOREM TypeCorrect == Spec => []TypeOK
<1>1. Init => TypeOK
  BY NAssumption, BoundsAssumption, BlankIsStatus DEF Init, TypeOK, Node, Template, PC
<1> QED
  BY <1>1, TypeStep, PTL DEF Spec

-----------------------------------------------------------------------------
(* The status of a node under upgrade, whatever goes wrong.                *)

\* the steps of update and restart after the node was marked under upgrade,
\* and those of them before it recovers its data
UnderSteps == {"replicas", "allocNone", "exec", "unpause", "waitRollout", "pause", "scale0",
               "waitLeave", "scale1", "waitRejoin", "allocAll", "health1"}
RestartSteps == UnderSteps \ {"health1"}

(* StatusConsistent is not inductive: a step of update only knows that the
   status it edits is marked because every way to reach the step marks it. *)
StatusInv ==
    /\ \A n \in Node : WellFormed(cr[n]) /\ WellFormed(st[n])
    /\ WellFormed(ns)
    /\ pc \in UnderSteps => ns.under = "True"

(* For PhaseAdvances: the status in memory is ahead of the recorded one by
   at most the node that was worked on since the last successful write, and
   a node is worked on once per reconcile, starting from what is recorded. *)
OrderInv ==
    /\ \A n \in Node : Follows(cr[n], st[n])
    /\ pc \in {"unsched", "uExec", "uUnpause", "uWait", "uPause"} => st = cr
    /\ pc \in Working \cup {"next"} => \A n \in todo : st[n] = cr[n]
    /\ pc \in Working => Follows(cr[cur], ns) /\ cur \notin todo
    /\ pc \in {"health0", "size0"} => ns = cr[cur] /\ ns.under # "True"
    /\ pc \in RestartSteps => cr[cur].phase # RecoveringData

(* For AllocationOwned, while no status is lost: memory and custom resource
   agree, and the status being edited agrees with the step of update.      *)
AllocInv ==
    /\ st = cr
    /\ pc \in {"create", "initWait", "createPause"} => ns = st[cur]
    /\ pc \in {"health0", "size0"} => ns.under # "True"
    /\ pc \in RestartSteps => ns.phase # RecoveringData
    /\ pc = "health1" => ns.phase = RecoveringData
    /\ AllocationOwned

\* steps of the operator that move on without touching a status: neither the
\* custom resource nor what is in memory
LEMMA QuietSteps ==
    ASSUME \/ CreateAlreadyExists \/ CheckHealthBefore
           \/ DisableAllocation \/ Unpause \/ WaitForNodeRollout \/ PauseAgain
           \/ ScaleDownNode \/ ScaleUpNode \/ WaitForNodeRejoinCluster
    PROVE  UNCHANGED <<cr, st, ns, cur, todo>>
BY DEF CreateAlreadyExists, CheckHealthBefore, DisableAllocation, Unpause, WaitForNodeRollout,
       PauseAgain, ScaleDownNode, ScaleUpNode, WaitForNodeRejoinCluster, stepFrame

\* where those steps lead: only CheckHealthBefore comes before the mark
LEMMA QuietTargets ==
    ASSUME \/ DisableAllocation \/ Unpause \/ WaitForNodeRollout \/ PauseAgain
           \/ ScaleDownNode \/ ScaleUpNode \/ WaitForNodeRejoinCluster
    PROVE  pc \in RestartSteps /\ pc' \in RestartSteps \cup {"state"}
BY DEF DisableAllocation, Unpause, setPaused, WaitForNodeRollout, PauseAgain, ScaleDownNode,
       ScaleUpNode, setReplicaCount, WaitForNodeRejoinCluster, RestartSteps, UnderSteps

\* the environment touches no state of the operator
LEMMA EnvironmentFrame ==
    ASSUME NEW n \in Node,
           \/ \E t \in Tmpls : EditSpec(t)
           \/ RotateSecret \/ Platform(n) \/ PodDies(n)
    PROVE  UNCHANGED <<cr, local>> /\ (alloc' = alloc \/ alloc' = "all")
BY DEF EditSpec, RotateSecret, Platform, PodDies, KillOldPod, CreateReplicaSet, ScaleDownPod,
       StartPod, JoinCluster, RecoverShards, StopPod, podFrame, envFrame, es

\* the unschedulable nodes are progressed without touching a status
LEMMA UnschedSteps ==
    ASSUME \/ UnschedExecute \/ UnschedUnpause \/ UnschedWait \/ UnschedPause
           \/ \E n \in Node : progressUnshedulableNode(n)
    PROVE  /\ UNCHANGED <<cr, st, ns, alloc>>
           /\ pc \in {"unsched", "uExec", "uUnpause", "uWait", "uPause"}
           /\ pc' \in {"unsched", "uExec", "uUnpause", "uWait", "uPause"}
BY DEF UnschedExecute, UnschedUnpause, UnschedWait, UnschedPause, setPaused,
       progressUnshedulableNode, unschedFrame, reconcileFrame, es

\* StatusInv is inductive, relative to TypeOK
LEMMA StatusStep == TypeOK /\ StatusInv /\ [Next]_vars => StatusInv'
<1> SUFFICES ASSUME TypeOK, StatusInv, [Next]_vars PROVE StatusInv'
  OBVIOUS
<1> USE DEF WellFormed, UnderSteps
<1>a. /\ ns \in NodeStatus /\ ns.phase \in Phase /\ cur \in Node
      /\ cr \in [Node -> NodeStatus] /\ st \in [Node -> NodeStatus]
  BY DEF TypeOK, NodeStatus
<1>b. WellFormed(BlankStatus)
  BY DEF BlankStatus, NodeRestarting, RecoveringData
<1>c. NodeRestarting # RecoveringData /\ ControllerUpdated \notin {NodeRestarting, RecoveringData}
  BY DEF NodeRestarting, RecoveringData, ControllerUpdated
<1>d. ASSUME Return, UNCHANGED cr PROVE StatusInv'
  BY <1>b, <1>d DEF StatusInv, Return
<1>1. CASE StartReconcile
  BY <1>1 DEF StatusInv, StartReconcile
<1>2. CASE \/ UnschedExecute \/ UnschedUnpause \/ UnschedWait \/ UnschedPause
           \/ \E n \in Node : progressUnshedulableNode(n)
  BY <1>2, UnschedSteps DEF StatusInv
<1>3. CASE CreateOrUpdateElasticsearchCluster
  BY <1>3 DEF StatusInv, CreateOrUpdateElasticsearchCluster
<1>4. CASE \E n \in Node : NextNode(n)
  <2> PICK n \in Node : NextNode(n)
    BY <1>4
  <2>1. pc' \in UnderSteps => st[n].under = "True"
    BY DEF NextNode, Entry
  <2> QED
    BY <2>1 DEF StatusInv, NextNode
<1>5. CASE UpdateNodeStatus
  <2>1. WellFormed(state(cur, ns))
    BY <1>a, StatusFields DEF StatusInv
  <2>2. \A n \in Node : WellFormed(st'[n])
    BY <1>5, <1>a, <2>1 DEF StatusInv, UpdateNodeStatus
  <2> QED
    BY <1>5, <2>2 DEF StatusInv, UpdateNodeStatus, SaveStatus
<1>6. CASE UpdateClusterStatus
  <2>1. \A n \in Node : PodCondition(n) \in Cond
    BY DEF TypeOK, PodCondition, NodeStatus, Flag, Cond
  <2>2. \A n \in Node : WellFormed([st[n] EXCEPT !.unsched = PodCondition(n)])
    <3> TAKE n \in Node
    <3> DEFINE s == st[n]
    <3>1. s \in NodeStatus /\ WellFormed(s)
      BY <1>a DEF StatusInv
    <3>2. WellFormed([s EXCEPT !.unsched = PodCondition(n)])
      BY <3>1, <2>1, StatusFields
    <3> QED
      BY <3>2
  <2>3. \A n \in Node : WellFormed(cr'[n])
    BY <1>6, <2>2 DEF StatusInv, UpdateClusterStatus, SaveStatus
  <2> QED
    BY <1>6, <1>b, <2>3 DEF StatusInv, UpdateClusterStatus, Return
<1>7. CASE RecheckConfFails \/ Create \/ WaitForInitialRollout \/ CreatePause
  <2>1. UNCHANGED cr
    BY <1>7 DEF RecheckConfFails, Create, WaitForInitialRollout, CreatePause, createFrame
  <2>2. \/ Return
        \/ UNCHANGED <<st, ns>> /\ pc' \in {"initWait", "createPause", "state"}
    BY <1>7 DEF RecheckConfFails, Create, WaitForInitialRollout, CreatePause
  <2> QED
    BY <2>1, <2>2, <1>d DEF StatusInv
<1>8. CASE CreateAlreadyExists \/ CheckHealthBefore
  BY <1>8, QuietSteps DEF StatusInv, CreateAlreadyExists, CheckHealthBefore
<1>9. CASE \/ DisableAllocation \/ Unpause \/ WaitForNodeRollout \/ PauseAgain
           \/ ScaleDownNode \/ ScaleUpNode \/ WaitForNodeRejoinCluster
  BY <1>9, QuietSteps, QuietTargets DEF StatusInv, RestartSteps
<1>10. CASE RecordClusterSize
  BY <1>10, <1>a, StatusFields DEF StatusInv, RecordClusterSize, stepFrame
<1>11. CASE CheckReplicaCount
  BY <1>11, <1>a, StatusFields DEF StatusInv, CheckReplicaCount, stepFrame
<1>12. CASE ExecuteUpdate
  BY <1>12, <1>a, StatusFields DEF StatusInv, ExecuteUpdate, stepFrame
<1>13. CASE WaitForNodeLeaveCluster
  BY <1>13, <1>a, StatusFields DEF StatusInv, WaitForNodeLeaveCluster, stepFrame
<1>14. CASE EnableAllocation
  BY <1>14, <1>a, StatusFields DEF StatusInv, EnableAllocation, stepFrame
<1>15. CASE CheckHealthAfter
  <2>1. UpgradeDone(ns).phase = ControllerUpdated
    BY <1>a, StatusFields
  <2>2. UNCHANGED <<cr, st>> /\ pc' = "state" /\ (ns' = ns \/ ns' = UpgradeDone(ns))
    BY <1>15 DEF CheckHealthAfter, stepFrame
  <2> QED
    BY <1>c, <2>1, <2>2 DEF StatusInv
<1>16. CASE OperatorRestart
  BY <1>16, <1>d DEF OperatorRestart
<1>17. CASE Environment /\ ~OperatorRestart
  BY <1>17, <1>a, EnvironmentFrame DEF StatusInv, Environment, local
<1>18. CASE UNCHANGED vars
  BY <1>18 DEF StatusInv, vars, local
<1> QED
  BY <1>1, <1>2, <1>3, <1>4, <1>5, <1>6, <1>7, <1>8, <1>9, <1>10, <1>11, <1>12, <1>13, <1>14,
     <1>15, <1>16, <1>17, <1>18 DEF Next, Operator, Environment

\* a cluster that has not been reconciled has no node in any phase
LEMMA StatusInit == Init => StatusInv
<1>1. WellFormed(BlankStatus)
  BY DEF WellFormed, BlankStatus, NodeRestarting, RecoveringData
<1> QED
  BY <1>1 DEF Init, StatusInv, UnderSteps

(* Whatever fails - writes, Elasticsearch, pods, the operator itself - no
   node is ever recorded in the middle of an upgrade without being marked
   under upgrade, so getNodeUpgradeInProgress always finds it again.       *)
THEOREM StatusAlwaysConsistent == Spec => []StatusConsistent
<1>1. Init => StatusInv
  BY StatusInit
<1>2. StatusInv => StatusConsistent
  BY DEF StatusInv, StatusConsistent, Current
<1> QED
  BY <1>1, <1>2, TypeCorrect, StatusStep, PTL DEF Spec

-----------------------------------------------------------------------------
(* The order of the phases, whatever goes wrong.                           *)

\* a write that changes nothing keeps the order of the phases
LEMMA FollowsItself == \A s : Follows(s, s)
BY DEF Follows, NodeRestarting, RecoveringData, ControllerUpdated

\* only the two writes of the custom resource change it
LEMMA WritersOfStatus ==
    ASSUME TypeOK, [Next]_vars, ~UpdateNodeStatus, ~UpdateClusterStatus
    PROVE  UNCHANGED cr
<1>1. CASE \/ StartReconcile \/ CreateOrUpdateElasticsearchCluster
           \/ \E n \in Node : NextNode(n)
           \/ OperatorRestart \/ UNCHANGED vars
  BY <1>1 DEF StartReconcile, CreateOrUpdateElasticsearchCluster, NextNode, OperatorRestart, vars
<1>2. CASE \/ UnschedExecute \/ UnschedUnpause \/ UnschedWait \/ UnschedPause
           \/ \E n \in Node : progressUnshedulableNode(n)
  BY <1>2, UnschedSteps
<1>3. CASE RecheckConfFails \/ Create \/ WaitForInitialRollout \/ CreatePause
  BY <1>3 DEF RecheckConfFails, Create, WaitForInitialRollout, CreatePause, createFrame
<1>4. CASE \/ CreateAlreadyExists \/ CheckHealthBefore
           \/ DisableAllocation \/ Unpause \/ WaitForNodeRollout \/ PauseAgain
           \/ ScaleDownNode \/ ScaleUpNode \/ WaitForNodeRejoinCluster
  BY <1>4, QuietSteps
<1>5. CASE \/ RecordClusterSize \/ CheckReplicaCount \/ ExecuteUpdate
           \/ WaitForNodeLeaveCluster \/ EnableAllocation \/ CheckHealthAfter
  BY <1>5 DEF RecordClusterSize, CheckReplicaCount, ExecuteUpdate, WaitForNodeLeaveCluster,
              EnableAllocation, CheckHealthAfter, stepFrame
<1>6. CASE Environment /\ ~OperatorRestart
  <2>1. cur \in Node
    BY DEF TypeOK
  <2> QED
    BY <1>6, <2>1, EnvironmentFrame DEF Environment
<1> QED
  BY <1>1, <1>2, <1>3, <1>4, <1>5, <1>6 DEF Next, Operator, Environment

\* what update and restart do to the status of the node they work on
LEMMA StepsOnStatus ==
    ASSUME TypeOK, StatusInv, OrderInv,
           \/ RecordClusterSize \/ CheckReplicaCount \/ ExecuteUpdate
           \/ WaitForNodeLeaveCluster \/ EnableAllocation \/ CheckHealthAfter
    PROVE  /\ UNCHANGED <<cr, st, cur, todo>>
           /\ pc \in Working /\ pc' \in UnderSteps \cup {"state"}
           /\ Follows(cr[cur], ns')
           /\ pc' \in RestartSteps => cr[cur].phase # RecoveringData
<1>a. /\ ns \in NodeStatus /\ ns.phase \in Phase /\ cur \in Node
      /\ cr[cur] \in NodeStatus /\ cr[cur].phase \in Phase
  BY DEF TypeOK, NodeStatus
<1> USE DEF UnderSteps, RestartSteps, Working
<1> USE DEF Phase, NodeRestarting, RecoveringData, ControllerUpdated
<1>1. CASE RecordClusterSize
  <2>1. /\ UNCHANGED <<cr, st, cur, todo>> /\ pc = "size0"
        /\ \/ ns' = ns /\ pc' = "state"
           \/ ns' = MarkUnderUpgrade(ns) /\ pc' = AtPhase(mode, ns.phase)
    BY <1>1 DEF RecordClusterSize, stepFrame
  <2>2. ns = cr[cur] /\ ns.under # "True" /\ ns.phase # RecoveringData
    BY <2>1 DEF OrderInv, StatusInv, WellFormed
  <2>3. CASE ns' = ns /\ pc' = "state"
    BY <2>1, <2>2, <2>3, FollowsItself
  <2>4. CASE ns' = MarkUnderUpgrade(ns) /\ pc' = AtPhase(mode, ns.phase)
    <3>1. ns'.under = "True" /\ ns'.phase = ns.phase
      BY <2>4, <1>a, StatusFields
    <3>2. Follows(cr[cur], ns')
      BY <2>2, <3>1 DEF Follows
    <3> QED
      BY <2>1, <2>2, <2>4, <3>2, <1>a, AtPhaseStep
  <2> QED
    BY <2>1, <2>3, <2>4
<1>2. CASE CheckReplicaCount \/ ExecuteUpdate \/ WaitForNodeLeaveCluster
  <2>1. /\ UNCHANGED <<cr, st, cur, todo>> /\ pc \in RestartSteps
        /\ pc' \in RestartSteps \cup {"state"}
        /\ ns' = ns \/ ns' = AtNodeRestarting(ns)
    BY <1>2 DEF CheckReplicaCount, ExecuteUpdate, WaitForNodeLeaveCluster, stepFrame
  <2>2. cr[cur].phase # RecoveringData /\ Follows(cr[cur], ns) /\ ns.under = "True"
    BY <2>1 DEF OrderInv, StatusInv
  <2>3. AtNodeRestarting(ns).under = ns.under /\ AtNodeRestarting(ns).phase = NodeRestarting
    BY <1>a, StatusFields
  <2>4. Follows(cr[cur], AtNodeRestarting(ns))
    BY <2>2, <2>3 DEF Follows
  <2> QED
    BY <2>1, <2>2, <2>4
<1>3. CASE EnableAllocation
  <2> DEFINE r == [ns EXCEPT !.phase = RecoveringData]
  <2>1. /\ UNCHANGED <<cr, st, cur, todo>> /\ pc = "allocAll"
        /\ pc' \in {"health1", "state"} /\ (ns' = ns \/ ns' = r)
    BY <1>3 DEF EnableAllocation, stepFrame
  <2>2. Follows(cr[cur], ns) /\ ns.under = "True"
    BY <2>1 DEF OrderInv, StatusInv
  <2>3. r.under = ns.under /\ r.phase = RecoveringData
    BY <1>a, StatusFields
  <2>4. Follows(cr[cur], r)
    BY <2>2, <2>3 DEF Follows
  <2> HIDE DEF r
  <2> QED
    BY <2>1, <2>2, <2>4
<1>4. CASE CheckHealthAfter
  <2>1. /\ UNCHANGED <<cr, st, cur, todo>> /\ pc = "health1" /\ pc' = "state"
        /\ ns' = ns \/ ns' = UpgradeDone(ns)
    BY <1>4 DEF CheckHealthAfter, stepFrame
  <2>2. Follows(cr[cur], ns)
    BY <2>1 DEF OrderInv
  <2>3. UpgradeDone(ns).phase = ControllerUpdated
    BY <1>a, StatusFields
  <2>4. Follows(cr[cur], UpgradeDone(ns))
    BY <2>3 DEF Follows
  <2> QED
    BY <2>1, <2>2, <2>4
<1> QED
  BY <1>1, <1>2, <1>3, <1>4

\* the writes of the custom resource record what is in memory
LEMMA StatusWrites ==
    ASSUME TypeOK, OrderInv, UpdateNodeStatus \/ UpdateClusterStatus
    PROVE  \A n \in Node : Follows(cr[n], cr'[n]) /\ Follows(cr'[n], st'[n])
<1>a. /\ ns \in NodeStatus /\ cur \in Node
      /\ cr \in [Node -> NodeStatus] /\ st \in [Node -> NodeStatus]
  BY DEF TypeOK
<1>1. CASE UpdateNodeStatus
  <2>1. Follows(cr[cur], ns)
    BY <1>1 DEF UpdateNodeStatus, OrderInv, Working
  <2>2. Follows(cr[cur], state(cur, ns))
    BY <1>a, <2>1, StatusFields DEF Follows
  <2>3. \A n \in Node : Follows(cr[n], st'[n])
    BY <1>1, <1>a, <2>2 DEF UpdateNodeStatus, OrderInv
  <2> QED
    BY <1>1, <2>3, FollowsItself DEF UpdateNodeStatus, SaveStatus
<1>2. CASE UpdateClusterStatus
  <2> DEFINE new == [n \in Node |-> [st[n] EXCEPT !.unsched = PodCondition(n)]]
  <2>1. ASSUME NEW n \in Node PROVE Follows(cr[n], new[n])
    <3> DEFINE s == st[n]
    <3>1. PodCondition(n) \in Cond
      BY DEF TypeOK, PodCondition, NodeStatus, Flag, Cond
    <3>2. s \in NodeStatus /\ Follows(cr[n], s)
      BY <1>a DEF OrderInv
    <3>3. Follows(cr[n], [s EXCEPT !.unsched = PodCondition(n)])
      BY <3>1, <3>2, StatusFields DEF Follows
    <3> QED
      BY <3>3
  <2>2. (cr' = new \/ cr' = cr) /\ st' = cr'
    BY <1>2 DEF UpdateClusterStatus, SaveStatus, Return
  <2> HIDE DEF new
  <2> QED
    BY <2>1, <2>2, FollowsItself
<1> QED
  BY <1>1, <1>2

\* OrderInv is inductive: what is in memory always follows what is recorded
LEMMA OrderStep == TypeOK /\ StatusInv /\ OrderInv /\ [Next]_vars => OrderInv'
<1> SUFFICES ASSUME TypeOK, StatusInv, OrderInv, [Next]_vars PROVE OrderInv'
  OBVIOUS
<1> USE DEF UnderSteps, RestartSteps, Working
<1>a. /\ cur \in Node /\ cr \in [Node -> NodeStatus] /\ st \in [Node -> NodeStatus]
  BY DEF TypeOK
<1>b. ASSUME Return, \A n \in Node : Follows(cr'[n], st'[n]) PROVE OrderInv'
  BY <1>b DEF OrderInv, Return
<1>1. CASE StartReconcile
  BY <1>1, FollowsItself DEF OrderInv, StartReconcile
<1>2. CASE \/ UnschedExecute \/ UnschedUnpause \/ UnschedWait \/ UnschedPause
           \/ \E n \in Node : progressUnshedulableNode(n)
  BY <1>2, UnschedSteps DEF OrderInv
<1>3. CASE CreateOrUpdateElasticsearchCluster
  BY <1>3 DEF OrderInv, CreateOrUpdateElasticsearchCluster
<1>4. CASE \E n \in Node : NextNode(n)
  <2> PICK n \in Node : NextNode(n)
    BY <1>4
  <2>1. /\ UNCHANGED <<cr, st>> /\ cur' = n /\ todo' = todo \ {n} /\ ns' = st[n]
        /\ n \in todo /\ pc = "next" /\ pc' = Entry(mode, st[n])
    BY DEF NextNode, IsFirst
  <2>2. st[n] = cr[n] /\ \A m \in todo : st[m] = cr[m]
    BY <2>1 DEF OrderInv
  <2>3. st[n].phase \in Phase
    BY <1>a DEF NodeStatus
  <2>4. /\ pc' \in {"health0", "size0"} => st[n].under # "True"
        /\ pc' \in RestartSteps => st[n].phase # RecoveringData
        /\ pc' \in Working
    BY <2>1, <2>3, AtPhaseStep DEF Entry
  <2> QED
    BY <2>1, <2>2, <2>4, FollowsItself DEF OrderInv
<1>5. CASE UpdateNodeStatus
  <2>1. pc = "state" /\ pc' = "next" /\ UNCHANGED <<todo, cur>> /\ cur \notin todo
    BY <1>5 DEF UpdateNodeStatus, OrderInv
  <2>2. \A n \in todo : st'[n] = cr'[n]
    <3>1. \A n \in todo : st'[n] = st[n] /\ st[n] = cr[n]
      BY <1>5, <1>a, <2>1 DEF UpdateNodeStatus, OrderInv, TypeOK
    <3>2. cr' = st' \/ cr' = cr
      BY <1>5 DEF UpdateNodeStatus, SaveStatus
    <3> QED
      BY <3>1, <3>2
  <2> QED
    BY <1>5, <2>1, <2>2, StatusWrites DEF OrderInv
<1>6. CASE UpdateClusterStatus
  BY <1>6, <1>b, StatusWrites DEF UpdateClusterStatus
<1>7. CASE RecheckConfFails \/ Create \/ WaitForInitialRollout \/ CreatePause
  <2>1. UNCHANGED cr
    BY <1>7 DEF RecheckConfFails, Create, WaitForInitialRollout, CreatePause, createFrame
  <2>2. \/ Return
        \/ /\ UNCHANGED <<st, ns, cur, todo>> /\ pc' \in {"initWait", "createPause", "state"}
           /\ pc \in {"create", "initWait", "createPause"}
    BY <1>7 DEF RecheckConfFails, Create, WaitForInitialRollout, CreatePause
  <2>3. CASE Return
    BY <2>1, <2>3, <1>b, FollowsItself DEF Return
  <2> QED
    BY <2>1, <2>2, <2>3 DEF OrderInv
<1>8. CASE CreateAlreadyExists \/ CheckHealthBefore
  <2>1. \/ pc = "create" /\ pc' = "createPause"
        \/ pc = "health0" /\ pc' \in {"size0", "state"}
    BY <1>8 DEF CreateAlreadyExists, CheckHealthBefore
  <2> QED
    BY <1>8, <2>1, QuietSteps DEF OrderInv
<1>9. CASE \/ DisableAllocation \/ Unpause \/ WaitForNodeRollout \/ PauseAgain
           \/ ScaleDownNode \/ ScaleUpNode \/ WaitForNodeRejoinCluster
  BY <1>9, QuietSteps, QuietTargets DEF OrderInv
<1>10. CASE \/ RecordClusterSize \/ CheckReplicaCount \/ ExecuteUpdate
            \/ WaitForNodeLeaveCluster \/ EnableAllocation \/ CheckHealthAfter
  BY <1>10, StepsOnStatus DEF OrderInv
<1>11. CASE OperatorRestart
  BY <1>11, <1>b, FollowsItself DEF OperatorRestart, Return
<1>12. CASE Environment /\ ~OperatorRestart
  BY <1>12, <1>a, EnvironmentFrame DEF OrderInv, Environment, local
<1>13. CASE UNCHANGED vars
  BY <1>13 DEF OrderInv, vars, local
<1> QED
  BY <1>1, <1>2, <1>3, <1>4, <1>5, <1>6, <1>7, <1>8, <1>9, <1>10, <1>11, <1>12, <1>13
     DEF Next, Operator, Environment

(* Whatever fails, the recorded phase of every node moves forward only: a
   lost status write or a restart of the operator may repeat a step but
   never takes a node back from data recovery to a restart, and underUpgrade
   is taken away only together with the phase ControllerUpdated.           *)
THEOREM PhasesAlwaysAdvance == Spec => PhaseAdvances
<1>1. Init => OrderInv
  BY FollowsItself DEF Init, OrderInv, Working, RestartSteps, UnderSteps
<1>2. Init => StatusInv
  BY StatusInit
<1>3. TypeOK /\ OrderInv /\ [Next]_vars => [\A n \in Node : Follows(cr[n], cr'[n])]_vars
  BY WritersOfStatus, StatusWrites, FollowsItself
<1> QED
  BY <1>1, <1>2, <1>3, TypeCorrect, StatusStep, OrderStep, PTL DEF Spec, PhaseAdvances

-----------------------------------------------------------------------------
(* Shard allocation, as long as no status is lost.                         *)

\* who owns the allocation setting depends on these fields alone
LEMMA OwnersKept ==
    ASSUME TypeOK, AllocInv, AllocationOwned,
           alloc' = alloc \/ alloc' = "all",
           \A n \in Node : /\ Current(n)'.under = Current(n).under
                           /\ Current(n)'.phase = Current(n).phase
    PROVE  AllocationOwned'
BY DEF AllocationOwned, Owned

\* AllocInv is inductive as long as every status write succeeds and the
\* operator keeps running
LEMMA AllocStep ==
    ASSUME "status" \notin Hazards, "crash" \notin Hazards
    PROVE  TypeOK /\ StatusInv /\ AllocInv /\ [Next]_vars => AllocInv'
<1> SUFFICES ASSUME TypeOK, StatusInv, AllocInv, [Next]_vars PROVE AllocInv'
  OBVIOUS
<1> USE DEF UnderSteps, RestartSteps, Working
<1>a. /\ cur \in Node /\ cr \in [Node -> NodeStatus] /\ st \in [Node -> NodeStatus]
      /\ ns \in NodeStatus /\ ns.phase \in Phase
  BY DEF TypeOK, NodeStatus
<1>b. NodeRestarting # RecoveringData
  BY DEF NodeRestarting, RecoveringData
<1>c. ASSUME Return, UNCHANGED <<cr, alloc>>, pc \in {"create", "initWait", "createPause"}
      PROVE  AllocInv'
  <2>1. \A n \in Node : Current(n)' = Current(n)
    BY <1>c DEF Return, AllocInv, Current
  <2>2. AllocationOwned'
    BY <1>c, <2>1, OwnersKept DEF AllocInv
  <2> QED
    BY <1>c, <2>2 DEF Return, AllocInv
<1>1. CASE StartReconcile
  <2>1. UNCHANGED <<cr, st, alloc>> /\ pc = "idle" /\ pc' = "unsched"
    BY <1>1 DEF StartReconcile, reconcileFrame, es, AllocInv
  <2>2. \A n \in Node : Current(n)' = Current(n)
    BY <2>1 DEF Current
  <2>3. AllocationOwned'
    BY <2>1, <2>2, OwnersKept DEF AllocInv
  <2> QED
    BY <2>1, <2>3 DEF AllocInv
<1>2. CASE \/ UnschedExecute \/ UnschedUnpause \/ UnschedWait \/ UnschedPause
           \/ \E n \in Node : progressUnshedulableNode(n)
  <2>1. \A n \in Node : Current(n)' = Current(n)
    BY <1>2, UnschedSteps DEF Current
  <2>2. AllocationOwned'
    BY <1>2, <2>1, UnschedSteps, OwnersKept DEF AllocInv
  <2> QED
    BY <1>2, <2>2, UnschedSteps DEF AllocInv
<1>3. CASE CreateOrUpdateElasticsearchCluster
  <2>1. UNCHANGED <<cr, st, alloc>> /\ pc = "unsched" /\ pc' = "next"
    BY <1>3 DEF CreateOrUpdateElasticsearchCluster, reconcileFrame, es
  <2>2. \A n \in Node : Current(n)' = Current(n)
    BY <2>1 DEF Current
  <2>3. AllocationOwned'
    BY <2>1, <2>2, OwnersKept DEF AllocInv
  <2> QED
    BY <2>1, <2>3 DEF AllocInv
<1>4. CASE \E n \in Node : NextNode(n)
  <2> PICK n \in Node : NextNode(n)
    BY <1>4
  <2>1. /\ UNCHANGED <<cr, st, alloc>> /\ cur' = n /\ ns' = st[n]
        /\ pc = "next" /\ pc' = Entry(mode, st[n])
    BY DEF NextNode, reconcileFrame, es
  <2>2. \A m \in Node : Current(m)' = Current(m)
    BY <2>1 DEF Current
  <2>3. AllocationOwned'
    BY <2>1, <2>2, OwnersKept DEF AllocInv
  <2>4. st[n].phase \in Phase
    BY <1>a DEF NodeStatus
  <2>5. /\ pc' \in {"health0", "size0"} => st[n].under # "True"
        /\ pc' \in RestartSteps => st[n].phase # RecoveringData
        /\ pc' = "health1" => st[n].phase = RecoveringData
    BY <2>1, <2>4, AtPhaseStep DEF Entry
  <2> QED
    BY <2>1, <2>3, <2>5 DEF AllocInv
<1>5. CASE UpdateNodeStatus
  <2>1. /\ st' = [st EXCEPT ![cur] = state(cur, ns)] /\ cr' = st'
        /\ pc = "state" /\ pc' = "next" /\ UNCHANGED <<cur, ns, alloc>>
    BY <1>5 DEF UpdateNodeStatus, SaveStatus, reconcileFrame, es
  <2>2. state(cur, ns).under = ns.under /\ state(cur, ns).phase = ns.phase
    BY <1>a, StatusFields
  <2>3. \A n \in Node : /\ Current(n)'.under = Current(n).under
                        /\ Current(n)'.phase = Current(n).phase
    BY <1>a, <2>1, <2>2 DEF Current
  <2>4. AllocationOwned'
    BY <2>1, <2>3, OwnersKept DEF AllocInv
  <2> QED
    BY <2>1, <2>4 DEF AllocInv
<1>6. CASE UpdateClusterStatus
  <2> DEFINE new == [n \in Node |-> [st[n] EXCEPT !.unsched = PodCondition(n)]]
  <2>1. ASSUME NEW n \in Node
        PROVE  new[n].under = st[n].under /\ new[n].phase = st[n].phase
    <3> DEFINE s == st[n]
    <3>1. PodCondition(n) \in Cond /\ s \in NodeStatus
      BY <1>a DEF TypeOK, PodCondition, NodeStatus, Flag, Cond
    <3>2. /\ [s EXCEPT !.unsched = PodCondition(n)].under = s.under
          /\ [s EXCEPT !.unsched = PodCondition(n)].phase = s.phase
      BY <3>1, StatusFields
    <3> QED
      BY <3>2
  <2>2. cr' = new /\ st' = cr' /\ pc = "next" /\ pc' = "idle" /\ UNCHANGED alloc
    BY <1>6 DEF UpdateClusterStatus, SaveStatus, Return, reconcileFrame, es
  <2> HIDE DEF new
  <2>3. \A n \in Node : /\ Current(n)'.under = Current(n).under
                        /\ Current(n)'.phase = Current(n).phase
    BY <2>1, <2>2 DEF Current
  <2>4. AllocationOwned'
    BY <2>2, <2>3, OwnersKept DEF AllocInv
  <2> QED
    BY <2>2, <2>4 DEF AllocInv
<1>7. CASE RecheckConfFails \/ Create \/ WaitForInitialRollout \/ CreatePause
  <2>1. UNCHANGED <<cr, alloc>> /\ pc \in {"create", "initWait", "createPause"}
    BY <1>7 DEF RecheckConfFails, Create, WaitForInitialRollout, CreatePause, createFrame, es
  <2>2. \/ Return
        \/ UNCHANGED <<st, ns, cur>> /\ pc' \in {"initWait", "createPause", "state"}
    BY <1>7 DEF RecheckConfFails, Create, WaitForInitialRollout, CreatePause
  <2>3. CASE UNCHANGED <<st, ns, cur>> /\ pc' \in {"initWait", "createPause", "state"}
    <3>1. \A n \in Node : Current(n)' = Current(n)
      BY <2>1, <2>3 DEF Current
    <3>2. AllocationOwned'
      BY <2>1, <3>1, OwnersKept DEF AllocInv
    <3> QED
      BY <2>1, <2>3, <3>2 DEF AllocInv
  <2> QED
    BY <2>1, <2>2, <2>3, <1>c
<1>8. CASE CreateAlreadyExists \/ CheckHealthBefore
  <2>1. /\ UNCHANGED <<cr, st, ns, cur, alloc>>
        /\ \/ pc = "create" /\ pc' = "createPause"
           \/ pc = "health0" /\ pc' \in {"size0", "state"}
    BY <1>8, QuietSteps DEF CreateAlreadyExists, CheckHealthBefore, es
  <2>2. \A n \in Node : Current(n)' = Current(n)
    BY <2>1 DEF Current
  <2>3. AllocationOwned'
    BY <2>1, <2>2, OwnersKept DEF AllocInv
  <2> QED
    BY <2>1, <2>3 DEF AllocInv
<1>9. CASE \/ DisableAllocation \/ Unpause \/ WaitForNodeRollout \/ PauseAgain
           \/ ScaleDownNode \/ ScaleUpNode \/ WaitForNodeRejoinCluster
  <2>1. UNCHANGED <<cr, st, ns, cur>> /\ pc \in RestartSteps /\ pc' \in RestartSteps \cup {"state"}
    BY <1>9, QuietSteps, QuietTargets
  <2>2. Owned(cur)'
    BY <2>1, <1>a DEF AllocInv, StatusInv, Owned, Current
  <2>3. AllocationOwned'
    BY <2>1, <2>2, <1>a DEF AllocationOwned
  <2> QED
    BY <2>1, <2>3 DEF AllocInv
<1>10. CASE RecordClusterSize
  <2>1. /\ UNCHANGED <<cr, st, cur, alloc>> /\ pc = "size0"
        /\ \/ ns' = ns /\ pc' = "state"
           \/ ns' = MarkUnderUpgrade(ns) /\ pc' = AtPhase(mode, ns.phase)
    BY <1>10 DEF RecordClusterSize, stepFrame, es
  <2>2. ns.under # "True"
    BY <2>1 DEF AllocInv
  <2>3. \A n \in Node : Owned(n) => Owned(n)'
    BY <2>1, <2>2 DEF Owned, Current
  <2>4. AllocationOwned'
    BY <2>1, <2>3 DEF AllocInv, AllocationOwned
  <2>5. MarkUnderUpgrade(ns).phase = ns.phase
    BY <1>a, StatusFields
  <2> QED
    BY <2>1, <2>4, <2>5, <1>a, AtPhaseStep DEF AllocInv
<1>11. CASE CheckReplicaCount \/ ExecuteUpdate \/ WaitForNodeLeaveCluster
  <2>1. /\ UNCHANGED <<cr, st, cur, alloc>> /\ pc \in RestartSteps
        /\ pc' \in RestartSteps \cup {"state"}
        /\ ns' = ns \/ ns' = AtNodeRestarting(ns)
    BY <1>11 DEF CheckReplicaCount, ExecuteUpdate, WaitForNodeLeaveCluster, stepFrame, es
  <2>2. ns'.under = "True" /\ ns'.phase # RecoveringData
    BY <2>1, <1>a, <1>b, StatusFields DEF AllocInv, StatusInv
  <2>3. Owned(cur)'
    BY <2>1, <2>2, <1>a DEF Owned, Current
  <2>4. AllocationOwned'
    BY <2>1, <2>3, <1>a DEF AllocationOwned
  <2> QED
    BY <2>1, <2>2, <2>4 DEF AllocInv
<1>12. CASE EnableAllocation
  <2>1. UNCHANGED <<cr, st, cur>> /\ pc = "allocAll"
    BY <1>12 DEF EnableAllocation, stepFrame
  <2>2. CASE alloc' = "all" /\ pc' = "health1" /\ ns' = [ns EXCEPT !.phase = RecoveringData]
    <3>1. ns'.phase = RecoveringData
      BY <2>2, <1>a, StatusFields
    <3> QED
      BY <2>1, <2>2, <3>1 DEF AllocInv, AllocationOwned
  <2>3. CASE pc' = "state" /\ UNCHANGED ns
    <3>1. Owned(cur)'
      BY <2>1, <2>3, <1>a DEF AllocInv, StatusInv, Owned, Current
    <3>2. AllocationOwned'
      BY <2>1, <3>1, <1>a DEF AllocationOwned
    <3> QED
      BY <2>1, <2>3, <3>2 DEF AllocInv
  <2> QED
    BY <1>12, <2>2, <2>3 DEF EnableAllocation, SetShardAllocation
<1>13. CASE CheckHealthAfter
  <2>1. UNCHANGED <<cr, st, cur, alloc>> /\ pc = "health1" /\ pc' = "state"
    BY <1>13 DEF CheckHealthAfter, stepFrame, es
  <2>2. \A n \in Node : Owned(n) => Owned(n)'
    BY <2>1 DEF AllocInv, Owned, Current
  <2>3. AllocationOwned'
    BY <2>1, <2>2 DEF AllocInv, AllocationOwned
  <2> QED
    BY <2>1, <2>3 DEF AllocInv
<1>14. CASE Environment /\ ~OperatorRestart
  <2>1. UNCHANGED <<cr, local>> /\ (alloc' = alloc \/ alloc' = "all")
    BY <1>14, <1>a, EnvironmentFrame DEF Environment
  <2>2. \A n \in Node : Current(n)' = Current(n)
    BY <2>1 DEF Current, local
  <2>3. AllocationOwned'
    BY <2>1, <2>2, OwnersKept DEF AllocInv
  <2> QED
    BY <2>1, <2>3 DEF AllocInv, local
<1>15. CASE UNCHANGED vars
  BY <1>15 DEF AllocInv, AllocationOwned, Owned, Current, vars, local, es
<1> QED
  BY <1>1, <1>2, <1>3, <1>4, <1>5, <1>6, <1>7, <1>8, <1>9, <1>10, <1>11, <1>12, <1>13, <1>14,
     <1>15 DEF Next, Operator, Environment, OperatorRestart

(* If the custom resource is always written and the operator is not
   restarted, then however slow the environment is and whichever requests
   fail, shard allocation is off only on behalf of a node under upgrade that
   has not reached data recovery: a later reconcile will switch it on.     *)
THEOREM AllocationAlwaysOwned ==
    ASSUME "status" \notin Hazards, "crash" \notin Hazards
    PROVE  Spec => []AllocationOwned
<1>1. Init => AllocInv
  BY DEF Init, AllocInv, AllocationOwned, RestartSteps, UnderSteps
<1>2. TypeOK /\ StatusInv /\ AllocInv /\ [Next]_vars => AllocInv'
  BY AllocStep
<1>3. AllocInv => AllocationOwned
  BY DEF AllocInv
<1> QED
  BY <1>1, <1>2, <1>3, StatusInit, TypeCorrect, StatusStep, PTL DEF Spec

-----------------------------------------------------------------------------
(* Rollouts, as long as every pod can be scheduled.                        *)

\* what the theorem excludes: waits that give up early, Deployments that
\* cannot be written, and a restart, which forgets what was under way
Steady == {"slow", "api", "crash"} \cap Hazards = {}

\* no node is ever reported unschedulable, so none is progressed as one
NoneUnsched ==
    /\ \A n \in Node : cr[n].unsched = "" /\ st[n].unsched = ""
    /\ ns.unsched = ""
    /\ pc \notin {"uExec", "uUnpause", "uWait", "uPause"}
    /\ pc = "unsched" => todo = {}

\* the object of a node is the one getNodes built until it was compared
OwnObject ==
    /\ pc # "idle" => desired \in Tmpls
    /\ pc \in {"health0", "size0", "replicas", "allocNone", "exec"} => self = desired

(* NoLostRollout speaks of paused Deployments only and is not inductive: a
   Deployment left unpaused with a rollout under way would be paused by the
   next create.  So no Deployment at all has a rollout under way, except in
   the steps that wait for it, and those tell by its revision.             *)
RolloutInv ==
    /\ \A n \in Node : tmpl[n] = NoTmpl => rev[n] = 0 /\ rs[n] = NoTmpl
    /\ \A n \in Node : rs[n] # tmpl[n] =>
                          n = cur /\ pc \in {"initWait", "unpause", "waitRollout"}
    /\ pc \in {"initWait", "waitRollout"} => cur \notin paused
    /\ pc = "initWait" /\ rs[cur] # tmpl[cur] => rev[cur] = 0
    /\ pc \in {"unpause", "waitRollout"} /\ rs[cur] # tmpl[cur] => rev[cur] = curRev[cur]
    /\ pc \in {"unpause", "waitRollout"} => ns.phase = NodeRestarting

\* the fields of a status that the invariants of this section speak of
LEMMA UnschedField ==
    ASSUME NEW s \in NodeStatus
    PROVE  /\ MarkUnderUpgrade(s).unsched = s.unsched
           /\ AtNodeRestarting(s).unsched = s.unsched
           /\ UpgradeDone(s).unsched = s.unsched
           /\ [s EXCEPT !.phase = RecoveringData].unsched = s.unsched
           /\ \A n \in Node : state(n, s).unsched = s.unsched
           /\ \A c \in Cond : [s EXCEPT !.unsched = c].unsched = c
BY DEF NodeStatus, MarkUnderUpgrade, AtNodeRestarting, UpgradeDone, state

\* NoneUnsched is inductive when every template can be scheduled
LEMMA UnschedStep ==
    ASSUME Unsched = {}
    PROVE  TypeOK /\ NoneUnsched /\ [Next]_vars => NoneUnsched'
<1> SUFFICES ASSUME TypeOK, NoneUnsched, [Next]_vars PROVE NoneUnsched'
  OBVIOUS
<1>a. /\ ns \in NodeStatus /\ ns.phase \in Phase /\ cur \in Node
      /\ cr \in [Node -> NodeStatus] /\ st \in [Node -> NodeStatus]
  BY DEF TypeOK, NodeStatus
<1>b. ASSUME Return, \A n \in Node : cr'[n].unsched = "" PROVE NoneUnsched'
  BY <1>b DEF NoneUnsched, Return, BlankStatus
<1>1. CASE StartReconcile
  BY <1>1 DEF NoneUnsched, StartReconcile
<1>2. CASE \/ UnschedExecute \/ UnschedUnpause \/ UnschedWait \/ UnschedPause
           \/ \E n \in Node : progressUnshedulableNode(n)
  BY <1>2 DEF NoneUnsched, UnschedExecute, UnschedUnpause, UnschedWait, UnschedPause,
              progressUnshedulableNode, IsFirst
<1>3. CASE CreateOrUpdateElasticsearchCluster
  BY <1>3 DEF NoneUnsched, CreateOrUpdateElasticsearchCluster
<1>4. CASE \E n \in Node : NextNode(n)
  <2> PICK n \in Node : NextNode(n)
    BY <1>4
  <2>1. /\ UNCHANGED <<cr, st>> /\ ns' = st[n] /\ pc' = Entry(mode, st[n]) /\ st[n].phase \in Phase
    BY <1>a DEF NextNode, NodeStatus
  <2>2. pc' \notin {"unsched", "uExec", "uUnpause", "uWait", "uPause"}
    BY <2>1, AtPhaseStep DEF Entry
  <2> QED
    BY <2>1, <2>2 DEF NoneUnsched
<1>5. CASE UpdateNodeStatus
  <2>1. state(cur, ns).unsched = ""
    BY <1>a, UnschedField DEF NoneUnsched
  <2>2. \A n \in Node : st'[n].unsched = ""
    BY <1>5, <1>a, <2>1 DEF NoneUnsched, UpdateNodeStatus
  <2> QED
    BY <1>5, <2>2 DEF NoneUnsched, UpdateNodeStatus, SaveStatus
<1>6. CASE UpdateClusterStatus
  <2>1. \A n \in Node : PodCondition(n) = ""
    BY DEF PodCondition, NoneUnsched, Flag
  <2>2. \A n \in Node : [st[n] EXCEPT !.unsched = PodCondition(n)].unsched = ""
    <3> TAKE n \in Node
    <3> DEFINE s == st[n]
    <3>1. s \in NodeStatus
      BY <1>a
    <3>2. [s EXCEPT !.unsched = PodCondition(n)].unsched = ""
      BY <3>1, <2>1, UnschedField DEF Cond
    <3> QED
      BY <3>2
  <2>3. \A n \in Node : cr'[n].unsched = ""
    BY <1>6, <2>2 DEF NoneUnsched, UpdateClusterStatus, SaveStatus
  <2> QED
    BY <1>6, <1>b, <2>3 DEF UpdateClusterStatus
<1>7. CASE RecheckConfFails \/ Create \/ WaitForInitialRollout \/ CreatePause
  <2>1. UNCHANGED cr
    BY <1>7 DEF RecheckConfFails, Create, WaitForInitialRollout, CreatePause, createFrame
  <2>2. \/ Return
        \/ UNCHANGED <<st, ns>> /\ pc' \in {"initWait", "createPause", "state"}
    BY <1>7 DEF RecheckConfFails, Create, WaitForInitialRollout, CreatePause
  <2> QED
    BY <2>1, <2>2, <1>b DEF NoneUnsched
<1>8. CASE CreateAlreadyExists \/ CheckHealthBefore
  BY <1>8, QuietSteps DEF NoneUnsched, CreateAlreadyExists, CheckHealthBefore
<1>9. CASE \/ DisableAllocation \/ Unpause \/ WaitForNodeRollout \/ PauseAgain
           \/ ScaleDownNode \/ ScaleUpNode \/ WaitForNodeRejoinCluster
  BY <1>9, QuietSteps, QuietTargets DEF NoneUnsched, RestartSteps, UnderSteps
<1>10. CASE \/ RecordClusterSize \/ CheckReplicaCount \/ ExecuteUpdate
            \/ WaitForNodeLeaveCluster \/ EnableAllocation \/ CheckHealthAfter
  <2>1. /\ UNCHANGED <<cr, st>>
        /\ pc' \notin {"unsched", "uExec", "uUnpause", "uWait", "uPause"}
    BY <1>10, <1>a, AtPhaseStep
       DEF RecordClusterSize, CheckReplicaCount, ExecuteUpdate, WaitForNodeLeaveCluster,
           EnableAllocation, CheckHealthAfter, stepFrame
  <2>2. ns'.unsched = ns.unsched
    BY <1>10, <1>a, UnschedField
       DEF RecordClusterSize, CheckReplicaCount, ExecuteUpdate, WaitForNodeLeaveCluster,
           EnableAllocation, CheckHealthAfter
  <2> QED
    BY <2>1, <2>2 DEF NoneUnsched
<1>11. CASE OperatorRestart
  BY <1>11, <1>b DEF OperatorRestart, NoneUnsched
<1>12. CASE Environment /\ ~OperatorRestart
  BY <1>12, <1>a, EnvironmentFrame DEF NoneUnsched, Environment, local
<1>13. CASE UNCHANGED vars
  BY <1>13 DEF NoneUnsched, vars, local
<1> QED
  BY <1>1, <1>2, <1>3, <1>4, <1>5, <1>6, <1>7, <1>8, <1>9, <1>10, <1>11, <1>12, <1>13
     DEF Next, Operator, Environment

\* OwnObject is inductive
LEMMA ObjectStep == TypeOK /\ NoneUnsched /\ OwnObject /\ [Next]_vars => OwnObject'
<1> SUFFICES ASSUME TypeOK, NoneUnsched, OwnObject, [Next]_vars PROVE OwnObject'
  OBVIOUS
<1>a. ns.phase \in Phase /\ cur \in Node /\ st \in [Node -> NodeStatus] /\ spec \in Tmpls
  BY DEF TypeOK, NodeStatus
<1>b. ASSUME Return PROVE OwnObject'
  BY <1>b DEF OwnObject, Return
<1>1. CASE StartReconcile
  BY <1>1, <1>a DEF OwnObject, StartReconcile, getNodes
<1>2. CASE \/ UnschedExecute \/ UnschedUnpause \/ UnschedWait \/ UnschedPause
           \/ \E n \in Node : progressUnshedulableNode(n)
  BY <1>2 DEF NoneUnsched, UnschedExecute, UnschedUnpause, UnschedWait, UnschedPause,
              progressUnshedulableNode, IsFirst
<1>3. CASE CreateOrUpdateElasticsearchCluster
  BY <1>3 DEF OwnObject, CreateOrUpdateElasticsearchCluster
<1>4. CASE \E n \in Node : NextNode(n)
  BY <1>4 DEF OwnObject, NextNode
<1>5. CASE UpdateNodeStatus
  BY <1>5 DEF OwnObject, UpdateNodeStatus
<1>6. CASE UpdateClusterStatus \/ OperatorRestart
  BY <1>6, <1>b DEF UpdateClusterStatus, OperatorRestart
<1>7. CASE RecheckConfFails \/ Create \/ WaitForInitialRollout \/ CreatePause
  <2>1. \/ Return
        \/ UNCHANGED desired /\ pc # "idle" /\ pc' \in {"initWait", "createPause", "state"}
    BY <1>7 DEF RecheckConfFails, Create, WaitForInitialRollout, CreatePause
  <2> QED
    BY <2>1, <1>b DEF OwnObject
<1>8. CASE \/ CreateAlreadyExists \/ CheckHealthBefore \/ RecordClusterSize \/ CheckReplicaCount
           \/ DisableAllocation
  <2>1. /\ UNCHANGED <<desired, self>> /\ pc # "idle"
        /\ \/ pc \in {"health0", "size0", "replicas", "allocNone", "exec"}
           \/ pc' = "createPause"
    BY <1>8 DEF CreateAlreadyExists, CheckHealthBefore, RecordClusterSize, CheckReplicaCount,
                DisableAllocation, stepFrame
  <2> QED
    BY <2>1 DEF OwnObject
<1>9. CASE \/ ExecuteUpdate \/ Unpause \/ WaitForNodeRollout \/ PauseAgain \/ ScaleDownNode
           \/ WaitForNodeLeaveCluster \/ ScaleUpNode \/ WaitForNodeRejoinCluster
           \/ EnableAllocation \/ CheckHealthAfter
  <2>1. /\ UNCHANGED desired /\ pc # "idle"
        /\ pc' \notin {"health0", "size0", "replicas", "allocNone", "exec"}
    BY <1>9 DEF ExecuteUpdate, Unpause, setPaused, WaitForNodeRollout, PauseAgain, ScaleDownNode,
                WaitForNodeLeaveCluster, ScaleUpNode, setReplicaCount, WaitForNodeRejoinCluster,
                EnableAllocation, CheckHealthAfter, stepFrame
  <2> QED
    BY <2>1 DEF OwnObject
<1>10. CASE Environment /\ ~OperatorRestart
  BY <1>10, <1>a, EnvironmentFrame DEF OwnObject, Environment, local
<1>11. CASE UNCHANGED vars
  BY <1>11 DEF OwnObject, vars, local
<1> QED
  BY <1>1, <1>2, <1>3, <1>4, <1>5, <1>6, <1>7, <1>8, <1>9, <1>10, <1>11
     DEF Next, Operator, Environment

\* a wait gives up only when no Deployment has anything left to roll out
LEMMA NothingUnderWay ==
    ASSUME Steady, TimedOut, NEW n \in Node, n \notin paused, tmpl[n] # NoTmpl
    PROVE  rs[n] = tmpl[n]
BY DEF Steady, TimedOut, Busy, CanKillOld, CanNewRS

\* RolloutInv is inductive
LEMMA RolloutStep ==
    ASSUME Steady
    PROVE  TypeOK /\ NoneUnsched /\ OwnObject /\ RolloutInv /\ [Next]_vars => RolloutInv'
<1> SUFFICES ASSUME TypeOK, NoneUnsched, OwnObject, RolloutInv, [Next]_vars PROVE RolloutInv'
  OBVIOUS
<1>a. /\ ns \in NodeStatus /\ ns.phase \in Phase /\ cur \in Node
      /\ st \in [Node -> NodeStatus] /\ paused \subseteq Node
      /\ tmpl \in [Node -> Template] /\ rs \in [Node -> Template] /\ rev \in [Node -> Nat]
      /\ curRev \in [Node -> Nat]
  BY DEF TypeOK, NodeStatus
<1>b. "api" \notin Hazards /\ "crash" \notin Hazards
  BY DEF Steady
<1>c. \A o, p : FailedWrite(o, p) = {}
  BY <1>b DEF FailedWrite
<1>d. ASSUME UNCHANGED <<tmpl, rs, rev>>,
             pc \notin {"initWait", "unpause", "waitRollout"},
             pc' \notin {"initWait", "unpause", "waitRollout"}
      PROVE  RolloutInv'
  BY <1>d DEF RolloutInv
<1>1. CASE \/ StartReconcile \/ CreateOrUpdateElasticsearchCluster \/ UpdateNodeStatus
           \/ UpdateClusterStatus \/ RecheckConfFails
  BY <1>1, <1>d DEF StartReconcile, CreateOrUpdateElasticsearchCluster, UpdateNodeStatus,
                    UpdateClusterStatus, RecheckConfFails, Return, reconcileFrame, kube
<1>2. CASE \/ UnschedExecute \/ UnschedUnpause \/ UnschedWait \/ UnschedPause
           \/ \E n \in Node : progressUnshedulableNode(n)
  BY <1>2 DEF NoneUnsched, UnschedExecute, UnschedUnpause, UnschedWait, UnschedPause,
              progressUnshedulableNode, IsFirst
<1>3. CASE \E n \in Node : NextNode(n)
  <2> PICK n \in Node : NextNode(n)
    BY <1>3
  <2>1. /\ UNCHANGED <<tmpl, rs, rev, curRev, paused>> /\ pc = "next" /\ ns' = st[n]
        /\ pc' = Entry(mode, st[n])
    BY DEF NextNode, reconcileFrame, kube, mem
  <2>2. st[n].phase \in Phase
    BY <1>a DEF NodeStatus
  <2>3. /\ pc' \notin {"initWait", "waitRollout"}
        /\ pc' = "unpause" => ns'.phase = NodeRestarting
    BY <2>1, <2>2 DEF Entry, AtPhase, Phase, NodeRestarting, RecoveringData, ControllerUpdated
  <2>4. \A m \in Node : rs[m] = tmpl[m]
    BY <2>1 DEF RolloutInv
  <2>5. \A m \in Node : tmpl[m] = NoTmpl => rev[m] = 0 /\ rs[m] = NoTmpl
    BY DEF RolloutInv
  <2>6. cur' = n
    BY DEF NextNode
  <2> QED
    BY <2>1, <2>3, <2>4, <2>5, <2>6 DEF RolloutInv
<1>4. CASE Create
  <2>1. /\ pc = "create" /\ tmpl[cur] = NoTmpl /\ tmpl' = [tmpl EXCEPT ![cur] = desired]
        /\ paused' = paused \ {cur} /\ pc' = "initWait" /\ UNCHANGED <<rs, rev, cur>>
    BY <1>4, <1>b DEF Create, Created
  <2>2. rev[cur] = 0 /\ rs[cur] = NoTmpl /\ desired \in Tmpls
    BY <2>1, <1>a DEF RolloutInv, OwnObject
  <2> QED
    BY <2>1, <2>2, <1>a, TmplsAssumption DEF RolloutInv
<1>5. CASE CreateAlreadyExists \/ CheckHealthBefore
  BY <1>5, <1>d DEF CreateAlreadyExists, CheckHealthBefore, kube
<1>6. CASE WaitForInitialRollout
  <2>1. UNCHANGED <<tmpl, rs, rev>> /\ pc = "initWait" /\ pc' \in {"createPause", "idle"}
    BY <1>6 DEF WaitForInitialRollout, kube, Return
  <2>2. rs[cur] = tmpl[cur]
    <3>1. CASE rev[cur] > 0
      BY <3>1, <2>1, <1>a DEF RolloutInv
    <3>2. CASE TimedOut
      BY <3>2, <2>1, <1>a, NothingUnderWay DEF RolloutInv
    <3> QED
      BY <1>6, <3>1, <3>2 DEF WaitForInitialRollout
  <2> QED
    BY <2>1, <2>2 DEF RolloutInv
<1>7. CASE CreatePause
  BY <1>7, <1>c, <1>d DEF CreatePause, Return
<1>8. CASE \/ CheckReplicaCount \/ DisableAllocation \/ PauseAgain \/ ScaleDownNode
           \/ WaitForNodeLeaveCluster \/ ScaleUpNode \/ WaitForNodeRejoinCluster
           \/ EnableAllocation \/ CheckHealthAfter
  <2>1. UNCHANGED <<tmpl, rs, rev>>
    BY <1>8 DEF CheckReplicaCount, DisableAllocation, PauseAgain, ScaleDownNode,
                WaitForNodeLeaveCluster, ScaleUpNode, WaitForNodeRejoinCluster,
                EnableAllocation, CheckHealthAfter, kube
  <2>2. /\ pc \notin {"initWait", "unpause", "waitRollout"}
        /\ pc' \notin {"initWait", "unpause", "waitRollout"}
    BY <1>8 DEF CheckReplicaCount, DisableAllocation, PauseAgain, setPaused, ScaleDownNode,
                WaitForNodeLeaveCluster, ScaleUpNode, setReplicaCount, WaitForNodeRejoinCluster,
                EnableAllocation, CheckHealthAfter
  <2> QED
    BY <2>1, <2>2, <1>d
<1>9. CASE RecordClusterSize
  <2>1. /\ UNCHANGED <<tmpl, rs, rev, curRev, paused, cur>> /\ pc = "size0"
        /\ \/ pc' = "state"
           \/ ns' = MarkUnderUpgrade(ns) /\ pc' = AtPhase(mode, ns.phase)
    BY <1>9 DEF RecordClusterSize, stepFrame, kube
  <2>2. MarkUnderUpgrade(ns).phase = ns.phase
    BY <1>a, StatusFields
  <2>3. /\ pc' \notin {"initWait", "waitRollout"}
        /\ pc' = "unpause" => ns'.phase = NodeRestarting
    BY <2>1, <2>2, <1>a DEF AtPhase, Phase, NodeRestarting, RecoveringData, ControllerUpdated
  <2>4. \A m \in Node : rs[m] = tmpl[m]
    BY <2>1 DEF RolloutInv
  <2>5. \A m \in Node : tmpl[m] = NoTmpl => rev[m] = 0 /\ rs[m] = NoTmpl
    BY DEF RolloutInv
  <2> QED
    BY <2>1, <2>3, <2>4, <2>5, <1>a DEF RolloutInv
<1>10. CASE ExecuteUpdate
  <2>1. /\ pc = "exec" /\ pc' = "unpause" /\ tmpl' = [tmpl EXCEPT ![cur] = self]
        /\ ns' = AtNodeRestarting(ns) /\ curRev' = [curRev EXCEPT ![cur] = rev[cur]]
        /\ UNCHANGED <<rs, rev, cur>>
    BY <1>10, <1>c DEF ExecuteUpdate, executeUpdate, stepFrame
  <2>2. self \in Tmpls
    BY <2>1 DEF OwnObject
  <2>3. ns'.phase = NodeRestarting
    BY <2>1, <1>a, StatusFields
  <2>4. \A n \in Node : rs[n] = tmpl[n]
    BY <2>1 DEF RolloutInv
  <2> QED
    BY <2>1, <2>2, <2>3, <2>4, <1>a, TmplsAssumption DEF RolloutInv
<1>11. CASE Unpause
  <2>1. /\ pc = "unpause" /\ pc' = "waitRollout" /\ paused' = paused \ {cur}
        /\ UNCHANGED <<tmpl, rs, rev, curRev, cur, ns>>
    BY <1>11, <1>c DEF Unpause, setPaused, stepFrame, mem
  <2> QED
    BY <2>1 DEF RolloutInv
<1>12. CASE WaitForNodeRollout
  <2>1. UNCHANGED <<tmpl, rs, rev>> /\ pc = "waitRollout" /\ pc' \in {"pause", "state"}
    BY <1>12 DEF WaitForNodeRollout, kube
  <2>2. rs[cur] = tmpl[cur]
    <3>1. CASE RolledOut(cur)
      BY <3>1, <2>1 DEF RolloutInv, RolledOut
    <3>2. CASE TimedOut
      BY <3>2, <2>1, <1>a, NothingUnderWay DEF RolloutInv
    <3> QED
      BY <1>12, <3>1, <3>2 DEF WaitForNodeRollout
  <2> QED
    BY <2>1, <2>2 DEF RolloutInv
<1>13. CASE \/ RotateSecret \/ \E t \in Tmpls : EditSpec(t)
  BY <1>13 DEF RolloutInv, RotateSecret, EditSpec, envFrame, kube, mem, local
<1>14. CASE \E n \in Node : Platform(n) \/ PodDies(n)
  <2> PICK n \in Node : Platform(n) \/ PodDies(n)
    BY <1>14
  <2>1. UNCHANGED <<tmpl, paused, curRev, cur, pc, ns>>
    BY DEF Platform, PodDies, KillOldPod, CreateReplicaSet, ScaleDownPod, StartPod, JoinCluster,
           RecoverShards, podFrame, envFrame, mem, local
  <2>2. CASE CreateReplicaSet(n)
    <3>1. /\ tmpl[n] # NoTmpl /\ rs' = [rs EXCEPT ![n] = tmpl[n]]
          /\ rev' = [rev EXCEPT ![n] = @ + 1]
      BY <2>2 DEF CreateReplicaSet, CanNewRS
    <3> QED
      BY <2>1, <3>1, <1>a DEF RolloutInv
  <2>3. CASE ~CreateReplicaSet(n)
    <3>1. UNCHANGED <<rs, rev>>
      BY <2>3 DEF Platform, PodDies, KillOldPod, ScaleDownPod, StartPod, JoinCluster, RecoverShards
    <3> QED
      BY <2>1, <3>1 DEF RolloutInv
  <2> QED
    BY <2>2, <2>3
<1>15. CASE OperatorRestart
  BY <1>15, <1>b DEF OperatorRestart
<1>16. CASE UNCHANGED vars
  BY <1>16 DEF RolloutInv, vars, kube, mem, local
<1> QED
  BY <1>1, <1>2, <1>3, <1>4, <1>5, <1>6, <1>7, <1>8, <1>9, <1>10, <1>11, <1>12, <1>13, <1>14,
     <1>15, <1>16 DEF Next, Operator, Environment

(* If every pod can be scheduled, waits are not cut short, Deployments can
   be written and the operator is not restarted, then - whichever requests to
   Elasticsearch or writes of the custom resource fail, whichever pods die,
   whenever the secret changes - no Deployment is left paused with a template
   that was not rolled out, unless update is about to unpause it.          *)
THEOREM RolloutsAreFinished ==
    ASSUME Steady, Unsched = {}
    PROVE  Spec => []NoLostRollout
<1> DEFINE Inv == NoneUnsched /\ OwnObject /\ RolloutInv
<1>1. Init => Inv
  <2> SUFFICES ASSUME Init PROVE Inv
    OBVIOUS
  <2>1. NoneUnsched /\ OwnObject
    BY DEF Init, BlankStatus, NoneUnsched, OwnObject
  <2>2. RolloutInv
    BY DEF Init, RolloutInv
  <2> QED
    BY <2>1, <2>2
<1>2. TypeOK /\ Inv /\ [Next]_vars => Inv'
  BY UnschedStep, ObjectStep, RolloutStep
<1>3. TypeOK /\ StatusInv /\ Inv => NoLostRollout
  <2> SUFFICES ASSUME TypeOK, StatusInv, Inv, NEW n \in paused, rs[n] # tmpl[n]
               PROVE  Owned(n)
    BY DEF NoLostRollout
  <2>1. n \in Node /\ cur \in Node
    BY DEF TypeOK
  <2>2. n = cur /\ pc = "unpause"
    BY <2>1 DEF RolloutInv
  <2> QED
    BY <2>1, <2>2 DEF RolloutInv, StatusInv, UnderSteps, Owned, Current, Working,
                      NodeRestarting, RecoveringData
<1> HIDE DEF Inv
<1> QED
  BY <1>1, <1>2, <1>3, StatusInit, TypeCorrect, StatusStep, PTL DEF Spec

-----------------------------------------------------------------------------
(* Deployments scaled down to 0.                                           *)

\* the phases of a node that has not gone down
Settled == {"", ControllerUpdated}

(* A Deployment is at 0 replicas only while restart waits for its node to
   leave, or after that wait gave up.  Then the node is still under upgrade,
   in a phase in which restart begins again; its pod is gone, so restart
   takes the branch that scales it up; and state() has seen no difference to
   the spec, so it is restart that will be called and not update, which
   would not scale it up.                                                  *)
ScaledInv ==
    /\ \A n \in Node : replicas[n] = 0 /\ ~(n = cur /\ pc \in Working) =>
          pod[n] = NoTmpl /\ st[n].under = "True" /\ st[n].phase \in Settled /\ st[n].up = ""
    /\ pc \in Working /\ replicas[cur] = 0 =>
          /\ pc \in {"replicas", "waitLeave", "scale1", "state"} /\ ns.under = "True"
          /\ pc \in {"replicas", "state"} => pod[cur] = NoTmpl /\ ns.phase \in Settled
          /\ pc = "state" => self = tmpl[cur]
    /\ pc = "waitLeave" => self = tmpl[cur]
    /\ pc \in {"replicas", "allocNone", "exec", "scale0", "waitLeave"} => ns.phase \in Settled
    /\ pc \in Working \cup {"next"} =>
          /\ mode = "update" => \A n \in todo : st[n].up = "True"
          /\ mode = "create" => \A n \in todo : st[n].under # "True"

\* an update of one field of a status leaves the field up as it was
LEMMA UpField ==
    ASSUME NEW s \in NodeStatus
    PROVE  /\ \A n \in Node : state(n, s).up = Flag(isChanged(n, self))
           /\ \A c \in Cond : [s EXCEPT !.unsched = c].up = s.up
BY DEF NodeStatus, state

\* restart scales a node up whose pod is gone, and only then
LEMMA AtPhaseSettled ==
    ASSUME NEW m, NEW p \in Phase
    PROVE  /\ p \in Settled => AtPhase(m, p) = IF m = "update" THEN "allocNone" ELSE "replicas"
           /\ AtPhase(m, p) \in {"replicas", "allocNone"} => p \in Settled
BY DEF AtPhase, Settled, Phase, NodeRestarting, RecoveringData, ControllerUpdated

\* ScaledInv is inductive as long as waits are not cut short and no write of
\* a Deployment or of a status is lost
LEMMA ScaledStep ==
    ASSUME Steady, "status" \notin Hazards
    PROVE  TypeOK /\ StatusInv /\ OrderInv /\ AllocInv /\ ScaledInv /\ [Next]_vars => ScaledInv'
<1> SUFFICES ASSUME TypeOK, StatusInv, OrderInv, AllocInv, ScaledInv, [Next]_vars
             PROVE  ScaledInv'
  OBVIOUS
<1> USE DEF Working
<1>a. /\ ns \in NodeStatus /\ ns.phase \in Phase /\ cur \in Node
      /\ st \in [Node -> NodeStatus] /\ st = cr
      /\ replicas \in [Node -> 0..1] /\ pod \in [Node -> Template]
  BY DEF TypeOK, NodeStatus, AllocInv
<1>b. "api" \notin Hazards /\ "crash" \notin Hazards /\ "slow" \notin Hazards
  BY DEF Steady
<1>c. \A o, p : FailedWrite(o, p) = {}
  BY <1>b DEF FailedWrite
<1>d. ASSUME Return, UNCHANGED <<cr, pod>>, pc \in {"create", "initWait", "createPause"},
             \A n \in Node : replicas'[n] = 0 => replicas[n] = 0
      PROVE  ScaledInv'
  BY <1>a, <1>d DEF ScaledInv, Return
<1>1. CASE StartReconcile
  BY <1>1, <1>a DEF ScaledInv, StartReconcile, reconcileFrame, kube
<1>2. CASE \/ UnschedExecute \/ UnschedUnpause \/ UnschedWait \/ UnschedPause
           \/ \E n \in Node : progressUnshedulableNode(n)
  <2>1. UNCHANGED <<replicas, pod>>
    BY <1>2 DEF UnschedExecute, UnschedUnpause, UnschedWait, UnschedPause,
                progressUnshedulableNode, reconcileFrame, kube
  <2> QED
    BY <1>2, <2>1, UnschedSteps DEF ScaledInv
<1>3. CASE CreateOrUpdateElasticsearchCluster
  <2>1. UNCHANGED <<replicas, pod, st>> /\ pc = "unsched" /\ pc' = "next"
    BY <1>3 DEF CreateOrUpdateElasticsearchCluster, reconcileFrame, kube
  <2>2. /\ mode' = "update" => \A n \in todo' : st[n].up = "True"
        /\ mode' = "create" => \A n \in todo' : st[n].under # "True"
    BY <1>3 DEF CreateOrUpdateElasticsearchCluster, SelectNodes, UpgradeInProgress,
                getScheduledUpgradeNodes, getScheduledRedeployOnlyNodes
  <2> QED
    BY <2>1, <2>2 DEF ScaledInv
<1>4. CASE \E n \in Node : NextNode(n)
  <2> PICK n \in Node : NextNode(n)
    BY <1>4
  <2>1. /\ UNCHANGED <<replicas, pod, st, mode, tmpl>> /\ cur' = n /\ ns' = st[n]
        /\ todo' = todo \ {n} /\ n \in todo
        /\ pc = "next" /\ pc' = Entry(mode, st[n])
    BY DEF NextNode, IsFirst, reconcileFrame, kube
  <2>2. st[n].phase \in Phase
    BY <1>a DEF NodeStatus
  <2>3. /\ pc' \in Working \ {"waitLeave", "state"}
        /\ pc' \in {"replicas", "allocNone", "exec", "scale0"} => st[n].phase \in Settled
    BY <2>1, <2>2, AtPhaseStep, AtPhaseSettled DEF Entry
  <2>4. replicas[n] = 0 =>
          pod[n] = NoTmpl /\ st[n].under = "True" /\ st[n].phase \in Settled /\ st[n].up = ""
    BY <2>1 DEF ScaledInv
  <2>5. replicas[n] = 0 => mode = "restart"
    BY <2>1, <2>4 DEF ScaledInv, TypeOK
  <2>6. replicas[n] = 0 => pc' = "replicas"
    BY <2>1, <2>2, <2>4, <2>5, AtPhaseSettled DEF Entry
  <2> QED
    BY <2>1, <2>3, <2>4, <2>6 DEF ScaledInv
<1>5. CASE UpdateNodeStatus
  <2>1. /\ st' = [st EXCEPT ![cur] = state(cur, ns)] /\ pc = "state" /\ pc' = "next"
        /\ UNCHANGED <<cur, todo, mode, replicas, pod>> /\ cur \notin todo /\ todo \subseteq Node
    BY <1>5 DEF UpdateNodeStatus, reconcileFrame, kube, OrderInv, TypeOK
  <2>2. state(cur, ns).under = ns.under /\ state(cur, ns).phase = ns.phase
    BY <1>a, StatusFields
  <2>3. self = tmpl[cur] => state(cur, ns).up = ""
    BY <1>a, UpField DEF isChanged, Flag
  <2> QED
    BY <2>1, <2>2, <2>3, <1>a DEF ScaledInv
<1>6. CASE UpdateClusterStatus
  <2> DEFINE new == [n \in Node |-> [st[n] EXCEPT !.unsched = PodCondition(n)]]
  <2>1. ASSUME NEW n \in Node
        PROVE  new[n].under = st[n].under /\ new[n].phase = st[n].phase /\ new[n].up = st[n].up
    <3> DEFINE s == st[n]
    <3>1. PodCondition(n) \in Cond /\ s \in NodeStatus
      BY <1>a DEF TypeOK, PodCondition, NodeStatus, Flag, Cond
    <3>2. /\ [s EXCEPT !.unsched = PodCondition(n)].under = s.under
          /\ [s EXCEPT !.unsched = PodCondition(n)].phase = s.phase
          /\ [s EXCEPT !.unsched = PodCondition(n)].up = s.up
      BY <3>1, StatusFields, UpField
    <3> QED
      BY <3>2
  <2>2. st' = new /\ pc = "next" /\ pc' = "idle" /\ UNCHANGED <<replicas, pod>>
    BY <1>6 DEF UpdateClusterStatus, SaveStatus, Return, reconcileFrame, kube
  <2> HIDE DEF new
  <2> QED
    BY <2>1, <2>2 DEF ScaledInv
<1>7. CASE RecheckConfFails \/ WaitForInitialRollout \/ CreatePause
  <2>1. UNCHANGED <<cr, pod, replicas>> /\ pc \in {"create", "initWait", "createPause"}
    BY <1>7 DEF RecheckConfFails, WaitForInitialRollout, CreatePause, createFrame, kube
  <2>2. \/ Return
        \/ UNCHANGED <<st, cur, todo, mode>> /\ pc' \in {"createPause", "state"}
    BY <1>7 DEF RecheckConfFails, WaitForInitialRollout, CreatePause
  <2> QED
    BY <2>1, <2>2, <1>d DEF ScaledInv
<1>8. CASE Create
  <2>1. /\ pc = "create" /\ pc' = "initWait" /\ replicas' = [replicas EXCEPT ![cur] = 1]
        /\ UNCHANGED <<st, cur, todo, mode, pod>>
    BY <1>8, <1>b DEF Create, Created
  <2>2. replicas'[cur'] # 0 /\ \A n \in Node : replicas'[n] = 0 => replicas[n] = 0 /\ n # cur
    BY <2>1, <1>a
  <2>3. /\ UNCHANGED <<st, cur, todo, mode, pod>> /\ pc \in Working
        /\ pc' \in Working \ {"replicas", "allocNone", "exec", "scale0", "waitLeave"}
    BY <2>1
  <2> QED
    BY <2>2, <2>3 DEF ScaledInv
<1>9. CASE CreateAlreadyExists \/ CheckHealthBefore \/ CheckHealthAfter
  <2>1. /\ UNCHANGED <<st, cur, todo, mode, replicas, pod>>
        /\ pc \in {"create", "health0", "health1"} /\ pc' \in {"createPause", "size0", "state"}
    BY <1>9 DEF CreateAlreadyExists, CheckHealthBefore, CheckHealthAfter, stepFrame, kube
  <2> QED
    BY <2>1 DEF ScaledInv
<1>10. CASE RecordClusterSize
  <2>1. /\ UNCHANGED <<st, cur, todo, mode, replicas, pod>> /\ pc = "size0"
        /\ \/ ns' = ns /\ pc' = "state"
           \/ ns' = MarkUnderUpgrade(ns) /\ pc' = AtPhase(mode, ns.phase)
    BY <1>10 DEF RecordClusterSize, stepFrame, kube
  <2>2. MarkUnderUpgrade(ns).phase = ns.phase
    BY <1>a, StatusFields
  <2>3. /\ pc' \in Working \ {"waitLeave"}
        /\ pc' \in {"replicas", "allocNone", "exec", "scale0"} => ns'.phase \in Settled
    BY <2>1, <2>2, <1>a, AtPhaseStep, AtPhaseSettled
  <2> QED
    BY <2>1, <2>3 DEF ScaledInv
<1>11. CASE CheckReplicaCount
  <2>1. /\ UNCHANGED <<st, cur, todo, mode, replicas, pod>> /\ pc = "replicas"
        /\ \/ pod[cur] # NoTmpl /\ pc' = "allocNone" /\ ns' = ns
           \/ pc' = "scale1" /\ ns' = AtNodeRestarting(ns)
    BY <1>11 DEF CheckReplicaCount, stepFrame, kube
  <2>2. AtNodeRestarting(ns).under = ns.under
    BY <1>a, StatusFields
  <2> QED
    BY <2>1, <2>2 DEF ScaledInv
<1>12. CASE DisableAllocation \/ PauseAgain \/ Unpause \/ WaitForNodeRollout
  <2>1. /\ UNCHANGED <<st, ns, cur, todo, mode, replicas, pod>>
        /\ pc \in {"allocNone", "pause", "unpause", "waitRollout"}
        /\ pc' \in {"exec", "scale0", "waitRollout", "pause", "waitRejoin", "state"}
        /\ pc' \in {"exec", "scale0"} => pc = "allocNone"
    BY <1>12 DEF DisableAllocation, PauseAgain, Unpause, setPaused, WaitForNodeRollout,
                 stepFrame, kube
  <2> QED
    BY <2>1 DEF ScaledInv
<1>13. CASE ExecuteUpdate \/ WaitForNodeRejoinCluster \/ EnableAllocation
  <2>1. /\ UNCHANGED <<st, cur, todo, mode, replicas, pod>>
        /\ pc \in {"exec", "waitRejoin", "allocAll"}
        /\ pc' \in {"unpause", "allocAll", "health1", "state"}
    BY <1>13 DEF ExecuteUpdate, WaitForNodeRejoinCluster, EnableAllocation, stepFrame, kube
  <2> QED
    BY <2>1 DEF ScaledInv
<1>14. CASE ScaleDownNode
  <2>1. /\ replicas' = [replicas EXCEPT ![cur] = 0] /\ pc = "scale0" /\ pc' = "waitLeave"
        /\ self' = tmpl[cur] /\ UNCHANGED <<st, ns, cur, todo, mode, pod, tmpl>>
    BY <1>14, <1>c DEF ScaleDownNode, setReplicaCount, stepFrame
  <2>2. ns.under = "True"
    BY <2>1 DEF StatusInv, UnderSteps
  <2> QED
    BY <2>1, <2>2, <1>a DEF ScaledInv
<1>15. CASE WaitForNodeLeaveCluster
  <2>1. /\ UNCHANGED <<st, cur, todo, mode, replicas, pod, tmpl, self>> /\ pc = "waitLeave"
        /\ \/ pc' = "scale1" /\ ns' = AtNodeRestarting(ns)
           \/ pc' = "state" /\ ns' = ns /\ TimedOut
    BY <1>15 DEF WaitForNodeLeaveCluster, stepFrame, kube
  <2>2. AtNodeRestarting(ns).under = ns.under
    BY <1>a, StatusFields
  <2>3. TimedOut /\ replicas[cur] = 0 => pod[cur] = NoTmpl
    BY <1>a, <1>b DEF TimedOut, Busy, CanScaleDown
  <2> QED
    BY <2>1, <2>2, <2>3 DEF ScaledInv
<1>16. CASE ScaleUpNode
  <2>1. /\ replicas' = [replicas EXCEPT ![cur] = 1] /\ pc = "scale1" /\ pc' = "waitRejoin"
        /\ UNCHANGED <<st, cur, todo, mode, pod>>
    BY <1>16, <1>c DEF ScaleUpNode, setReplicaCount, stepFrame
  <2>2. replicas'[cur'] # 0 /\ \A n \in Node : replicas'[n] = 0 => replicas[n] = 0 /\ n # cur
    BY <2>1, <1>a
  <2>3. /\ UNCHANGED <<st, cur, todo, mode, pod>> /\ pc \in Working
        /\ pc' \in Working \ {"replicas", "allocNone", "exec", "scale0", "waitLeave"}
    BY <2>1
  <2> QED
    BY <2>2, <2>3 DEF ScaledInv
<1>17. CASE \/ RotateSecret \/ \E t \in Tmpls : EditSpec(t)
  BY <1>17 DEF ScaledInv, RotateSecret, EditSpec, envFrame, kube, local
<1>18. CASE \E n \in Node : Platform(n) \/ PodDies(n)
  <2> PICK n \in Node : Platform(n) \/ PodDies(n)
    BY <1>18
  <2>1. UNCHANGED <<tmpl, replicas, local>>
    BY DEF Platform, PodDies, KillOldPod, CreateReplicaSet, ScaleDownPod, StartPod, JoinCluster,
           RecoverShards, podFrame, envFrame
  <2>2. \A m \in Node : replicas[m] = 0 /\ pod[m] = NoTmpl => pod'[m] = NoTmpl
    BY <1>a DEF Platform, PodDies, KillOldPod, CreateReplicaSet, ScaleDownPod, StartPod,
                JoinCluster, RecoverShards, StopPod, CanStart
  <2> QED
    BY <2>1, <2>2, <1>a DEF ScaledInv, local
<1>19. CASE OperatorRestart
  BY <1>19, <1>b DEF OperatorRestart
<1>20. CASE UNCHANGED vars
  BY <1>20 DEF ScaledInv, vars, kube, local
<1> QED
  BY <1>1, <1>2, <1>3, <1>4, <1>5, <1>6, <1>7, <1>8, <1>9, <1>10, <1>11, <1>12, <1>13, <1>14,
     <1>15, <1>16, <1>17, <1>18, <1>19, <1>20 DEF Next, Operator, Environment

(* If waits are not cut short, the custom resource and the Deployments can be
   written and the operator is not restarted, then - whichever requests to
   Elasticsearch fail, pods die or cannot be scheduled, however the spec and
   the secret change - a Deployment at 0 replicas belongs to a node that the
   operator still has under upgrade: restart will scale it up again.       *)
THEOREM ScaledDownAlwaysOwned ==
    ASSUME Steady, "status" \notin Hazards
    PROVE  Spec => []ScaledDownOwned
<1>1. Init => OrderInv /\ AllocInv
  BY FollowsItself DEF Init, OrderInv, AllocInv, AllocationOwned, Working, RestartSteps, UnderSteps
<1>2. Init => ScaledInv
  BY DEF Init, ScaledInv, Working
<1>3. TypeOK /\ StatusInv /\ AllocInv /\ [Next]_vars => AllocInv'
  BY AllocStep DEF Steady
<1>4. TypeOK /\ StatusInv /\ OrderInv /\ AllocInv /\ ScaledInv /\ [Next]_vars => ScaledInv'
  BY ScaledStep
<1>5. TypeOK /\ AllocInv /\ ScaledInv => ScaledDownOwned
  <2> SUFFICES ASSUME TypeOK, AllocInv, ScaledInv, NEW n \in Node, replicas[n] = 0
               PROVE  Owned(n)
    BY DEF ScaledDownOwned
  <2>1. RecoveringData \notin Settled
    BY DEF Settled, RecoveringData, ControllerUpdated
  <2>2. CASE n = cur /\ pc \in Working
    BY <2>1, <2>2 DEF ScaledInv, AllocInv, RestartSteps, UnderSteps, Owned, Current
  <2>3. CASE ~(n = cur /\ pc \in Working)
    BY <2>1, <2>3 DEF ScaledInv, Owned, Current
  <2> QED
    BY <2>2, <2>3
<1> QED
  BY <1>1, <1>2, <1>3, <1>4, <1>5, StatusInit, TypeCorrect, StatusStep, OrderStep, PTL DEF Spec

-----------------------------------------------------------------------------
(* When little or nothing fails: nodes leave the cluster with allocation   *)
(* off, they have their turn one after the other, as RollingRestart says,  *)
(* and every new secret is noticed.                                        *)

\* what the theorems exclude from here on: besides waits cut short, lost
\* writes and restarts also pods that die or cannot be scheduled
Careful == Steady /\ "status" \notin Hazards /\ "pod" \notin Hazards /\ Unsched = {}

\* what the lemmas above have shown inductive
Base == /\ TypeOK /\ StatusInv /\ OrderInv /\ AllocInv
        /\ NoneUnsched /\ OwnObject /\ RolloutInv /\ ScaledInv

\* the invariants above, together
LEMMA BaseHolds ==
    ASSUME Careful
    PROVE  Spec => []Base
<1> DEFINE Rest == OrderInv /\ AllocInv /\ NoneUnsched /\ OwnObject /\ RolloutInv /\ ScaledInv
<1>1. Init => Rest
  <2> SUFFICES ASSUME Init PROVE Rest
    OBVIOUS
  <2>1. OrderInv /\ AllocInv
    BY FollowsItself DEF Init, OrderInv, AllocInv, AllocationOwned, Working, RestartSteps, UnderSteps
  <2>2. NoneUnsched /\ OwnObject
    BY DEF Init, BlankStatus, NoneUnsched, OwnObject
  <2>3. RolloutInv
    BY DEF Init, RolloutInv
  <2>4. ScaledInv
    BY DEF Init, ScaledInv, Working
  <2> QED
    BY <2>1, <2>2, <2>3, <2>4
<1>2. TypeOK /\ StatusInv /\ Rest /\ [Next]_vars => Rest'
  BY OrderStep, AllocStep, UnschedStep, ObjectStep, RolloutStep, ScaledStep DEF Careful, Steady
<1>3. TypeOK /\ StatusInv /\ Rest => Base
  BY DEF Base
<1> HIDE DEF Rest
<1> QED
  BY <1>1, <1>2, <1>3, StatusInit, TypeCorrect, StatusStep, PTL DEF Spec

-----------------------------------------------------------------------------
(* Nodes leave the cluster only with allocation off.                       *)

(* Allocation is off from DisableAllocation until the pod of the node whose
   turn it is has gone, and no other pod goes: a node is a member only with
   its pod, a pod has a ReplicaSet, and a Deployment has none at first.    *)
LeaveInv ==
    /\ \A n \in Node : pod[n] # NoTmpl => rs[n] # NoTmpl
    /\ \A n \in members : pod[n] # NoTmpl
    /\ pc = "initWait" /\ rs[cur] # tmpl[cur] => rs[cur] = NoTmpl
    /\ pc \in {"exec", "scale0"} => alloc = "none"
    /\ pc \in {"unpause", "waitRollout"} /\ rs[cur] # tmpl[cur] =>
          (pod[cur] # NoTmpl \/ cur \in paused => alloc = "none")
    /\ pc \in {"waitLeave", "scale1"} /\ replicas[cur] = 0 =>
          (pod[cur] # NoTmpl => alloc = "none")

\* Kubernetes takes only the pod of the node whose turn it is
LEMMA OnlyOnesTurn ==
    ASSUME Base, LeaveInv, NEW n \in Node
    PROVE  /\ CanKillOld(n) => n = cur /\ pc \in {"unpause", "waitRollout"} /\ alloc = "none"
           /\ CanScaleDown(n) => n = cur /\ pc \in {"waitLeave", "scale1"} /\ alloc = "none"
           /\ CanNewRS(n) => n = cur /\ pc \in {"initWait", "unpause", "waitRollout"}
<1>1. CanKillOld(n) \/ CanNewRS(n) => n = cur /\ pc \in {"initWait", "unpause", "waitRollout"}
  BY DEF CanKillOld, CanNewRS, Base, RolloutInv
<1>2. CanKillOld(n) => pc # "initWait"
  BY <1>1 DEF CanKillOld, LeaveInv
<1>3. CanKillOld(n) => alloc = "none"
  BY <1>1, <1>2 DEF CanKillOld, LeaveInv
<1>4. CanScaleDown(n) => n = cur /\ pc \in {"waitLeave", "scale1"}
  BY DEF CanScaleDown, Base, ScaledInv
<1>5. CanScaleDown(n) => alloc = "none"
  BY <1>4 DEF CanScaleDown, LeaveInv
<1> QED
  BY <1>1, <1>2, <1>3, <1>4, <1>5

\* LeaveInv is inductive
LEMMA LeaveStep ==
    ASSUME Careful
    PROVE  Base /\ LeaveInv /\ [Next]_vars => LeaveInv'
<1> SUFFICES ASSUME Base, LeaveInv, [Next]_vars PROVE LeaveInv'
  OBVIOUS
<1>a. /\ ns.phase \in Phase /\ cur \in Node /\ st \in [Node -> NodeStatus] /\ paused \subseteq Node
      /\ tmpl \in [Node -> Template] /\ rs \in [Node -> Template] /\ pod \in [Node -> Template]
      /\ replicas \in [Node -> 0..1] /\ members \subseteq Node
  BY DEF Base, TypeOK, NodeStatus
<1>b. "api" \notin Hazards /\ "crash" \notin Hazards /\ "pod" \notin Hazards
  BY DEF Careful, Steady
<1>c. \A o, p : FailedWrite(o, p) = {}
  BY <1>b DEF FailedWrite
<1>d. ASSUME UNCHANGED <<rs, pod, members>>,
             pc' \notin {"initWait", "exec", "scale0", "unpause", "waitRollout", "waitLeave", "scale1"}
      PROVE  LeaveInv'
  BY <1>d DEF LeaveInv
<1>1. CASE \/ StartReconcile \/ CreateOrUpdateElasticsearchCluster \/ UpdateNodeStatus
           \/ UpdateClusterStatus \/ RecheckConfFails \/ CreateAlreadyExists \/ CheckHealthBefore
           \/ CheckHealthAfter \/ WaitForInitialRollout \/ WaitForNodeRollout
           \/ WaitForNodeRejoinCluster
  BY <1>1, <1>d DEF StartReconcile, CreateOrUpdateElasticsearchCluster, UpdateNodeStatus,
     UpdateClusterStatus, RecheckConfFails, CreateAlreadyExists, CheckHealthBefore, CheckHealthAfter,
     WaitForInitialRollout, WaitForNodeRollout, WaitForNodeRejoinCluster, Return, reconcileFrame,
     createFrame, kube, es
<1>2. CASE CreatePause \/ PauseAgain \/ ScaleUpNode
  BY <1>2, <1>c, <1>d DEF CreatePause, PauseAgain, setPaused, ScaleUpNode, setReplicaCount, createFrame, es
<1>3. CASE EnableAllocation
  BY <1>3, <1>d DEF EnableAllocation, SetShardAllocation, kube
<1>4. CASE \/ UnschedExecute \/ UnschedUnpause \/ UnschedWait \/ UnschedPause
           \/ \E n \in Node : progressUnshedulableNode(n)
  BY <1>4 DEF Base, NoneUnsched, UnschedExecute, UnschedUnpause, UnschedWait, UnschedPause,
              progressUnshedulableNode, IsFirst
<1>e. ASSUME UNCHANGED <<rs, pod, members, tmpl, replicas>>, cur' \in Node,
             pc \in {"next", "size0"},  pc' \notin {"initWait", "exec", "scale0", "waitRollout", "waitLeave"},
             pc = "size0" => cur' = cur
      PROVE  LeaveInv'
  <2>1. \A n \in Node : rs[n] = tmpl[n]
    BY <1>e DEF Base, RolloutInv
  <2>2. replicas[cur'] = 0 => pod[cur'] = NoTmpl
    BY <1>e DEF Base, ScaledInv, Working
  <2> QED
    BY <1>e, <2>1, <2>2 DEF LeaveInv
<1>5. CASE \E n \in Node : NextNode(n)
  <2> PICK n \in Node : NextNode(n)
    BY <1>5
  <2>1. UNCHANGED <<rs, pod, members, tmpl, replicas>> /\ cur' = n /\ pc = "next" /\ pc' = Entry(mode, st[n])
    BY DEF NextNode, reconcileFrame, kube, es
  <2>2. pc' \in {"create", "health0", "allocNone", "replicas", "unpause", "scale1", "health1"}
    BY <2>1, <1>a, AtPhaseStep DEF Entry, NodeStatus
  <2> QED
    BY <2>1, <2>2, <1>e
<1>6. CASE RecordClusterSize
  <2>1. UNCHANGED <<rs, pod, members, tmpl, replicas, cur>> /\ pc = "size0"
        /\ pc' \in {"state", AtPhase(mode, ns.phase)}
    BY <1>6 DEF RecordClusterSize, stepFrame, kube, es
  <2> QED
    BY <2>1, <1>a, <1>e, AtPhaseStep
<1>7. CASE Create
  <2>1. /\ pc' = "initWait" /\ tmpl[cur] = NoTmpl /\ UNCHANGED <<rs, pod, members, cur>>
    BY <1>7, <1>b DEF Create, createFrame, es
  <2>2. rs[cur] = NoTmpl
    BY <2>1, <1>a DEF Base, RolloutInv
  <2> QED
    BY <2>1, <2>2 DEF LeaveInv
<1>8. CASE CheckReplicaCount
  BY <1>8 DEF LeaveInv, CheckReplicaCount, stepFrame, kube, es
<1>9. CASE DisableAllocation
  BY <1>9 DEF LeaveInv, DisableAllocation, SetShardAllocation, stepFrame, kube
<1>10. CASE ExecuteUpdate
  <2>1. pc = "exec" /\ pc' = "unpause" /\ UNCHANGED <<rs, pod, members, alloc>>
    BY <1>10, <1>c DEF ExecuteUpdate, executeUpdate, es
  <2> QED
    BY <2>1 DEF LeaveInv
<1>11. CASE Unpause
  <2>1. /\ pc = "unpause" /\ pc' = "waitRollout" /\ paused' = paused \ {cur}
        /\ UNCHANGED <<tmpl, rs, pod, members, alloc, cur>>
    BY <1>11, <1>c DEF Unpause, setPaused, stepFrame, es
  <2> QED
    BY <2>1 DEF LeaveInv
<1>12. CASE ScaleDownNode
  <2>1. pc = "scale0" /\ pc' = "waitLeave" /\ UNCHANGED <<rs, pod, members, alloc>>
    BY <1>12, <1>c DEF ScaleDownNode, setReplicaCount, es
  <2> QED
    BY <2>1 DEF LeaveInv
<1>13. CASE WaitForNodeLeaveCluster
  BY <1>13 DEF LeaveInv, WaitForNodeLeaveCluster, stepFrame, kube, es
<1>14. CASE \/ RotateSecret \/ \E t \in Tmpls : EditSpec(t)
  BY <1>14 DEF LeaveInv, RotateSecret, EditSpec, envFrame, kube, es, local
<1>15. ASSUME NEW n \in Node, Platform(n) PROVE LeaveInv'
  <2>1. UNCHANGED <<tmpl, paused, replicas, cur, pc>>
    BY <1>15 DEF Platform, KillOldPod, CreateReplicaSet, ScaleDownPod, StartPod, JoinCluster,
           RecoverShards, podFrame, envFrame, local
  <2>2. CASE KillOldPod(n) \/ ScaleDownPod(n)
    <3>1. /\ n = cur /\ UNCHANGED rs /\ pod' = [pod EXCEPT ![n] = NoTmpl] /\ members' = members \ {n}
          /\ pc \in {"unpause", "waitRollout"} => n \notin paused
          /\ pc \in {"unpause", "waitRollout", "waitLeave", "scale1"}
      BY <2>2, OnlyOnesTurn DEF KillOldPod, ScaleDownPod, StopPod, CanKillOld
    <3> QED
      BY <2>1, <3>1, <1>a DEF LeaveInv
  <2>3. CASE CreateReplicaSet(n)
    <3>1. /\ n = cur /\ pc \in {"initWait", "unpause", "waitRollout"}
          /\ rs' = [rs EXCEPT ![n] = tmpl[n]] /\ UNCHANGED <<pod, members, alloc>> /\ tmpl[n] # NoTmpl
      BY <2>3, OnlyOnesTurn DEF CreateReplicaSet, CanNewRS, es
    <3> QED
      BY <2>1, <3>1, <1>a DEF LeaveInv
  <2>4. CASE StartPod(n)
    <3>1. /\ replicas[n] = 1 /\ rs[n] # NoTmpl /\ (n \in paused \/ rs[n] = tmpl[n])
          /\ pod' = [pod EXCEPT ![n] = rs[n]] /\ UNCHANGED <<rs, members, alloc>>
      BY <2>4 DEF StartPod, CanStart, es
    <3> QED
      BY <2>1, <3>1, <1>a DEF LeaveInv
  <2>5. CASE JoinCluster(n) \/ RecoverShards(n)
    <3>1. UNCHANGED <<rs, pod, alloc>> /\ members' \subseteq members \cup {m \in Node : pod[m] # NoTmpl}
      BY <2>5, TmplsAssumption DEF JoinCluster, RecoverShards, CanJoin
    <3> QED
      BY <2>1, <3>1, <1>a DEF LeaveInv
  <2> QED
    BY <1>15, <2>2, <2>3, <2>4, <2>5 DEF Platform
<1>16. CASE OperatorRestart \/ \E n \in Node : PodDies(n)
  BY <1>16, <1>b DEF OperatorRestart, PodDies
<1>17. CASE UNCHANGED vars
  BY <1>17 DEF LeaveInv, vars, kube, es, local
<1> QED
  BY <1>1, <1>2, <1>3, <1>4, <1>5, <1>6, <1>7, <1>8, <1>9, <1>10, <1>11, <1>12, <1>13, <1>14,
     <1>15, <1>16, <1>17 DEF Next, Operator, Environment

\* the invariants so far hold in every behaviour
LEMMA LeaveHolds ==
    ASSUME Careful
    PROVE  Spec => [](Base /\ LeaveInv)
<1>1. Init => LeaveInv
  BY DEF Init, LeaveInv
<1> QED
  BY <1>1, LeaveStep, BaseHolds, PTL DEF Spec

(* If waits are not cut short, writes are not lost, the operator is not
   restarted and pods neither die by themselves nor stay unscheduled, then -
   whichever requests to Elasticsearch fail, however often the spec and the
   secret change, and in the middle of what - no node leaves the cluster
   while Elasticsearch would move its shards elsewhere.                    *)
THEOREM NodesLeaveWithAllocationOff ==
    ASSUME Careful
    PROVE  Spec => LeaveWithAllocationOff
<1>1. Base /\ LeaveInv /\ [Next]_vars => [\A n \in members \ members' : alloc = "none"]_vars
  <2> SUFFICES ASSUME Base, LeaveInv, [Next]_vars, NEW n \in members \ members'
               PROVE  alloc = "none"
    OBVIOUS
  <2>1. \E m \in Node : KillOldPod(m) \/ ScaleDownPod(m)
    <3>1. CASE Operator
      <4>1. UNCHANGED members
        BY <3>1 DEF Operator, StartReconcile, progressUnshedulableNode, NextNode, UnschedExecute,
           UnschedUnpause, UnschedWait, UnschedPause, CreateOrUpdateElasticsearchCluster,
           UpdateNodeStatus, UpdateClusterStatus, RecheckConfFails, Create, CreateAlreadyExists,
           WaitForInitialRollout, CreatePause, CheckHealthBefore, RecordClusterSize,
           CheckReplicaCount, DisableAllocation, SetShardAllocation, ExecuteUpdate, Unpause,
           WaitForNodeRollout, PauseAgain, ScaleDownNode, WaitForNodeLeaveCluster, ScaleUpNode,
           WaitForNodeRejoinCluster, EnableAllocation, CheckHealthAfter, reconcileFrame,
           unschedFrame, createFrame, es
      <4> QED
        BY <4>1
    <3>2. CASE UNCHANGED vars \/ RotateSecret \/ \E t \in Tmpls : EditSpec(t)
      BY <3>2 DEF vars, es, RotateSecret, EditSpec
    <3>3. CASE OperatorRestart \/ \E m \in Node : PodDies(m)
      BY <3>3 DEF OperatorRestart, PodDies, Careful, Steady
    <3>4. CASE \E m \in Node : Platform(m)
      BY <3>4 DEF Platform, CreateReplicaSet, StartPod, JoinCluster, RecoverShards, es
    <3> QED
      BY <3>1, <3>2, <3>3, <3>4 DEF Next, Environment
  <2> QED
    BY <2>1, OnlyOnesTurn DEF KillOldPod, ScaleDownPod
<1> QED
  BY <1>1, LeaveHolds, PTL DEF Spec, LeaveWithAllocationOff

-----------------------------------------------------------------------------
(* When nothing fails: turns.                                              *)

Calm == Hazards = {} /\ Unsched = {}

(* The spec is not edited again before every Deployment has the template of
   the last edit.  Without this, a turn may not end (an edit that is taken
   back before its rollout: update waits for a rollout that never comes).  *)
Patient == spec' # spec => \A n \in Node : tmpl[n] \in {spec, NoTmpl}
EditsWait == [][Patient]_vars

AllCreated  == \A n \in Node : tmpl[n] # NoTmpl
NoneCreated == \A n \in Node : tmpl[n] = NoTmpl

\* the steps at which the template has been written, and those at which a
\* node may be away
Written == {"unpause", "waitRollout", "pause", "waitRejoin", "allocAll", "health1", "state"}
Down    == {"unpause", "waitRollout", "pause", "waitLeave", "scale1", "waitRejoin"}

(* An upgrade is scheduled only for a node whose Deployment really differs
   from the spec, so every update rolls something out.                     *)
PlanInv ==
    /\ pc # "idle" /\ desired # spec => \A n \in Node :
          tmpl[n] \in {desired, NoTmpl} /\ (st[n].up = "True" => n = cur /\ pc \in Written)
    /\ pc \in Working \ {"initWait"} => self \in {desired, tmpl[cur]}
    /\ \A n \in Node : st[n].up = "True" =>
          tmpl[n] \notin {spec, NoTmpl} \/ (n = cur /\ pc \in Written)
    /\ mode = "update" /\ pc \in {"health0", "size0", "allocNone", "exec"} => st[cur].up = "True"
    /\ mode = "update" => pc \notin {"replicas", "scale0", "waitLeave", "scale1"}
    /\ mode = "restart" => pc \notin {"exec", "unpause", "waitRollout", "pause"}
    /\ pc \in {"health0", "size0"} \cup UnderSteps => mode # "create"

(* All Deployments are created in the first reconcile, one after the other,
   and nothing else is done before they are there.                         *)
Creating ==
    /\ \A n \in Node : st[n].up = "" /\ st[n].re = "" /\ st[n].under = ""
    /\ pc \in {"idle", "unsched"} => NoneCreated
    /\ pc \in {"next", "initWait", "createPause", "state"} =>
          \A n \in Node : tmpl[n] = NoTmpl <=> n \in todo
    /\ pc = "create" => \A n \in Node : tmpl[n] = NoTmpl <=> n \in todo \cup {cur}
    /\ pc \in Working \cup {"next"} => mode = "create"
    /\ pc \in Working => pc \in {"create", "initWait", "createPause", "state"}
    /\ pc \in {"createPause", "state"} => self = tmpl[cur] /\ hash[cur] = secret
    /\ pc = "state" => ns.under = ""
CreateInv ==
    /\ AllCreated \/ Creating
    /\ \A n \in Node : rev[n] = 0 => rs[n] = NoTmpl
    /\ \A n \in Node : tmpl[n] # NoTmpl => hash[n] # 0 \/ (n = cur /\ pc = "initWait")
    /\ \A n \in Node : tmpl[n] = NoTmpl => hash[n] = 0
    /\ pc \in Working \ {"create"} => tmpl[cur] # NoTmpl

(* A turn ends, at the latest with data recovery, in the reconcile in which
   it began: Elasticsearch answers, and what a wait waits for happens.     *)
TurnInv ==
    /\ \A n \in Node : st[n].under = "True" => st[n].phase = RecoveringData
    /\ pc = "state" /\ ns.under = "True" => ns.phase = RecoveringData
    /\ pc \in {"size0", "replicas", "allocNone", "allocAll"} => members # {}
    /\ pc \in RestartSteps => size[cur] > 0
    /\ pc = "size0" => dirty = {}
    /\ members = {} => alloc = "all"
    /\ pc \in {"unpause", "waitRollout"} /\ rs[cur] = tmpl[cur] => rev[cur] # curRev[cur]
    /\ pc = "waitLeave" => replicas[cur] = 0

(* A secret is rotated in a cluster at rest.  From then on and until every
   node has restarted, only the node whose turn it is may be away, and the
   size recorded is that of the whole cluster.                             *)
Rotated == \E n \in Node : hash[n] \notin {0, secret}
Whole ==
    /\ AllCreated
    /\ \A n \in Node : n \in members \/ (n = cur /\ pc \in Down)
    /\ pc \in RestartSteps => size[cur] = N
    /\ pc = "waitLeave" => cur \in members \/ pod[cur] = NoTmpl
WholeInv == Rotated => Whole

\* a redeploy is scheduled for a node that remembers an older secret
DueInv ==
    /\ \A n \in Node : hash[n] <= secret /\ loaded[n] <= secret
    /\ \A n \in Node : st[n].re = "True" => hash[n] \notin {0, secret} \/ (n = cur /\ pc \in Working)
    /\ mode = "restart" /\ pc \in {"health0", "size0"} \cup (RestartSteps \ {"allocAll"}) =>
          hash[cur] \notin {0, secret}
    /\ mode = "restart" /\ pc \in Working \cup {"next"} =>
          \A n \in todo : st[n].under = "True" \/ st[n].re = "True"

(* The hash of the secret is that of the pod, except while the pod of the
   node whose turn it is is being replaced.                                *)
Renewed(n) == pod[n] = NoTmpl \/ loaded[n] = secret
SecretInv ==
    /\ \A n \in Node : hash[n] = secret => Renewed(n)
    /\ \A n \in Node : loaded[n] = secret => hash[n] = secret \/ (n = cur /\ pc \in Down \cup {"initWait"})
    /\ pc \in {"initWait", "scale1", "waitRejoin"} => Renewed(cur)
    /\ pc \in {"unpause", "waitRollout", "pause"} /\ rs[cur] = tmpl[cur] => Renewed(cur)
    /\ pc = "waitRejoin" /\ mode = "update" => hash[cur] = secret

CalmInv == PlanInv /\ CreateInv /\ TurnInv /\ WholeInv /\ DueInv /\ SecretInv
All == Base /\ LeaveInv /\ CalmInv

(* What the steps do when nothing fails, one lemma per step.               *)

\* the types of what the steps change
LEMMA CalmTypes ==
    ASSUME All
    PROVE  /\ spec \in Tmpls /\ secret \in Nat \ {0} /\ cr \in [Node -> NodeStatus] /\ st = cr
           /\ tmpl \in [Node -> Template] /\ paused \subseteq Node /\ replicas \in [Node -> 0..1]
           /\ rs \in [Node -> Template] /\ rev \in [Node -> Nat] /\ pod \in [Node -> Template]
           /\ loaded \in [Node -> Nat] /\ members \subseteq Node /\ alloc \in {"all", "none"}
           /\ size \in [Node -> 0..N] /\ curRev \in [Node -> Nat] /\ hash \in [Node -> Nat]
           /\ cur \in Node /\ todo \subseteq Node /\ ns \in NodeStatus /\ st \in [Node -> NodeStatus]
           /\ ns.phase \in Phase /\ mode \in {"update", "restart", "create"}
<1>1. TypeOK /\ st = cr
  BY DEF All, Base, AllocInv
<1>2. 0..MaxSecret \subseteq Nat /\ 1..MaxSecret \subseteq Nat \ {0}
  BY BoundsAssumption
<1>3. loaded \in [Node -> Nat] /\ hash \in [Node -> Nat] /\ secret \in Nat \ {0}
  BY <1>1, <1>2 DEF TypeOK
<1>4. ns.phase \in Phase
  BY <1>1 DEF TypeOK, NodeStatus
<1> QED
  BY <1>1, <1>3, <1>4 DEF TypeOK

\* Calm excludes what Careful does, and every write succeeds
LEMMA CalmIsCareful ==
    ASSUME Calm
    PROVE  Careful /\ (\A k : k \notin Hazards) /\ (\A o, p : FailedWrite(o, p) = {})
BY DEF Calm, Careful, Steady, FailedWrite

\* GetClusterNodeCount counts the members
LEMMA CalmCounts ==
    ASSUME Calm, members \subseteq Node
    PROVE  /\ Counts = {Cardinality(members)} /\ Cardinality(members) \in 0..N
           /\ Cardinality(members) = 0 <=> members = {}
           /\ Cardinality(members) = N <=> members = Node
           /\ EsFails <=> members = {}
<1>1. IsFiniteSet(Node) /\ Cardinality(Node) = N
  BY FS_Interval, NAssumption DEF Node
<1>2. IsFiniteSet(members) /\ Cardinality(members) <= N
  BY <1>1, FS_Subset
<1>3. Cardinality(members) \in Nat
  BY <1>2, FS_CardinalityType
<1>4. Cardinality(members) = 0 <=> members = {}
  BY <1>2, FS_EmptySet
<1>5. Cardinality(members) = N => members = Node
  BY <1>1, FS_Subset
<1>6. EsFails <=> members = {}
  BY DEF EsFails, Calm
<1>7. Counts = {Cardinality(members)}
  BY <1>4, <1>6 DEF Counts
<1> QED
  BY <1>1, <1>2, <1>3, <1>4, <1>5, <1>6, <1>7, NAssumption

\* when nothing is under way, every node whose Deployment is rolled out and
\* at one replica is in the cluster
LEMMA EveryoneIsBack ==
    ASSUME Calm, All, TimedOut, AllCreated,
           \A n \in Node : rs[n] = tmpl[n] /\ replicas[n] = 1
    PROVE  members = Node
<1>1. ~Busy
  BY DEF TimedOut, Calm
<1>2. ASSUME NEW n \in Node PROVE n \in members
  <2>1. pod[n] # NoTmpl
    BY <1>1 DEF Busy, CanStart, AllCreated
  <2>2. pod[n] \in Tmpls \ Unsched
    BY <2>1, CalmTypes DEF Calm, Template
  <2> QED
    BY <1>1, <2>2 DEF Busy, CanJoin
<1> QED
  BY <1>2, CalmTypes

\* no Deployment is at 0 replicas but in the turn of its node
LEMMA ScaledUp ==
    ASSUME All, NEW n \in Node, ~(n = cur /\ pc \in {"replicas", "waitLeave", "scale1", "state"})
    PROVE  replicas[n] = 1
<1>1. CASE n = cur /\ pc \in Working
  <2>1. replicas[n] # 0
    BY <1>1 DEF All, Base, ScaledInv
  <2> QED
    BY <2>1, CalmTypes
<1>2. CASE ~(n = cur /\ pc \in Working)
  <2>1. st[n].under = "True" => st[n].phase \notin Settled
    BY DEF All, CalmInv, TurnInv, Settled, RecoveringData, ControllerUpdated
  <2>2. replicas[n] # 0
    BY <1>2, <2>1 DEF All, Base, ScaledInv
  <2> QED
    BY <2>2, CalmTypes
<1> QED
  BY <1>1, <1>2

\* StartReconcile: nothing is unschedulable
LEMMA StartEffect ==
    ASSUME All, StartReconcile
    PROVE  /\ pc = "idle" /\ pc' = "unsched" /\ st' = st /\ desired' = spec /\ todo' = {}
           /\ UNCHANGED <<spec, secret, edits, cr, tmpl, paused, replicas, rs, rev, pod, loaded, members,
                          dirty, alloc, size, curRev, hash, mode, cur, ns, self>>
BY CalmTypes DEF StartReconcile, getNodes, reconcileFrame, user, kube, es, mem, All, Base, NoneUnsched

\* CreateOrUpdateElasticsearchCluster: what is selected
LEMMA SelectEffect ==
    ASSUME All, CreateOrUpdateElasticsearchCluster
    PROVE  /\ pc = "unsched" /\ pc' = "next" /\ todo = {}
           /\ mode' = "update" => \A n \in todo' : st[n].up = "True"
           /\ mode' = "restart" => \A n \in todo' : st[n].under = "True" \/ st[n].re = "True"
           /\ mode' = "create" => todo' = Node
           /\ (\A n \in Node : st[n].up = "" /\ st[n].re = "" /\ st[n].under = "") => mode' = "create"
           /\ UNCHANGED <<spec, secret, edits, cr, tmpl, paused, replicas, rs, rev, pod, loaded, members,
                          dirty, alloc, size, curRev, hash, cur, ns, st, desired, self>>
<1>1. /\ pc = "unsched" /\ pc' = "next" /\ todo = {} /\ SelectNodes
      /\ UNCHANGED <<spec, secret, edits, cr, tmpl, paused, replicas, rs, rev, pod, loaded, members,
                     dirty, alloc, size, curRev, hash, cur, ns, st, desired, self>>
  BY DEF CreateOrUpdateElasticsearchCluster, reconcileFrame, user, kube, es, mem
<1>2. /\ mode' = "update" => \A n \in todo' : st[n].up = "True"
      /\ mode' = "restart" => \A n \in todo' : st[n].under = "True" \/ st[n].re = "True"
      /\ mode' = "create" => todo' = Node
      /\ (\A n \in Node : st[n].up = "" /\ st[n].re = "" /\ st[n].under = "") => mode' = "create"
  BY <1>1 DEF SelectNodes, UpgradeInProgress, getScheduledUpgradeNodes,
              getScheduledRedeployOnlyNodes, IsFirst
<1> QED
  BY <1>1, <1>2

\* NextNode: a node under upgrade is recovering its data
LEMMA NextEffect ==
    ASSUME All, NEW n \in Node, NextNode(n)
    PROVE  /\ pc = "next" /\ n \in todo /\ todo' = todo \ {n} /\ cur' = n /\ ns' = st[n] /\ self' = desired
           /\ pc' = IF mode = "create" THEN "create"
                    ELSE IF st[n].under = "True" THEN "health1" ELSE "health0"
           /\ UNCHANGED <<spec, secret, edits, cr, tmpl, paused, replicas, rs, rev, pod, loaded, members,
                          dirty, alloc, size, curRev, hash, mode, st, desired>>
<1>1. st[n].under = "True" => st[n].phase = RecoveringData
  BY DEF All, CalmInv, TurnInv
<1>2. AtPhase(mode, RecoveringData) = "health1"
  BY DEF AtPhase, RecoveringData, NodeRestarting, ControllerUpdated
<1>3. Entry(mode, st[n]) = IF mode = "create" THEN "create"
                           ELSE IF st[n].under = "True" THEN "health1" ELSE "health0"
  BY <1>1, <1>2 DEF Entry
<1> QED
  BY <1>3 DEF NextNode, IsFirst, reconcileFrame, user, kube, es, mem

\* UpdateNodeStatus
LEMMA StateEffect ==
    ASSUME Calm, All, UpdateNodeStatus
    PROVE  /\ pc = "state" /\ pc' = "next" /\ cr' = st'
           /\ \A n \in Node : n # cur => st'[n] = st[n]
           /\ st'[cur].under = ns.under /\ st'[cur].phase = ns.phase
           /\ st'[cur].up = Flag(isChanged(cur, self)) /\ st'[cur].re = Flag(secret # hash[cur])
           /\ UNCHANGED <<spec, secret, edits, tmpl, paused, replicas, rs, rev, pod, loaded, members,
                          dirty, alloc, size, curRev, hash, mode, cur, todo, ns, desired, self>>
<1>1. st' = [st EXCEPT ![cur] = state(cur, ns)] /\ cr' = st'
  BY CalmIsCareful DEF UpdateNodeStatus, SaveStatus
<1>2. /\ state(cur, ns).under = ns.under /\ state(cur, ns).phase = ns.phase
      /\ state(cur, ns).up = Flag(isChanged(cur, self)) /\ state(cur, ns).re = Flag(secret # hash[cur])
  BY CalmTypes DEF state, NodeStatus
<1> QED
  BY <1>1, <1>2, CalmTypes DEF UpdateNodeStatus, reconcileFrame, user, kube, es, mem

\* UpdateClusterStatus, at the end of the reconcile
LEMMA ClusterEffect ==
    ASSUME Calm, All, UpdateClusterStatus
    PROVE  /\ pc = "next" /\ todo = {} /\ pc' = "idle" /\ mode' = "create" /\ cr' = st'
           /\ \A n \in Node : /\ st'[n].under = st[n].under /\ st'[n].phase = st[n].phase
                              /\ st'[n].up = st[n].up /\ st'[n].re = st[n].re
           /\ UNCHANGED <<spec, secret, edits, tmpl, paused, replicas, rs, rev, pod, loaded, members,
                          dirty, alloc, size, curRev, hash>>
<1> DEFINE new == [n \in Node |-> [st[n] EXCEPT !.unsched = PodCondition(n)]]
<1>1. cr' = new /\ st' = new
  BY CalmIsCareful DEF UpdateClusterStatus, SaveStatus, Return
<1>2. ASSUME NEW n \in Node
      PROVE  /\ new[n].under = st[n].under /\ new[n].phase = st[n].phase
             /\ new[n].up = st[n].up /\ new[n].re = st[n].re
  BY CalmTypes DEF NodeStatus
<1> HIDE DEF new
<1> QED
  BY <1>1, <1>2 DEF UpdateClusterStatus, Return, reconcileFrame, user, kube, es, mem

\* Create
LEMMA CreateEffect ==
    ASSUME Calm, All, Create
    PROVE  /\ pc = "create" /\ tmpl[cur] = NoTmpl /\ pc' = "initWait" /\ desired \in Tmpls
           /\ tmpl' = [tmpl EXCEPT ![cur] = desired] /\ paused' = paused \ {cur}
           /\ replicas' = [replicas EXCEPT ![cur] = 1]
           /\ UNCHANGED <<spec, secret, edits, cr, rs, rev, pod, loaded, members, dirty, alloc, size,
                          curRev, hash, mode, cur, todo, ns, st, desired, self>>
<1>1. "api" \notin Hazards
  BY CalmIsCareful
<1> QED
  BY <1>1 DEF Create, Created, createFrame, user, es, All, Base, OwnObject

\* CreateAlreadyExists: nothing changes
LEMMA AlreadyEffect ==
    ASSUME All, CreateAlreadyExists
    PROVE  /\ pc = "create" /\ tmpl[cur] # NoTmpl /\ pc' = "createPause"
           /\ UNCHANGED <<spec, secret, edits, cr, tmpl, paused, replicas, rs, rev, pod, loaded, members,
                          dirty, alloc, size, curRev, hash, mode, cur, todo, ns, st, desired, self>>
BY DEF CreateAlreadyExists, stepFrame, user, kube, es, mem

\* WaitForInitialRollout: the first rollout is seen
LEMMA InitialRolloutEffect ==
    ASSUME Calm, All, WaitForInitialRollout
    PROVE  /\ pc = "initWait" /\ pc' = "createPause" /\ self' = tmpl[cur]
           /\ hash' = [hash EXCEPT ![cur] = secret]
           /\ UNCHANGED <<spec, secret, edits, cr, tmpl, paused, replicas, rs, rev, pod, loaded, members,
                          dirty, alloc, size, curRev, mode, cur, todo, ns, st, desired>>
<1>1. pc = "initWait" /\ tmpl[cur] # NoTmpl /\ cur \notin paused /\ cur \in Node
  BY CalmTypes DEF WaitForInitialRollout, All, Base, RolloutInv, CalmInv, CreateInv, Working
<1>2. TimedOut => rev[cur] # 0
  <2>1. TimedOut => rs[cur] = tmpl[cur]
    BY <1>1, NothingUnderWay, CalmIsCareful DEF Careful
  <2> QED
    BY <1>1, <2>1 DEF All, CalmInv, CreateInv
<1> QED
  BY <1>1, <1>2 DEF WaitForInitialRollout, refreshHashes, createFrame, user, kube, es

\* CreatePause: the write succeeds
LEMMA CreatePauseEffect ==
    ASSUME Calm, All, CreatePause
    PROVE  /\ pc = "createPause" /\ pc' = "state" /\ paused' = paused \cup {cur}
           /\ UNCHANGED <<spec, secret, edits, cr, tmpl, replicas, rs, rev, pod, loaded, members,
                          dirty, alloc, size, curRev, hash, mode, cur, todo, ns, st, desired, self>>
BY CalmIsCareful DEF CreatePause, createFrame, user, es

\* CheckHealthBefore: a turn begins in a green cluster only
LEMMA HealthBeforeEffect ==
    ASSUME All, CheckHealthBefore
    PROVE  /\ pc = "health0" /\ pc' \in {"size0", "state"}
           /\ pc' = "size0" => members # {} /\ dirty = {}
           /\ UNCHANGED <<spec, secret, edits, cr, tmpl, paused, replicas, rs, rev, pod, loaded, members,
                          dirty, alloc, size, curRev, hash, mode, cur, todo, ns, st, desired, self>>
BY DEF CheckHealthBefore, Green, stepFrame, user, kube, es, mem

\* RecordClusterSize: the count succeeds, and the turn begins at its beginning
LEMMA SizeEffect ==
    ASSUME Calm, All, RecordClusterSize
    PROVE  /\ pc = "size0" /\ pc' = (IF mode = "update" THEN "allocNone" ELSE "replicas")
           /\ size' = [size EXCEPT ![cur] = Cardinality(members)] /\ Cardinality(members) # 0
           /\ ns.under # "True" /\ ns' = MarkUnderUpgrade(ns)
           /\ ns'.under = "True" /\ ns'.phase = ns.phase /\ ns.phase \in Settled
           /\ UNCHANGED <<spec, secret, edits, cr, tmpl, paused, replicas, rs, rev, pod, loaded, members,
                          dirty, alloc, curRev, hash, mode, cur, todo, st, desired, self>>
<1>1. pc = "size0" /\ members # {}
  BY DEF RecordClusterSize, All, CalmInv, TurnInv
<1>2. Counts = {Cardinality(members)} /\ Cardinality(members) # 0
  BY <1>1, CalmTypes, CalmCounts
<1>3. ns.under # "True" /\ ns.phase \in Settled
  BY <1>1, CalmTypes DEF All, Base, AllocInv, StatusInv, WellFormed, Phase, Settled
<1>4. AtPhase(mode, ns.phase) = IF mode = "update" THEN "allocNone" ELSE "replicas"
  BY <1>3, CalmTypes, AtPhaseSettled
<1>5. /\ pc' = AtPhase(mode, ns.phase) /\ ns' = MarkUnderUpgrade(ns)
      /\ size' = [size EXCEPT ![cur] = Cardinality(members)]
      /\ UNCHANGED <<spec, secret, edits, cr, tmpl, paused, replicas, rs, rev, pod, loaded, members,
                     dirty, alloc, curRev, hash, mode, cur, todo, st, desired, self>>
  BY <1>2 DEF RecordClusterSize, stepFrame, user, kube, es
<1> QED
  BY <1>1, <1>2, <1>3, <1>4, <1>5, CalmTypes, StatusFields

\* CheckReplicaCount: a node without a pod need not leave
LEMMA ReplicasEffect ==
    ASSUME All, CheckReplicaCount
    PROVE  /\ pc = "replicas" /\ pc' \in {"allocNone", "scale1"} /\ ns'.under = ns.under
           /\ pc' = "allocNone" => pod[cur] # NoTmpl /\ ns' = ns
           /\ pc' = "scale1" => pod[cur] = NoTmpl /\ ns'.phase = NodeRestarting
           /\ UNCHANGED <<spec, secret, edits, cr, tmpl, paused, replicas, rs, rev, pod, loaded, members,
                          dirty, alloc, size, curRev, hash, mode, cur, todo, st, desired, self>>
BY CalmTypes, StatusFields DEF CheckReplicaCount, stepFrame, user, kube, es, mem

\* DisableAllocation: Elasticsearch answers
LEMMA DisableEffect ==
    ASSUME Calm, All, DisableAllocation
    PROVE  /\ pc = "allocNone" /\ pc' = (IF mode = "update" THEN "exec" ELSE "scale0") /\ alloc' = "none"
           /\ members # {}
           /\ UNCHANGED <<spec, secret, edits, cr, tmpl, paused, replicas, rs, rev, pod, loaded, members,
                          dirty, size, curRev, hash, mode, cur, todo, ns, st, desired, self>>
<1>1. members # {} /\ ~EsFails
  BY CalmTypes, CalmCounts DEF DisableAllocation, All, CalmInv, TurnInv
<1> QED
  BY <1>1 DEF DisableAllocation, SetShardAllocation, stepFrame, user, kube, mem

\* ExecuteUpdate: the template changes
LEMMA ExecuteEffect ==
    ASSUME Calm, All, ExecuteUpdate
    PROVE  /\ pc = "exec" /\ pc' = "unpause" /\ tmpl' = [tmpl EXCEPT ![cur] = desired]
           /\ self = desired /\ desired \in Tmpls /\ desired = spec /\ mode = "update"
           /\ rs[cur] # desired /\ rs[cur] = tmpl[cur]
           /\ curRev' = [curRev EXCEPT ![cur] = rev[cur]]
           /\ ns'.under = ns.under /\ ns'.phase = NodeRestarting
           /\ UNCHANGED <<spec, secret, edits, cr, paused, replicas, rs, rev, pod, loaded, members,
                          dirty, alloc, size, hash, mode, cur, todo, st, desired, self>>
<1>1. /\ pc = "exec" /\ pc' = "unpause" /\ tmpl' = [tmpl EXCEPT ![cur] = self]
      /\ curRev' = [curRev EXCEPT ![cur] = rev[cur]] /\ ns' = AtNodeRestarting(ns)
      /\ UNCHANGED <<spec, secret, edits, cr, paused, replicas, rs, rev, pod, loaded, members,
                     dirty, alloc, size, hash, mode, cur, todo, st, desired, self>>
  BY CalmIsCareful DEF ExecuteUpdate, executeUpdate, stepFrame, user, es
<1>2. self = desired /\ desired \in Tmpls
  BY <1>1 DEF All, Base, OwnObject
<1>3. mode = "update" /\ st[cur].up = "True"
  BY <1>1, CalmTypes DEF All, CalmInv, PlanInv, UnderSteps
<1>4. tmpl[cur] \notin {spec, NoTmpl}
  BY <1>1, <1>3, CalmTypes DEF All, CalmInv, PlanInv, Written
<1>5. desired = spec
  BY <1>1, <1>3, CalmTypes DEF All, CalmInv, PlanInv, Written
<1>6. rs[cur] = tmpl[cur]
  BY <1>1, CalmTypes DEF All, Base, RolloutInv
<1> QED
  BY <1>1, <1>2, <1>3, <1>4, <1>5, <1>6, CalmTypes, StatusFields

\* Unpause: the write succeeds
LEMMA UnpauseEffect ==
    ASSUME Calm, All, Unpause
    PROVE  /\ pc = "unpause" /\ pc' = "waitRollout" /\ paused' = paused \ {cur}
           /\ UNCHANGED <<spec, secret, edits, cr, tmpl, replicas, rs, rev, pod, loaded, members,
                          dirty, alloc, size, curRev, hash, mode, cur, todo, ns, st, desired, self>>
BY CalmIsCareful DEF Unpause, setPaused, stepFrame, user, es, mem

\* WaitForNodeRollout: the rollout is seen
LEMMA RolloutEffect ==
    ASSUME Calm, All, WaitForNodeRollout
    PROVE  /\ pc = "waitRollout" /\ pc' = "pause" /\ self' = tmpl[cur] /\ rs[cur] = tmpl[cur]
           /\ UNCHANGED <<spec, secret, edits, cr, tmpl, paused, replicas, rs, rev, pod, loaded, members,
                          dirty, alloc, size, curRev, hash, mode, cur, todo, ns, st, desired>>
<1>1. pc = "waitRollout" /\ cur \notin paused /\ cur \in Node /\ tmpl[cur] # NoTmpl
  BY CalmTypes DEF WaitForNodeRollout, All, Base, RolloutInv, CalmInv, CreateInv, Working
<1>2. TimedOut => rs[cur] = tmpl[cur]
  BY <1>1, NothingUnderWay, CalmIsCareful DEF Careful
<1>3. RolledOut(cur) <=> rs[cur] = tmpl[cur]
  BY <1>1 DEF RolledOut, All, CalmInv, TurnInv, Base, RolloutInv
<1> QED
  BY <1>1, <1>2, <1>3 DEF WaitForNodeRollout, stepFrame, user, kube, es, mem

\* PauseAgain: after the rollout, and the hash is that of the secret
LEMMA PauseEffect ==
    ASSUME Calm, All, PauseAgain
    PROVE  /\ pc = "pause" /\ pc' = "waitRejoin" /\ paused' = paused \cup {cur}
           /\ hash' = [hash EXCEPT ![cur] = secret] /\ rs[cur] = tmpl[cur] /\ mode = "update"
           /\ UNCHANGED <<spec, secret, edits, cr, tmpl, replicas, rs, rev, pod, loaded, members,
                          dirty, alloc, size, curRev, mode, cur, todo, ns, st, desired, self>>
<1>1. pc = "pause" /\ rs[cur] = tmpl[cur]
  BY CalmTypes DEF PauseAgain, All, Base, RolloutInv
<1>2. mode = "update"
  BY <1>1, CalmTypes DEF All, CalmInv, PlanInv, UnderSteps
<1> QED
  BY <1>1, <1>2, CalmIsCareful DEF PauseAgain, setPaused, refreshHashes, stepFrame, user, es

\* ScaleDownNode: restart only
LEMMA ScaleDownEffect ==
    ASSUME Calm, All, ScaleDownNode
    PROVE  /\ pc = "scale0" /\ pc' = "waitLeave" /\ self' = tmpl[cur]
           /\ replicas' = [replicas EXCEPT ![cur] = 0] /\ mode = "restart"
           /\ UNCHANGED <<spec, secret, edits, cr, tmpl, paused, rs, rev, pod, loaded, members,
                          dirty, alloc, size, curRev, hash, mode, cur, todo, ns, st, desired>>
<1>1. pc = "scale0" => mode = "restart"
  BY CalmTypes DEF All, CalmInv, PlanInv, UnderSteps
<1> QED
  BY <1>1, CalmIsCareful DEF ScaleDownNode, setReplicaCount, stepFrame, user, es, mem

\* WaitForNodeLeaveCluster: the node is seen to leave, and has left
LEMMA LeaveEffect ==
    ASSUME Calm, All, WaitForNodeLeaveCluster
    PROVE  /\ pc = "waitLeave" /\ pc' = "scale1" /\ pod[cur] = NoTmpl /\ mode = "restart"
           /\ ns'.under = ns.under /\ ns'.phase = NodeRestarting
           /\ UNCHANGED <<spec, secret, edits, cr, tmpl, paused, replicas, rs, rev, pod, loaded, members,
                          dirty, alloc, size, curRev, hash, mode, cur, todo, st, desired, self>>
<1>1. pc = "waitLeave" /\ mode = "restart"
  BY CalmTypes DEF WaitForNodeLeaveCluster, All, CalmInv, PlanInv, UnderSteps
<1>2. Whole
  <2>1. hash[cur] \notin {0, secret}
    BY <1>1 DEF All, CalmInv, DueInv, RestartSteps, UnderSteps
  <2> QED
    BY <2>1, CalmTypes DEF All, CalmInv, WholeInv, Rotated
<1>3. size[cur] = N /\ (cur \in members \/ pod[cur] = NoTmpl)
  BY <1>1, <1>2 DEF Whole, RestartSteps, UnderSteps
<1>4. replicas[cur] = 0
  BY <1>1 DEF All, CalmInv, TurnInv
<1>5. TimedOut => pod[cur] = NoTmpl
  BY <1>4, CalmTypes DEF TimedOut, Calm, Busy, CanScaleDown
<1>6. pod[cur] = NoTmpl => cur \notin members
  BY DEF All, LeaveInv
<1>7. Counts = {Cardinality(members)} /\ (Cardinality(members) >= N <=> members = Node)
  BY CalmTypes, CalmCounts, NAssumption
<1>8. size[cur] > Cardinality(members) <=> pod[cur] = NoTmpl
  <2>1. members = Node <=> cur \in members
    BY <1>1, <1>2, CalmTypes DEF Whole
  <2>2. Cardinality(members) \in 0..N
    BY CalmTypes, CalmCounts
  <2> QED
    BY <1>3, <1>6, <1>7, <2>1, <2>2, NAssumption
<1>9. size[cur] <= Cardinality(members) <=> ~(size[cur] > Cardinality(members))
  BY CalmTypes, CalmCounts, NAssumption
<1>10. pc' = "scale1" /\ ns' = AtNodeRestarting(ns) /\ pod[cur] = NoTmpl
  BY <1>5, <1>7, <1>8, <1>9 DEF WaitForNodeLeaveCluster
<1> QED
  BY <1>1, <1>10, CalmTypes, StatusFields DEF WaitForNodeLeaveCluster, stepFrame, user, kube, es, mem

\* ScaleUpNode: restart only
LEMMA ScaleUpEffect ==
    ASSUME Calm, All, ScaleUpNode
    PROVE  /\ pc = "scale1" /\ pc' = "waitRejoin" /\ self' = tmpl[cur]
           /\ replicas' = [replicas EXCEPT ![cur] = 1] /\ mode = "restart"
           /\ UNCHANGED <<spec, secret, edits, cr, tmpl, paused, rs, rev, pod, loaded, members,
                          dirty, alloc, size, curRev, hash, mode, cur, todo, ns, st, desired>>
<1>1. pc = "scale1" => mode = "restart"
  BY CalmTypes DEF All, CalmInv, PlanInv, UnderSteps
<1> QED
  BY <1>1, CalmIsCareful DEF ScaleUpNode, setReplicaCount, stepFrame, user, es, mem

\* WaitForNodeRejoinCluster: the node is seen to rejoin
LEMMA RejoinEffect ==
    ASSUME Calm, All, WaitForNodeRejoinCluster
    PROVE  /\ pc = "waitRejoin" /\ pc' = "allocAll" /\ members # {}
           /\ size[cur] = N => members = Node
           /\ hash' = (IF mode = "restart" THEN [hash EXCEPT ![cur] = secret] ELSE hash)
           /\ UNCHANGED <<spec, secret, edits, cr, tmpl, paused, replicas, rs, rev, pod, loaded, members,
                          dirty, alloc, size, curRev, mode, cur, todo, ns, st, desired, self>>
<1>1. pc = "waitRejoin"
  BY DEF WaitForNodeRejoinCluster
<1>2. Counts = {Cardinality(members)} /\ Cardinality(members) \in 0..N
  BY CalmTypes, CalmCounts
<1>3. size[cur] \in 0..N /\ size[cur] > 0
  BY <1>1, CalmTypes DEF All, CalmInv, TurnInv, RestartSteps, UnderSteps
<1>4. TimedOut => members = Node
  <2>1. AllCreated
    BY <1>1 DEF All, CalmInv, CreateInv, Creating, Working
  <2>2. \A n \in Node : rs[n] = tmpl[n]
    BY <1>1 DEF All, Base, RolloutInv
  <2>3. \A n \in Node : replicas[n] = 1
    BY <1>1, ScaledUp
  <2> QED
    BY <2>1, <2>2, <2>3, EveryoneIsBack
<1>5. TimedOut => Cardinality(members) = N
  BY <1>4, CalmTypes, CalmCounts
<1>6. size[cur] <= Cardinality(members)
  BY <1>2, <1>3, <1>5, NAssumption DEF WaitForNodeRejoinCluster
<1>7. ~(size[cur] > Cardinality(members)) /\ Cardinality(members) # 0
      /\ (size[cur] = N => Cardinality(members) = N)
  BY <1>2, <1>3, <1>6, NAssumption
<1>8. members # {} /\ (size[cur] = N => members = Node)
  BY <1>7, CalmTypes, CalmCounts
<1> QED
  BY <1>1, <1>2, <1>7, <1>8 DEF WaitForNodeRejoinCluster, refreshHashes, stepFrame, user, kube, es

\* EnableAllocation: Elasticsearch answers
LEMMA EnableEffect ==
    ASSUME Calm, All, EnableAllocation
    PROVE  /\ pc = "allocAll" /\ pc' = "health1" /\ alloc' = "all"
           /\ ns'.under = ns.under /\ ns'.phase = RecoveringData
           /\ UNCHANGED <<spec, secret, edits, cr, tmpl, paused, replicas, rs, rev, pod, loaded, members,
                          dirty, size, curRev, hash, mode, cur, todo, st, desired, self>>
<1>1. members # {} /\ ~EsFails
  BY CalmTypes, CalmCounts DEF EnableAllocation, All, CalmInv, TurnInv
<1> QED
  BY <1>1, CalmTypes, StatusFields DEF EnableAllocation, SetShardAllocation, stepFrame, user, kube, mem

\* CheckHealthAfter: the upgrade is done, or data is still being recovered
LEMMA HealthAfterEffect ==
    ASSUME All, CheckHealthAfter
    PROVE  /\ pc = "health1" /\ pc' = "state" /\ ns.phase = RecoveringData
           /\ \/ ns'.under = "" /\ ns'.phase = ControllerUpdated
              \/ ns' = ns
           /\ UNCHANGED <<spec, secret, edits, cr, tmpl, paused, replicas, rs, rev, pod, loaded, members,
                          dirty, alloc, size, curRev, hash, mode, cur, todo, st, desired, self>>
BY CalmTypes, StatusFields DEF CheckHealthAfter, stepFrame, user, kube, es, mem, All, Base, AllocInv

\* EditSpec: another template, and nothing else
LEMMA EditEffect ==
    ASSUME NEW t \in Tmpls, EditSpec(t)
    PROVE  /\ spec' = t /\ spec' # spec
           /\ UNCHANGED <<secret, cr, tmpl, paused, replicas, rs, rev, pod, loaded, members, dirty, alloc,
                          size, curRev, hash, pc, mode, cur, todo, ns, st, desired, self>>
BY DEF EditSpec, envFrame, kube, es, mem, local

\* RotateSecret: in a cluster at rest
LEMMA RotateEffect ==
    ASSUME Calm, RotateSecret
    PROVE  /\ pc = "idle" /\ TimedOut /\ secret' = secret + 1
           /\ UNCHANGED <<spec, edits, cr, tmpl, paused, replicas, rs, rev, pod, loaded, members, dirty,
                          alloc, size, curRev, hash, pc, mode, cur, todo, ns, st, desired, self>>
BY DEF RotateSecret, Calm, TimedOut, envFrame, kube, es, mem, local

\* a pod is stopped only in the turn of its node
LEMMA StopEffect ==
    ASSUME All, NEW n \in Node, KillOldPod(n) \/ ScaleDownPod(n)
    PROVE  /\ n = cur /\ pc \in {"unpause", "waitRollout", "waitLeave", "scale1"} /\ alloc = "none"
           /\ pc \in {"unpause", "waitRollout"} => rs[n] # tmpl[n]
           /\ pod' = [pod EXCEPT ![n] = NoTmpl] /\ members' = members \ {n}
           /\ dirty' = (IF n \in members THEN dirty \cup {n} ELSE dirty)
           /\ alloc' = (IF members \subseteq {n} THEN "all" ELSE alloc)
           /\ UNCHANGED <<spec, secret, edits, cr, tmpl, paused, replicas, rs, rev, loaded,
                          size, curRev, hash, pc, mode, cur, todo, ns, st, desired, self>>
<1>1. /\ pod' = [pod EXCEPT ![n] = NoTmpl] /\ members' = members \ {n}
      /\ dirty' = (IF n \in members THEN dirty \cup {n} ELSE dirty)
      /\ alloc' = (IF members \subseteq {n} THEN "all" ELSE alloc)
      /\ UNCHANGED <<spec, secret, edits, cr, tmpl, paused, replicas, rs, rev, loaded,
                     size, curRev, hash, pc, mode, cur, todo, ns, st, desired, self>>
  BY DEF KillOldPod, ScaleDownPod, StopPod, podFrame, envFrame, user, mem, local
<1>2. /\ n = cur /\ pc \in {"unpause", "waitRollout", "waitLeave", "scale1"} /\ alloc = "none"
      /\ pc \in {"unpause", "waitRollout"} => rs[n] # tmpl[n]
  BY OnlyOnesTurn DEF All, KillOldPod, ScaleDownPod, CanKillOld
<1> QED
  BY <1>1, <1>2

\* CreateReplicaSet: in the rollout of a new template
LEMMA ReplicaSetEffect ==
    ASSUME All, NEW n \in Node, CreateReplicaSet(n)
    PROVE  /\ n = cur /\ pc \in {"initWait", "unpause", "waitRollout"}
           /\ pod[n] = NoTmpl /\ tmpl[n] # NoTmpl /\ rs[n] # tmpl[n]
           /\ rs' = [rs EXCEPT ![n] = tmpl[n]] /\ rev' = [rev EXCEPT ![n] = @ + 1]
           /\ UNCHANGED <<spec, secret, edits, cr, tmpl, paused, replicas, pod, loaded, members, dirty, alloc,
                          size, curRev, hash, pc, mode, cur, todo, ns, st, desired, self>>
BY OnlyOnesTurn DEF All, CreateReplicaSet, CanNewRS, podFrame, envFrame, user, es, mem, local

\* StartPod: the pod loads the secret
LEMMA PodStartEffect ==
    ASSUME NEW n \in Node, StartPod(n)
    PROVE  /\ replicas[n] = 1 /\ pod[n] = NoTmpl /\ rs[n] # NoTmpl
           /\ n \in paused \/ rs[n] = tmpl[n]
           /\ pod' = [pod EXCEPT ![n] = rs[n]] /\ loaded' = [loaded EXCEPT ![n] = secret]
           /\ UNCHANGED <<spec, secret, edits, cr, tmpl, paused, replicas, rs, rev, members, dirty, alloc,
                          size, curRev, hash, pc, mode, cur, todo, ns, st, desired, self>>
BY DEF StartPod, CanStart, podFrame, envFrame, user, es, mem, local

\* nodes come back and shards are recovered
LEMMA JoinEffect ==
    ASSUME NEW n \in Node, JoinCluster(n) \/ RecoverShards(n)
    PROVE  /\ members \subseteq members' /\ dirty' \subseteq dirty
           /\ UNCHANGED <<spec, secret, edits, cr, tmpl, paused, replicas, rs, rev, pod, loaded, alloc,
                          size, curRev, hash, pc, mode, cur, todo, ns, st, desired, self>>
BY DEF JoinCluster, RecoverShards, podFrame, envFrame, user, mem, local

\* the steps that are left when nothing fails
LEMMA CalmNext ==
    ASSUME Calm, All, [Next]_vars
    PROVE  \/ StartReconcile \/ CreateOrUpdateElasticsearchCluster \/ UpdateNodeStatus \/ UpdateClusterStatus
           \/ \E n \in Node : NextNode(n)
           \/ Create \/ CreateAlreadyExists \/ WaitForInitialRollout \/ CreatePause
           \/ CheckHealthBefore \/ RecordClusterSize \/ CheckReplicaCount \/ DisableAllocation
           \/ ExecuteUpdate \/ Unpause \/ WaitForNodeRollout \/ PauseAgain
           \/ ScaleDownNode \/ WaitForNodeLeaveCluster \/ ScaleUpNode
           \/ WaitForNodeRejoinCluster \/ EnableAllocation \/ CheckHealthAfter
           \/ RotateSecret \/ (\E t \in Tmpls : EditSpec(t))
           \/ \E n \in Node : KillOldPod(n) \/ ScaleDownPod(n)
           \/ \E n \in Node : CreateReplicaSet(n)
           \/ \E n \in Node : StartPod(n)
           \/ \E n \in Node : JoinCluster(n) \/ RecoverShards(n)
           \/ UNCHANGED vars
<1>1. /\ ~(UnschedExecute \/ UnschedUnpause \/ UnschedWait \/ UnschedPause)
      /\ ~\E n \in Node : progressUnshedulableNode(n)
  BY DEF All, Base, NoneUnsched, UnschedExecute, UnschedUnpause, UnschedWait, UnschedPause,
         progressUnshedulableNode, IsFirst
<1>2. ~RecheckConfFails /\ ~OperatorRestart /\ ~\E n \in Node : PodDies(n)
  BY CalmIsCareful DEF RecheckConfFails, OperatorRestart, PodDies
<1> QED
  BY <1>1, <1>2 DEF Next, Operator, Environment, Platform

\* PlanInv is inductive: while an upgrade is scheduled, the spec stands
LEMMA PlanStep ==
    ASSUME Calm, All, Patient, [Next]_vars
    PROVE  PlanInv'
<1> USE DEF Working, Written, UnderSteps
<1>a. PlanInv
  BY DEF All, CalmInv
<1>b. ASSUME UNCHANGED <<spec, tmpl, st, mode, cur, desired>>, pc # "idle",
             pc \in Written => pc' \in Written,
             pc' \in Working \ {"initWait"} => self' \in {desired, tmpl[cur]},
             pc' \in {"health0", "size0", "allocNone", "exec"} => pc \in {"health0", "size0", "allocNone", "exec", "replicas"},
             mode = "update" => pc' \notin {"replicas", "scale0", "waitLeave", "scale1"},
             mode = "restart" => pc' \notin {"exec", "unpause", "waitRollout", "pause"},
             pc' \in {"health0", "size0"} \cup UnderSteps => mode # "create"
      PROVE  PlanInv'
  BY <1>a, <1>b DEF PlanInv
<1>1. CASE StartReconcile
  BY <1>1, <1>a, StartEffect DEF PlanInv
<1>2. CASE CreateOrUpdateElasticsearchCluster
  BY <1>2, <1>a, SelectEffect DEF PlanInv
<1>3. ASSUME NEW n \in Node, NextNode(n) PROVE PlanInv'
  <2>1. mode = "update" => st[n].up = "True"
    BY <1>3, NextEffect DEF All, Base, ScaledInv
  <2> QED
    BY <1>3, <1>a, <2>1, NextEffect DEF PlanInv
<1>4. CASE UpdateNodeStatus
  <2>1. st'[cur].up = "True" => tmpl[cur] # NoTmpl /\ tmpl[cur] # self
    BY <1>4, StateEffect DEF Flag, isChanged
  <2>2. self \in {desired, tmpl[cur]} /\ pc # "idle" /\ cur \in Node
    BY <1>4, <1>a, StateEffect, CalmTypes DEF PlanInv
  <2>3. st'[cur].up = "True" => self = desired /\ desired = spec /\ tmpl[cur] \notin {spec, NoTmpl}
    BY <2>1, <2>2, <1>a DEF PlanInv
  <2> QED
    BY <1>4, <1>a, <2>3, StateEffect DEF PlanInv
<1>5. CASE UpdateClusterStatus
  BY <1>5, <1>a, ClusterEffect DEF PlanInv
<1>6. CASE Create
  <2>1. st[cur].up # "True"
    BY <1>6, <1>a, CreateEffect, CalmTypes DEF PlanInv
  <2> QED
    BY <1>6, <1>a, <2>1, CreateEffect, CalmTypes DEF PlanInv
<1>7. CASE CreateAlreadyExists
  BY <1>7, <1>a, <1>b, AlreadyEffect DEF PlanInv
<1>8. CASE WaitForInitialRollout
  BY <1>8, <1>a, <1>b, InitialRolloutEffect DEF PlanInv
<1>9. CASE CreatePause
  BY <1>9, <1>a, <1>b, CreatePauseEffect DEF PlanInv
<1>10. CASE CheckHealthBefore
  BY <1>10, <1>a, <1>b, HealthBeforeEffect DEF PlanInv
<1>11. CASE RecordClusterSize
  BY <1>11, <1>a, <1>b, SizeEffect DEF PlanInv
<1>12. CASE CheckReplicaCount
  BY <1>12, <1>a, <1>b, ReplicasEffect DEF PlanInv
<1>13. CASE DisableAllocation
  BY <1>13, <1>a, <1>b, DisableEffect DEF PlanInv
<1>14. CASE ExecuteUpdate
  <2>1. \A n \in Node : n # cur => tmpl'[n] = tmpl[n]
    BY <1>14, ExecuteEffect, CalmTypes
  <2> QED
    BY <1>14, <1>a, <2>1, ExecuteEffect, CalmTypes DEF PlanInv
<1>15. CASE Unpause
  BY <1>15, <1>a, <1>b, UnpauseEffect DEF PlanInv
<1>16. CASE WaitForNodeRollout
  BY <1>16, <1>a, <1>b, RolloutEffect DEF PlanInv
<1>17. CASE PauseAgain
  BY <1>17, <1>a, <1>b, PauseEffect DEF PlanInv
<1>18. CASE ScaleDownNode
  BY <1>18, <1>a, <1>b, ScaleDownEffect DEF PlanInv
<1>19. CASE WaitForNodeLeaveCluster
  BY <1>19, <1>a, <1>b, LeaveEffect DEF PlanInv
<1>20. CASE ScaleUpNode
  BY <1>20, <1>a, <1>b, ScaleUpEffect DEF PlanInv
<1>21. CASE WaitForNodeRejoinCluster
  BY <1>21, <1>a, <1>b, RejoinEffect DEF PlanInv
<1>22. CASE EnableAllocation
  BY <1>22, <1>a, <1>b, EnableEffect DEF PlanInv
<1>23. CASE CheckHealthAfter
  BY <1>23, <1>a, <1>b, HealthAfterEffect DEF PlanInv
<1>24. ASSUME NEW t \in Tmpls, EditSpec(t) PROVE PlanInv'
  <2>1. \A n \in Node : tmpl[n] \in {spec, NoTmpl}
    BY <1>24, EditEffect DEF Patient
  <2> QED
    BY <1>24, <1>a, <2>1, EditEffect DEF PlanInv
<1>25. CASE RotateSecret
  BY <1>25, <1>a, RotateEffect DEF PlanInv
<1>c. ASSUME UNCHANGED <<spec, tmpl, st, mode, cur, desired, pc, self>> PROVE PlanInv'
  BY <1>a, <1>c DEF PlanInv
<1>26. ASSUME NEW n \in Node,
              \/ KillOldPod(n) \/ ScaleDownPod(n) \/ CreateReplicaSet(n) \/ StartPod(n)
              \/ JoinCluster(n) \/ RecoverShards(n)
       PROVE  PlanInv'
  BY <1>26, <1>c, StopEffect, ReplicaSetEffect, PodStartEffect, JoinEffect
<1>27. CASE UNCHANGED vars
  BY <1>27, <1>c DEF vars, user, kube, local
<1> QED
  BY <1>1, <1>2, <1>3, <1>4, <1>5, <1>6, <1>7, <1>8, <1>9, <1>10, <1>11, <1>12, <1>13, <1>14,
     <1>15, <1>16, <1>17, <1>18, <1>19, <1>20, <1>21, <1>22, <1>23, <1>24, <1>25, <1>26, <1>27, CalmNext

\* who writes what
LEMMA CalmWriters ==
    ASSUME Calm, All, [Next]_vars
    PROVE  /\ UNCHANGED tmpl \/ Create \/ ExecuteUpdate
           /\ \/ UNCHANGED hash \/ WaitForInitialRollout \/ PauseAgain
              \/ WaitForNodeRejoinCluster /\ mode = "restart"
           /\ UNCHANGED <<rs, rev>> \/ \E n \in Node : CreateReplicaSet(n)
           /\ UNCHANGED replicas \/ Create \/ ScaleDownNode \/ ScaleUpNode
           /\ UNCHANGED <<pod, loaded>> \/ \E n \in Node : KillOldPod(n) \/ ScaleDownPod(n) \/ StartPod(n)
           /\ members \subseteq members' \/ \E n \in Node : KillOldPod(n) \/ ScaleDownPod(n)
           /\ UNCHANGED <<cr, st>> \/ UpdateNodeStatus \/ UpdateClusterStatus
           /\ UNCHANGED size \/ RecordClusterSize
           /\ UNCHANGED curRev \/ ExecuteUpdate
           /\ UNCHANGED secret \/ RotateSecret
<1> DEFINE Goal ==
           /\ UNCHANGED tmpl \/ Create \/ ExecuteUpdate
           /\ \/ UNCHANGED hash \/ WaitForInitialRollout \/ PauseAgain
              \/ WaitForNodeRejoinCluster /\ mode = "restart"
           /\ UNCHANGED <<rs, rev>> \/ \E n \in Node : CreateReplicaSet(n)
           /\ UNCHANGED replicas \/ Create \/ ScaleDownNode \/ ScaleUpNode
           /\ UNCHANGED <<pod, loaded>> \/ \E n \in Node : KillOldPod(n) \/ ScaleDownPod(n) \/ StartPod(n)
           /\ members \subseteq members' \/ \E n \in Node : KillOldPod(n) \/ ScaleDownPod(n)
           /\ UNCHANGED <<cr, st>> \/ UpdateNodeStatus \/ UpdateClusterStatus
           /\ UNCHANGED size \/ RecordClusterSize
           /\ UNCHANGED curRev \/ ExecuteUpdate
           /\ UNCHANGED secret \/ RotateSecret
<1>1. CASE StartReconcile
  BY <1>1, StartEffect, CalmTypes
<1>2. CASE CreateOrUpdateElasticsearchCluster \/ CreateAlreadyExists \/ CheckHealthBefore \/ CheckReplicaCount
  BY <1>2, SelectEffect, AlreadyEffect, HealthBeforeEffect, ReplicasEffect
<1>3. CASE UpdateNodeStatus \/ UpdateClusterStatus
  BY <1>3, StateEffect, ClusterEffect
<1>4. CASE \E n \in Node : NextNode(n)
  BY <1>4, NextEffect
<1>5. CASE Create \/ CreatePause
  BY <1>5, CreateEffect, CreatePauseEffect
<1>6. CASE WaitForInitialRollout \/ PauseAgain \/ WaitForNodeRejoinCluster
  BY <1>6, InitialRolloutEffect, PauseEffect, RejoinEffect
<1>7. CASE RecordClusterSize \/ DisableAllocation
  BY <1>7, SizeEffect, DisableEffect
<1>8. CASE ExecuteUpdate \/ Unpause \/ WaitForNodeRollout
  BY <1>8, ExecuteEffect, UnpauseEffect, RolloutEffect
<1>9. CASE ScaleDownNode \/ ScaleUpNode \/ WaitForNodeLeaveCluster
  BY <1>9, ScaleDownEffect, ScaleUpEffect, LeaveEffect
<1>10. CASE EnableAllocation \/ CheckHealthAfter
  BY <1>10, EnableEffect, HealthAfterEffect
<1>11. CASE RotateSecret \/ \E t \in Tmpls : EditSpec(t)
  BY <1>11, RotateEffect, EditEffect
<1>12. ASSUME NEW n \in Node, KillOldPod(n) \/ ScaleDownPod(n) PROVE Goal
  BY <1>12, StopEffect
<1>13. ASSUME NEW n \in Node, CreateReplicaSet(n) PROVE Goal
  BY <1>13, ReplicaSetEffect
<1>14. ASSUME NEW n \in Node, StartPod(n) PROVE Goal
  BY <1>14, PodStartEffect
<1>15. ASSUME NEW n \in Node, JoinCluster(n) \/ RecoverShards(n) PROVE Goal
  BY <1>15, JoinEffect
<1>16. CASE UNCHANGED vars
  BY <1>16 DEF vars, user, kube, es, mem, local
<1> HIDE DEF Goal
<1>17. Goal
  BY <1>1, <1>2, <1>3, <1>4, <1>5, <1>6, <1>7, <1>8, <1>9, <1>10, <1>11, <1>12, <1>13, <1>14,
     <1>15, <1>16, CalmNext DEF Goal
<1> QED
  BY <1>17 DEF Goal

\* a Deployment is never deleted, and a hash is only replaced by that of the secret
LEMMA CreatedStay ==
    ASSUME Calm, All, [Next]_vars
    PROVE  /\ \A n \in Node : tmpl[n] # NoTmpl => tmpl'[n] # NoTmpl
           /\ \A n \in Node : hash'[n] # hash[n] => n = cur /\ hash'[n] = secret /\ tmpl[n] # NoTmpl
<1>1. \A n \in Node : tmpl[n] # NoTmpl => tmpl'[n] # NoTmpl
  <2>1. CASE UNCHANGED tmpl
    BY <2>1
  <2>2. CASE Create
    BY <2>2, CalmTypes, CreateEffect, TmplsAssumption
  <2>3. CASE ExecuteUpdate
    BY <2>3, CalmTypes, ExecuteEffect, TmplsAssumption
  <2> QED
    BY <2>1, <2>2, <2>3, CalmWriters
<1>2. \/ UNCHANGED hash
      \/ hash' = [hash EXCEPT ![cur] = secret] /\ pc \in {"initWait", "pause", "waitRejoin"}
  BY CalmWriters, InitialRolloutEffect, PauseEffect, RejoinEffect
<1>3. pc \in {"initWait", "pause", "waitRejoin"} => tmpl[cur] # NoTmpl
  BY DEF All, CalmInv, CreateInv, Working
<1>4. \A n \in Node : hash'[n] # hash[n] => n = cur /\ hash'[n] = secret /\ tmpl[n] # NoTmpl
  BY <1>2, <1>3, CalmTypes
<1> QED
  BY <1>1, <1>4

\* CreateInv is inductive
LEMMA CreateStep ==
    ASSUME Calm, All, [Next]_vars, TypeOK'
    PROVE  CreateInv'
<1> USE DEF Working, AllCreated, NoneCreated
<1>a. CreateInv
  BY DEF All, CalmInv
<1>b. /\ secret # 0 /\ cur \in Node /\ todo \subseteq Node /\ tmpl \in [Node -> Template]
      /\ hash \in [Node -> Nat] /\ rev \in [Node -> Nat] /\ rs \in [Node -> Template]
  BY CalmTypes
<1>c. cur' \in Node /\ todo' \subseteq Node
  BY DEF TypeOK
<1>1. \A n \in Node : tmpl[n] # NoTmpl => tmpl'[n] # NoTmpl
  BY CreatedStay
<1>2. \A n \in Node : rev'[n] = 0 => rs'[n] = NoTmpl
  <2>1. CASE UNCHANGED <<rs, rev>>
    BY <2>1, <1>a DEF CreateInv
  <2>2. ASSUME NEW n \in Node, CreateReplicaSet(n) PROVE \A m \in Node : rev'[m] = 0 => rs'[m] = NoTmpl
    BY <2>2, <1>a, <1>b, ReplicaSetEffect DEF CreateInv
  <2> QED
    BY <2>1, <2>2, CalmWriters
<1>3. /\ \A n \in Node : hash'[n] # hash[n] => n = cur /\ hash'[n] = secret
      /\ \A n \in Node : tmpl'[n] = NoTmpl => hash'[n] = 0
  BY CreatedStay, <1>a DEF CreateInv
<1>4. pc = "initWait" => (pc' = "initWait" /\ cur' = cur) \/ hash'[cur] = secret
  <2>1. CASE WaitForInitialRollout
    BY <2>1, <1>b, InitialRolloutEffect
  <2>2. CASE pc = "initWait" /\ ~WaitForInitialRollout
    <3>1. \/ RotateSecret \/ (\E t \in Tmpls : EditSpec(t))
          \/ (\E n \in Node : KillOldPod(n) \/ ScaleDownPod(n))
          \/ (\E n \in Node : CreateReplicaSet(n))
          \/ (\E n \in Node : StartPod(n))
          \/ (\E n \in Node : JoinCluster(n) \/ RecoverShards(n))
          \/ UNCHANGED vars
      BY <2>2, CalmNext
         DEF StartReconcile, CreateOrUpdateElasticsearchCluster, UpdateNodeStatus, UpdateClusterStatus,
             NextNode, Create, CreateAlreadyExists, CreatePause, CheckHealthBefore, RecordClusterSize,
             CheckReplicaCount, DisableAllocation, ExecuteUpdate, Unpause, WaitForNodeRollout, PauseAgain,
             ScaleDownNode, WaitForNodeLeaveCluster, ScaleUpNode, WaitForNodeRejoinCluster,
             EnableAllocation, CheckHealthAfter
    <3>2. UNCHANGED <<pc, cur>>
      BY <3>1, RotateEffect, EditEffect, StopEffect, ReplicaSetEffect, PodStartEffect, JoinEffect
         DEF vars, local
    <3> QED
      BY <2>2, <3>2
  <2> QED
    BY <2>1, <2>2
<1>5. \A n \in Node : tmpl'[n] # NoTmpl => hash'[n] # 0 \/ (n = cur' /\ pc' = "initWait")
  <2> TAKE n \in Node
  <2> HAVE tmpl'[n] # NoTmpl
  <2>1. CASE tmpl[n] # NoTmpl
    BY <2>1, <1>a, <1>b, <1>3, <1>4 DEF CreateInv
  <2>2. CASE tmpl[n] = NoTmpl
    <3>1. Create \/ ExecuteUpdate
      BY <2>2, CalmWriters
    <3>2. ~ExecuteUpdate
      BY <2>2, <1>a, <1>b, ExecuteEffect DEF CreateInv
    <3> QED
      BY <2>2, <3>1, <3>2, <1>b, CreateEffect
  <2> QED
    BY <2>1, <2>2
<1>6. CASE AllCreated
  BY <1>1, <1>2, <1>3, <1>5, <1>6, <1>c DEF CreateInv
<1>7. CASE ~AllCreated
  <2>a. Creating
    BY <1>7, <1>a DEF CreateInv
  <2>1. ASSUME UNCHANGED <<tmpl, st, pc, mode, cur, todo, self, hash, ns>>,
               pc \in Working => UNCHANGED secret
        PROVE  CreateInv'
    <3>1. Creating'
      BY <2>1, <2>a DEF Creating
    <3>2. pc' \in Working \ {"create"} => tmpl'[cur'] # NoTmpl
      BY <2>1, <1>a DEF CreateInv
    <3> QED
      BY <3>1, <3>2, <1>2, <1>3, <1>5 DEF CreateInv
  <2>2. ASSUME Creating', pc' \in Working \ {"create"} => tmpl'[cur'] # NoTmpl PROVE CreateInv'
    BY <2>2, <1>2, <1>3, <1>5 DEF CreateInv
  <2>3. CASE StartReconcile
    <3>1. Creating'
      BY <2>3, <2>a, StartEffect DEF Creating
    <3> QED
      BY <2>2, <2>3, <3>1, StartEffect
  <2>4. CASE CreateOrUpdateElasticsearchCluster
    <3>1. Creating'
      BY <2>4, <2>a, SelectEffect DEF Creating
    <3> QED
      BY <2>2, <2>4, <3>1, SelectEffect
  <2>5. ASSUME NEW n \in Node, NextNode(n) PROVE CreateInv'
    <3>1. mode = "create" /\ pc = "next" /\ \A m \in Node : tmpl[m] = NoTmpl <=> m \in todo
      BY <2>5, <2>a, NextEffect DEF Creating
    <3>2. /\ pc' = "create" /\ cur' = n /\ n \in todo /\ todo' = todo \ {n}
          /\ UNCHANGED <<tmpl, st, mode>>
      BY <2>5, <3>1, NextEffect
    <3>3. \A m \in Node : tmpl'[m] = NoTmpl <=> m \in todo' \cup {cur'}
      BY <3>1, <3>2
    <3>4. Creating'
      BY <2>a, <3>1, <3>2, <3>3 DEF Creating
    <3> QED
      BY <2>2, <3>2, <3>4
  <2>6. CASE UpdateNodeStatus
    <3>1. st'[cur].up = "" /\ st'[cur].re = "" /\ st'[cur].under = ""
      BY <2>6, <2>a, StateEffect DEF Creating, isChanged, Flag
    <3>2. \A n \in Node : st'[n].up = "" /\ st'[n].re = "" /\ st'[n].under = ""
      BY <2>6, <2>a, <3>1, StateEffect DEF Creating
    <3>3. /\ pc = "state" /\ pc' = "next" /\ UNCHANGED <<tmpl, todo, mode>>
      BY <2>6, StateEffect
    <3>4. Creating'
      BY <2>a, <3>2, <3>3 DEF Creating
    <3> QED
      BY <2>2, <3>3, <3>4
  <2>7. CASE UpdateClusterStatus
    BY <2>7, <2>a, <1>7, ClusterEffect DEF Creating
  <2>8. CASE Create
    <3>1. tmpl'[cur] # NoTmpl /\ \A n \in Node : n # cur => tmpl'[n] = tmpl[n]
      BY <2>8, <1>b, CreateEffect, TmplsAssumption
    <3>2. cur \notin todo
      BY <2>8, CreateEffect DEF All, Base, OrderInv
    <3>3. \A n \in Node : tmpl'[n] = NoTmpl <=> n \in todo
      BY <2>8, <2>a, <3>1, <3>2, CreateEffect DEF Creating
    <3>4. Creating'
      BY <2>8, <2>a, <3>3, CreateEffect DEF Creating
    <3> QED
      BY <2>2, <2>8, <3>1, <3>4, CreateEffect
  <2>9. CASE CreateAlreadyExists
    BY <2>9, <2>a, <1>b, AlreadyEffect DEF Creating
  <2>10. CASE WaitForInitialRollout
    <3>1. Creating'
      BY <2>10, <2>a, <1>b, InitialRolloutEffect DEF Creating
    <3> QED
      BY <2>2, <2>10, <3>1, <1>a, InitialRolloutEffect DEF CreateInv
  <2>11. CASE CreatePause
    <3>1. ns.under = st[cur].under
      BY <2>11, CreatePauseEffect DEF All, Base, AllocInv
    <3>2. Creating'
      BY <2>11, <2>a, <3>1, <1>b, CreatePauseEffect DEF Creating
    <3> QED
      BY <2>2, <2>11, <3>2, <1>a, CreatePauseEffect DEF CreateInv
  <2>12. CASE \/ CheckHealthBefore \/ RecordClusterSize \/ CheckReplicaCount \/ DisableAllocation
              \/ ExecuteUpdate \/ Unpause \/ WaitForNodeRollout \/ PauseAgain
              \/ ScaleDownNode \/ WaitForNodeLeaveCluster \/ ScaleUpNode
              \/ WaitForNodeRejoinCluster \/ EnableAllocation \/ CheckHealthAfter
    BY <2>12, <2>a DEF Creating, CheckHealthBefore, RecordClusterSize, CheckReplicaCount, DisableAllocation,
       ExecuteUpdate, Unpause, WaitForNodeRollout, PauseAgain, ScaleDownNode, WaitForNodeLeaveCluster,
       ScaleUpNode, WaitForNodeRejoinCluster, EnableAllocation, CheckHealthAfter
  <2>13. CASE RotateSecret \/ \E t \in Tmpls : EditSpec(t)
    BY <2>13, <2>1, RotateEffect, EditEffect
  <2>14. ASSUME NEW n \in Node,
                \/ KillOldPod(n) \/ ScaleDownPod(n) \/ CreateReplicaSet(n) \/ StartPod(n)
                \/ JoinCluster(n) \/ RecoverShards(n)
         PROVE  CreateInv'
    BY <2>14, <2>1, StopEffect, ReplicaSetEffect, PodStartEffect, JoinEffect
  <2>15. CASE UNCHANGED vars
    BY <2>15, <2>1 DEF vars, user, kube, mem, local
  <2> QED
    BY <2>3, <2>4, <2>5, <2>6, <2>7, <2>8, <2>9, <2>10, <2>11, <2>12, <2>13, <2>14, <2>15, CalmNext
<1> QED
  BY <1>6, <1>7

\* TurnInv is inductive
LEMMA TurnStep ==
    ASSUME Calm, All, [Next]_vars
    PROVE  TurnInv'
<1> USE DEF RestartSteps, UnderSteps
<1>a. TurnInv
  BY DEF All, CalmInv
<1>b. /\ cur \in Node /\ members \subseteq Node /\ size \in [Node -> 0..N]
      /\ replicas \in [Node -> 0..1] /\ rev \in [Node -> Nat] /\ curRev \in [Node -> Nat]
      /\ rs \in [Node -> Template] /\ tmpl \in [Node -> Template]
  BY CalmTypes
<1>1. CASE StartReconcile
  BY <1>1, <1>a, StartEffect DEF TurnInv
<1>2. CASE CreateOrUpdateElasticsearchCluster
  BY <1>2, <1>a, SelectEffect DEF TurnInv
<1>3. ASSUME NEW n \in Node, NextNode(n) PROVE TurnInv'
  BY <1>3, <1>a, NextEffect DEF TurnInv
<1>4. CASE UpdateNodeStatus
  BY <1>4, <1>a, StateEffect DEF TurnInv
<1>5. CASE UpdateClusterStatus
  BY <1>5, <1>a, ClusterEffect DEF TurnInv
<1>6. CASE Create
  BY <1>6, <1>a, CreateEffect DEF TurnInv
<1>7. CASE CreateAlreadyExists
  BY <1>7, <1>a, AlreadyEffect DEF TurnInv
<1>8. CASE WaitForInitialRollout
  BY <1>8, <1>a, InitialRolloutEffect DEF TurnInv
<1>9. CASE CreatePause
  <2>1. ns = st[cur]
    BY <1>9, CreatePauseEffect DEF All, Base, AllocInv
  <2> QED
    BY <1>9, <1>a, <1>b, <2>1, CreatePauseEffect DEF TurnInv
<1>10. CASE CheckHealthBefore
  <2>1. ns.under # "True"
    BY <1>10, HealthBeforeEffect DEF All, Base, AllocInv
  <2> QED
    BY <1>10, <1>a, <2>1, HealthBeforeEffect DEF TurnInv
<1>11. CASE RecordClusterSize
  <2>1. size'[cur] > 0 /\ members # {}
    <3>1. Cardinality(members) \in 0..N /\ Cardinality(members) # 0 /\ members # {}
      BY <1>11, <1>b, SizeEffect, CalmCounts
    <3> QED
      BY <1>11, <1>b, <3>1, SizeEffect, NAssumption
  <2> QED
    BY <1>11, <1>a, <2>1, SizeEffect DEF TurnInv
<1>12. CASE CheckReplicaCount
  BY <1>12, <1>a, ReplicasEffect DEF TurnInv
<1>13. CASE DisableAllocation
  BY <1>13, <1>a, DisableEffect DEF TurnInv
<1>14. CASE ExecuteUpdate
  <2>1. tmpl'[cur] # rs'[cur]
    BY <1>14, <1>b, ExecuteEffect
  <2> QED
    BY <1>14, <1>a, <2>1, ExecuteEffect DEF TurnInv
<1>15. CASE Unpause
  BY <1>15, <1>a, UnpauseEffect DEF TurnInv
<1>16. CASE WaitForNodeRollout
  BY <1>16, <1>a, RolloutEffect DEF TurnInv
<1>17. CASE PauseAgain
  BY <1>17, <1>a, PauseEffect DEF TurnInv
<1>18. CASE ScaleDownNode
  BY <1>18, <1>a, <1>b, ScaleDownEffect DEF TurnInv
<1>19. CASE WaitForNodeLeaveCluster
  BY <1>19, <1>a, LeaveEffect DEF TurnInv
<1>20. CASE ScaleUpNode
  BY <1>20, <1>a, ScaleUpEffect DEF TurnInv
<1>21. CASE WaitForNodeRejoinCluster
  BY <1>21, <1>a, RejoinEffect DEF TurnInv
<1>22. CASE EnableAllocation
  BY <1>22, <1>a, EnableEffect DEF TurnInv
<1>23. CASE CheckHealthAfter
  BY <1>23, <1>a, HealthAfterEffect DEF TurnInv
<1>24. CASE RotateSecret \/ \E t \in Tmpls : EditSpec(t)
  BY <1>24, <1>a, RotateEffect, EditEffect DEF TurnInv
<1>25. ASSUME NEW n \in Node, KillOldPod(n) \/ ScaleDownPod(n) PROVE TurnInv'
  <2>1. members' = {} => alloc' = "all"
    BY <1>25, StopEffect
  <2> QED
    BY <1>25, <1>a, <2>1, StopEffect DEF TurnInv
<1>26. ASSUME NEW n \in Node, CreateReplicaSet(n) PROVE TurnInv'
  <2>1. pc \in {"unpause", "waitRollout"} => rev'[cur] # curRev[cur]
    <3>1. pc \in {"unpause", "waitRollout"} => rev[cur] = curRev[cur]
      BY <1>26, ReplicaSetEffect DEF All, Base, RolloutInv
    <3>2. rev'[cur] = rev[cur] + 1
      BY <1>26, <1>b, ReplicaSetEffect
    <3> QED
      BY <1>b, <3>1, <3>2
  <2> QED
    BY <1>26, <1>a, <2>1, ReplicaSetEffect DEF TurnInv
<1>27. ASSUME NEW n \in Node, StartPod(n) PROVE TurnInv'
  BY <1>27, <1>a, PodStartEffect DEF TurnInv
<1>28. ASSUME NEW n \in Node, JoinCluster(n) \/ RecoverShards(n) PROVE TurnInv'
  BY <1>28, <1>a, JoinEffect DEF TurnInv
<1>29. CASE UNCHANGED vars
  BY <1>29, <1>a DEF TurnInv, vars, kube, es, mem, local
<1> QED
  BY <1>1, <1>2, <1>3, <1>4, <1>5, <1>6, <1>7, <1>8, <1>9, <1>10, <1>11, <1>12, <1>13, <1>14, <1>15,
     <1>16, <1>17, <1>18, <1>19, <1>20, <1>21, <1>22, <1>23, <1>24, <1>25, <1>26, <1>27, <1>28, <1>29, CalmNext

\* a secret is rotated when every node is back
LEMMA RotatedAtRest ==
    ASSUME Calm, All, RotateSecret, NEW k \in Node, hash[k] # 0
    PROVE  members = Node /\ AllCreated
<1>1. pc = "idle" /\ TimedOut
  BY RotateEffect
<1>2. AllCreated
  <2>1. tmpl[k] # NoTmpl
    BY DEF All, CalmInv, CreateInv
  <2> QED
    BY <1>1, <2>1 DEF All, CalmInv, CreateInv, Creating, NoneCreated
<1>3. \A n \in Node : rs[n] = tmpl[n]
  BY <1>1 DEF All, Base, RolloutInv
<1>4. \A n \in Node : replicas[n] = 1
  BY <1>1, ScaledUp
<1> QED
  BY <1>1, <1>2, <1>3, <1>4, EveryoneIsBack

\* WholeInv is inductive: a turn begins with the whole cluster and ends with it
LEMMA WholeStep ==
    ASSUME Calm, All, [Next]_vars
    PROVE  WholeInv'
<1> USE DEF RestartSteps, UnderSteps, Down
<1> SUFFICES ASSUME Rotated' PROVE Whole'
  BY DEF WholeInv
<1>a. /\ cur \in Node /\ members \subseteq Node /\ size \in [Node -> 0..N]
      /\ hash \in [Node -> Nat] /\ pod \in [Node -> Template]
  BY CalmTypes
<1>1. CASE RotateSecret
  <2>1. PICK k \in Node : hash'[k] \notin {0, secret'}
    BY DEF Rotated
  <2>2. hash[k] # 0
    BY <1>1, <2>1, RotateEffect
  <2> QED
    BY <1>1, <2>2, RotatedAtRest, RotateEffect DEF Whole, AllCreated
<1>2. CASE ~RotateSecret
  <2>1. UNCHANGED secret
    BY <1>2, CalmWriters
  <2>2. Rotated
    BY <2>1, CreatedStay DEF Rotated
  <2>3. Whole
    BY <2>2 DEF All, CalmInv, WholeInv
  <2>4. AllCreated'
    BY <2>3, CreatedStay DEF Whole, AllCreated
  <2>5. ASSUME members \subseteq members', UNCHANGED <<size, cur>>,
               pc \in Down => pc' \in Down,
               pc' \in RestartSteps => pc \in RestartSteps,
               pc' = "waitLeave" => pc = "waitLeave" /\ UNCHANGED pod
        PROVE  Whole'
    BY <2>3, <2>4, <2>5 DEF Whole
  <2>6. ASSUME members = Node, UNCHANGED members, pc' \notin RestartSteps PROVE Whole'
    BY <2>4, <2>6 DEF Whole
  <2>7. pc \notin Down => members = Node
    BY <1>a, <2>3 DEF Whole
  <2>8. CASE \/ StartReconcile \/ CreateOrUpdateElasticsearchCluster \/ UpdateNodeStatus
             \/ UpdateClusterStatus \/ \E n \in Node : NextNode(n)
    BY <2>6, <2>7, <2>8, StartEffect, SelectEffect, StateEffect, ClusterEffect, NextEffect
  <2>9. CASE \/ Create \/ CreateAlreadyExists \/ WaitForInitialRollout \/ CreatePause
             \/ CheckHealthBefore \/ CheckHealthAfter
    BY <2>6, <2>7, <2>9, CreateEffect, AlreadyEffect, InitialRolloutEffect, CreatePauseEffect,
       HealthBeforeEffect, HealthAfterEffect
  <2>10. CASE RecordClusterSize
    <3>1. members = Node
      BY <2>7, <2>10, SizeEffect
    <3>2. size'[cur] = N
      BY <1>a, <2>10, <3>1, SizeEffect, CalmCounts
    <3> QED
      BY <2>4, <2>10, <3>1, <3>2, SizeEffect DEF Whole
  <2>11. CASE CheckReplicaCount \/ DisableAllocation
    BY <2>5, <2>11, ReplicasEffect, DisableEffect
  <2>12. CASE ExecuteUpdate \/ Unpause \/ WaitForNodeRollout \/ PauseAgain
    BY <2>5, <2>12, ExecuteEffect, UnpauseEffect, RolloutEffect, PauseEffect
  <2>13. CASE ScaleDownNode
    <3>1. cur \in members /\ members = Node
      BY <1>a, <2>7, <2>13, ScaleDownEffect
    <3> QED
      BY <2>3, <2>4, <2>13, <3>1, ScaleDownEffect DEF Whole
  <2>14. CASE WaitForNodeLeaveCluster \/ ScaleUpNode
    BY <2>5, <2>14, LeaveEffect, ScaleUpEffect
  <2>15. CASE WaitForNodeRejoinCluster
    <3>1. members = Node
      BY <2>3, <2>15, RejoinEffect DEF Whole
    <3> QED
      BY <2>3, <2>4, <2>15, <3>1, RejoinEffect DEF Whole
  <2>16. CASE EnableAllocation
    BY <2>6, <2>7, <2>16, EnableEffect
  <2>17. CASE \E t \in Tmpls : EditSpec(t)
    BY <2>5, <2>17, EditEffect
  <2>18. ASSUME NEW n \in Node, KillOldPod(n) \/ ScaleDownPod(n) PROVE Whole'
    <3>1. pod'[cur] = NoTmpl
      BY <1>a, <2>18, StopEffect
    <3>2. n = cur /\ pc \in Down /\ members' = members \ {n} /\ UNCHANGED <<pc, cur, size>>
      BY <2>18, StopEffect
    <3> QED
      BY <2>3, <2>4, <3>1, <3>2 DEF Whole
  <2>19. ASSUME NEW n \in Node, CreateReplicaSet(n) PROVE Whole'
    BY <2>5, <2>19, ReplicaSetEffect
  <2>20. ASSUME NEW n \in Node, StartPod(n) PROVE Whole'
    <3>1. pc = "waitLeave" => replicas[cur] = 0
      BY DEF All, CalmInv, TurnInv
    <3>2. pc = "waitLeave" => pod'[cur] = pod[cur]
      BY <1>a, <2>20, <3>1, PodStartEffect
    <3> QED
      BY <2>3, <2>4, <2>20, <3>2, PodStartEffect DEF Whole
  <2>21. ASSUME NEW n \in Node, JoinCluster(n) \/ RecoverShards(n) PROVE Whole'
    BY <2>5, <2>21, JoinEffect
  <2>22. CASE UNCHANGED vars
    BY <2>5, <2>22 DEF vars, kube, es, mem, local
  <2> QED
    BY <1>2, <2>8, <2>9, <2>10, <2>11, <2>12, <2>13, <2>14, <2>15, <2>16, <2>17, <2>18, <2>19,
       <2>20, <2>21, <2>22, CalmNext
<1> QED
  BY <1>1, <1>2

\* DueInv is inductive
LEMMA DueStep ==
    ASSUME Calm, All, [Next]_vars
    PROVE  DueInv'
<1> USE DEF Working, RestartSteps, UnderSteps
<1>a. DueInv
  BY DEF All, CalmInv
<1>b. /\ cur \in Node /\ todo \subseteq Node /\ secret \in Nat \ {0}
      /\ hash \in [Node -> Nat] /\ loaded \in [Node -> Nat]
  BY CalmTypes
<1>c. pc \in Working => cur \notin todo
  BY DEF All, Base, OrderInv
<1>1. CASE RotateSecret
  <2>1. \A n \in Node : hash[n] <= secret /\ loaded[n] <= secret
    BY <1>a DEF DueInv
  <2>2. \A n \in Node : hash[n] <= secret' /\ loaded[n] <= secret' /\ hash[n] # secret'
    BY <1>1, <1>b, <2>1, RotateEffect
  <2> QED
    BY <1>1, <1>a, <2>2, RotateEffect DEF DueInv
<1>2. CASE ~RotateSecret
  <2>1. UNCHANGED secret
    BY <1>2, CalmWriters
  <2>2. \A n \in Node : hash'[n] # hash[n] => n = cur /\ hash'[n] = secret
    BY CreatedStay
  <2>3. \A n \in Node : hash'[n] <= secret' /\ loaded'[n] <= secret'
    <3>1. secret <= secret
      BY <1>b
    <3>2. \A n \in Node : hash'[n] <= secret
      BY <1>a, <2>2, <3>1 DEF DueInv
    <3>3. \A n \in Node : loaded'[n] \in {loaded[n], secret}
      BY <1>b, CalmWriters, StopEffect, PodStartEffect
    <3>4. \A n \in Node : loaded'[n] <= secret
      BY <1>a, <3>1, <3>3 DEF DueInv
    <3> QED
      BY <2>1, <3>2, <3>4
  <2>a. ASSUME UNCHANGED <<st, hash, cur, mode, todo>>, pc # "unsched",
               pc \in Working <=> pc' \in Working, pc = "next" <=> pc' = "next",
               mode = "restart" /\ pc' \in {"health0", "size0"} \cup (RestartSteps \ {"allocAll"}) =>
                  pc \in {"health0", "size0"} \cup (RestartSteps \ {"allocAll"})
        PROVE  DueInv'
    BY <1>a, <2>a, <2>1, <2>3 DEF DueInv
  <2>4. CASE StartReconcile
    BY <1>a, <2>1, <2>3, <2>4, StartEffect DEF DueInv
  <2>5. CASE CreateOrUpdateElasticsearchCluster
    BY <1>a, <2>1, <2>3, <2>5, SelectEffect DEF DueInv
  <2>6. ASSUME NEW n \in Node, NextNode(n) PROVE DueInv'
    <3>1. mode = "restart" => st[n].under = "True" \/ st[n].re = "True"
      BY <1>a, <2>6, NextEffect DEF DueInv
    <3>2. st[n].re = "True" => hash[n] \notin {0, secret}
      BY <1>a, <2>6, NextEffect DEF DueInv
    <3> QED
      BY <1>a, <2>1, <2>3, <2>6, <3>1, <3>2, NextEffect DEF DueInv
  <2>7. CASE UpdateNodeStatus
    <3>1. hash[cur] # 0
      BY <1>b, <2>7, StateEffect DEF All, CalmInv, CreateInv
    <3>2. st'[cur].re = "True" => hash[cur] # secret
      BY <2>7, StateEffect DEF Flag
    <3>3. \A n \in Node : st'[n].re = "True" => hash[n] \notin {0, secret}
      BY <1>a, <2>7, <3>1, <3>2, StateEffect DEF DueInv
    <3>4. \A n \in todo : st'[n] = st[n]
      BY <1>b, <1>c, <2>7, StateEffect
    <3> QED
      BY <1>a, <2>1, <2>3, <2>7, <3>3, <3>4, StateEffect DEF DueInv
  <2>8. CASE UpdateClusterStatus
    BY <1>a, <2>1, <2>3, <2>8, ClusterEffect DEF DueInv
  <2>9. CASE Create \/ CreateAlreadyExists \/ CreatePause
    BY <2>a, <2>9, CreateEffect, AlreadyEffect, CreatePauseEffect
  <2>10. CASE WaitForInitialRollout \/ PauseAgain \/ WaitForNodeRejoinCluster
    <3>1. /\ pc \in Working /\ UNCHANGED <<st, cur, mode, todo>> /\ pc' \in {"createPause", "waitRejoin", "allocAll"}
          /\ pc' = "waitRejoin" => mode = "update"
      BY <2>10, InitialRolloutEffect, PauseEffect, RejoinEffect
    <3> QED
      BY <1>a, <2>1, <2>2, <2>3, <3>1 DEF DueInv
  <2>11. CASE CheckHealthBefore \/ RecordClusterSize \/ CheckReplicaCount \/ DisableAllocation
    BY <2>a, <2>11, HealthBeforeEffect, SizeEffect, ReplicasEffect, DisableEffect
  <2>12. CASE ExecuteUpdate \/ Unpause \/ WaitForNodeRollout
    BY <2>a, <2>12, ExecuteEffect, UnpauseEffect, RolloutEffect
  <2>13. CASE ScaleDownNode \/ WaitForNodeLeaveCluster \/ ScaleUpNode
    BY <2>a, <2>13, ScaleDownEffect, LeaveEffect, ScaleUpEffect
  <2>14. CASE EnableAllocation \/ CheckHealthAfter
    BY <2>a, <2>14, EnableEffect, HealthAfterEffect
  <2>b. ASSUME UNCHANGED <<st, hash, cur, mode, todo, pc>> PROVE DueInv'
    BY <1>a, <2>b, <2>1, <2>3 DEF DueInv
  <2>15. CASE \E t \in Tmpls : EditSpec(t)
    BY <2>b, <2>15, EditEffect
  <2>16. ASSUME NEW n \in Node,
                \/ KillOldPod(n) \/ ScaleDownPod(n) \/ CreateReplicaSet(n) \/ StartPod(n)
                \/ JoinCluster(n) \/ RecoverShards(n)
         PROVE  DueInv'
    BY <2>b, <2>16, StopEffect, ReplicaSetEffect, PodStartEffect, JoinEffect
  <2>17. CASE UNCHANGED vars
    BY <2>b, <2>17 DEF vars, mem, local
  <2> QED
    BY <1>2, <2>4, <2>5, <2>6, <2>7, <2>8, <2>9, <2>10, <2>11, <2>12, <2>13, <2>14, <2>15, <2>16,
       <2>17, CalmNext
<1> QED
  BY <1>1, <1>2

\* SecretInv is inductive
LEMMA SecretStep ==
    ASSUME Calm, All, [Next]_vars
    PROVE  SecretInv'
<1> USE DEF Down
<1>a. SecretInv
  BY DEF All, CalmInv
<1>b. /\ cur \in Node /\ secret \in Nat \ {0} /\ pod \in [Node -> Template] /\ rs \in [Node -> Template]
      /\ tmpl \in [Node -> Template] /\ hash \in [Node -> Nat] /\ loaded \in [Node -> Nat]
  BY CalmTypes
<1>1. CASE RotateSecret
  <2>1. \A n \in Node : hash[n] <= secret /\ loaded[n] <= secret
    BY DEF All, CalmInv, DueInv
  <2>2. \A n \in Node : hash[n] # secret' /\ loaded[n] # secret'
    BY <1>1, <1>b, <2>1, RotateEffect
  <2> QED
    BY <1>1, <2>2, RotateEffect DEF SecretInv
<1>2. CASE ~RotateSecret
  <2>1. UNCHANGED secret
    BY <1>2, CalmWriters
  \* steps that touch neither pods nor hashes
  <2>a. ASSUME UNCHANGED <<pod, loaded, hash>>,
               pc \in Down \cup {"initWait"} => pc' \in Down \cup {"initWait"} /\ UNCHANGED cur,
               pc' \in {"initWait", "scale1", "waitRejoin"} => Renewed(cur'),
               pc' \in {"unpause", "waitRollout", "pause"} /\ rs'[cur'] = tmpl'[cur'] => Renewed(cur'),
               pc' # "waitRejoin" \/ mode' # "update"
        PROVE  SecretInv'
    BY <1>a, <2>a, <2>1 DEF SecretInv, Renewed
  <2>2. CASE StartReconcile \/ CreateOrUpdateElasticsearchCluster \/ UpdateNodeStatus \/ UpdateClusterStatus
    BY <2>a, <2>2, StartEffect, SelectEffect, StateEffect, ClusterEffect
  <2>3. ASSUME NEW n \in Node, NextNode(n) PROVE SecretInv'
    BY <2>a, <2>3, NextEffect
  <2>4. CASE Create
    <3>1. pod[cur] = NoTmpl
      BY <1>b, <2>4, CreateEffect DEF All, Base, RolloutInv, LeaveInv
    <3> QED
      BY <2>a, <2>4, <3>1, CreateEffect DEF Renewed
  <2>5. CASE CreateAlreadyExists \/ CreatePause \/ CheckHealthBefore \/ RecordClusterSize
    BY <2>a, <2>5, AlreadyEffect, CreatePauseEffect, HealthBeforeEffect, SizeEffect
  <2>6. CASE CheckReplicaCount \/ DisableAllocation
    BY <2>a, <2>6, ReplicasEffect, DisableEffect DEF Renewed
  <2>7. CASE ExecuteUpdate
    <3>1. rs'[cur] # tmpl'[cur]
      BY <1>b, <2>7, ExecuteEffect
    <3> QED
      BY <2>a, <2>7, <3>1, ExecuteEffect
  <2>8. CASE Unpause \/ WaitForNodeRollout
    <3>1. pc \in {"unpause", "waitRollout"} /\ rs[cur] = tmpl[cur] => Renewed(cur)
      BY <1>a DEF SecretInv
    <3> QED
      BY <2>a, <2>8, <3>1, UnpauseEffect, RolloutEffect
  <2>9. CASE ScaleDownNode \/ WaitForNodeLeaveCluster
    BY <2>a, <2>9, ScaleDownEffect, LeaveEffect DEF Renewed
  <2>10. CASE ScaleUpNode
    <3>1. Renewed(cur)
      BY <1>a, <2>10, ScaleUpEffect DEF SecretInv
    <3> QED
      BY <2>a, <2>10, <3>1, ScaleUpEffect
  <2>11. CASE EnableAllocation \/ CheckHealthAfter
    BY <2>a, <2>11, EnableEffect, HealthAfterEffect
  \* steps that set the hash
  <2>12. CASE WaitForInitialRollout \/ PauseAgain \/ WaitForNodeRejoinCluster
    <3>1. /\ UNCHANGED <<cur, mode, pod, loaded, rs, tmpl>>
          /\ \/ pc' = "createPause"
             \/ pc' = "waitRejoin" /\ hash'[cur] = secret
             \/ pc' = "allocAll"
      BY <1>b, <2>12, InitialRolloutEffect, PauseEffect, RejoinEffect
    <3>2. Renewed(cur)
      BY <1>a, <2>12, InitialRolloutEffect, PauseEffect, RejoinEffect DEF SecretInv
    <3>3. hash'[cur] = secret
      <4>1. CASE WaitForNodeRejoinCluster /\ mode # "restart"
        <5>1. pc = "waitRejoin" /\ mode # "create"
          BY <4>1, RejoinEffect DEF All, CalmInv, PlanInv, UnderSteps
        <5>2. mode = "update"
          BY <4>1, <5>1, CalmTypes
        <5> QED
          BY <1>a, <4>1, <5>1, <5>2, RejoinEffect DEF SecretInv
      <4>2. CASE WaitForNodeRejoinCluster /\ mode = "restart"
        BY <1>b, <4>2, RejoinEffect
      <4>3. CASE WaitForInitialRollout \/ PauseAgain
        BY <1>b, <4>3, InitialRolloutEffect, PauseEffect
      <4> QED
        BY <2>12, <4>1, <4>2, <4>3
    <3>4. \A n \in Node : n # cur => hash'[n] = hash[n]
      BY CreatedStay
    <3> QED
      BY <1>a, <2>1, <3>1, <3>2, <3>3, <3>4 DEF SecretInv, Renewed
  \* steps of the environment
  <2>b. ASSUME UNCHANGED <<pc, cur, mode, hash, pod, loaded, rs, tmpl>> PROVE SecretInv'
    BY <1>a, <2>b, <2>1 DEF SecretInv, Renewed
  <2>13. CASE \E t \in Tmpls : EditSpec(t)
    BY <2>b, <2>13, EditEffect
  <2>14. ASSUME NEW n \in Node, KillOldPod(n) \/ ScaleDownPod(n) PROVE SecretInv'
    <3>1. /\ UNCHANGED <<pc, cur, mode, hash, loaded, rs, tmpl>>
          /\ \A m \in Node : pod'[m] \in {NoTmpl, pod[m]}
      BY <1>b, <2>14, StopEffect
    <3>2. \A m \in Node : Renewed(m) => Renewed(m)'
      BY <2>1, <3>1 DEF Renewed
    <3> QED
      BY <1>a, <1>b, <2>1, <3>1, <3>2 DEF SecretInv
  <2>15. ASSUME NEW n \in Node, CreateReplicaSet(n) PROVE SecretInv'
    <3>1. pod[cur] = NoTmpl /\ UNCHANGED <<pc, cur, mode, hash, loaded, pod>>
      BY <2>15, ReplicaSetEffect
    <3> QED
      BY <1>a, <1>b, <2>1, <3>1 DEF SecretInv, Renewed
  <2>16. ASSUME NEW n \in Node, StartPod(n) PROVE SecretInv'
    <3>1. hash[n] = secret \/ (n = cur /\ pc \in Down \cup {"initWait"})
      <4>1. CASE hash[n] = 0
        <5>1. tmpl[n] # NoTmpl
          BY <2>16, PodStartEffect DEF All, Base, RolloutInv
        <5> QED
          BY <4>1, <5>1 DEF All, CalmInv, CreateInv
      <4>2. CASE hash[n] \notin {0, secret}
        <5>1. Whole
          BY <4>2 DEF All, CalmInv, WholeInv, Rotated
        <5>2. n \notin members
          BY <2>16, PodStartEffect DEF All, LeaveInv
        <5> QED
          BY <5>1, <5>2 DEF Whole
      <4> QED
        BY <4>1, <4>2
    <3>2. /\ UNCHANGED <<pc, cur, mode, hash, rs, tmpl>>
          /\ loaded'[n] = secret
          /\ \A m \in Node : m # n => pod'[m] = pod[m] /\ loaded'[m] = loaded[m]
      BY <1>b, <2>16, PodStartEffect
    <3>3. \A m \in Node : Renewed(m) => Renewed(m)'
      BY <2>1, <3>2 DEF Renewed
    <3> QED
      BY <1>a, <1>b, <2>1, <3>1, <3>2, <3>3 DEF SecretInv
  <2>17. ASSUME NEW n \in Node, JoinCluster(n) \/ RecoverShards(n) PROVE SecretInv'
    BY <2>b, <2>17, JoinEffect
  <2>18. CASE UNCHANGED vars
    BY <2>b, <2>18 DEF vars, kube, mem, local
  <2> QED
    BY <1>2, <2>2, <2>3, <2>4, <2>5, <2>6, <2>7, <2>8, <2>9, <2>10, <2>11, <2>12, <2>13, <2>14,
       <2>15, <2>16, <2>17, <2>18, CalmNext
<1> QED
  BY <1>1, <1>2

\* no Deployment, no status, nothing under way
LEMMA CalmInit == Init => CalmInv
<1> SUFFICES ASSUME Init PROVE CalmInv
  OBVIOUS
<1>1. 1 \in Nat /\ 0 <= 1
  OBVIOUS
<1>2. PlanInv /\ CreateInv
  BY DEF Init, BlankStatus, PlanInv, CreateInv, Creating, NoneCreated, Working, UnderSteps
<1>3. TurnInv
  BY DEF Init, BlankStatus, TurnInv, RestartSteps, UnderSteps
<1>4. WholeInv
  BY DEF Init, WholeInv, Rotated
<1>5. DueInv
  BY <1>1 DEF Init, BlankStatus, DueInv, Working, RestartSteps, UnderSteps
<1>6. SecretInv
  BY DEF Init, SecretInv, Renewed
<1> QED
  BY <1>2, <1>3, <1>4, <1>5, <1>6 DEF CalmInv

\* the six invariants are inductive together
LEMMA CalmHolds ==
    ASSUME Calm
    PROVE  Spec /\ EditsWait => []All
<1>1. Base /\ LeaveInv /\ CalmInv /\ TypeOK' /\ [Next]_vars /\ [Patient]_vars => CalmInv'
  <2> SUFFICES ASSUME Base /\ LeaveInv /\ CalmInv, TypeOK', [Next]_vars, [Patient]_vars
               PROVE  CalmInv'
    OBVIOUS
  <2>1. All
    BY DEF All
  <2>2. Patient
    BY DEF Patient, vars, user
  <2>3. PlanInv' /\ CreateInv' /\ TurnInv'
    BY <2>1, <2>2, PlanStep, CreateStep, TurnStep
  <2>4. WholeInv' /\ DueInv' /\ SecretInv'
    BY <2>1, WholeStep, DueStep, SecretStep
  <2> QED
    BY <2>3, <2>4 DEF CalmInv
<1>2. Base => TypeOK
  BY DEF Base
<1>3. Base /\ LeaveInv /\ CalmInv => All
  BY DEF All
<1>4. Spec => [](Base /\ LeaveInv)
  BY LeaveHolds, CalmIsCareful
<1> QED
  BY <1>1, <1>2, <1>3, <1>4, CalmInit, PTL DEF Spec, EditsWait

\* whose turn it is can be told from the step the operator is at
TurnOfCur == Turn = IF pc \in RestartSteps THEN {cur} ELSE {}
LEMMA TurnIsCur == All => TurnOfCur
<1> SUFFICES ASSUME All PROVE TurnOfCur
  OBVIOUS
<1>a. TypeOK /\ StatusInv /\ AllocInv /\ TurnInv /\ cur \in Node
  BY CalmTypes DEF All, Base, CalmInv
<1>1. \A n \in Node : ~(n = cur /\ pc \in Working) => ~Owned(n)
  BY <1>a DEF Owned, Current, TurnInv
<1>2. pc \in RestartSteps => pc \in Working /\ Owned(cur)
  BY <1>a DEF Owned, Current, StatusInv, AllocInv, RestartSteps, UnderSteps, Working
<1>3. pc \in {"create", "initWait", "createPause"} => ns = st[cur]
  BY <1>a DEF AllocInv
<1>4. pc \in {"create", "initWait", "createPause"} => ~(ns.under = "True" /\ ns.phase # RecoveringData)
  BY <1>3, <1>a DEF TurnInv
<1>5. pc \in {"health0", "size0", "health1", "state"} => ~(ns.under = "True" /\ ns.phase # RecoveringData)
  BY <1>a DEF TurnInv, AllocInv
<1>6. pc \in Working \ RestartSteps => ~Owned(cur)
  BY <1>4, <1>5 DEF Owned, Current, RestartSteps, UnderSteps, Working
<1> QED
  BY <1>1, <1>2, <1>6, <1>a DEF TurnOfCur, Turn

(* When nothing fails and the spec is not edited before it has reached all
   Deployments, update and restart take one node at a time, for any number
   of nodes, edits and secrets.                                            *)
THEOREM OneNodeAtATime ==
    ASSUME Calm
    PROVE  Spec /\ EditsWait => []AtMostOneRestarting
<1>1. All => AtMostOneRestarting
  <2> SUFFICES ASSUME All, NEW n \in Node, Current(n).phase = NodeRestarting
               PROVE  n = cur
    BY CalmTypes DEF AtMostOneRestarting
  <2>1. st[n].phase # NodeRestarting
    BY DEF All, Base, StatusInv, WellFormed, CalmInv, TurnInv, NodeRestarting, RecoveringData
  <2> QED
    BY <2>1 DEF Current
<1> QED
  BY <1>1, CalmHolds, PTL

(* Under the same assumptions every pod that runs with an old secret belongs
   to a node for which the operator remembers an older hash, so the rotation
   of a secret is not missed ...                                           *)
THEOREM RedeploysAreNoticed ==
    ASSUME Calm
    PROVE  Spec /\ EditsWait => []NoMissedRedeploy
<1>1. All => NoMissedRedeploy
  BY DEF All, CalmInv, SecretInv, Renewed, NoMissedRedeploy
<1> QED
  BY <1>1, CalmHolds, PTL

(* ... and a redeploy is scheduled only for a pod that needs it.           *)
THEOREM RedeploysAreNeeded ==
    ASSUME Calm
    PROVE  Spec /\ EditsWait => NoSpuriousRedeploy
<1>1. All /\ [Next]_vars =>
         [\A n \in Node : cr[n].re = "" /\ cr'[n].re = "True" => loaded[n] # secret]_vars
  <2> SUFFICES ASSUME All, [Next]_vars, NEW n \in Node, cr[n].re = "", cr'[n].re = "True"
               PROVE  loaded[n] # secret
    OBVIOUS
  <2>1. st = cr
    BY CalmTypes
  <2>2. UpdateNodeStatus
    BY <2>1, CalmWriters, ClusterEffect
  <2>3. n = cur /\ pc = "state" /\ secret # hash[cur]
    BY <2>1, <2>2, StateEffect DEF Flag
  <2> QED
    BY <2>3 DEF All, CalmInv, SecretInv, Down
<1> QED
  BY <1>1, CalmHolds, PTL DEF Spec, NoSpuriousRedeploy

(* Under the same assumptions the upgrade implements RollingRestart: turns
   follow one another, each begins in a green cluster, and shards go missing
   only in a turn with allocation off.                                     *)
THEOREM ImplementsRollingRestart ==
    ASSUME Calm
    PROVE  Spec /\ EditsWait => IsRollingRestart
<1> USE DEF RestartSteps, UnderSteps
<1>1. Init => Abstract!Init
  <2> SUFFICES ASSUME Init PROVE Abstract!Init
    OBVIOUS
  <2>1. Turn = {}
    BY DEF Init, BlankStatus, Turn, Owned, Current, Working
  <2> QED
    BY <2>1 DEF Init, Abstract!Init
<1>2. All /\ TurnOfCur /\ TurnOfCur' /\ [Next]_vars => [Abstract!Next]_(Abstract!vars)
  <2> SUFFICES ASSUME All, TurnOfCur, TurnOfCur', [Next]_vars
               PROVE  Abstract!Next \/ UNCHANGED Abstract!vars
    OBVIOUS
  <2>a. cur \in Node
    BY CalmTypes
  <2>b. ASSUME UNCHANGED <<dirty, alloc>>, pc \notin RestartSteps, pc' \notin RestartSteps
        PROVE  UNCHANGED Abstract!vars
    BY <2>b DEF TurnOfCur, Abstract!vars
  <2>c. ASSUME UNCHANGED <<dirty, alloc, cur>>, pc \in RestartSteps <=> pc' \in RestartSteps
        PROVE  UNCHANGED Abstract!vars
    BY <2>c DEF TurnOfCur, Abstract!vars
  <2>1. CASE \/ StartReconcile \/ CreateOrUpdateElasticsearchCluster \/ UpdateNodeStatus
             \/ UpdateClusterStatus \/ \E n \in Node : NextNode(n)
    BY <2>b, <2>1, StartEffect, SelectEffect, StateEffect, ClusterEffect, NextEffect
  <2>2. CASE \/ Create \/ CreateAlreadyExists \/ WaitForInitialRollout \/ CreatePause
             \/ CheckHealthBefore \/ CheckHealthAfter
    BY <2>b, <2>2, CreateEffect, AlreadyEffect, InitialRolloutEffect, CreatePauseEffect,
       HealthBeforeEffect, HealthAfterEffect
  <2>3. CASE RecordClusterSize
    <3>1. dirty = {} /\ pc = "size0" /\ pc' \in RestartSteps /\ UNCHANGED <<dirty, alloc, cur>>
      BY <2>3, SizeEffect DEF All, CalmInv, TurnInv
    <3>2. Turn = {} /\ Turn' = {cur}
      BY <3>1 DEF TurnOfCur
    <3>3. Abstract!Begin(cur)
      BY <3>1, <3>2 DEF Abstract!Begin
    <3> QED
      BY <2>a, <3>3 DEF Abstract!Next
  <2>4. CASE DisableAllocation
    <3>1. pc \in RestartSteps /\ pc' \in RestartSteps /\ alloc' = "none" /\ UNCHANGED <<dirty, cur>>
      BY <2>4, DisableEffect
    <3>2. Turn = {cur} /\ Turn' = {cur}
      BY <3>1 DEF TurnOfCur
    <3>3. Abstract!Disable
      BY <3>1, <3>2 DEF Abstract!Disable
    <3> QED
      BY <3>3 DEF Abstract!Next
  <2>5. CASE CheckReplicaCount \/ ExecuteUpdate \/ Unpause \/ WaitForNodeRollout \/ PauseAgain
    BY <2>c, <2>5, ReplicasEffect, ExecuteEffect, UnpauseEffect, RolloutEffect, PauseEffect
  <2>6. CASE ScaleDownNode \/ WaitForNodeLeaveCluster \/ ScaleUpNode \/ WaitForNodeRejoinCluster
    BY <2>c, <2>6, ScaleDownEffect, LeaveEffect, ScaleUpEffect, RejoinEffect
  <2>7. CASE EnableAllocation
    <3>1. pc' = "health1" /\ alloc' = "all" /\ UNCHANGED dirty
      BY <2>7, EnableEffect
    <3>2. Turn' = {}
      BY <3>1 DEF TurnOfCur
    <3>3. Abstract!Enable
      BY <3>1, <3>2 DEF Abstract!Enable
    <3> QED
      BY <3>3 DEF Abstract!Next
  <2>8. CASE RotateSecret \/ \E t \in Tmpls : EditSpec(t)
    BY <2>c, <2>8, RotateEffect, EditEffect
  <2>9. ASSUME NEW n \in Node, KillOldPod(n) \/ ScaleDownPod(n)
        PROVE  Abstract!Next \/ UNCHANGED Abstract!vars
    <3>1. n = cur /\ pc \in RestartSteps /\ alloc = "none" /\ UNCHANGED <<pc, cur>>
      BY <2>9, StopEffect
    <3>2. Turn = {cur} /\ Turn' = {cur}
      BY <3>1 DEF TurnOfCur
    <3>3. CASE n \in members
      <4>1. dirty' = dirty \cup {n} /\ alloc' \in {"none", "all"}
        BY <2>9, <3>1, <3>3, StopEffect
      <4>2. Abstract!TakeDown(n)
        BY <3>1, <3>2, <4>1 DEF Abstract!TakeDown
      <4> QED
        BY <4>2 DEF Abstract!Next
    <3>4. CASE n \notin members
      <4>1. members # {}
        BY <3>1 DEF All, CalmInv, TurnInv
      <4>2. UNCHANGED <<dirty, alloc>>
        BY <2>9, <3>4, <4>1, StopEffect
      <4> QED
        BY <2>c, <3>1, <4>2
    <3> QED
      BY <3>3, <3>4
  <2>10. ASSUME NEW n \in Node, CreateReplicaSet(n) \/ StartPod(n) PROVE UNCHANGED Abstract!vars
    BY <2>c, <2>10, ReplicaSetEffect, PodStartEffect
  <2>11. ASSUME NEW n \in Node, JoinCluster(n) PROVE UNCHANGED Abstract!vars
    BY <2>c, <2>11, JoinEffect DEF JoinCluster
  <2>12. ASSUME NEW n \in Node, RecoverShards(n) PROVE Abstract!Next
    <3>1. alloc = "all" /\ dirty' = dirty \ {n} /\ UNCHANGED <<alloc, pc, cur>>
      BY <2>12, JoinEffect DEF RecoverShards, CanRecover
    <3>2. Turn' = Turn
      BY <3>1 DEF TurnOfCur
    <3>3. Abstract!Recover(n)
      BY <3>1, <3>2 DEF Abstract!Recover
    <3> QED
      BY <3>3 DEF Abstract!Next
  <2>13. CASE UNCHANGED vars
    BY <2>c, <2>13 DEF vars, es, local
  <2> QED
    BY <2>1, <2>2, <2>3, <2>4, <2>5, <2>6, <2>7, <2>8, <2>9, <2>10, <2>11, <2>12, <2>13, CalmNext
<1> QED
  BY <1>1, <1>2, TurnIsCur, CalmHolds, PTL DEF Spec, IsRollingRestart, Abstract!Spec

(* So whatever the number of nodes, the shards of two nodes are never missing
   at the same time: with one replica every shard has a copy left.         *)
THEOREM NoTwoNodesMissing ==
    ASSUME Calm
    PROVE  Spec /\ EditsWait => []Abstract!OneNodeMissing
BY ImplementsRollingRestart, Abstract!AtMostOneNodeMissing, PTL DEF IsRollingRestart

-----------------------------------------------------------------------------
(* A single edit.                                                          *)

\* before the first edit everything is made from the one spec
Unedited ==
    edits = 0 => /\ \A n \in Node : tmpl[n] \in {spec, NoTmpl}
                 /\ desired \in {spec, NoTmpl} /\ self \in {spec, NoTmpl}

\* Unedited is inductive, whatever fails
LEMMA UneditedStep == TypeOK /\ Unedited /\ [Next]_vars => Unedited'
<1> SUFFICES ASSUME TypeOK, Unedited, [Next]_vars PROVE Unedited'
  OBVIOUS
<1>a. cur \in Node /\ tmpl \in [Node -> Template]
  BY DEF TypeOK
<1>b. ASSUME UNCHANGED <<edits, spec>>,
             tmpl' \in {tmpl, [tmpl EXCEPT ![cur] = desired], [tmpl EXCEPT ![cur] = self]},
             desired' \in {spec, desired, NoTmpl},
             self' \in {desired, self, tmpl[cur], NoTmpl}
      PROVE  Unedited'
  BY <1>a, <1>b DEF Unedited
<1>c. ASSUME NEW new, tmpl' \in FailedWrite(tmpl, new) PROVE tmpl' \in {tmpl, new}
  BY <1>c DEF FailedWrite
<1>1. CASE StartReconcile \/ CreateOrUpdateElasticsearchCluster \/ UpdateNodeStatus
  BY <1>1, <1>b DEF StartReconcile, getNodes, CreateOrUpdateElasticsearchCluster, UpdateNodeStatus,
     reconcileFrame, user, kube
<1>2. CASE UpdateClusterStatus \/ OperatorRestart
  BY <1>2, <1>b DEF UpdateClusterStatus, OperatorRestart, Return, reconcileFrame, user, kube
<1>3. CASE \E n \in Node : progressUnshedulableNode(n) \/ NextNode(n)
  BY <1>3, <1>b DEF progressUnshedulableNode, NextNode, reconcileFrame, user, kube
<1>4. CASE UnschedExecute
  BY <1>4, <1>b, <1>c DEF UnschedExecute, executeUpdate, unschedFrame, user
<1>5. CASE UnschedUnpause \/ UnschedWait \/ UnschedPause
  BY <1>5, <1>b DEF UnschedUnpause, UnschedWait, UnschedPause, unschedFrame, user, kube
<1>6. CASE Create
  BY <1>6, <1>b DEF Create, Created, Return, createFrame, user
<1>7. CASE RecheckConfFails \/ WaitForInitialRollout \/ CreatePause
  BY <1>7, <1>b DEF RecheckConfFails, WaitForInitialRollout, CreatePause, Return, createFrame, user, kube
<1>8. CASE CreateAlreadyExists \/ CheckHealthBefore \/ RecordClusterSize \/ CheckReplicaCount
  BY <1>8, <1>b DEF CreateAlreadyExists, CheckHealthBefore, RecordClusterSize, CheckReplicaCount,
     stepFrame, user, kube
<1>9. CASE ExecuteUpdate
  BY <1>9, <1>b, <1>c DEF ExecuteUpdate, executeUpdate, stepFrame, user
<1>10. CASE DisableAllocation \/ Unpause \/ WaitForNodeRollout \/ PauseAgain
  BY <1>10, <1>b DEF DisableAllocation, Unpause, WaitForNodeRollout, PauseAgain, stepFrame, user, kube
<1>11. CASE ScaleDownNode \/ WaitForNodeLeaveCluster \/ ScaleUpNode
  BY <1>11, <1>b DEF ScaleDownNode, WaitForNodeLeaveCluster, ScaleUpNode, setReplicaCount, stepFrame, user, kube
<1>12. CASE WaitForNodeRejoinCluster \/ EnableAllocation \/ CheckHealthAfter
  BY <1>12, <1>b DEF WaitForNodeRejoinCluster, EnableAllocation, CheckHealthAfter, stepFrame, user, kube
<1>13. CASE \E t \in Tmpls : EditSpec(t)
  <2>1. edits \in Nat /\ edits' = edits + 1
    BY <1>13, BoundsAssumption DEF EditSpec, TypeOK
  <2> QED
    BY <2>1 DEF Unedited
<1>14. CASE RotateSecret
  BY <1>14, <1>b DEF RotateSecret, envFrame, kube, local
<1>15. CASE \E n \in Node : Platform(n) \/ PodDies(n)
  BY <1>15, <1>b DEF Platform, KillOldPod, CreateReplicaSet, ScaleDownPod, StartPod, JoinCluster,
     RecoverShards, PodDies, podFrame, envFrame, user, local
<1>16. CASE UNCHANGED vars
  BY <1>16, <1>b DEF vars, user, kube, local
<1> QED
  BY <1>1, <1>2, <1>3, <1>4, <1>5, <1>6, <1>7, <1>8, <1>9, <1>10, <1>11, <1>12, <1>13, <1>14, <1>15,
     <1>16 DEF Next, Operator, Environment

(* If the spec is edited at most once, EditsWait is no assumption: whatever
   fails, until then every Deployment is made from the spec that stands. So
   the theorems above hold for every behaviour with one edit.              *)
THEOREM OneEditWaits ==
    ASSUME MaxEdits <= 1
    PROVE  Spec => EditsWait
<1>1. Init => Unedited
  BY DEF Init, Unedited
<1>2. TypeOK /\ Unedited /\ [Next]_vars => [Patient]_vars
  <2> SUFFICES ASSUME TypeOK, Unedited, [Next]_vars, spec' # spec
               PROVE  \A n \in Node : tmpl[n] \in {spec, NoTmpl}
    BY DEF Patient
  <2>1. edits < MaxEdits
    BY DEF Next, Operator, Environment, Platform, StartReconcile, CreateOrUpdateElasticsearchCluster,
       UpdateNodeStatus, UpdateClusterStatus, OperatorRestart, progressUnshedulableNode, NextNode,
       UnschedExecute, UnschedUnpause, UnschedWait, UnschedPause, Create, RecheckConfFails,
       WaitForInitialRollout, CreatePause, CreateAlreadyExists, CheckHealthBefore, RecordClusterSize,
       CheckReplicaCount, ExecuteUpdate, DisableAllocation, Unpause, WaitForNodeRollout, PauseAgain,
       ScaleDownNode, WaitForNodeLeaveCluster, ScaleUpNode, WaitForNodeRejoinCluster, EnableAllocation,
       CheckHealthAfter, EditSpec, RotateSecret, KillOldPod, CreateReplicaSet, ScaleDownPod, StartPod,
       JoinCluster, RecoverShards, PodDies, reconcileFrame, unschedFrame, createFrame, stepFrame,
       podFrame, vars, user
  <2>2. edits = 0
    BY <2>1, BoundsAssumption DEF TypeOK
  <2> QED
    BY <2>2 DEF Unedited
<1> QED
  BY <1>1, <1>2, UneditedStep, TypeCorrect, PTL DEF Spec, EditsWait

=============================================================================
