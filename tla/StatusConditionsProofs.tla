----------------------- MODULE StatusConditionsProofs -----------------------
(* What UpdateClusterStatus writes and the watermarks it judges disks by,
   for any clusters, nodes, pods and settings.                             *)
EXTENDS StatusConditions, SequenceTheorems, TLAPS

-----------------------------------------------------------------------------
(* Watermarks.                                                             *)

(* refreshDiskWatermarkThresholds leaves nothing of what the variables held
   before: a disk exceeds them exactly when it exceeds what was reported.  *)
LEMMA RefreshedIsExact ==
    ASSUME NEW m, NEW s \in Setting, NEW u \in (0..MaxDisk) \ Unreadable
    PROVE  /\ refreshed(m, s) \in Marks
           /\ exceedsLowWatermark(refreshed(m, s), u) <=> Exceeds(u, s.low)
           /\ exceedsHighWatermark(refreshed(m, s), u) <=> Exceeds(u, s.high)
<1>1. s.low \in Watermark /\ s.high \in Watermark
  BY DEF Setting
<1>2. \A w \in Watermark : w.kind \in {"pct", "abs", "bad"} /\ w.value \in 0..MaxDisk
  BY DEF Watermark
<1>3. \A w \in Watermark : Quantity(w) \in 0..MaxDisk /\ (w.kind = "pct" => Quantity(w) = w.value)
  BY <1>2, BoundsAssumption DEF Quantity
<1>4. refreshed(m, s) \in Marks
  BY <1>1, <1>2, <1>3 DEF refreshed, Marks
<1>5. exceedsLowWatermark(refreshed(m, s), u) <=> Exceeds(u, s.low)
  BY <1>1, <1>2, <1>3, BoundsAssumption
     DEF refreshed, exceedsLowWatermark, exceedsWatermarks, Exceeds, Nil
<1>6. exceedsHighWatermark(refreshed(m, s), u) <=> Exceeds(u, s.high)
  BY <1>1, <1>2, <1>3, BoundsAssumption
     DEF refreshed, exceedsHighWatermark, exceedsWatermarks, Exceeds, Nil
<1> QED
  BY <1>4, <1>5, <1>6

(* The inductive invariant: as long as a pass remembers a setting it has
   read, the four variables are what that setting makes of them.           *)
MarksOfSeen == seen \subseteq Settings /\ \A s \in seen : marks = refreshed(marks, s)

(* Every step that touches the variables also settles what was seen.       *)
LEMMA MarksOfSeenStep ==
    ASSUME setting \in [Clusters -> Settings], req \in Clusters, MarksOfSeen, [Next]_vars
    PROVE  MarksOfSeen'
<1> USE DEF MarksOfSeen
<1>1. ASSUME NEW c \in Clusters, UpdateClusterStatus(c)
      PROVE  MarksOfSeen'
  BY <1>1 DEF UpdateClusterStatus
<1>2. CASE ReadCluster
  BY <1>2 DEF ReadCluster
<1>3. CASE ReadThresholdEnabled
  BY <1>3 DEF ReadThresholdEnabled
<1>4. CASE refreshDiskWatermarkThresholds
  BY <1>4 DEF refreshDiskWatermarkThresholds, refreshed
<1>5. ASSUME NEW n \in Node, GetPodList(n) \/ updateNodeConditions(n) \/ NodeDone(n)
      PROVE  MarksOfSeen'
  BY <1>5 DEF GetPodList, updateNodeConditions, NodeDone
<1>6. CASE SaveStatus
  BY <1>6 DEF SaveStatus
<1>7. ASSUME NEW n \in Node, PodsChange(n) \/ DiskChanges(n)
      PROVE  MarksOfSeen'
  BY <1>7 DEF PodsChange, DiskChanges, Changed
<1>8. ASSUME NEW c \in Clusters, SettingChanges(c) \/ ClusterChanges(c)
      PROVE  MarksOfSeen'
  BY <1>8 DEF SettingChanges, ClusterChanges, Changed
<1>9. CASE OperatorRestart
  BY <1>9 DEF OperatorRestart
<1>10. CASE UNCHANGED vars
  BY <1>10 DEF vars
<1> QED
  BY <1>1, <1>2, <1>3, <1>4, <1>5, <1>6, <1>7, <1>8, <1>9, <1>10
     DEF Next, Operator, Environment

-----------------------------------------------------------------------------
(* Types.                                                                  *)

(* A pod's turn leaves conditions the status can hold.                     *)
LEMMA PodConditionsType ==
    ASSUME NEW p \in Pod, NEW old \in SUBSET Condition
    PROVE  podConditions(old, p) \in SUBSET Condition
<1>1. \A c \in Containers : p[c] \in ContainerState
  BY DEF Pod, Containers
<1>2. \A c \in Containers : p[c] \in {"waiting", "terminated"} => <<c, p[c]>> \in Condition
  BY <1>1 DEF ContainerState, Condition
<1>3. <<"Unschedulable">> \in Condition
  BY DEF Condition
<1> QED
  BY <1>2, <1>3 DEF podConditions, updatePodCondition

(* The storage condition stays one of the three.                           *)
LEMMA StorageConditionType ==
    ASSUME NEW m, NEW u, NEW old \in Storage
    PROVE  storageCondition(m, u, old) \in Storage
BY DEF storageCondition, Storage

(* The lists of pods a status sorts by state are the nodes' pods.          *)
LEMMA PodStateMapType ==
    ASSUME pods \in [Node -> PodLists], NEW c \in Clusters
    PROVE  podStateMap(c) \in [PodState -> SUBSET (Node \X Nat)]
<1>1. \A n \in Node : DOMAIN pods[n] \subseteq Nat
  BY PodsAssumption
<1>2. AllPods(c) \subseteq Node \X Nat
  BY <1>1 DEF AllPods, NodesOf
<1> QED
  BY <1>2 DEF podStateMap

(* The type invariant in parts, each closed under the steps with the help of
   the others.  A status that has read the cluster names an allocation, and
   between passes nothing is left to do.                                   *)
WorldTyped ==
    /\ pods \in [Node -> PodLists] /\ disk \in [Node -> 0..MaxDisk]
    /\ setting \in [Clusters -> Settings]
    /\ health \in [Clusters -> {"green", "red"}] /\ alloc \in [Clusters -> {"all", "none"}]
    /\ changes \in 0..MaxChanges

StatusTyped ==
    /\ cr \in [Clusters -> Status] /\ st \in Status
    /\ \A c \in Clusters : cr[c].alloc = "" => cr[c] = BlankStatus
    /\ pc \in {"threshold", "refresh", "node", "pod"} => st.alloc # ""

PassTyped ==
    /\ pc \in {"idle", "health", "threshold", "refresh", "node", "pod"}
    /\ req \in Clusters /\ todo \subseteq NodesOf(req)
    /\ pc \in {"idle", "health"} => todo = {}
    /\ list \in Seq(Pod)

BoundsTyped == marks \in Marks /\ faults \in 0..MaxFaults

FlagTyped == enabled \in BOOLEAN

StatusInv == WorldTyped /\ StatusTyped /\ PassTyped /\ BoundsTyped /\ FlagTyped /\ MarksOfSeen

(* A status with nothing in it is a status.                                *)
LEMMA BlankIsStatus == BlankStatus \in Status
BY DEF BlankStatus, Status, Storage

(* Only the environment changes the world, and within its types.           *)
LEMMA WorldStep == WorldTyped /\ [Next]_vars => WorldTyped'
<1> SUFFICES ASSUME WorldTyped, [Next]_vars
             PROVE  WorldTyped'
  OBVIOUS
<1> USE BoundsAssumption DEF WorldTyped
<1>1. ASSUME NEW n \in Node, PodsChange(n)
      PROVE  WorldTyped'
  BY <1>1 DEF PodsChange, Changed
<1>2. ASSUME NEW n \in Node, DiskChanges(n)
      PROVE  WorldTyped'
  BY <1>2 DEF DiskChanges, Changed
<1>3. ASSUME NEW c \in Clusters, SettingChanges(c)
      PROVE  WorldTyped'
  BY <1>3 DEF SettingChanges, Changed
<1>4. ASSUME NEW c \in Clusters, ClusterChanges(c)
      PROVE  WorldTyped'
  BY <1>4 DEF ClusterChanges, Changed
<1>5. CASE Operator
  BY <1>5 DEF Operator, UpdateClusterStatus, ReadCluster, ReadThresholdEnabled,
     refreshDiskWatermarkThresholds, GetPodList, updateNodeConditions, NodeDone,
     SaveStatus, world
<1>6. CASE OperatorRestart
  BY <1>6 DEF OperatorRestart, world
<1>7. CASE UNCHANGED vars
  BY <1>7 DEF vars, world
<1> QED
  BY <1>1, <1>2, <1>3, <1>4, <1>5, <1>6, <1>7 DEF Next, Environment

(* What GetClusterHealth and GetShardAllocation can answer: a health that is
   not known may be blank, an allocation never is.                         *)
LEMMA Answers ==
    ASSUME WorldTyped, req \in Clusters
    PROVE  /\ \A h \in GetClusterHealth :
                /\ h[1] \in {"green", "red", "cluster health unknown", ""}
                /\ h[2] \in {0, 1}
           /\ \A a \in GetShardAllocation :
                /\ a[1] \in {"all", "none", "shard allocation unknown"}
                /\ a[2] \in {0, 1}
<1>1. health[req] \in {"green", "red"} /\ alloc[req] \in {"all", "none"}
  BY DEF WorldTyped
<1>2. ASSUME NEW h \in GetClusterHealth
      PROVE  /\ h[1] \in {"green", "red", "cluster health unknown", ""}
             /\ h[2] \in {0, 1}
  <2>1. CASE h = <<health[req], 0>>
    BY <1>1, <2>1
  <2>2. CASE h = <<"cluster health unknown", 1>>
    BY <2>2
  <2>3. CASE h = <<"", 1>>
    BY <2>3
  <2> QED
    BY <2>1, <2>2, <2>3, Zenon DEF GetClusterHealth
<1>3. ASSUME NEW a \in GetShardAllocation
      PROVE  /\ a[1] \in {"all", "none", "shard allocation unknown"}
             /\ a[2] \in {0, 1}
  <2>1. CASE a = <<alloc[req], 0>>
    BY <1>1, <2>1
  <2>2. CASE a = <<"shard allocation unknown", 1>>
    BY <2>2
  <2>3. CASE a = <<"all", 1>>
    BY <2>3
  <2> QED
    BY <2>1, <2>2, <2>3, Zenon DEF GetShardAllocation
<1> QED
  BY <1>2, <1>3

(* The status of a pass and the one in the custom resource stay statuses;
   a blank one is never saved by a pass.                                   *)
LEMMA StatusStep == StatusInv /\ [Next]_vars => StatusTyped'
<1> SUFFICES ASSUME StatusInv, [Next]_vars
             PROVE  StatusTyped'
  OBVIOUS
<1> USE DEF StatusInv, StatusTyped
<1>1. ASSUME NEW c \in Clusters, UpdateClusterStatus(c)
      PROVE  StatusTyped'
  BY <1>1 DEF UpdateClusterStatus
<1>2. CASE ReadCluster
  <2>1. PICK h \in GetClusterHealth, a \in GetShardAllocation :
          st' = [st EXCEPT !.health = h[1], !.alloc = a[1], !.pods = podStateMap(req)]
    BY <1>2 DEF ReadCluster
  <2>2. /\ h[1] \in {"green", "red", "cluster health unknown", ""}
        /\ a[1] \in {"all", "none", "shard allocation unknown"}
    BY <2>1, Answers DEF PassTyped
  <2>3. podStateMap(req) \in [PodState -> SUBSET (Node \X Nat)]
    BY PodStateMapType DEF WorldTyped, PassTyped
  <2>4. st' \in Status /\ st'.alloc # ""
    BY <2>1, <2>2, <2>3 DEF Status
  <2> QED
    BY <1>2, <2>4 DEF ReadCluster
<1>3. CASE ReadThresholdEnabled
  BY <1>3 DEF ReadThresholdEnabled
<1>4. CASE refreshDiskWatermarkThresholds
  BY <1>4 DEF refreshDiskWatermarkThresholds
<1>5. ASSUME NEW n \in Node, GetPodList(n) \/ NodeDone(n)
      PROVE  StatusTyped'
  BY <1>5 DEF GetPodList, NodeDone
<1>6. ASSUME NEW n \in Node, updateNodeConditions(n)
      PROVE  StatusTyped'
  <2> DEFINE p   == Head(list)
             new == [st EXCEPT !.conds[n] = podConditions(@, p)]
             with(u) == [new EXCEPT !.storage[n] = storageCondition(marks, u, @)]
  <2>1. p \in Pod
    <3>1. list \in Seq(Pod) /\ list # <<>>
      BY <1>6 DEF updateNodeConditions, PassTyped
    <3> QED
      BY ONLY <3>1, HeadTailProperties
  <2>2. podConditions(st.conds[n], p) \in SUBSET Condition
    BY <2>1, PodConditionsType DEF Status
  <2>3. new \in Status /\ new.alloc = st.alloc
    BY <2>2 DEF Status
  <2>4. ASSUME NEW u
        PROVE  with(u) \in Status /\ with(u).alloc = st.alloc
    <3>1. storageCondition(marks, u, new.storage[n]) \in Storage
      BY <2>3, StorageConditionType DEF Status
    <3> HIDE DEF new
    <3> QED
      BY <2>3, <3>1 DEF Status
  <2>5. st' = new \/ \E u \in Nil..MaxDisk : st' = with(u)
    BY <1>6 DEF updateNodeConditions
  <2> HIDE DEF new, with
  <2>6. st' \in Status /\ st'.alloc = st.alloc
    BY <2>3, <2>4, <2>5
  <2> QED
    BY <1>6, <2>6 DEF updateNodeConditions
<1>7. CASE SaveStatus
  <2>1. cr' = cr \/ cr' = [cr EXCEPT ![req] = st]
    BY <1>7 DEF SaveStatus
  <2>2. st.alloc # "" /\ req \in Clusters /\ pc' = "idle" /\ st' = BlankStatus
    BY <1>7 DEF SaveStatus, PassTyped
  <2> QED
    BY <2>1, <2>2, BlankIsStatus
<1>8. CASE Environment
  BY <1>8, BlankIsStatus DEF Environment, PodsChange, DiskChanges, SettingChanges,
     ClusterChanges, Changed, OperatorRestart, local
<1>9. CASE UNCHANGED vars
  BY <1>9 DEF vars, local
<1> QED
  BY <1>1, <1>2, <1>3, <1>4, <1>5, <1>6, <1>7, <1>8, <1>9 DEF Next, Operator

(* A pass works through the nodes of its own custom resource, and is through
   with all of them when it ends.                                          *)
LEMMA PassStep == StatusInv /\ [Next]_vars => PassTyped'
<1> SUFFICES ASSUME StatusInv, [Next]_vars
             PROVE  PassTyped'
  OBVIOUS
<1> USE DEF StatusInv, PassTyped, NodesOf
<1>1. ASSUME NEW c \in Clusters, UpdateClusterStatus(c)
      PROVE  PassTyped'
  BY <1>1 DEF UpdateClusterStatus
<1>2. CASE ReadCluster
  BY <1>2 DEF ReadCluster
<1>3. CASE ReadThresholdEnabled
  BY <1>3 DEF ReadThresholdEnabled
<1>4. CASE refreshDiskWatermarkThresholds
  BY <1>4 DEF refreshDiskWatermarkThresholds
<1>5. ASSUME NEW n \in Node, GetPodList(n)
      PROVE  PassTyped'
  BY <1>5, PodsAssumption DEF GetPodList, WorldTyped
<1>6. ASSUME NEW n \in Node, updateNodeConditions(n)
      PROVE  PassTyped'
  <2>1. Tail(list) \in Seq(Pod)
    <3>1. list \in Seq(Pod) /\ list # <<>>
      BY <1>6 DEF updateNodeConditions
    <3> QED
      BY ONLY <3>1, HeadTailProperties
  <2> QED
    BY <1>6, <2>1 DEF updateNodeConditions
<1>7. ASSUME NEW n \in Node, NodeDone(n)
      PROVE  PassTyped'
  BY <1>7 DEF NodeDone
<1>8. CASE SaveStatus
  BY <1>8 DEF SaveStatus
<1>9. CASE Environment
  <2>1. <<>> \in Seq(Pod)
    OBVIOUS
  <2> QED
    BY <1>9, <2>1 DEF Environment, PodsChange, DiskChanges, SettingChanges,
       ClusterChanges, Changed, OperatorRestart, local
<1>10. CASE UNCHANGED vars
  BY <1>10 DEF vars, local
<1> QED
  BY <1>1, <1>2, <1>3, <1>4, <1>5, <1>6, <1>7, <1>8, <1>9, <1>10 DEF Next, Operator

(* The package variables hold watermarks or nothing.                       *)
LEMMA BoundsStep == StatusInv /\ [Next]_vars => BoundsTyped'
<1> SUFFICES ASSUME StatusInv, [Next]_vars
             PROVE  BoundsTyped'
  OBVIOUS
<1> USE BoundsAssumption DEF StatusInv, BoundsTyped, Works, Fails
<1>1. ASSUME NEW c \in Clusters, UpdateClusterStatus(c)
      PROVE  BoundsTyped'
  BY <1>1 DEF UpdateClusterStatus
<1>2. CASE ReadCluster
  <2>1. PICK h \in GetClusterHealth, a \in GetShardAllocation :
          faults' = faults + h[2] + a[2] /\ faults' <= MaxFaults
    BY <1>2 DEF ReadCluster
  <2>2. h[2] \in {0, 1} /\ a[2] \in {0, 1}
    BY <2>1, Answers DEF PassTyped
  <2> QED
    BY <1>2, <2>1, <2>2 DEF ReadCluster
<1>3. CASE ReadThresholdEnabled
  BY <1>3 DEF ReadThresholdEnabled, GetThresholdEnabled
<1>4. CASE refreshDiskWatermarkThresholds
  <2>1. setting[req] \in Setting /\ 0 \in (0..MaxDisk) \ Unreadable
    BY SettingsAssumption, UnreadableAssumption DEF WorldTyped, PassTyped
  <2>2. refreshed(marks, setting[req]) \in Marks
    BY <2>1, RefreshedIsExact
  <2> QED
    BY <1>4, <2>2 DEF refreshDiskWatermarkThresholds
<1>5. ASSUME NEW n \in Node, GetPodList(n) \/ updateNodeConditions(n) \/ NodeDone(n)
      PROVE  BoundsTyped'
  <2>1. marks' = marks /\ (Works \/ Fails)
    BY <1>5, Zenon DEF GetPodList, updateNodeConditions, GetNodeDiskUsage, NodeDone
  <2> QED
    BY <2>1
<1>6. CASE SaveStatus
  BY <1>6 DEF SaveStatus
<1>7. CASE Environment
  <2>1. NoMarks \in Marks
    BY DEF NoMarks, Marks
  <2> QED
    BY <1>7, <2>1 DEF Environment, PodsChange, DiskChanges, SettingChanges,
       ClusterChanges, Changed, OperatorRestart
<1>8. CASE UNCHANGED vars
  BY <1>8 DEF vars
<1> QED
  BY <1>1, <1>2, <1>3, <1>4, <1>5, <1>6, <1>7, <1>8 DEF Next, Operator

(* The flag of a pass stays Boolean.                                       *)
LEMMA FlagStep == FlagTyped /\ [Next]_vars => FlagTyped'
BY Zenon DEF FlagTyped, Next, Operator, Environment,
   UpdateClusterStatus, ReadCluster, ReadThresholdEnabled,
   refreshDiskWatermarkThresholds, GetPodList, updateNodeConditions, NodeDone,
   SaveStatus, PodsChange, DiskChanges, SettingChanges, ClusterChanges,
   Changed, OperatorRestart, vars, local

(* The invariant holds at the start and every step keeps it.               *)
LEMMA Inductive == Spec => []StatusInv
<1>1. Init => StatusInv
  <2> SUFFICES ASSUME Init
               PROVE  StatusInv
    OBVIOUS
  <2>1. FlagTyped
    BY Zenon DEF Init, FlagTyped
  <2>2. req \in Clusters
    BY HomeAssumption DEF Init
  <2>3. NoMarks \in Marks /\ <<>> \in Seq(Pod)
    BY DEF NoMarks, Marks
  <2>4. changes \in 0..MaxChanges /\ faults \in 0..MaxFaults /\ 1 \in 0..MaxDisk
    BY BoundsAssumption DEF Init
  <2> QED
    BY <2>1, <2>2, <2>3, <2>4, BlankIsStatus, PodsAssumption
       DEF Init, StatusInv, WorldTyped, StatusTyped, PassTyped, BoundsTyped, MarksOfSeen
<1>2. StatusInv /\ [Next]_vars => StatusInv'
  BY WorldStep, StatusStep, PassStep, BoundsStep, FlagStep, MarksOfSeenStep
     DEF StatusInv, WorldTyped, PassTyped
<1> QED
  BY <1>1, <1>2, PTL DEF Spec

-----------------------------------------------------------------------------
(* Whatever Elasticsearch answers or fails to answer, what UpdateClusterStatus
   writes is a status of the API: no empty shard allocation is ever saved. *)
THEOREM TypeCorrect == Spec => []TypeOK
<1>1. StatusInv => TypeOK
  BY Zenon DEF StatusInv, TypeOK, WorldTyped, StatusTyped, PassTyped, BoundsTyped,
     FlagTyped, MarksOfSeen
<1> QED
  BY <1>1, Inductive, PTL

(* A pass that has read the watermarks of its cluster judges every disk by
   these, although the variables are shared by all custom resources.       *)
THEOREM JudgedByOwnWatermarks == Spec => []OwnWatermarks
<1>1. StatusInv => OwnWatermarks
  <2> SUFFICES ASSUME StatusInv, NEW s \in seen, NEW u \in (0..MaxDisk) \ Unreadable
               PROVE  /\ exceedsLowWatermark(marks, u) <=> Exceeds(u, s.low)
                      /\ exceedsHighWatermark(marks, u) <=> Exceeds(u, s.high)
    BY DEF OwnWatermarks
  <2>1. s \in Setting /\ marks = refreshed(marks, s)
    BY SettingsAssumption DEF StatusInv, MarksOfSeen
  <2> QED
    BY <2>1, RefreshedIsExact
<1> QED
  BY <1>1, Inductive, PTL
=============================================================================
