----------------------- MODULE StatefulSetRollProofs ------------------------
(* Theorems about the roll of a StatefulSet, for any number of pods, any
   templates and any mixture of hazards.                                   *)
EXTENDS StatefulSetRoll, FiniteSetTheorems, WellFoundedInduction, TLAPS

-----------------------------------------------------------------------------
(* Facts about the operators the model is built from.                      *)

(* Sets of ordinals are finite and no larger than the StatefulSet can be.  *)
LEMMA OrdinalSets ==
    ASSUME NEW S \in SUBSET Ordinal
    PROVE  IsFiniteSet(S) /\ Cardinality(S) \in 0..MaxPods
<1>1. IsFiniteSet(Ordinal) /\ Cardinality(Ordinal) = MaxPods
  BY FS_Interval, PodsAssumption DEF Ordinal
<1>2. IsFiniteSet(S) /\ Cardinality(S) <= MaxPods
  BY <1>1, FS_Subset
<1> QED
  BY <1>2, FS_CardinalityType, PodsAssumption

(* GetClusterNodeCount yields a size of a cluster, also when it fails.     *)
LEMMA CountsInRange ==
    ASSUME members \subseteq Ordinal
    PROVE  Counts \subseteq 0..(Others + MaxPods)
BY OrdinalSets, PodsAssumption DEF Counts

(* What update, restart and state do to a node's status, and to the two
   fields that the next reconcile resumes by.                              *)
LEMMA StatusUpdates ==
    ASSUME NEW s \in NodeStatus
    PROVE  /\ [s EXCEPT !.under = "True"] \in NodeStatus
           /\ [s EXCEPT !.under = "True"].under = "True"
           /\ [s EXCEPT !.phase = NodeRestarting] \in NodeStatus
           /\ [s EXCEPT !.phase = NodeRestarting].under = s.under
           /\ UpgradeDone(s) \in NodeStatus
           /\ UpgradeDone(s).phase = ControllerUpdated
BY DEF NodeStatus, UpgradeDone, Cond, NodeRestarting, ControllerUpdated

(* state sets two of the conditions, UpdateClusterStatus another; neither
   touches the fields above.                                               *)
LEMMA ConditionUpdates ==
    ASSUME NEW s \in NodeStatus, NEW a \in Cond, NEW b \in Cond
    PROVE  /\ [s EXCEPT !.up = a, !.re = b] \in NodeStatus
           /\ [s EXCEPT !.up = a, !.re = b].under = s.under
           /\ [s EXCEPT !.up = a, !.re = b].phase = s.phase
           /\ [s EXCEPT !.unsched = a] \in NodeStatus
           /\ [s EXCEPT !.unsched = a].under = s.under
           /\ [s EXCEPT !.unsched = a].phase = s.phase
BY DEF NodeStatus

(* A node the status does not list yet reads as a status.                  *)
LEMMA BlankIsStatus == BlankStatus \in NodeStatus /\ WellFormed(BlankStatus)
BY DEF BlankStatus, NodeStatus, Cond, WellFormed, NodeRestarting

-----------------------------------------------------------------------------
(* The type invariant and the invariant of the status, in parts.  While
   update or restart are between ResetPartition and their end the status in
   memory says underUpgrade, and an ordinal is left to take down wherever
   the code subtracts one.                                                 *)

UserTyped ==
    /\ spec \in Tmpls /\ count \in 1..MaxPods /\ secret \in 1..MaxSecret
    /\ edits \in 0..MaxEdits /\ crashes \in 0..MaxCrash

KubeTyped ==
    /\ tmpl \in Template /\ base \in Template /\ part \in 0..MaxPods
    /\ reps \in 0..MaxPods /\ pods \in [Ordinal -> Template]
    /\ loaded \in [Ordinal -> 0..MaxSecret] /\ members \subseteq Ordinal /\ term \subseteq Ordinal

PassTyped ==
    /\ size \in 0..(Others + MaxPods) /\ hash \in 0..MaxSecret
    /\ pc \in PC /\ mode \in {"update", "restart", "create"}
    /\ idx \in 0..MaxPods /\ self \in Template /\ want \in 0..MaxPods
    /\ pc \in {"down", "waitLeave", "track"} => idx > 0

Rolling == {"exec", "ordinal", "waitRejoin", "down", "waitLeave", "track"}

StatusInv ==
    /\ cr \in NodeStatus /\ ns \in NodeStatus
    /\ WellFormed(cr) /\ WellFormed(ns)
    /\ pc \in Rolling => ns.under = "True"

RollInv == UserTyped /\ KubeTyped /\ PassTyped /\ StatusInv

(* The user's input and the restarts stay within their types.              *)
LEMMA UserStep == UserTyped /\ [Next]_vars => UserTyped'
<1> SUFFICES ASSUME UserTyped, [Next]_vars
             PROVE  UserTyped'
  OBVIOUS
<1> USE BoundsAssumption DEF UserTyped
<1>1. CASE Operator
  BY <1>1 DEF Operator, StartReconcile, UnschedExecute, UnschedDelete, Select,
     UpdateNodeStatus, UpdateClusterStatus, Create, Scale, CheckHealthBefore,
     RecordClusterSize, ResetPartition, ExecuteUpdate, GetOrdinal,
     WaitForNodeRejoinCluster, TakeDown, WaitForNodeLeaveCluster, TrackPartition,
     frame, stepFrame, user
<1>2. CASE Platform
  BY <1>2 DEF Platform, CreatePod, ScaleDownPod, RollPod, TerminatePod, StopPod,
     JoinCluster, CompleteRollout, podFrame, user
<1>3. ASSUME NEW t \in Tmpls, NEW k \in 1..MaxPods, EditSpec(t, k)
      PROVE  UserTyped'
  BY <1>3 DEF EditSpec
<1>4. CASE RotateSecret
  BY <1>4 DEF RotateSecret
<1>5. CASE OperatorRestart
  BY <1>5 DEF OperatorRestart
<1>6. CASE UNCHANGED vars
  BY <1>6 DEF vars, user
<1> QED
  BY <1>1, <1>2, <1>3, <1>4, <1>5, <1>6 DEF Next

(* Every write to the StatefulSet and every step of its controller keeps the
   types: the partition stays within the number of pods.                   *)
LEMMA KubeStep == RollInv /\ [Next]_vars => KubeTyped'
<1> SUFFICES ASSUME RollInv, [Next]_vars
             PROVE  KubeTyped'
  OBVIOUS
<1> USE PodsAssumption, BoundsAssumption, TmplsAssumption DEF RollInv, KubeTyped, Template
<1>1. CASE StartReconcile \/ Select \/ UpdateNodeStatus \/ UpdateClusterStatus
           \/ CheckHealthBefore \/ RecordClusterSize \/ GetOrdinal
           \/ WaitForNodeRejoinCluster \/ WaitForNodeLeaveCluster
  BY <1>1 DEF StartReconcile, Select, UpdateNodeStatus, UpdateClusterStatus,
     CheckHealthBefore, RecordClusterSize, GetOrdinal, WaitForNodeRejoinCluster,
     WaitForNodeLeaveCluster, frame, stepFrame, kube
<1>2. CASE UnschedExecute
  BY <1>2 DEF UnschedExecute, FailedWrite, frame, PassTyped
<1>3. CASE UnschedDelete
  BY <1>3 DEF UnschedDelete, DeletePod, Existing, frame
<1>4. CASE Create
  BY <1>4 DEF Create, frame, PassTyped
<1>5. CASE Scale
  BY <1>5 DEF Scale, FailedWrite, frame, PassTyped
<1>6. CASE ResetPartition
  <2>1. Cardinality(Existing) \in 0..MaxPods
    BY OrdinalSets DEF Existing
  <2> QED
    BY <1>6, <2>1 DEF ResetPartition, setPartition, FailedWrite
<1>7. CASE ExecuteUpdate
  BY <1>7 DEF ExecuteUpdate, FailedWrite, PassTyped
<1>8. CASE TakeDown
  BY <1>8 DEF TakeDown, setPartition, DeletePod, Existing, FailedWrite, PassTyped
<1>9. CASE TrackPartition
  BY <1>9 DEF TrackPartition, setPartition, FailedWrite, PassTyped
<1>10. ASSUME NEW o \in Ordinal, CreatePod(o)
       PROVE  KubeTyped'
  BY <1>10 DEF CreatePod, podFrame, UserTyped
<1>11. ASSUME NEW o \in Ordinal, StopPod(o)
       PROVE  KubeTyped'
  BY <1>11 DEF StopPod, podFrame
<1>12. ASSUME NEW o \in Ordinal, JoinCluster(o)
       PROVE  KubeTyped'
  BY <1>12 DEF JoinCluster, podFrame
<1>13. CASE CompleteRollout
  BY <1>13 DEF CompleteRollout, podFrame
<1>14. ASSUME NEW t \in Tmpls, NEW k \in 1..MaxPods, EditSpec(t, k)
       PROVE  KubeTyped'
  BY <1>14 DEF EditSpec, kube
<1>15. CASE RotateSecret \/ OperatorRestart
  BY <1>15 DEF RotateSecret, OperatorRestart, kube
<1>16. CASE UNCHANGED vars
  BY <1>16 DEF vars, kube
<1> QED
  BY <1>1, <1>2, <1>3, <1>4, <1>5, <1>6, <1>7, <1>8, <1>9, <1>10, <1>11, <1>12,
     <1>13, <1>14, <1>15, <1>16
     DEF Next, Operator, Platform, ScaleDownPod, RollPod, TerminatePod

(* A reconcile goes on at a known step, with an ordinal left where it
   subtracts one.                                                          *)
LEMMA PassStep == RollInv /\ [Next]_vars => PassTyped'
<1> SUFFICES ASSUME RollInv, [Next]_vars
             PROVE  PassTyped'
  OBVIOUS
<1> USE PodsAssumption, BoundsAssumption, TmplsAssumption
    DEF RollInv, PassTyped, PC, Template
<1>1. CASE StartReconcile
  BY <1>1 DEF StartReconcile, UserTyped, KubeTyped, mem
<1>2. CASE UnschedExecute \/ UnschedDelete
  BY <1>2 DEF UnschedExecute, UnschedDelete, DeletePod, mem
<1>3. CASE Select
  BY <1>3 DEF Select, mem
<1>4. CASE UpdateNodeStatus
  BY <1>4 DEF UpdateNodeStatus, mem
<1>5. CASE UpdateClusterStatus \/ OperatorRestart
  BY <1>5 DEF UpdateClusterStatus, OperatorRestart, Return, mem
<1>6. CASE Create
  BY <1>6 DEF Create, Return, UserTyped
<1>7. CASE Scale
  BY <1>7 DEF Scale, KubeTyped, mem
<1>8. CASE CheckHealthBefore
  BY <1>8 DEF CheckHealthBefore, stepFrame, mem
<1>9. CASE RecordClusterSize
  BY <1>9, CountsInRange DEF RecordClusterSize, stepFrame, KubeTyped
<1>10. CASE ResetPartition
  BY <1>10 DEF ResetPartition, setPartition, stepFrame, KubeTyped, mem
<1>11. CASE ExecuteUpdate
  BY <1>11 DEF ExecuteUpdate, stepFrame, mem
<1>12. CASE GetOrdinal
  BY <1>12 DEF GetOrdinal, stepFrame, KubeTyped, mem
<1>13. CASE WaitForNodeRejoinCluster
  BY <1>13 DEF WaitForNodeRejoinCluster, stepFrame, UserTyped
<1>14. CASE TakeDown
  BY <1>14 DEF TakeDown, setPartition, DeletePod, stepFrame, KubeTyped, mem
<1>15. CASE WaitForNodeLeaveCluster
  BY <1>15 DEF WaitForNodeLeaveCluster, stepFrame, mem
<1>16. CASE TrackPartition
  BY <1>16 DEF TrackPartition, setPartition, stepFrame, KubeTyped, mem
<1>17. CASE Platform
  BY <1>17 DEF Platform, CreatePod, ScaleDownPod, RollPod, TerminatePod, StopPod,
     JoinCluster, CompleteRollout, podFrame, envFrame, mem, local
<1>18. CASE RotateSecret \/ \E t \in Tmpls, k \in 1..MaxPods : EditSpec(t, k)
  BY <1>18 DEF RotateSecret, EditSpec, envFrame, mem, local
<1>19. CASE UNCHANGED vars
  BY <1>19 DEF vars, mem, local
<1> QED
  BY <1>1, <1>2, <1>3, <1>4, <1>5, <1>6, <1>7, <1>8, <1>9, <1>10, <1>11, <1>12,
     <1>13, <1>14, <1>15, <1>16, <1>17, <1>18, <1>19 DEF Next, Operator

(* The status in memory says underUpgrade from ResetPartition on, and loses
   it only together with the phase; whichever of two versions a failed write
   leaves in the custom resource is well formed.                           *)
LEMMA StatusStep == RollInv /\ [Next]_vars => StatusInv'
<1> SUFFICES ASSUME RollInv, [Next]_vars
             PROVE  StatusInv'
  OBVIOUS
<1> USE BlankIsStatus DEF RollInv, StatusInv, WellFormed, Rolling
<1>1. CASE StartReconcile
  BY <1>1 DEF StartReconcile
<1>2. CASE UnschedExecute \/ UnschedDelete
  BY <1>2 DEF UnschedExecute, UnschedDelete, DeletePod
<1>3. CASE Select
  BY <1>3 DEF Select
<1>4. CASE UpdateNodeStatus
  <2>1. Flag(isChanged) \in Cond /\ Flag(secret # hash) \in Cond
    BY DEF Flag, Cond
  <2>2. /\ ns' = [ns EXCEPT !.up = Flag(isChanged), !.re = Flag(secret # hash)]
        /\ cr' = ns' \/ cr' = cr
        /\ pc' = "finish"
    BY <1>4 DEF UpdateNodeStatus, SaveStatus
  <2>3. ns' \in NodeStatus /\ ns'.under = ns.under /\ ns'.phase = ns.phase
    BY <2>1, <2>2, ConditionUpdates
  <2> QED
    BY <2>2, <2>3
<1>5. CASE UpdateClusterStatus
  <2>1. PICK u \in Cond : cr' = [ns EXCEPT !.unsched = u] \/ cr' = cr
    <3>1. ns.unsched \in Cond /\ \A o \in Existing : Flag(pods[o] \in Unsched) \in Cond
      BY DEF NodeStatus, Flag, Cond
    <3>2. PICK u \in (IF Existing = {} THEN {ns.unsched}
                      ELSE {Flag(pods[o] \in Unsched) : o \in Existing}) :
            SaveStatus([ns EXCEPT !.unsched = u])
      BY <1>5 DEF UpdateClusterStatus
    <3>3. u \in Cond
      BY <3>1
    <3> QED
      BY <3>2, <3>3 DEF SaveStatus
  <2>2. ns' = BlankStatus /\ pc' = "idle"
    BY <1>5 DEF UpdateClusterStatus, Return
  <2>3. /\ [ns EXCEPT !.unsched = u] \in NodeStatus
        /\ [ns EXCEPT !.unsched = u].under = ns.under
        /\ [ns EXCEPT !.unsched = u].phase = ns.phase
    BY ConditionUpdates, Zenon
  <2>4. WellFormed([ns EXCEPT !.unsched = u])
    BY <2>3
  <2> QED
    BY <2>1, <2>2, <2>3, <2>4
<1>6. CASE Create \/ OperatorRestart
  BY <1>6 DEF Create, OperatorRestart, Return
<1>7. CASE Scale
  BY <1>7 DEF Scale
<1>8. CASE CheckHealthBefore \/ RecordClusterSize
  BY <1>8 DEF CheckHealthBefore, RecordClusterSize, stepFrame
<1>9. CASE ResetPartition
  BY <1>9, StatusUpdates DEF ResetPartition, stepFrame
<1>10. CASE ExecuteUpdate
  BY <1>10, StatusUpdates DEF ExecuteUpdate, stepFrame
<1>11. CASE GetOrdinal \/ TakeDown \/ TrackPartition
  BY <1>11 DEF GetOrdinal, TakeDown, DeletePod, TrackPartition, stepFrame
<1>12. CASE WaitForNodeRejoinCluster
  BY <1>12, StatusUpdates DEF WaitForNodeRejoinCluster, stepFrame, NodeRestarting, ControllerUpdated
<1>13. CASE WaitForNodeLeaveCluster
  BY <1>13 DEF WaitForNodeLeaveCluster, stepFrame
<1>14. CASE Platform
  BY <1>14 DEF Platform, CreatePod, ScaleDownPod, RollPod, TerminatePod, StopPod,
     JoinCluster, CompleteRollout, podFrame, envFrame, local
<1>15. CASE RotateSecret \/ \E t \in Tmpls, k \in 1..MaxPods : EditSpec(t, k)
  BY <1>15 DEF RotateSecret, EditSpec, envFrame, local
<1>16. CASE UNCHANGED vars
  BY <1>16 DEF vars, local
<1> QED
  BY <1>1, <1>2, <1>3, <1>4, <1>5, <1>6, <1>7, <1>8, <1>9, <1>10, <1>11, <1>12,
     <1>13, <1>14, <1>15, <1>16 DEF Next, Operator

(* The invariant holds at the start and every step keeps it.               *)
LEMMA Inductive == Spec => []RollInv
<1>1. Init => RollInv
  BY BlankIsStatus, PodsAssumption, BoundsAssumption
     DEF Init, RollInv, UserTyped, KubeTyped, PassTyped, StatusInv, Rolling, PC, Template
<1>2. RollInv /\ [Next]_vars => RollInv'
  BY UserStep, KubeStep, PassStep, StatusStep DEF RollInv
<1> QED
  BY <1>1, <1>2, PTL DEF Spec

-----------------------------------------------------------------------------
(* Every variable keeps its type, in particular the partition, which the
   code lowers without looking at it and finds wherever a write failed.    *)
THEOREM TypeCorrect == Spec => []TypeOK
<1>1. RollInv => TypeOK
  BY DEF RollInv, TypeOK, UserTyped, KubeTyped, PassTyped, StatusInv
<1> QED
  BY <1>1, Inductive, PTL

(* A roll that is interrupted anywhere is resumed: the phase is never
   recorded without underUpgrade, whichever writes of the status fail.     *)
THEOREM InterruptedRollIsResumed == Spec => []StatusConsistent
<1>1. RollInv => StatusConsistent
  BY DEF RollInv, StatusInv, StatusConsistent
<1> QED
  BY <1>1, Inductive, PTL
-----------------------------------------------------------------------------
(* Pods are taken down one at a time, while the custom resource is left as
   it is, the operator is not restarted, Elasticsearch answers and no wait
   is given up early.  Writes to the API server and of the status may fail,
   secrets be rotated and pods come back between two polls; but a deletion
   that is answered by an error was not carried out, without which two pods
   can be taken down together (README, D28).                            *)

Undisturbed ==
    /\ MaxEdits = 0 /\ MaxCrash = 0
    /\ "es" \notin Hazards /\ "slow" \notin Hazards /\ "lateError" \notin Hazards

(* There is one template and one number of replicas, so that neither a
   rollout nor a scale-down by the StatefulSet controller takes a pod.     *)
FixedPlan ==
    /\ tmpl \in {NoTmpl, spec} /\ base \in {NoTmpl, spec}
    /\ pods \in [Ordinal -> {NoTmpl, spec}] /\ reps \in {0, count}
    /\ \A o \in Existing : tmpl = spec /\ o < reps
    /\ pc # "idle" => self \in {spec, tmpl} /\ want \in {count, reps}
    /\ pc \notin {"uExec", "uDelete"}

(* A pod terminates only while the operator waits for it to leave, and until
   it has left, as before it is taken down, all nodes are there.           *)
AllThere ==
    /\ term # {} => pc = "waitLeave" /\ term = {idx - 1}
    /\ pc = "down" \/ term # {} => size <= Others + Cardinality(members)

(* Nobody edits the custom resource and no process ends.                   *)
LEMMA NothingEdited ==
    ASSUME Undisturbed, UserTyped, [Next]_vars
    PROVE  /\ UNCHANGED <<spec, count>>
           /\ Operator \/ Platform \/ RotateSecret \/ UNCHANGED vars
<1>1. edits = 0 /\ crashes = 0
  BY DEF UserTyped, Undisturbed
<1>2. Operator \/ Platform \/ RotateSecret \/ UNCHANGED vars
  BY <1>1 DEF Next, EditSpec, OperatorRestart, Undisturbed
<1>3. CASE Operator
  BY <1>3 DEF Operator, StartReconcile, UnschedExecute, UnschedDelete, Select,
     UpdateNodeStatus, UpdateClusterStatus, Create, Scale, CheckHealthBefore,
     RecordClusterSize, ResetPartition, ExecuteUpdate, GetOrdinal,
     WaitForNodeRejoinCluster, TakeDown, WaitForNodeLeaveCluster, TrackPartition,
     frame, stepFrame, user
<1>4. CASE Platform
  BY <1>4 DEF Platform, CreatePod, ScaleDownPod, RollPod, TerminatePod, StopPod,
     JoinCluster, CompleteRollout, podFrame, user
<1>5. CASE RotateSecret \/ UNCHANGED vars
  BY <1>5 DEF RotateSecret, vars, user
<1> QED
  BY <1>2, <1>3, <1>4, <1>5

(* The one template and the one number of replicas stay the only ones: what
   setPartition and scale copy into memory is what is there already.       *)
LEMMA FixedPlanStep ==
    ASSUME Undisturbed, RollInv, FixedPlan, [Next]_vars
    PROVE  FixedPlan'
<1> USE NothingEdited, TmplsAssumption, PodsAssumption
    DEF RollInv, FixedPlan, Existing, UserTyped
<1>1. CASE StartReconcile
  BY <1>1 DEF StartReconcile, kube, mem
<1>2. CASE Select
  BY <1>2 DEF Select, kube
<1>3. CASE UpdateNodeStatus
  BY <1>3 DEF UpdateNodeStatus, kube
<1>4. CASE UpdateClusterStatus
  BY <1>4 DEF UpdateClusterStatus, Return, kube
<1>5. CASE Create
  BY <1>5 DEF Create, Return
<1>6. CASE Scale
  <2>1. reps' \in {reps, want} /\ want' = want /\ want \in {reps, count} /\ UNCHANGED <<tmpl, base, pods>>
    BY <1>6 DEF Scale, FailedWrite
  <2>2. \A o \in Existing : o < reps'
    BY <2>1, PodsAssumption DEF Ordinal
  <2> QED
    BY <1>6, <2>1, <2>2 DEF Scale
<1>7. CASE CheckHealthBefore \/ RecordClusterSize
  BY <1>7 DEF CheckHealthBefore, RecordClusterSize, stepFrame, kube
<1>8. CASE ResetPartition
  BY <1>8 DEF ResetPartition, setPartition, stepFrame
<1>9. CASE ExecuteUpdate
  BY <1>9 DEF ExecuteUpdate, FailedWrite, stepFrame
<1>10. CASE GetOrdinal \/ WaitForNodeRejoinCluster \/ WaitForNodeLeaveCluster
  BY <1>10 DEF GetOrdinal, WaitForNodeRejoinCluster, WaitForNodeLeaveCluster, stepFrame, kube
<1>11. CASE TakeDown
  BY <1>11 DEF TakeDown, setPartition, DeletePod, stepFrame
<1>12. CASE TrackPartition
  BY <1>12 DEF TrackPartition, setPartition, stepFrame
<1>13. ASSUME NEW o \in Ordinal, CreatePod(o)
       PROVE  FixedPlan'
  BY <1>13 DEF CreatePod, CanCreate, podFrame, envFrame, local
<1>14. ASSUME NEW o \in Ordinal, StopPod(o)
       PROVE  FixedPlan'
  BY <1>14 DEF StopPod, podFrame, envFrame, local
<1>15. ASSUME NEW o \in Ordinal, JoinCluster(o)
       PROVE  FixedPlan'
  BY <1>15 DEF JoinCluster, podFrame, envFrame, local
<1>16. CASE CompleteRollout
  BY <1>16 DEF CompleteRollout, podFrame, envFrame, local
<1>17. CASE RotateSecret
  BY <1>17 DEF RotateSecret, envFrame, kube, local
<1>18. CASE UNCHANGED vars
  BY <1>18 DEF vars, kube, local
<1>19. ~UnschedExecute /\ ~UnschedDelete
  BY DEF UnschedExecute, UnschedDelete
<1> QED
  BY <1>1, <1>2, <1>3, <1>4, <1>5, <1>6, <1>7, <1>8, <1>9, <1>10, <1>11, <1>12,
     <1>13, <1>14, <1>15, <1>16, <1>17, <1>18, <1>19
     DEF Operator, Platform, ScaleDownPod, RollPod, TerminatePod

(* Then a pod stops only if it was deleted, and only restart deletes one.  *)
LEMMA OnlyDeletedStop ==
    ASSUME Undisturbed, RollInv, FixedPlan, NEW o \in Ordinal
    PROVE  ~CanScaleDown(o) /\ ~CanRoll(o)
<1>1. ~CanScaleDown(o)
  BY PodsAssumption DEF CanScaleDown, FixedPlan, Existing, Ordinal, RollInv, KubeTyped
<1>2. ~CanRoll(o)
  <2> SUFFICES ASSUME CanRoll(o)
               PROVE  FALSE
    OBVIOUS
  <2>1. Runs(o) /\ pods[o] # tmpl
    BY PodsAssumption DEF CanRoll, Ordinal
  <2>2. o \in Existing /\ pods[o] = spec
    BY <2>1, TmplsAssumption DEF Runs, Existing, FixedPlan
  <2> QED
    BY <2>1, <2>2 DEF FixedPlan
<1> QED
  BY <1>1, <1>2

(* The nodes that are there stay until one is taken down, and the next turn
   comes when that one is back.                                            *)
LEMMA AllThereStep ==
    ASSUME Undisturbed, RollInv, FixedPlan, AllThere, [Next]_vars
    PROVE  AllThere'
<1> DEFINE there == Others + Cardinality(members)
<1>0. there \in Nat /\ size \in Nat /\ Counts = {there}
  BY OrdinalSets, PodsAssumption DEF RollInv, KubeTyped, PassTyped, Counts, Undisturbed
<1>1. CASE StartReconcile \/ Select \/ UpdateNodeStatus \/ UpdateClusterStatus
           \/ Create \/ Scale \/ CheckHealthBefore \/ ResetPartition \/ ExecuteUpdate
           \/ GetOrdinal \/ TrackPartition
  BY <1>1 DEF AllThere, StartReconcile, Select, UpdateNodeStatus, UpdateClusterStatus,
     Create, Scale, CheckHealthBefore, ResetPartition, setPartition, ExecuteUpdate,
     GetOrdinal, TrackPartition, Return, frame, stepFrame, kube, mem
<1>2. CASE RecordClusterSize
  BY <1>2 DEF AllThere, RecordClusterSize, kube
<1>3. CASE WaitForNodeRejoinCluster
  BY <1>0, <1>3 DEF AllThere, WaitForNodeRejoinCluster, Rejoined, kube
<1>4. CASE TakeDown
  BY <1>4 DEF AllThere, TakeDown, DeletePod, Undisturbed, mem
<1>5. CASE WaitForNodeLeaveCluster
  <2>1. TimedOut => term = {}
    BY DEF TimedOut, Busy, Undisturbed, RollInv, KubeTyped
  <2>2. size > there => term = {}
    BY <1>0 DEF AllThere
  <2> QED
    BY <1>0, <1>5, <2>1, <2>2 DEF AllThere, WaitForNodeLeaveCluster, Left, kube, mem
<1>6. ASSUME NEW o \in Ordinal, TerminatePod(o)
      PROVE  AllThere'
  <2>1. term' = {} /\ pc' = "waitLeave"
    BY <1>6 DEF AllThere, TerminatePod, StopPod, podFrame, envFrame, local
  <2> QED
    BY <2>1 DEF AllThere
<1>7. ASSUME NEW o \in Ordinal, JoinCluster(o)
      PROVE  AllThere'
  <2>1. Cardinality(members') \in Nat /\ Cardinality(members') >= Cardinality(members)
    <3>1. IsFiniteSet(members) /\ Cardinality(members) \in Nat
      BY OrdinalSets DEF RollInv, KubeTyped
    <3>2. members' = members \cup {o}
      BY <1>7 DEF JoinCluster
    <3>3. Cardinality(members \cup {o})
            = IF o \in members THEN Cardinality(members) ELSE Cardinality(members) + 1
      BY <3>1, FS_AddElement, Zenon
    <3> QED
      BY <3>1, <3>2, <3>3
  <2>2. UNCHANGED <<term, pc, idx, size>>
    BY <1>7 DEF JoinCluster, podFrame, envFrame, mem, local
  <2> QED
    <3>1. Others + Cardinality(members') >= there /\ Others + Cardinality(members') \in Nat
      BY <2>1, PodsAssumption, OrdinalSets DEF RollInv, KubeTyped
    <3>2. pc = "down" \/ term # {} => size <= Others + Cardinality(members')
      BY <1>0, <3>1 DEF AllThere
    <3> QED
      BY <2>2, <3>2 DEF AllThere
<1>8. CASE CompleteRollout \/ RotateSecret \/ \E o \in Ordinal : CreatePod(o)
  BY <1>8 DEF AllThere, CompleteRollout, RotateSecret, CreatePod, podFrame, envFrame,
     kube, mem, local
<1>9. CASE UNCHANGED vars
  BY <1>9 DEF AllThere, vars, kube, mem, local
<1>10. ~UnschedExecute /\ ~UnschedDelete
  BY DEF FixedPlan, UnschedExecute, UnschedDelete
<1> QED
  BY <1>1, <1>2, <1>3, <1>4, <1>5, <1>6, <1>7, <1>8, <1>9, <1>10, NothingEdited,
     OnlyDeletedStop DEF RollInv, Operator, Platform, ScaleDownPod, RollPod

(* update and restart take one pod after the other, for any number of pods:
   a pod goes only when at most this one of the nodes that the cluster had
   when the upgrade began is then missing.                                 *)
THEOREM PodsTakenDownAlone ==
    ASSUME Undisturbed
    PROVE  Spec => TakenDownAlone
<1>1. Init => FixedPlan /\ AllThere
  BY DEF Init, FixedPlan, AllThere, Existing
<1>2. RollInv /\ FixedPlan /\ AllThere /\ [Next]_vars => (FixedPlan /\ AllThere)'
  BY FixedPlanStep, AllThereStep
<1>3. RollInv /\ FixedPlan /\ AllThere /\ [Next]_vars
        => [pc = "down" /\ pc' = "waitLeave" =>
              Others + Cardinality(members \ (term \cup {idx - 1})) >= size - 1]_vars
  <2> SUFFICES ASSUME RollInv, AllThere, pc = "down"
               PROVE  Others + Cardinality(members \ (term \cup {idx - 1})) >= size - 1
    OBVIOUS
  <2>1. term = {} /\ size <= Others + Cardinality(members)
    BY DEF AllThere
  <2>2. IsFiniteSet(members) /\ Cardinality(members) \in Nat
    BY OrdinalSets DEF RollInv, KubeTyped
  <2>3. Cardinality(members \ {idx - 1})
          = IF idx - 1 \in members THEN Cardinality(members) - 1 ELSE Cardinality(members)
    BY <2>2, FS_RemoveElement, Zenon
  <2>4. Cardinality(members \ {idx - 1}) \in Nat
    BY <2>2, FS_RemoveElement, FS_CardinalityType
  <2>5. members \ (term \cup {idx - 1}) = members \ {idx - 1}
    BY <2>1
  <2> QED
    BY <2>1, <2>2, <2>3, <2>4, <2>5, PodsAssumption DEF RollInv, PassTyped
<1> QED
  BY <1>1, <1>2, <1>3, Inductive, PTL DEF Spec, TakenDownAlone

-----------------------------------------------------------------------------
(* Every new secret is noticed, when nothing fails.                        *)

Calm == Undisturbed /\ Hazards = {} /\ Unsched = {}

All    == 0..(count - 1)        \* the ordinals the spec asks for
Before == {"health0", "size0", "setPartition", "exec"}       \* restart, up to its loop
Turn   == {"ordinal", "waitRejoin", "down", "waitLeave", "track"}        \* the loop

(* A redeploy is recorded only while the hash a node remembers is that of an
   older secret.                                                           *)
Due(s) == s.re = "True" => tmpl # NoTmpl /\ hash # secret

(* Only restart is ever called, for a redeploy that is due, and it ends in
   the reconcile in which it began.                                        *)
RestartsOnly ==
    /\ cr.up = "" /\ ns.up = "" /\ cr.under = ""
    /\ pc \notin {"exec"} \cup Turn => ns.under = ""
    /\ pc = "idle" => Due(cr)
    /\ pc \in {"select", "finish"} => Due(ns)
    /\ pc \in {"select", "create"} => self = spec
    /\ pc \in {"state", "finish"} => tmpl # NoTmpl
    /\ pc \in Before \cup Turn => mode = "restart" /\ tmpl # NoTmpl
    /\ pc \in Before => hash # secret
    /\ hash <= secret

(* While a redeploy is due and has not begun, all pods are there: secrets are
   rotated in a cluster at rest.                                           *)
AtRest ==
    /\ members \subseteq Existing
    /\ tmpl # NoTmpl => reps = count
    /\ hash # secret /\ tmpl # NoTmpl /\ pc \notin Turn => members = All /\ term = {}

(* What scale and create write is what the spec asks for.                  *)
Wanted == pc # "idle" => want = count

(* The loop of restart: the pods from idx up have loaded the current secret,
   so has, or will when it is back, the one that is leaving.               *)
Renewed(o) == o \in Existing => loaded[o] = secret
TurnInv ==
    /\ pc \in {"setPartition", "exec"} \cup Turn => size = Others + count
    /\ pc \in {"exec", "ordinal"} => part = count
    /\ pc \in Turn \ {"ordinal"} => idx <= count /\ \A o \in Ordinal : o >= idx => Renewed(o)
    /\ pc = "track" => Renewed(idx - 1)
    /\ pc = "waitLeave" /\ idx - 1 \notin term => Renewed(idx - 1) /\ idx - 1 \notin members

CalmInv == RollInv /\ FixedPlan /\ AllThere /\ RestartsOnly /\ AtRest /\ Wanted /\ TurnInv

\* what holds in every state of a calm behaviour
LEMMA CalmFacts ==
    ASSUME Calm, CalmInv
    PROVE  /\ IsFiniteSet(members) /\ Cardinality(members) \in Nat
           /\ IsFiniteSet(All) /\ Cardinality(All) = count
           /\ Existing \subseteq All /\ members \subseteq All /\ All \subseteq Ordinal
           /\ Counts = {Others + Cardinality(members)}
           /\ \A a, b : FailedWrite(a, b) = {}
           /\ secret \in Nat /\ hash \in Nat /\ size \in Nat /\ count \in Nat \ {0} /\ Others \in Nat
           /\ idx \in Nat
<1>1. count \in 1..MaxPods /\ secret \in Nat /\ hash \in Nat /\ size \in Nat /\ Others \in Nat /\ idx \in Nat
  BY PodsAssumption, BoundsAssumption DEF CalmInv, RollInv, UserTyped, PassTyped
<1>2. IsFiniteSet(All) /\ Cardinality(All) = count /\ All \subseteq Ordinal
  BY <1>1, FS_Interval, PodsAssumption DEF All, Ordinal
<1>3. Existing \subseteq All
  <2> SUFFICES ASSUME NEW o \in Existing PROVE o \in All
    OBVIOUS
  <2>1. tmpl = spec /\ o < reps /\ o \in Ordinal
    BY DEF CalmInv, FixedPlan, Existing
  <2>2. reps = count
    BY <2>1, TmplsAssumption DEF CalmInv, AtRest, RollInv, UserTyped
  <2> QED
    BY <1>1, <2>1, <2>2 DEF All, Ordinal
<1>4. members \subseteq All /\ IsFiniteSet(members) /\ Cardinality(members) \in Nat
  BY <1>3, OrdinalSets DEF CalmInv, AtRest, RollInv, KubeTyped
<1>5. Counts = {Others + Cardinality(members)} /\ \A a, b : FailedWrite(a, b) = {}
  BY DEF Calm, Counts, FailedWrite
<1> QED
  BY <1>1, <1>2, <1>3, <1>4, <1>5

\* of some ordinals there is a smallest
LEMMA SmallestOrdinal ==
    ASSUME NEW T \in SUBSET Ordinal, T # {}
    PROVE  \E k \in T : \A j \in T : k <= j
<1> DEFINE R == OpToRel(<, Nat)
<1>1. IsWellFoundedOn(R, Nat)
  BY NatLessThanWellFounded
<1>2. \A x, y \in Nat : x < y => <<x, y>> \in R
  BY DEF OpToRel
<1> HIDE DEF R
<1>3. T \subseteq Nat
  BY PodsAssumption DEF Ordinal
<1>4. PICK k \in T : \A j \in T : ~(<<j, k>> \in R)
  BY <1>1, <1>3, WFMin
<1>5. \A j \in T : ~(j < k)
  BY <1>2, <1>3, <1>4
<1> QED
  BY <1>3, <1>5

(* When the StatefulSet controller and the pods have nothing to do, all pods
   are there: the first one missing would be created.                      *)
LEMMA IdleIsComplete ==
    ASSUME Calm, CalmInv, tmpl # NoTmpl, ~Busy
    PROVE  members = All /\ term = {}
<1>1. reps = count /\ term \subseteq Ordinal
  BY DEF CalmInv, AtRest, RollInv, KubeTyped
<1>2. term = {} /\ \A o \in Ordinal : ~CanCreate(o) /\ ~CanJoin(o)
  BY <1>1 DEF Busy
<1>3. \A o \in Ordinal : Runs(o) <=> o \in Existing
  <2>1. pods \in [Ordinal -> {NoTmpl, spec}] /\ spec \in Tmpls
    BY DEF CalmInv, FixedPlan, RollInv, UserTyped
  <2> QED
    BY <1>2, <2>1, TmplsAssumption DEF Runs, Existing, Calm
<1>4. All \subseteq Existing
  <2> DEFINE T == {o \in All : o \notin Existing}
  <2>1. CASE T # {}
    <3>1. T \subseteq Ordinal
      BY CalmFacts
    <3>2. PICK k \in T : \A j \in T : k <= j
      <4> HIDE DEF T
      <4> QED
        BY <2>1, <3>1, SmallestOrdinal
    <3>3. k \in Ordinal /\ k < reps /\ pods[k] = NoTmpl
      BY <1>1, <3>1, <3>2, CalmFacts DEF Existing, All
    <3>4. ASSUME NEW q \in Ordinal, q < k PROVE Runs(q)
      <4>1. q \in All /\ q \notin T
        BY <3>2, <3>3, <3>4, <1>1, PodsAssumption, CalmFacts DEF All, Ordinal
      <4> QED
        BY <1>3, <3>4, <4>1
    <3>5. CanCreate(k)
      BY <3>3, <3>4 DEF CanCreate
    <3> QED
      BY <1>2, <3>3, <3>5
  <2> QED
    BY <2>1
<1>5. Existing \subseteq members
  BY <1>2, <1>3 DEF CanJoin, Existing
<1> QED
  BY <1>2, <1>4, <1>5, CalmFacts

\* a wait for a pod to come back does not time out
LEMMA RejoinStep ==
    ASSUME Calm, CalmInv, WaitForNodeRejoinCluster
    PROVE  \/ idx > 0 /\ pc' = "down" /\ UNCHANGED <<hash, ns>>
           \/ idx = 0 /\ pc' = "state" /\ hash' = secret /\ ns' = UpgradeDone(ns)
<1>1. pc = "waitRejoin" /\ size = Others + count /\ tmpl # NoTmpl
  BY DEF WaitForNodeRejoinCluster, CalmInv, TurnInv, RestartsOnly, Turn, Before
<1>2. TimedOut => Rejoined(Others + Cardinality(members))
  <2>1. TimedOut => ~Busy
    BY DEF TimedOut, Calm
  <2>2. ~Busy => Cardinality(members) = count
    BY <1>1, IdleIsComplete, CalmFacts
  <2> QED
    BY <1>1, <2>1, <2>2, CalmFacts DEF Rejoined
<1> QED
  BY <1>2, CalmFacts DEF WaitForNodeRejoinCluster

\* nor does the wait for one to leave, and it ends when the pod has left
LEMMA LeaveStep ==
    ASSUME Calm, CalmInv, WaitForNodeLeaveCluster
    PROVE  /\ pc' = "track" /\ UNCHANGED idx /\ term = {}
           /\ Renewed(idx - 1) /\ idx - 1 \notin members
<1>1. pc = "waitLeave" /\ size = Others + count /\ tmpl # NoTmpl /\ mode = "restart"
  BY DEF WaitForNodeLeaveCluster, CalmInv, TurnInv, RestartsOnly, Turn, Before
<1>2. idx - 1 \in All
  BY <1>1, CalmFacts DEF CalmInv, TurnInv, Turn, RollInv, PassTyped, All
<1>3. term = {} => Renewed(idx - 1) /\ idx - 1 \notin members
  BY <1>1 DEF CalmInv, TurnInv
<1>4. ~TimedOut
  <2>1. TimedOut => ~Busy
    BY DEF TimedOut, Calm
  <2> QED
    BY <1>1, <1>2, <1>3, <2>1, IdleIsComplete
<1>5. Left(Others + Cardinality(members)) => term = {}
  BY CalmFacts DEF Left, CalmInv, AllThere
<1> QED
  BY <1>1, <1>3, <1>4, <1>5, CalmFacts DEF WaitForNodeLeaveCluster

\* the pod to take down is there
LEMMA DownStep ==
    ASSUME Calm, CalmInv, TakeDown
    PROVE  pc' = "waitLeave" /\ term' = {idx - 1} /\ UNCHANGED <<part, self>>
<1>1. /\ pc = "down" /\ size = Others + count /\ mode = "restart" /\ idx > 0 /\ idx <= count
      /\ size <= Others + Cardinality(members) /\ term = {}
  BY DEF TakeDown, CalmInv, TurnInv, RestartsOnly, Turn, Before, AllThere, RollInv, PassTyped
<1>2. members = All
  <2>1. Cardinality(members) <= Cardinality(All)
    BY CalmFacts, FS_Subset
  <2>2. Cardinality(members) = Cardinality(All)
    BY <1>1, <2>1, CalmFacts
  <2> QED
    BY <2>2, CalmFacts, FS_Subset
<1>3. idx - 1 \in Existing
  BY <1>1, <1>2, CalmFacts DEF All, CalmInv, AtRest
<1> QED
  BY <1>1, <1>3 DEF TakeDown, DeletePod, Calm

\* the steps of a calm behaviour
LEMMA CalmSteps ==
    ASSUME Calm, CalmInv, [Next]_vars
    PROVE  /\ UNCHANGED <<spec, count>>
           /\ \/ StartReconcile \/ Select \/ UpdateNodeStatus \/ UpdateClusterStatus \/ Create \/ Scale
              \/ CheckHealthBefore \/ RecordClusterSize \/ ResetPartition \/ ExecuteUpdate \/ GetOrdinal
              \/ WaitForNodeRejoinCluster \/ TakeDown \/ WaitForNodeLeaveCluster \/ TrackPartition
              \/ (\E o \in Ordinal : CreatePod(o) \/ TerminatePod(o) \/ JoinCluster(o))
              \/ CompleteRollout \/ RotateSecret \/ UNCHANGED vars
<1>1. ~UnschedExecute /\ ~UnschedDelete
  BY DEF CalmInv, FixedPlan, UnschedExecute, UnschedDelete
<1>2. \A o \in Ordinal : ~ScaleDownPod(o) /\ ~RollPod(o)
  BY OnlyDeletedStop DEF Calm, CalmInv, ScaleDownPod, RollPod
<1> QED
  BY <1>1, <1>2, NothingEdited DEF Calm, CalmInv, RollInv, Operator, Platform

\* a redeploy is only begun when one is due, and always ended
LEMMA RestartsOnlyStep ==
    ASSUME Calm, CalmInv, [Next]_vars
    PROVE  RestartsOnly'
<1>n. hash \in Nat /\ secret \in Nat /\ hash <= secret
  BY CalmFacts DEF CalmInv, RestartsOnly
<1>m. /\ hash' = secret /\ secret' = secret => hash' <= secret'
      /\ hash' = hash /\ secret' = secret + 1 => hash' # secret' /\ hash' <= secret'
  BY <1>n
<1> USE DEF RestartsOnly, Before, Turn
<1>0. /\ RestartsOnly /\ cr \in NodeStatus /\ ns \in NodeStatus /\ hash \in Nat /\ secret \in Nat
      /\ spec \in Tmpls /\ spec # NoTmpl /\ spec' = spec
  BY CalmFacts, CalmSteps, TmplsAssumption DEF CalmInv, RollInv, StatusInv, UserTyped
<1>1. CASE StartReconcile
  <2>1. /\ pc = "idle" /\ self' = spec /\ ns' = cr /\ UNCHANGED <<cr, tmpl, hash, secret>>
        /\ pc' \in {"uExec", "select"}
    BY <1>1 DEF StartReconcile, frame, user, kube, mem
  <2>2. Due(cr)
    BY <1>0, <2>1
  <2>3. Due(ns)'
    BY <2>1, <2>2 DEF Due
  <2> QED
    BY <1>0, <2>1, <2>3
<1>2. CASE Select
  <2>1. /\ pc = "select" /\ UNCHANGED <<cr, ns, tmpl, hash, secret, self>> /\ ns.up = "" /\ ns.under = ""
        /\ \/ ns.re # "True" /\ pc' = "create"
           \/ ns.re = "True" /\ pc' = "health0" /\ mode' = "restart"
    BY <1>0, <1>2 DEF Select, frame, user, kube, mem
  <2> QED
    BY <1>0, <2>1 DEF Due
<1>3. CASE UpdateNodeStatus
  <2>1. /\ pc = "state" /\ pc' = "finish" /\ cr' = ns' /\ UNCHANGED <<tmpl, hash, secret, self>>
        /\ ns' = [ns EXCEPT !.up = Flag(isChanged), !.re = Flag(secret # hash)]
    BY <1>3 DEF UpdateNodeStatus, SaveStatus, Calm, frame, user, kube, mem
  <2>2. ~isChanged
    <3>1. tmpl \in {NoTmpl, spec} /\ self \in {spec, tmpl}
      BY <2>1 DEF CalmInv, FixedPlan
    <3> QED
      BY <3>1 DEF isChanged
  <2>3. ns'.up = "" /\ ns'.under = ns.under /\ ns'.re = Flag(secret # hash)
    BY <1>0, <2>1, <2>2 DEF NodeStatus, Flag
  <2>4. Due(ns)'
    BY <1>0, <2>1, <2>3 DEF Due, Flag
  <2> QED
    BY <1>0, <2>1, <2>3, <2>4
<1>4. CASE UpdateClusterStatus
  <2>1. /\ pc = "finish" /\ pc' = "idle" /\ ns' = BlankStatus /\ UNCHANGED <<tmpl, hash, secret>>
        /\ \E u : cr' = [ns EXCEPT !.unsched = u]
    BY <1>4 DEF UpdateClusterStatus, SaveStatus, Return, Calm, frame, user, kube, mem
  <2>2. cr'.up = ns.up /\ cr'.under = ns.under /\ cr'.re = ns.re
    BY <1>0, <2>1 DEF NodeStatus
  <2>3. Due(cr)'
    BY <1>0, <2>1, <2>2 DEF Due
  <2>4. BlankStatus.up = "" /\ BlankStatus.under = ""
    BY DEF BlankStatus
  <2> QED
    BY <1>0, <2>1, <2>2, <2>3, <2>4
<1>5. CASE Create
  <2>1. pc = "create" /\ pc' = "state" /\ tmpl' = self /\ hash' = secret /\ UNCHANGED <<cr, ns, secret, self>>
    BY <1>5 DEF Create, Calm, frame, user
  <2>2. hash' <= secret'
    BY <1>m, <2>1
  <2>3. self = spec /\ ns.under = ""
    BY <1>0, <2>1
  <2> QED
    BY <1>0, <2>1, <2>2, <2>3
<1>6. CASE Scale
  <2>1. pc = "create" /\ pc' = "state" /\ tmpl # NoTmpl /\ UNCHANGED <<tmpl, cr, ns, hash, secret>>
    BY <1>6 DEF Scale, frame, user, mem
  <2> QED
    BY <1>0, <2>1
<1>7. CASE CheckHealthBefore \/ RecordClusterSize
  <2>1. /\ pc \in {"health0", "size0"} /\ pc' \in {"size0", "setPartition"}
        /\ UNCHANGED <<mode, tmpl, cr, ns, hash, secret>>
    <3>1. CASE CheckHealthBefore
      BY <3>1 DEF CheckHealthBefore, Calm, stepFrame, user, kube, mem
    <3>2. CASE RecordClusterSize
      <4>1. \A c \in Counts : c # 0
        BY CalmFacts, PodsAssumption
      <4> QED
        BY <3>2, <4>1 DEF RecordClusterSize, stepFrame, user, kube
    <3> QED
      BY <1>7, <3>1, <3>2
  <2> QED
    BY <1>0, <2>1
<1>8. CASE ResetPartition \/ ExecuteUpdate
  <2>1. /\ pc \in {"setPartition", "exec"} /\ pc' \in {"exec", "ordinal"}
        /\ UNCHANGED <<mode, tmpl, cr, hash, secret>>
        /\ ns' = [ns EXCEPT !.under = "True"] \/ ns' = [ns EXCEPT !.phase = NodeRestarting]
    BY <1>0, <1>8 DEF ResetPartition, ExecuteUpdate, stepFrame, user, mem
  <2>2. ns'.up = ns.up
    BY <1>0, <2>1 DEF NodeStatus
  <2> QED
    BY <1>0, <2>1, <2>2
<1>9. CASE GetOrdinal \/ TrackPartition
  <2>1. /\ pc \in {"ordinal", "track"} /\ pc' = "waitRejoin" /\ UNCHANGED <<mode, tmpl, cr, ns, hash, secret>>
    BY <1>9 DEF GetOrdinal, TrackPartition, stepFrame, user, kube, mem
  <2> QED
    BY <1>0, <2>1
<1>10. CASE WaitForNodeRejoinCluster
  <2>1. pc = "waitRejoin" /\ UNCHANGED <<mode, tmpl, cr, secret>>
    BY <1>10 DEF WaitForNodeRejoinCluster, stepFrame, user, kube
  <2>2. UpgradeDone(ns).up = ns.up /\ UpgradeDone(ns).under = ""
    BY <1>0 DEF UpgradeDone, NodeStatus
  <2>3. CASE pc' = "down" /\ UNCHANGED <<hash, ns>>
    BY <1>0, <2>1, <2>3
  <2>4. CASE pc' = "state" /\ hash' = secret /\ ns' = UpgradeDone(ns)
    <3>1. hash' <= secret'
      BY <1>m, <2>1, <2>4
    <3> QED
      BY <1>0, <2>1, <2>2, <2>4, <3>1
  <2> QED
    BY <1>10, <2>3, <2>4, RejoinStep
<1>11. CASE TakeDown
  <2>1. pc = "down" /\ UNCHANGED <<mode, tmpl, cr, ns, hash, secret>>
    BY <1>11 DEF TakeDown, stepFrame, user, mem
  <2> QED
    BY <1>0, <1>11, <2>1, DownStep
<1>12. CASE WaitForNodeLeaveCluster
  <2>1. pc = "waitLeave" /\ UNCHANGED <<mode, tmpl, cr, ns, hash, secret>>
    BY <1>12 DEF WaitForNodeLeaveCluster, stepFrame, user, kube, mem
  <2> QED
    BY <1>0, <1>12, <2>1, LeaveStep
<1>13. CASE CompleteRollout \/ UNCHANGED vars \/ \E o \in Ordinal : CreatePod(o) \/ TerminatePod(o) \/ JoinCluster(o)
  <2>1. UNCHANGED <<pc, mode, self, tmpl, cr, ns, hash, secret>>
    BY <1>13 DEF CompleteRollout, CreatePod, TerminatePod, StopPod, JoinCluster, podFrame, envFrame,
       vars, user, kube, mem, local
  <2> QED
    BY <1>0, <2>1 DEF Due
<1>14. CASE RotateSecret
  <2>1. pc = "idle" /\ secret' = secret + 1 /\ UNCHANGED <<pc, mode, self, tmpl, cr, ns, hash>>
    BY <1>14 DEF RotateSecret, Calm, envFrame, kube, mem, local
  <2>2. hash' # secret' /\ hash' <= secret'
    BY <1>m, <2>1
  <2>3. Due(cr)'
    BY <1>0, <2>1, <2>2 DEF Due
  <2> QED
    BY <1>0, <2>1, <2>2, <2>3
<1> QED
  BY <1>1, <1>2, <1>3, <1>4, <1>5, <1>6, <1>7, <1>8, <1>9, <1>10, <1>11, <1>12, <1>13, <1>14, CalmSteps

\* a secret is rotated in a cluster at rest, which nothing disturbs before restart does
LEMMA AtRestStep ==
    ASSUME Calm, CalmInv, [Next]_vars
    PROVE  AtRest'
<1>0. /\ RestartsOnly /\ AtRest /\ FixedPlan /\ UNCHANGED count /\ members \subseteq Ordinal
      /\ pods \in [Ordinal -> {NoTmpl, spec}] /\ spec \in Tmpls /\ NoTmpl \notin Tmpls
  BY CalmSteps, TmplsAssumption DEF CalmInv, FixedPlan, RollInv, UserTyped, KubeTyped
<1> USE DEF Before, Turn
<1>a. ASSUME UNCHANGED <<members, pods, tmpl, reps, hash, secret, term>>, pc \in Turn <=> pc' \in Turn
      PROVE  AtRest'
  BY <1>0, <1>a DEF AtRest, Existing, All
<1>1. CASE StartReconcile \/ UpdateNodeStatus \/ UpdateClusterStatus
  BY <1>1, <1>a DEF StartReconcile, UpdateNodeStatus, UpdateClusterStatus, Return, frame, user, kube, mem
<1>2. CASE Select
  <2>1. pc = "select" /\ pc' \notin Turn
    BY <1>0, <1>2 DEF Select, RestartsOnly
  <2> QED
    BY <1>2, <1>a, <2>1 DEF Select, frame, user, kube, mem
<1>3. CASE Create
  <2>1. hash' = secret /\ secret' = secret /\ reps' = want /\ want = count /\ UNCHANGED <<members, pods>>
    BY <1>3 DEF Create, Calm, frame, user, CalmInv, Wanted, FixedPlan
  <2> QED
    BY <1>0, <2>1 DEF AtRest, Existing
<1>4. CASE Scale
  <2>1. /\ reps' = want /\ want = count /\ pc = "create" /\ pc' = "state"
        /\ UNCHANGED <<members, pods, tmpl, hash, secret, term>>
    BY <1>4, CalmFacts DEF Scale, frame, user, mem, CalmInv, Wanted, FixedPlan
  <2> QED
    BY <1>0, <2>1 DEF AtRest, Existing, All
<1>5. CASE CheckHealthBefore
  BY <1>5, <1>a DEF CheckHealthBefore, Calm, stepFrame, user, kube, mem
<1>6. CASE RecordClusterSize
  <2>1. pc = "size0" /\ pc' \in {"setPartition", "state"} /\ UNCHANGED <<members, kube, hash, secret>>
    BY <1>6 DEF RecordClusterSize, stepFrame, user
  <2> QED
    BY <1>a, <2>1 DEF kube
<1>7. CASE ResetPartition
  BY <1>7, <1>a DEF ResetPartition, stepFrame, user, mem
<1>8. CASE ExecuteUpdate
  <2>1. pc = "exec" /\ pc' = "ordinal" /\ UNCHANGED <<members, pods, tmpl, reps, hash, secret, term>>
    BY <1>0, <1>8 DEF ExecuteUpdate, stepFrame, user, mem, RestartsOnly
  <2> QED
    BY <1>0, <2>1 DEF AtRest, Existing
<1>9. CASE GetOrdinal \/ TrackPartition
  BY <1>9, <1>a DEF GetOrdinal, TrackPartition, stepFrame, user, kube, mem
<1>10. CASE WaitForNodeRejoinCluster
  <2>1. UNCHANGED <<members, pods, tmpl, reps, secret, term>> /\ pc = "waitRejoin"
    BY <1>10 DEF WaitForNodeRejoinCluster, stepFrame, user, kube
  <2>2. pc' = "down" \/ hash' = secret
    BY <1>10, RejoinStep
  <2> QED
    BY <1>0, <2>1, <2>2 DEF AtRest, Existing
<1>11. CASE TakeDown
  <2>1. UNCHANGED <<members, pods, tmpl, reps>> /\ pc' = "waitLeave"
    BY <1>11, DownStep DEF TakeDown, stepFrame
  <2> QED
    BY <1>0, <2>1 DEF AtRest, Existing
<1>12. CASE WaitForNodeLeaveCluster
  <2>1. UNCHANGED <<members, pods, tmpl, reps>> /\ pc' = "track"
    BY <1>12, LeaveStep DEF WaitForNodeLeaveCluster, stepFrame, kube
  <2> QED
    BY <1>0, <2>1 DEF AtRest, Existing
<1>13. ASSUME NEW o \in Ordinal, CreatePod(o)
       PROVE  AtRest'
  <2>1. /\ UNCHANGED <<members, tmpl, reps, hash, secret, term, pc>> /\ pods[o] = NoTmpl
        /\ pods' = [pods EXCEPT ![o] = pods'[o]]
    BY <1>0, <1>13 DEF CreatePod, CanCreate, podFrame, envFrame, user, mem, local
  <2>2. members \subseteq Existing'
    BY <1>0, <2>1 DEF AtRest, Existing
  <2> QED
    BY <1>0, <2>1, <2>2 DEF AtRest, All
<1>14. ASSUME NEW o \in Ordinal, TerminatePod(o)
       PROVE  AtRest'
  <2>1. /\ UNCHANGED <<tmpl, reps, hash, secret, pc>> /\ o \in term /\ members' = members \ {o}
        /\ pods' = [pods EXCEPT ![o] = NoTmpl]
    BY <1>14 DEF TerminatePod, StopPod, podFrame, envFrame, user, mem, local
  <2>2. members' \subseteq Existing'
    BY <1>0, <2>1 DEF AtRest, Existing
  <2> QED
    BY <1>0, <2>1, <2>2 DEF AtRest, All
<1>15. ASSUME NEW o \in Ordinal, JoinCluster(o)
       PROVE  AtRest'
  <2>1. /\ UNCHANGED <<pods, tmpl, reps, hash, secret, term, pc>> /\ members' = members \cup {o}
        /\ o \notin members /\ o \in Existing
    BY <1>0, <1>15 DEF JoinCluster, CanJoin, Runs, Existing, podFrame, envFrame, user, mem, local
  <2>2. members' \subseteq Existing'
    BY <1>0, <2>1 DEF AtRest, Existing
  <2>3. members # All
    BY <2>1, CalmFacts
  <2> QED
    BY <1>0, <2>1, <2>2, <2>3 DEF AtRest, All
<1>16. CASE CompleteRollout \/ UNCHANGED vars
  BY <1>16, <1>a DEF CompleteRollout, podFrame, envFrame, vars, user, kube, mem, local
<1>17. CASE RotateSecret
  <2>1. ~Busy /\ UNCHANGED <<members, pods, tmpl, reps, hash, term, pc>>
    BY <1>17 DEF RotateSecret, Calm, envFrame, kube, mem, local
  <2> QED
    BY <1>0, <2>1, IdleIsComplete DEF AtRest, Existing, All
<1> QED
  BY <1>1, <1>2, <1>3, <1>4, <1>5, <1>6, <1>7, <1>8, <1>9, <1>10, <1>11, <1>12, <1>13, <1>14, <1>15,
     <1>16, <1>17, CalmSteps

\* a reconcile keeps the number of replicas it began with
LEMMA WantedStep ==
    ASSUME Calm, CalmInv, [Next]_vars
    PROVE  Wanted'
<1>0. Wanted /\ AtRest /\ UNCHANGED count /\ (tmpl # NoTmpl => reps = count)
  BY CalmSteps DEF CalmInv, AtRest
<1>1. CASE StartReconcile
  BY <1>0, <1>1 DEF StartReconcile, Wanted
<1>2. CASE UpdateClusterStatus
  BY <1>2 DEF UpdateClusterStatus, Return, Wanted
<1>3. CASE Create
  BY <1>0, <1>3 DEF Create, Return, Wanted
<1>4. CASE \/ Select \/ UpdateNodeStatus \/ Scale \/ CheckHealthBefore \/ RecordClusterSize
           \/ ResetPartition \/ ExecuteUpdate \/ GetOrdinal \/ WaitForNodeRejoinCluster
           \/ TakeDown \/ WaitForNodeLeaveCluster \/ TrackPartition
  BY <1>0, <1>4 DEF Wanted, Select, UpdateNodeStatus, Scale, CheckHealthBefore, RecordClusterSize,
     ResetPartition, ExecuteUpdate, GetOrdinal, WaitForNodeRejoinCluster, TakeDown,
     WaitForNodeLeaveCluster, TrackPartition, stepFrame
<1>5. CASE \/ CompleteRollout \/ RotateSecret \/ UNCHANGED vars
           \/ \E o \in Ordinal : CreatePod(o) \/ TerminatePod(o) \/ JoinCluster(o)
  BY <1>0, <1>5 DEF Wanted, CompleteRollout, RotateSecret, CreatePod, TerminatePod, StopPod, JoinCluster,
     podFrame, envFrame, vars, local
<1> QED
  BY <1>1, <1>2, <1>3, <1>4, <1>5, CalmSteps

\* restart renews one pod after the other
LEMMA TurnStep ==
    ASSUME Calm, CalmInv, [Next]_vars
    PROVE  TurnInv'
<1>0. /\ RestartsOnly /\ AtRest /\ TurnInv /\ UNCHANGED count /\ members \subseteq Ordinal
      /\ pods \in [Ordinal -> {NoTmpl, spec}] /\ loaded \in [Ordinal -> 0..MaxSecret]
  BY CalmSteps DEF CalmInv, FixedPlan, RollInv, KubeTyped
<1>n. idx \in Nat /\ count \in Nat /\ (pc \in {"down", "waitLeave", "track"} => idx > 0)
  BY CalmFacts DEF CalmInv, RollInv, PassTyped
<1> USE DEF Before, Turn
<1>1. CASE StartReconcile \/ UpdateNodeStatus \/ UpdateClusterStatus \/ Create \/ Scale \/ CheckHealthBefore
  <2>1. pc' \notin {"setPartition", "exec"} \cup Turn
    BY <1>1 DEF StartReconcile, UpdateNodeStatus, UpdateClusterStatus, Create, Scale, CheckHealthBefore,
       Return, Calm
  <2> QED
    BY <2>1 DEF TurnInv
<1>2. CASE Select
  <2>1. pc' \in {"create", "health0"}
    BY <1>0, <1>2 DEF Select, RestartsOnly
  <2> QED
    BY <2>1 DEF TurnInv
<1>3. CASE RecordClusterSize
  <2>1. pc = "size0" /\ pc' \in {"setPartition", "state"} /\ size' \in {size, Others + Cardinality(members)}
        /\ (pc' = "setPartition" => size' = Others + Cardinality(members))
    BY <1>3, CalmFacts DEF RecordClusterSize
  <2>2. members = All
    BY <1>0, <2>1 DEF AtRest, RestartsOnly
  <2> QED
    BY <1>0, <2>1, <2>2, CalmFacts DEF TurnInv
<1>4. CASE ResetPartition
  <2>1. pc = "setPartition" /\ pc' = "exec" /\ UNCHANGED size /\ part' = Cardinality(Existing)
    BY <1>4, CalmFacts DEF ResetPartition, setPartition, mem
  <2>2. Existing = All
    BY <1>0, <2>1, CalmFacts DEF AtRest, RestartsOnly
  <2> QED
    BY <1>0, <2>1, <2>2, CalmFacts DEF TurnInv
<1>5. CASE ExecuteUpdate
  <2>1. pc = "exec" /\ pc' = "ordinal" /\ UNCHANGED <<size, part>>
    BY <1>0, <1>5 DEF ExecuteUpdate, RestartsOnly, mem
  <2> QED
    BY <1>0, <2>1 DEF TurnInv
<1>6. CASE GetOrdinal
  <2>1. pc = "ordinal" /\ pc' = "waitRejoin" /\ idx' = part /\ UNCHANGED <<size, pods>>
    BY <1>6 DEF GetOrdinal, kube, mem
  <2>2. \A o \in Ordinal : o >= count => o \notin Existing
    BY <1>n, CalmFacts DEF All
  <2>3. \A o \in Ordinal : o >= idx' => Renewed(o)'
    BY <1>0, <2>1, <2>2 DEF Renewed, Existing, TurnInv
  <2> QED
    BY <1>0, <1>n, <2>1, <2>3 DEF TurnInv
<1>7. CASE WaitForNodeRejoinCluster
  <2>1. pc = "waitRejoin" /\ UNCHANGED <<size, idx, pods, loaded, secret>> /\ pc' \in {"down", "state"}
    BY <1>7, RejoinStep DEF WaitForNodeRejoinCluster, stepFrame, user, kube
  <2> QED
    BY <1>0, <2>1 DEF TurnInv, Renewed, Existing
<1>8. CASE TakeDown
  <2>1. pc = "down" /\ UNCHANGED <<size, idx, pods, loaded, secret>> /\ pc' = "waitLeave" /\ term' = {idx - 1}
    BY <1>8, DownStep DEF TakeDown, stepFrame, user, mem
  <2> QED
    BY <1>0, <2>1 DEF TurnInv, Renewed, Existing
<1>9. CASE WaitForNodeLeaveCluster
  <2>1. pc = "waitLeave" /\ UNCHANGED <<size, idx, pods, loaded, secret>> /\ pc' = "track" /\ Renewed(idx - 1)
    BY <1>9, LeaveStep DEF WaitForNodeLeaveCluster, stepFrame, user, kube, mem
  <2> QED
    BY <1>0, <2>1 DEF TurnInv, Renewed, Existing
<1>10. CASE TrackPartition
  <2>1. pc = "track" /\ UNCHANGED <<size, pods, loaded, secret>> /\ pc' = "waitRejoin" /\ idx' = idx - 1
    BY <1>10 DEF TrackPartition, stepFrame, user, mem
  <2>2. \A o \in Ordinal : o >= idx - 1 => o = idx - 1 \/ o >= idx
    BY <1>n, PodsAssumption DEF Ordinal
  <2>3. \A o \in Ordinal : o >= idx - 1 => Renewed(o)
    BY <1>0, <2>1, <2>2 DEF TurnInv
  <2>4. idx' <= count
    BY <1>0, <1>n, <2>1 DEF TurnInv
  <2> QED
    BY <1>0, <2>1, <2>3, <2>4 DEF TurnInv, Renewed, Existing
<1>11. ASSUME NEW o \in Ordinal, CreatePod(o)
       PROVE  TurnInv'
  <2>1. /\ UNCHANGED <<members, size, part, idx, term, pc, secret>> /\ loaded' = [loaded EXCEPT ![o] = secret]
        /\ pods' = [pods EXCEPT ![o] = pods'[o]]
    BY <1>0, <1>11 DEF CreatePod, podFrame, envFrame, user, mem, local
  <2>2. \A q : Renewed(q) => Renewed(q)'
    BY <1>0, <2>1 DEF Renewed, Existing
  <2> QED
    BY <1>0, <2>1, <2>2 DEF TurnInv
<1>12. ASSUME NEW o \in Ordinal, TerminatePod(o)
       PROVE  TurnInv'
  <2>1. /\ UNCHANGED <<size, part, idx, pc, secret, loaded>> /\ pods' = [pods EXCEPT ![o] = NoTmpl]
        /\ members' = members \ {o} /\ o \in term
    BY <1>12 DEF TerminatePod, StopPod, podFrame, envFrame, user, mem, local
  <2>2. \A q : Renewed(q) => Renewed(q)'
    BY <1>0, <2>1 DEF Renewed, Existing
  <2>3. o = idx - 1 /\ pc = "waitLeave"
    BY <2>1 DEF CalmInv, AllThere
  <2>4. o \notin Existing'
    BY <1>0, <2>1 DEF Existing
  <2>5. Renewed(idx - 1)' /\ idx' - 1 \notin members'
    BY <2>1, <2>3, <2>4 DEF Renewed
  <2> QED
    BY <1>0, <2>1, <2>2, <2>3, <2>5 DEF TurnInv
<1>13. ASSUME NEW o \in Ordinal, JoinCluster(o)
       PROVE  TurnInv'
  <2>1. /\ UNCHANGED <<size, part, idx, pc, secret, loaded, pods, term>> /\ members' = members \cup {o}
        /\ pc # "waitLeave" \/ size <= Others + Cardinality(members)
    BY <1>13 DEF JoinCluster, podFrame, envFrame, user, mem, local, Calm
  <2>2. \A q : Renewed(q) => Renewed(q)'
    BY <2>1 DEF Renewed, Existing
  <2>3. pc = "waitLeave" => idx - 1 \in term
    <3> SUFFICES ASSUME pc = "waitLeave", idx - 1 \notin term PROVE FALSE
      OBVIOUS
    <3>1. idx - 1 \notin members /\ idx - 1 \in All /\ size = Others + count
      BY <1>0, <1>n DEF TurnInv, All
    <3>2. members \in SUBSET All /\ members # All /\ Cardinality(members) <= Cardinality(All)
      BY <3>1, CalmFacts, FS_Subset
    <3>3. Cardinality(members) # Cardinality(All)
      BY <3>2, CalmFacts, FS_Subset
    <3> QED
      BY <2>1, <3>1, <3>2, <3>3, CalmFacts
  <2> QED
    BY <1>0, <2>1, <2>2, <2>3 DEF TurnInv
<1>14. CASE CompleteRollout \/ UNCHANGED vars
  <2>1. UNCHANGED <<size, part, idx, pc, secret, loaded, pods, term, members>>
    BY <1>14 DEF CompleteRollout, podFrame, envFrame, vars, user, kube, mem, local
  <2> QED
    BY <1>0, <2>1 DEF TurnInv, Renewed, Existing
<1>15. CASE RotateSecret
  <2>1. pc' = "idle"
    BY <1>15 DEF RotateSecret, Calm, envFrame, local
  <2> QED
    BY <2>1 DEF TurnInv
<1> QED
  BY <1>1, <1>2, <1>3, <1>4, <1>5, <1>6, <1>7, <1>8, <1>9, <1>10, <1>11, <1>12, <1>13, <1>14, <1>15, CalmSteps

(* In a behaviour without failures, for a StatefulSet of any size and any
   number of new secrets, a pod that runs on an old secret is noticed: when
   restart takes over the hash of the secret (waitForNodeRejoinCluster after
   the last pod), every pod has loaded it.                                 *)
THEOREM SecretsAreNoticed ==
    ASSUME Calm
    PROVE  Spec => []NoMissedRedeploy
<1> DEFINE Inv == CalmInv /\ NoMissedRedeploy
<1>1. Init /\ RollInv => Inv
  <2> SUFFICES ASSUME Init, RollInv PROVE Inv
    OBVIOUS
  <2>1. FixedPlan /\ AllThere /\ TurnInv
    BY DEF Init, FixedPlan, AllThere, Existing, TurnInv, Turn
  <2>2. BlankStatus.up = "" /\ BlankStatus.under = "" /\ BlankStatus.re = ""
    BY DEF BlankStatus
  <2>3. RestartsOnly
    <3>1. hash <= secret
      BY DEF Init
    <3>2. pc = "idle"
      BY DEF Init
    <3> QED
      BY <2>2, <3>1, <3>2 DEF Init, RestartsOnly, Due, Before, Turn
  <2>4. Existing = {}
    BY DEF Init, Existing
  <2>5. AtRest /\ Wanted /\ NoMissedRedeploy
    BY <2>4 DEF Init, AtRest, Wanted, NoMissedRedeploy
  <2> QED
    BY <2>1, <2>3, <2>5 DEF CalmInv
<1>2. Inv /\ RollInv' /\ [Next]_vars => Inv'
  <2> SUFFICES ASSUME CalmInv, NoMissedRedeploy, RollInv', [Next]_vars PROVE Inv'
    OBVIOUS
  <2>1. CalmInv'
    BY FixedPlanStep, AllThereStep, RestartsOnlyStep, AtRestStep, WantedStep, TurnStep DEF CalmInv, Calm
  <2>2. NoMissedRedeploy'
    <3>0. pods \in [Ordinal -> {NoTmpl, spec}] /\ loaded \in [Ordinal -> 0..MaxSecret]
      BY DEF CalmInv, FixedPlan, RollInv, KubeTyped
    <3>a. ASSUME UNCHANGED <<pods, loaded, hash, secret>>, term \subseteq term' PROVE NoMissedRedeploy'
      BY <3>a DEF NoMissedRedeploy, Existing
    <3>1. CASE \/ StartReconcile \/ Select \/ UpdateNodeStatus \/ UpdateClusterStatus \/ Scale
               \/ CheckHealthBefore \/ RecordClusterSize \/ ResetPartition \/ ExecuteUpdate \/ GetOrdinal
               \/ WaitForNodeLeaveCluster \/ TrackPartition
      BY <3>1, <3>a DEF StartReconcile, Select, UpdateNodeStatus, UpdateClusterStatus, Scale,
         CheckHealthBefore, RecordClusterSize, ResetPartition, ExecuteUpdate, GetOrdinal,
         WaitForNodeLeaveCluster, TrackPartition, frame, stepFrame, user, kube, mem
    <3>2. CASE Create
      <4>1. Existing = {} /\ UNCHANGED pods
        BY <3>2, TmplsAssumption DEF Create, CalmInv, FixedPlan, RollInv, UserTyped
      <4> QED
        BY <4>1 DEF NoMissedRedeploy, Existing
    <3>3. CASE WaitForNodeRejoinCluster
      <4>1. UNCHANGED <<pods, loaded, secret, term>> /\ pc = "waitRejoin"
        BY <3>3 DEF WaitForNodeRejoinCluster, stepFrame, user, kube
      <4>2. CASE UNCHANGED hash
        BY <4>1, <4>2, <3>a
      <4>3. CASE idx = 0
        <5>1. \A o \in Existing : loaded[o] = secret
          BY <4>1, <4>3, PodsAssumption DEF CalmInv, TurnInv, Turn, Renewed, Existing, Ordinal
        <5> QED
          BY <4>1, <5>1 DEF NoMissedRedeploy, Existing
      <4> QED
        BY <3>3, <4>2, <4>3, RejoinStep
    <3>4. CASE TakeDown
      <4>1. UNCHANGED <<pods, loaded, hash, secret>> /\ term \subseteq term'
        BY <3>4 DEF TakeDown, DeletePod, stepFrame, user, mem
      <4> QED
        BY <4>1, <3>a
    <3>5. ASSUME NEW o \in Ordinal, CreatePod(o) PROVE NoMissedRedeploy'
      <4>1. /\ UNCHANGED <<hash, secret, term>> /\ loaded' = [loaded EXCEPT ![o] = secret]
            /\ pods' = [pods EXCEPT ![o] = pods'[o]]
        BY <3>0, <3>5 DEF CreatePod, podFrame, envFrame, user, mem
      <4> QED
        BY <3>0, <4>1 DEF NoMissedRedeploy, Existing
    <3>6. ASSUME NEW o \in Ordinal, TerminatePod(o) PROVE NoMissedRedeploy'
      <4>1. /\ UNCHANGED <<hash, secret, loaded>> /\ term' = term \ {o} /\ pods' = [pods EXCEPT ![o] = NoTmpl]
        BY <3>6 DEF TerminatePod, StopPod, podFrame, envFrame, user, mem
      <4> QED
        BY <3>0, <4>1 DEF NoMissedRedeploy, Existing
    <3>7. CASE CompleteRollout \/ UNCHANGED vars \/ \E o \in Ordinal : JoinCluster(o)
      BY <3>7, <3>a DEF CompleteRollout, JoinCluster, podFrame, envFrame, vars, user, kube, mem
    <3>8. CASE RotateSecret
      <4>1. hash \in Nat /\ secret \in Nat /\ hash <= secret
        BY CalmFacts DEF CalmInv, RestartsOnly
      <4>2. hash' = hash /\ secret' = secret + 1
        BY <3>8 DEF RotateSecret, envFrame, mem
      <4>3. hash' # secret'
        BY <4>1, <4>2
      <4> QED
        BY <4>3 DEF NoMissedRedeploy
    <3> QED
      BY <3>1, <3>2, <3>3, <3>4, <3>5, <3>6, <3>7, <3>8, CalmSteps
  <2> QED
    BY <2>1, <2>2
<1>3. Inv => NoMissedRedeploy
  OBVIOUS
<1> HIDE DEF Inv
<1> QED
  BY <1>1, <1>2, <1>3, Inductive, PTL DEF Spec

=============================================================================
