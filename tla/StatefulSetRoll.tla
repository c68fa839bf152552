-------------------------- MODULE StatefulSetRoll --------------------------
(***************************************************************************)
(* The StatefulSet that holds the nodes without data (statefulset.go),     *)
(* driven by CreateOrUpdateElasticsearchCluster as the only node of the    *)
(* cluster under the operator's hands.  A template change is rolled out by *)
(* lowering the partition of the RollingUpdate strategy one ordinal at a   *)
(* time, a restart by deleting one pod at a time with the partition as the *)
(* record of how far it got.                                               *)
(***************************************************************************)
EXTENDS Integers, FiniteSets

CONSTANTS
    MaxPods,    \* bound: replicas the spec can ask for
    Others,     \* Elasticsearch nodes outside this StatefulSet, always joined
    Tmpls,      \* pod templates the spec can ask for
    Unsched,    \* the templates among them whose pods cannot be scheduled
    NoTmpl,     \* an absent StatefulSet or pod
    MaxEdits,   \* bound: edits of the spec (template or replicas)
    MaxSecret,  \* bound: versions of the certificate secret
    MaxCrash,   \* bound: restarts of the operator
    Hazards     \* "slow", "api", "status", "es", "rotate": as in RollingUpgrade;
                \* "lateError": a delete is carried out and answered by an error;
                \* "fast": a pod leaves and rejoins between two polls

ASSUME PodsAssumption == MaxPods \in Nat \ {0} /\ Others \in Nat \ {0}
ASSUME TmplsAssumption == NoTmpl \notin Tmpls /\ Unsched \subseteq Tmpls
ASSUME BoundsAssumption == MaxEdits \in Nat /\ MaxSecret \in Nat \ {0} /\ MaxCrash \in Nat
ASSUME HazardsAssumption == Hazards \subseteq {"slow", "api", "status", "es", "rotate", "lateError", "fast"}

Ordinal == 0..(MaxPods - 1)
Template == Tmpls \cup {NoTmpl}

VARIABLES
    spec, count, secret, edits, crashes,    \* the user's input, restarts
    cr,                                     \* the element of Status.Nodes
    tmpl, base, part, reps, pods, loaded, term,   \* Kubernetes
    members,                                \* ordinals joined to Elasticsearch
    size, hash,                             \* package variable "nodes"
    pc, mode, idx, ns, self, want           \* one reconcile

user  == <<spec, count, secret, edits, crashes>>
kube  == <<tmpl, base, part, reps, pods, loaded, term>>
mem   == <<size, hash>>
local == <<pc, mode, idx, ns, self, want>>
vars  == <<user, cr, kube, members, mem, local>>

NodeRestarting    == "nodeRestarting"
ControllerUpdated == "controllerUpdated"
Cond == {"True", ""}
NodeStatus == [up: Cond, re: Cond, under: Cond, unsched: Cond,
               phase: {"", NodeRestarting, ControllerUpdated}]
BlankStatus == [up |-> "", re |-> "", under |-> "", unsched |-> "", phase |-> ""]
Flag(b) == IF b THEN "True" ELSE ""

PC == {"idle", "uExec", "uDelete", "select", "health0", "size0", "setPartition",
       "exec", "ordinal", "waitRejoin", "down", "waitLeave", "track",
       "create", "state", "finish"}

-----------------------------------------------------------------------------
(* What the operator's calls see.                                          *)

Existing == {o \in Ordinal : pods[o] # NoTmpl}

Counts_MinusOne == {Others + Cardinality(members)} \cup (IF "es" \in Hazards THEN {-1} ELSE {})

\* GetClusterNodeCount: a failed request reads 0
Counts == {Others + Cardinality(members)} \cup (IF "es" \in Hazards THEN {0} ELSE {})

Rejoined_OneMissing(c) == size <= c + 1

\* what the two waits compare the recorded size with
Rejoined(c) == size <= c
Left(c) == size > c

FailedWrite(old, new) ==
    IF "api" \in Hazards /\ old # new THEN {old, new} ELSE {}

isChanged == tmpl # NoTmpl /\ tmpl # self

\* what the StatefulSet controller and the pods still have to do: pods are
\* created in order, each once the ones before it run, and a template change
\* reaches the ordinals from the partition up, highest first
Runs(o) == pods[o] \in Tmpls \ Unsched /\ o \notin term
CanCreate(o) == /\ tmpl # NoTmpl /\ o < reps /\ pods[o] = NoTmpl
                /\ \A q \in Ordinal : q < o => Runs(q)
CanScaleDown(o) == /\ o >= reps /\ pods[o] # NoTmpl /\ \A q \in Existing : q <= o
                   /\ \A q \in Ordinal : q < reps => Runs(q)
CanRoll(o) == /\ \A q \in Ordinal : Runs(q) <=> q < reps
              /\ part <= o /\ o < reps /\ pods[o] # tmpl
              /\ \A q \in Existing : q > o => pods[q] = tmpl
CanJoin(o) == Runs(o) /\ o \notin members
Busy == \E o \in Ordinal : CanCreate(o) \/ CanScaleDown(o) \/ CanRoll(o) \/ CanJoin(o) \/ o \in term
TimedOut == "slow" \in Hazards \/ ~Busy

-----------------------------------------------------------------------------
(* The reconcile around the node (cluster.go).                             *)

frame == UNCHANGED <<user, members>>

\* getNodes gives the node its desired object; an unschedulable node whose
\* template changed is progressed first, and isChanged takes its replicas from
\* the live object
StartReconcile ==
    /\ pc = "idle"
    /\ self' = spec /\ ns' = cr
    /\ want' = IF cr.unsched = "True" /\ tmpl # NoTmpl THEN reps ELSE count
    /\ pc' = IF cr.unsched = "True" /\ tmpl # NoTmpl /\ tmpl # spec THEN "uExec" ELSE "select"
    /\ frame /\ UNCHANGED <<cr, kube, mem, mode, idx>>

\* progressUnshedulableNode: executeUpdate, then delete the pod whose ordinal
\* is the partition
UnschedExecute ==
    /\ pc = "uExec"
    /\ \/ tmpl' = self /\ pc' = "uDelete"
       \/ tmpl' \in FailedWrite(tmpl, self) /\ pc' = "select"
    /\ frame /\ UNCHANGED <<cr, base, part, reps, pods, loaded, term, mem, mode, idx, ns, self, want>>

\* DeletePod marks an existing pod for termination, or fails, or both
DeletePod(o, ok, failed) ==
    \/ o \in Existing /\ term' = term \cup {o} /\ pc' = ok
    \/ /\ o \notin Existing \/ "api" \in Hazards
       /\ pc' = failed /\ UNCHANGED term
    \/ /\ o \in Existing /\ "lateError" \in Hazards
       /\ pc' = failed /\ term' = term \cup {o}

UnschedDelete ==
    /\ pc = "uDelete"
    /\ DeletePod(part, "select", "select")
    /\ frame /\ UNCHANGED <<cr, tmpl, base, part, reps, pods, loaded, mem, mode, idx, ns, self, want>>

\* in progress, scheduled for upgrade, scheduled for redeploy, or create
Select ==
    /\ pc = "select"
    /\ mode' = IF ns.up = "True" THEN "update"
               ELSE IF ns.under = "True" \/ ns.re = "True" THEN "restart" ELSE "create"
    /\ pc' = IF mode' = "create" THEN "create"
             ELSE IF ns.under # "True" THEN "health0"
             ELSE IF ns.phase = NodeRestarting THEN "ordinal" ELSE "exec"
    /\ frame /\ UNCHANGED <<cr, kube, mem, idx, ns, self, want>>

SaveStatus(new) == cr' = new \/ ("status" \in Hazards /\ new # cr /\ cr' = cr)

\* state() and updateNodeStatus
UpdateNodeStatus ==
    /\ pc = "state"
    /\ ns' = [ns EXCEPT !.up = Flag(isChanged), !.re = Flag(secret # hash)]
    /\ SaveStatus(ns')
    /\ pc' = "finish"
    /\ frame /\ UNCHANGED <<kube, mem, mode, idx, self, want>>

\* the locals of a reconcile that has returned
Return == /\ pc' = "idle" /\ mode' = "create" /\ idx' = 0
          /\ ns' = BlankStatus /\ self' = NoTmpl /\ want' = 0

\* UpdateClusterStatus: the last pod listed decides the condition
UpdateClusterStatus ==
    /\ pc = "finish"
    /\ \E u \in (IF Existing = {} THEN {ns.unsched} ELSE {Flag(pods[o] \in Unsched) : o \in Existing}) :
          SaveStatus([ns EXCEPT !.unsched = u])
    /\ Return
    /\ frame /\ UNCHANGED <<kube, mem>>

-----------------------------------------------------------------------------
(* statefulSetNode.create and scale                                        *)

Create ==
    /\ pc = "create" /\ tmpl = NoTmpl
    /\ \/ /\ tmpl' = self /\ base' = self /\ part' = 0 /\ reps' = want
          /\ hash' = secret
          /\ pc' = "state" /\ UNCHANGED <<mode, idx, ns, self, want>>
       \/ /\ "api" \in Hazards
          /\ \/ tmpl' = self /\ base' = self /\ part' = 0 /\ reps' = want
             \/ UNCHANGED <<tmpl, base, part, reps>>
          /\ Return /\ UNCHANGED hash
    /\ frame /\ UNCHANGED <<cr, pods, loaded, term, size>>

\* scale reads the live object into the node's own: errors are ignored
Scale ==
    /\ pc = "create" /\ tmpl # NoTmpl
    /\ self' = tmpl
    /\ reps' \in {want} \cup FailedWrite(reps, want)
    /\ pc' = "state"
    /\ frame /\ UNCHANGED <<cr, tmpl, base, part, pods, loaded, term, mem, mode, idx, ns, want>>

-----------------------------------------------------------------------------
(* statefulSetNode.update and statefulSetNode.restart                      *)

stepFrame == UNCHANGED <<user, cr, mode, want>>

CheckHealthBefore ==
    /\ pc = "health0"
    /\ pc' \in {"size0"} \cup (IF "es" \in Hazards THEN {"state"} ELSE {})
    /\ stepFrame /\ UNCHANGED <<members, kube, mem, idx, ns, self>>

\* only restart looks at the error, and an answer that is none of
\* Elasticsearch's reads 0 without one
RecordClusterSize ==
    /\ pc = "size0"
    /\ \E c \in Counts :
         \/ size' = c /\ pc' = "setPartition"
         \/ mode = "restart" /\ c = 0 /\ pc' = "state" /\ UNCHANGED size
    /\ stepFrame /\ UNCHANGED <<members, kube, hash, idx, ns, self>>

\* setPartition reads the live object into the node's own; no caller looks
\* at its error
setPartition(p) ==
    /\ self' = tmpl
    /\ part' \in {p} \cup FailedWrite(part, p)

ResetPartition ==
    /\ pc = "setPartition"
    /\ setPartition(Cardinality(Existing))
    /\ ns' = [ns EXCEPT !.under = "True"]
    /\ pc' = "exec"
    /\ stepFrame /\ UNCHANGED <<members, tmpl, base, reps, pods, loaded, term, mem, idx>>

\* update only: executeUpdate; restart has nothing to do here
ExecuteUpdate ==
    /\ pc = "exec"
    /\ \/ /\ tmpl' = IF mode = "update" THEN self ELSE tmpl
          /\ ns' = [ns EXCEPT !.phase = NodeRestarting]
          /\ pc' = "ordinal"
       \/ /\ mode = "update" /\ tmpl' \in FailedWrite(tmpl, self)
          /\ pc' = "state" /\ UNCHANGED ns
    /\ stepFrame /\ UNCHANGED <<members, base, part, reps, pods, loaded, term, mem, idx, self>>

GetOrdinal_SkipHighest ==
    /\ pc = "ordinal"
    /\ idx' = IF part = 0 THEN 0 ELSE part - 1
    /\ pc' = "waitRejoin"
    /\ stepFrame /\ UNCHANGED <<members, kube, mem, ns, self>>

\* the loop starts at the partition
GetOrdinal ==
    /\ pc = "ordinal"
    /\ idx' = part
    /\ pc' = "waitRejoin"
    /\ stepFrame /\ UNCHANGED <<members, kube, mem, ns, self>>

UpgradeDone_KeepsPhase(s) == [s EXCEPT !.under = ""]

UpgradeDone_StaysUnder(s) == [s EXCEPT !.phase = ControllerUpdated]

UpgradeDone(s) == [s EXCEPT !.phase = ControllerUpdated, !.under = ""]

\* waitForNodeRejoinCluster before every pod and once more after the last
WaitForNodeRejoinCluster ==
    /\ pc = "waitRejoin"
    /\ \E c \in Counts :
         \/ /\ Rejoined(c) /\ idx > 0
            /\ pc' = "down" /\ UNCHANGED <<hash, ns>>
         \/ /\ Rejoined(c) /\ idx = 0
            /\ hash' = secret
            /\ ns' = UpgradeDone(ns)
            /\ pc' = "state"
         \/ ~Rejoined(c) /\ TimedOut /\ pc' = "state" /\ UNCHANGED <<hash, ns>>
    /\ stepFrame /\ UNCHANGED <<members, kube, size, idx, self>>

\* update lowers the partition, restart deletes the pod
TakeDown ==
    /\ pc = "down"
    /\ \/ /\ mode = "update"
          /\ setPartition(idx - 1)
          /\ pc' = "waitLeave" /\ UNCHANGED term
       \/ /\ mode = "restart"
          /\ DeletePod(idx - 1, "waitLeave", "state")
          /\ UNCHANGED <<part, self>>
    /\ stepFrame /\ UNCHANGED <<members, tmpl, base, reps, pods, loaded, mem, idx, ns>>

WaitForNodeLeaveCluster ==
    /\ pc = "waitLeave"
    /\ \E c \in Counts :
         \/ /\ Left(c)
            /\ IF mode = "update" THEN pc' = "waitRejoin" /\ idx' = idx - 1
               ELSE pc' = "track" /\ UNCHANGED idx
         \/ ~Left(c) /\ TimedOut /\ pc' = "state" /\ UNCHANGED idx
    /\ stepFrame /\ UNCHANGED <<members, kube, mem, ns, self>>

\* restart: "used for tracking in case of timeout"
TrackPartition ==
    /\ pc = "track"
    /\ setPartition(idx - 1)
    /\ idx' = idx - 1
    /\ pc' = "waitRejoin"
    /\ stepFrame /\ UNCHANGED <<members, tmpl, base, reps, pods, loaded, term, mem, ns>>

-----------------------------------------------------------------------------
(* The environment.                                                        *)

envFrame == UNCHANGED <<cr, mem, local>>

EditSpec(t, k) ==
    /\ edits < MaxEdits /\ <<t, k>> # <<spec, count>>
    /\ spec' = t /\ count' = k /\ edits' = edits + 1
    /\ envFrame /\ UNCHANGED <<secret, crashes, kube, members>>

RotateSecret ==
    /\ secret < MaxSecret
    /\ "rotate" \in Hazards \/ (pc = "idle" /\ ~Busy)
    /\ secret' = secret + 1
    /\ envFrame /\ UNCHANGED <<spec, count, edits, crashes, kube, members>>

podFrame == envFrame /\ UNCHANGED <<user, tmpl, part, reps>>

\* an ordinal below the partition is recreated from the current revision
CreatePod(o) ==
    /\ CanCreate(o)
    /\ pods' = [pods EXCEPT ![o] = IF o < part THEN base ELSE tmpl]
    /\ loaded' = [loaded EXCEPT ![o] = secret]
    /\ podFrame /\ UNCHANGED <<base, term, members>>

StopPod(o) ==
    /\ pods' = [pods EXCEPT ![o] = NoTmpl]
    /\ members' = members \ {o}
    /\ term' = term \ {o}
    /\ podFrame /\ UNCHANGED <<base, loaded>>

TerminatePod(o) == o \in term /\ StopPod(o)
ScaleDownPod(o) == CanScaleDown(o) /\ StopPod(o)
RollPod(o) == CanRoll(o) /\ StopPod(o)

\* unless pods are fast, a poll sees that a node has left before it rejoins
JoinCluster(o) ==
    /\ CanJoin(o)
    /\ "fast" \in Hazards \/ pc # "waitLeave" \/ size <= Others + Cardinality(members)
    /\ members' = members \cup {o}
    /\ podFrame /\ UNCHANGED <<base, pods, loaded, term>>

\* all pods updated: the update revision becomes the current one
CompleteRollout ==
    /\ base # tmpl /\ \A o \in Ordinal : Runs(o) <=> o < reps
    /\ \A o \in Existing : pods[o] = tmpl
    /\ base' = tmpl
    /\ podFrame /\ UNCHANGED <<pods, loaded, term, members>>

OperatorRestart ==
    /\ crashes < MaxCrash
    /\ crashes' = crashes + 1
    /\ size' = 0 /\ hash' = 0
    /\ Return
    /\ UNCHANGED <<spec, count, secret, edits, cr, kube, members>>

-----------------------------------------------------------------------------
Init ==
    /\ spec \in Tmpls /\ count \in 1..MaxPods /\ secret = 1 /\ edits = 0 /\ crashes = 0
    /\ cr = BlankStatus
    /\ tmpl = NoTmpl /\ base = NoTmpl /\ part = 0 /\ reps = 0
    /\ pods = [o \in Ordinal |-> NoTmpl] /\ loaded = [o \in Ordinal |-> 0] /\ term = {}
    /\ members = {} /\ size = 0 /\ hash = 0
    /\ pc = "idle" /\ mode = "create" /\ idx = 0
    /\ ns = BlankStatus /\ self = NoTmpl /\ want = 0

Operator ==
    \/ StartReconcile \/ UnschedExecute \/ UnschedDelete \/ Select
    \/ UpdateNodeStatus \/ UpdateClusterStatus \/ Create \/ Scale
    \/ CheckHealthBefore \/ RecordClusterSize \/ ResetPartition
    \/ ExecuteUpdate \/ GetOrdinal \/ WaitForNodeRejoinCluster \/ TakeDown
    \/ WaitForNodeLeaveCluster \/ TrackPartition

Platform ==
    \/ \E o \in Ordinal : CreatePod(o) \/ ScaleDownPod(o) \/ RollPod(o)
                          \/ TerminatePod(o) \/ JoinCluster(o)
    \/ CompleteRollout

Next ==
    \/ Operator \/ Platform
    \/ \E t \in Tmpls, k \in 1..MaxPods : EditSpec(t, k)
    \/ RotateSecret \/ OperatorRestart

Spec == Init /\ [][Next]_vars

\* the work queue calls Reconcile again and again; the StatefulSet controller
\* and the pods complete what they have started
FairSpec == Spec /\ WF_vars(Operator) /\ WF_vars(Platform)

-----------------------------------------------------------------------------
(* Properties.                                                             *)

(* Every variable keeps its type: the cluster size a node remembers is a
   count of nodes, the partition an ordinal of the StatefulSet, and update
   and restart always continue at a known step.                            *)
TypeOK ==
    /\ spec \in Tmpls /\ count \in 1..MaxPods /\ secret \in 1..MaxSecret
    /\ edits \in 0..MaxEdits /\ crashes \in 0..MaxCrash
    /\ cr \in NodeStatus /\ ns \in NodeStatus
    /\ tmpl \in Template /\ base \in Template /\ part \in 0..MaxPods
    /\ reps \in 0..MaxPods /\ pods \in [Ordinal -> Template]
    /\ loaded \in [Ordinal -> 0..MaxSecret] /\ members \subseteq Ordinal /\ term \subseteq Ordinal
    /\ size \in 0..(Others + MaxPods) /\ hash \in 0..MaxSecret
    /\ pc \in PC /\ mode \in {"update", "restart", "create"}
    /\ idx \in 0..MaxPods /\ self \in Template /\ want \in 0..MaxPods

(* A phase in the middle of a restart is only recorded together with
   underUpgrade, so the next reconcile resumes at the partition.           *)
WellFormed(s) == s.phase = NodeRestarting => s.under = "True"
StatusConsistent == WellFormed(cr) /\ WellFormed(ns)

(* A pod is taken down by update or restart only while every other node that
   the cluster had when the upgrade began is joined and stays ("make sure we have all
   nodes in the cluster first -- always").                                 *)
TakenDownAlone ==
    [][pc = "down" /\ pc' = "waitLeave" =>
         Others + Cardinality(members \ (term \cup {idx - 1})) >= size - 1]_vars

(* No pod keeps running on an old secret without the operator noticing: the
   hash the node remembers still differs from the current one.             *)
NoMissedRedeploy ==
    \A o \in Existing \ term : loaded[o] # secret => hash # secret

(* A new secret reaches every pod, and the upgrade that took it there ends. *)
SecretReachesPods ==
    <>[](/\ cr.under = "" /\ members = 0..(count - 1)
         /\ \A o \in Existing : loaded[o] = secret)

(* A change of the spec's pod template reaches the StatefulSet ("see if we
   need to update the deployment object", state).                          *)
TemplateApplied == <>[](tmpl = spec)

=============================================================================
