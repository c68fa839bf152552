--------------------------- MODULE IndexReplicas ----------------------------
(***************************************************************************)
(* UpdateReplicaCount (elasticsearch.go): the last thing a reconcile asks  *)
(* of Elasticsearch is the number of replicas that the redundancy policy   *)
(* calls for, first in the common.* index templates, then in the indices.  *)
(* Each request is a step of its own, between which log collectors create  *)
(* indices from the templates, the curator deletes some and users close    *)
(* and open others.  Every failed request is passed over in silence.       *)
(***************************************************************************)
EXTENDS Integers, FiniteSets

CONSTANTS
    Templates,   \* the common.* index templates
    OneField,    \* the ones whose line in the list of templates is a single
                 \* field.  Elasticsearch prints name, pattern, order and
                 \* version unless it is asked for the name alone: none
    Indices,     \* the names indices can have
    Counts,      \* the replica counts calculateReplicaCount can yield
    Default,     \* the count Elasticsearch gives an index without a setting
    NoSetting,   \* a template that does not set number_of_replicas
    MaxEdits,    \* bound: how often the custom resource asks for another count
    MaxChurn,    \* bound: how often an index is created, deleted, closed, opened
    MaxFaults    \* bound: how many requests fail

ASSUME CountsAssumption == Default \in Counts /\ NoSetting \notin Counts
ASSUME OneFieldAssumption == OneField \subseteq Templates
ASSUME BoundsAssumption == MaxEdits \in Nat /\ MaxChurn \in Nat /\ MaxFaults \in Nat

VARIABLES
    want,              \* the count the custom resource asks for
    tmpl,              \* number_of_replicas of the templates
    exist, closed,     \* the indices there are, and the closed ones among them
    reps,              \* number_of_replicas of the indices
    pc, count, todo,   \* one pass: the next requests are for the members of todo
    cur,               \* the template that was just read
    edits, churn, faults,
    clean, missed      \* history: no request of the pass failed; the indices its
                       \* list could not show, that Elasticsearch refused to
                       \* change, or that take after no template of the pass

es    == <<tmpl, exist, closed, reps>>
local == <<pc, count, todo, cur>>
bounds == <<edits, churn>>
vars  == <<want, es, local, bounds, faults, clean, missed>>

Stage == {"idle", "listTemplates", "getTemplate", "putTemplate",
          "listIndices", "putIndex"}

-----------------------------------------------------------------------------
(* Requests.  A failed one was applied or not; its error is dropped.       *)

Fails == faults < MaxFaults /\ faults' = faults + 1 /\ clean' = FALSE
Works == UNCHANGED <<faults, clean>>

NextStage_IndicesFirst(done) ==
    CASE done = "idle"          -> "listIndices"
      [] done = "putIndex"      -> "listTemplates"
      [] done = "getTemplate"   -> "idle"

\* UpdateReplicaCount: the templates first, then the indices
NextStage(done) ==
    CASE done = "idle"          -> "listTemplates"
      [] done = "getTemplate"   -> "listIndices"
      [] done = "putIndex"      -> "idle"

UpdateReplicaCount_Remembered ==
    /\ pc = "idle"
    /\ pc' = NextStage("idle")
    /\ clean' = TRUE
    /\ UNCHANGED <<want, es, count, todo, cur, bounds, faults, missed>>

\* the reconcile has created its nodes and is not in the middle of an upgrade
UpdateReplicaCount ==
    /\ pc = "idle"
    /\ pc' = NextStage("idle")
    /\ count' = want
    /\ clean' = TRUE
    /\ UNCHANGED <<want, es, todo, cur, bounds, faults, missed>>

updateAllIndexTemplateReplicas_AsIndices ==
    /\ pc = "listTemplates"
    /\ pc' = "putIndex"
    /\ \/ todo' = OneField /\ Works
       \/ todo' = {} /\ Fails
    /\ UNCHANGED <<want, es, count, cur, bounds, missed>>

\* lists the templates and keeps the lines of one field; without an answer
\* there is nothing to do
updateAllIndexTemplateReplicas ==
    /\ pc = "listTemplates"
    /\ pc' = "getTemplate"
    /\ \/ todo' = OneField /\ Works
       \/ todo' = {} /\ Fails
    /\ UNCHANGED <<want, es, count, cur, bounds, missed>>

\* only what differs is written
Differs(current) == current # count

\* reads one template; one without the setting is left alone
getIndexTemplate(t) ==
    /\ pc = "getTemplate" /\ t \in todo
    /\ todo' = todo \ {t}
    /\ \/ /\ tmpl[t] # NoSetting /\ Differs(tmpl[t])
          /\ pc' = "putTemplate" /\ cur' = t /\ Works
       \/ /\ tmpl[t] = NoSetting \/ ~Differs(tmpl[t])
          /\ UNCHANGED <<pc, cur>> /\ Works
       \/ UNCHANGED <<pc, cur>> /\ Fails
    /\ UNCHANGED <<want, es, count, bounds, missed>>

updateIndexTemplateReplicas ==
    /\ pc = "putTemplate"
    /\ pc' = "getTemplate"
    /\ LET new == [tmpl EXCEPT ![cur] = count]
       IN  \/ tmpl' = new /\ Works
           \/ tmpl' \in {tmpl, new} /\ Fails
    /\ UNCHANGED <<want, exist, closed, reps, count, todo, cur, bounds, missed>>

TemplatesDone ==
    /\ pc = "getTemplate" /\ todo = {}
    /\ pc' = NextStage("getTemplate")
    /\ UNCHANGED <<want, es, count, todo, cur, bounds, faults, clean, missed>>

\* getIndexHealth, parseIndexHealth: the line of a closed index is too short
\* to be taken for one
updateAllIndexReplicas ==
    /\ pc = "listIndices"
    /\ pc' = "putIndex"
    /\ missed' = closed
    /\ \/ todo' = {i \in exist \ closed : Differs(reps[i])} /\ Works
       \/ todo' = {} /\ Fails
    /\ UNCHANGED <<want, es, count, cur, bounds>>

\* an index that has been deleted meanwhile stays so, and Elasticsearch
\* refuses to change the replicas of one that has been closed
updateIndexReplicas(i) ==
    /\ pc = "putIndex" /\ i \in todo
    /\ todo' = todo \ {i}
    /\ LET new == IF i \in exist \ closed THEN [reps EXCEPT ![i] = count] ELSE reps
       IN  \/ reps' = new /\ Works
           \/ reps' \in {reps, new} /\ Fails
    /\ missed' = missed \cup (closed \cap {i})
    /\ UNCHANGED <<want, tmpl, exist, closed, pc, count, cur, bounds>>

IndicesDone ==
    /\ pc = "putIndex" /\ todo = {}
    /\ pc' = NextStage("putIndex")
    /\ UNCHANGED <<want, es, count, todo, cur, bounds, faults, clean, missed>>

-----------------------------------------------------------------------------
(* Users, log collectors and the curator.                                  *)

\* another redundancy policy or number of data nodes
EditPolicy(n) ==
    /\ edits < MaxEdits /\ n # want
    /\ want' = n /\ edits' = edits + 1
    /\ UNCHANGED <<es, local, churn, faults, clean, missed>>

Churn == /\ churn < MaxChurn /\ churn' = churn + 1
         /\ UNCHANGED <<want, tmpl, local, edits, faults, clean>>

\* an index takes the count of its template when it is created
CreateIndex(i, t) ==
    /\ i \notin exist
    /\ exist' = exist \cup {i}
    /\ reps' = [reps EXCEPT ![i] = IF tmpl[t] = NoSetting THEN Default ELSE tmpl[t]]
    /\ missed' = IF t \in OneField /\ tmpl[t] # NoSetting THEN missed \ {i} ELSE missed \cup {i}
    /\ UNCHANGED closed
    /\ Churn

DeleteIndex(i) ==
    /\ i \in exist
    /\ exist' = exist \ {i} /\ closed' = closed \ {i}
    /\ UNCHANGED <<reps, missed>>
    /\ Churn

CloseIndex(i) ==
    /\ i \in exist \ closed
    /\ closed' = closed \cup {i}
    /\ UNCHANGED <<exist, reps, missed>>
    /\ Churn

OpenIndex(i) ==
    /\ i \in closed
    /\ closed' = closed \ {i}
    /\ UNCHANGED <<exist, reps, missed>>
    /\ Churn

-----------------------------------------------------------------------------
Init ==
    /\ want \in Counts
    /\ tmpl \in [Templates -> Counts \cup {NoSetting}]
    /\ exist = {} /\ closed = {} /\ reps = [i \in Indices |-> Default]
    /\ pc = "idle" /\ count = Default /\ todo = {} /\ cur \in Templates
    /\ edits = 0 /\ churn = 0 /\ faults = 0
    /\ clean = FALSE /\ missed = {}

Operator ==
    \/ UpdateReplicaCount
    \/ updateAllIndexTemplateReplicas \/ updateIndexTemplateReplicas \/ TemplatesDone
    \/ updateAllIndexReplicas \/ IndicesDone
    \/ \E t \in Templates : getIndexTemplate(t)
    \/ \E i \in Indices : updateIndexReplicas(i)

Environment ==
    \/ \E n \in Counts : EditPolicy(n)
    \/ \E i \in Indices, t \in Templates : CreateIndex(i, t)
    \/ \E i \in Indices : DeleteIndex(i) \/ CloseIndex(i) \/ OpenIndex(i)

Next == Operator \/ Environment

Spec == Init /\ [][Next]_vars

\* reconciles are repeated and every request returns
FairSpec == Spec /\ WF_vars(Operator)

-----------------------------------------------------------------------------
(* Every variable keeps its type: the members of todo are templates in the
   first half of a pass and indices in the second.                         *)
TypeOK ==
    /\ want \in Counts /\ count \in Counts
    /\ tmpl \in [Templates -> Counts \cup {NoSetting}]
    /\ exist \subseteq Indices /\ closed \subseteq exist
    /\ reps \in [Indices -> Counts]
    /\ pc \in Stage /\ cur \in Templates
    /\ pc \in {"idle", "listTemplates", "listIndices"} => todo = {}
    /\ pc \in {"getTemplate", "putTemplate"} => todo \subseteq Templates
    /\ pc = "putIndex" => todo \subseteq Indices
    /\ edits \in 0..MaxEdits /\ churn \in 0..MaxChurn /\ faults \in 0..MaxFaults
    /\ clean \in BOOLEAN /\ missed \subseteq Indices

(* After a pass none of whose requests failed, every index has the count of
   that pass.  Excepted are indices that were closed when they were listed or
   written and those created since the list from a template that the pass
   does not write.  From the others, the ones it has in its list of single
   names, no index takes another count by the time UpdateReplicaCount lists
   the indices, so that the ones created while the pass was under way and
   since have it too.                                                      *)
NoneLeftBehind ==
    pc = "idle" /\ clean => \A i \in exist \ missed : reps[i] = count

(* When the indices are listed, unless a request failed, every common.* index
   template that sets a count has the one of the pass
   (updateAllIndexTemplateReplicas: "get list of all common.* index templates
   and update their replica count for each one").                          *)
TemplatesFollow ==
    pc = "listIndices" /\ clean => \A t \in Templates : tmpl[t] \in {count, NoSetting}

(* However many requests fail in passing, every open index ends with the
   count the custom resource asks for: the passes of UpdateReplicaCount are
   idempotent and repeated, and correct what a template handed out.        *)
Converges == <>[](\A i \in exist \ closed : reps[i] = want)
=============================================================================
