------------------------ MODULE IndexReplicasProofs -------------------------
(* UpdateReplicaCount leaves no index behind, for any templates, indices and
   counts, and however the requests of a pass and the log collectors, the
   curator and users interleave.                                           *)
EXTENDS IndexReplicas, TLAPS

-----------------------------------------------------------------------------
(* Types.                                                                  *)

(* The initial states are well typed.                                      *)
LEMMA TypeInit == Init => TypeOK
<1> SUFFICES ASSUME Init
             PROVE  TypeOK
  OBVIOUS
<1>1. clean \in BOOLEAN
  BY Zenon DEF Init
<1>2. edits \in 0..MaxEdits /\ churn \in 0..MaxChurn /\ faults \in 0..MaxFaults
  BY BoundsAssumption DEF Init
<1> QED
  BY <1>1, <1>2, CountsAssumption DEF Init, TypeOK, Stage

(* Every step keeps the types; todo changes from templates to indices only
   through the empty set.                                                  *)
LEMMA TypeStep == TypeOK /\ [Next]_vars => TypeOK'
<1> USE CountsAssumption, OneFieldAssumption, BoundsAssumption
<1> SUFFICES ASSUME TypeOK, [Next]_vars
             PROVE  TypeOK'
  OBVIOUS
<1>0. clean' \in BOOLEAN
  BY Zenon DEF TypeOK, Next, Operator, Environment, UpdateReplicaCount,
     updateAllIndexTemplateReplicas, updateIndexTemplateReplicas, TemplatesDone,
     updateAllIndexReplicas, IndicesDone, getIndexTemplate, updateIndexReplicas,
     EditPolicy, CreateIndex, DeleteIndex, CloseIndex, OpenIndex, Churn,
     Works, Fails, vars
<1> USE <1>0 DEF TypeOK, Stage, es, local, bounds, Works, Fails
<1>1. CASE UpdateReplicaCount
  BY <1>1 DEF UpdateReplicaCount, NextStage
<1>2. CASE updateAllIndexTemplateReplicas
  BY <1>2 DEF updateAllIndexTemplateReplicas
<1>3. CASE updateIndexTemplateReplicas
  BY <1>3 DEF updateIndexTemplateReplicas
<1>4. CASE TemplatesDone
  BY <1>4 DEF TemplatesDone, NextStage
<1>5. CASE updateAllIndexReplicas
  BY <1>5 DEF updateAllIndexReplicas
<1>6. CASE IndicesDone
  BY <1>6 DEF IndicesDone, NextStage
<1>7. ASSUME NEW t \in Templates, getIndexTemplate(t)
      PROVE  TypeOK'
  BY <1>7 DEF getIndexTemplate
<1>8. ASSUME NEW i \in Indices, updateIndexReplicas(i)
      PROVE  TypeOK'
  BY <1>8 DEF updateIndexReplicas
<1>9. ASSUME NEW n \in Counts, EditPolicy(n)
      PROVE  TypeOK'
  BY <1>9 DEF EditPolicy
<1>10. ASSUME NEW i \in Indices, NEW t \in Templates, CreateIndex(i, t)
       PROVE  TypeOK'
  BY <1>10 DEF CreateIndex, Churn
<1>11. ASSUME NEW i \in Indices, DeleteIndex(i) \/ CloseIndex(i) \/ OpenIndex(i)
       PROVE  TypeOK'
  BY <1>11 DEF DeleteIndex, CloseIndex, OpenIndex, Churn
<1>12. CASE UNCHANGED vars
  BY <1>12 DEF vars
<1> QED
  BY <1>1, <1>2, <1>3, <1>4, <1>5, <1>6, <1>7, <1>8, <1>9, <1>10, <1>11, <1>12
     DEF Next, Operator, Environment

(* The type invariant of UpdateReplicaCount's model.                       *)
THEOREM TypeCorrect == Spec => []TypeOK
  BY TypeInit, TypeStep, PTL DEF Spec

-----------------------------------------------------------------------------
(* The argument: in a pass none of whose requests failed so far, the
   templates of its list that the pass is through with hand out its count or
   none, and from the moment the indices are listed all of its list do; so an
   index the pass is through with, or that is created from one of these
   behind its back, has the count.                                         *)

Served(t) == tmpl[t] \in {count, NoSetting}

TemplatesServed ==
    clean =>
      /\ pc = "getTemplate" => \A t \in OneField \ todo : Served(t)
      /\ pc = "putTemplate" => \A t \in OneField \ (todo \cup {cur}) : Served(t)
      /\ pc \in {"idle", "listIndices", "putIndex"} => \A t \in OneField : Served(t)

IndicesServed ==
    pc = "putIndex" /\ clean =>
      \A i \in exist \ (missed \cup todo) : reps[i] = count

PassInv == TypeOK /\ TemplatesServed /\ IndicesServed /\ NoneLeftBehind

(* The first half of a pass: what updateAllIndexTemplateReplicas is through
   with stays served, since nobody else writes a template.                 *)
LEMMA TemplatesServedStep == PassInv /\ [Next]_vars => TemplatesServed'
<1> SUFFICES ASSUME PassInv, [Next]_vars
             PROVE  TemplatesServed'
  OBVIOUS
<1> USE CountsAssumption, OneFieldAssumption DEF PassInv, TypeOK, TemplatesServed, Served, es, local, bounds
<1>1. CASE UpdateReplicaCount
  BY <1>1 DEF UpdateReplicaCount, NextStage
<1>2. CASE updateAllIndexTemplateReplicas
  BY <1>2 DEF updateAllIndexTemplateReplicas, Works, Fails
<1>3. CASE updateIndexTemplateReplicas
  BY <1>3 DEF updateIndexTemplateReplicas, Works, Fails
<1>4. CASE TemplatesDone
  BY <1>4 DEF TemplatesDone, NextStage
<1>5. CASE updateAllIndexReplicas
  BY <1>5 DEF updateAllIndexReplicas, Works, Fails
<1>6. CASE IndicesDone
  BY <1>6 DEF IndicesDone, NextStage
<1>7. ASSUME NEW t \in Templates, getIndexTemplate(t)
      PROVE  TemplatesServed'
  BY <1>7 DEF getIndexTemplate, Differs, Works, Fails
<1>8. ASSUME NEW i \in Indices, updateIndexReplicas(i)
      PROVE  TemplatesServed'
  BY <1>8 DEF updateIndexReplicas, Works, Fails
<1>9. ASSUME Environment
      PROVE  TemplatesServed'
  BY <1>9 DEF Environment, EditPolicy, CreateIndex, DeleteIndex, CloseIndex, OpenIndex, Churn
<1>10. CASE UNCHANGED vars
  BY <1>10 DEF vars
<1> QED
  BY <1>1, <1>2, <1>3, <1>4, <1>5, <1>6, <1>7, <1>8, <1>9, <1>10 DEF Next, Operator

(* The second half: an index outside todo has the count of the pass, and one
   that a log collector creates takes it from a served template.           *)
LEMMA IndicesServedStep == PassInv /\ [Next]_vars => (IndicesServed /\ NoneLeftBehind)'
<1> SUFFICES ASSUME PassInv, [Next]_vars
             PROVE  (IndicesServed /\ NoneLeftBehind)'
  OBVIOUS
<1> USE CountsAssumption, OneFieldAssumption
    DEF PassInv, TypeOK, TemplatesServed, IndicesServed, NoneLeftBehind, es, local, bounds
<1>1. CASE UpdateReplicaCount
  BY <1>1 DEF UpdateReplicaCount, NextStage
<1>2. CASE updateAllIndexTemplateReplicas \/ updateIndexTemplateReplicas
  BY <1>2 DEF updateAllIndexTemplateReplicas, updateIndexTemplateReplicas, Works, Fails
<1>3. CASE TemplatesDone
  BY <1>3 DEF TemplatesDone, NextStage
<1>4. CASE updateAllIndexReplicas
  BY <1>4 DEF updateAllIndexReplicas, Differs, Works, Fails
<1>5. CASE IndicesDone
  BY <1>5 DEF IndicesDone, NextStage
<1>6. ASSUME NEW t \in Templates, getIndexTemplate(t)
      PROVE  (IndicesServed /\ NoneLeftBehind)'
  BY <1>6 DEF getIndexTemplate, Works, Fails
<1>7. ASSUME NEW i \in Indices, updateIndexReplicas(i)
      PROVE  (IndicesServed /\ NoneLeftBehind)'
  BY <1>7 DEF updateIndexReplicas, Works, Fails
<1>8. ASSUME NEW n \in Counts, EditPolicy(n)
      PROVE  (IndicesServed /\ NoneLeftBehind)'
  BY <1>8 DEF EditPolicy
<1>9. ASSUME NEW i \in Indices, NEW t \in Templates, CreateIndex(i, t)
      PROVE  (IndicesServed /\ NoneLeftBehind)'
  BY <1>9 DEF CreateIndex, Churn, Served
<1>10. ASSUME NEW i \in Indices, DeleteIndex(i) \/ CloseIndex(i) \/ OpenIndex(i)
       PROVE  (IndicesServed /\ NoneLeftBehind)'
  BY <1>10 DEF DeleteIndex, CloseIndex, OpenIndex, Churn
<1>11. CASE UNCHANGED vars
  BY <1>11 DEF vars
<1> QED
  BY <1>1, <1>2, <1>3, <1>4, <1>5, <1>6, <1>7, <1>8, <1>9, <1>10, <1>11
     DEF Next, Operator, Environment

(* A pass of UpdateReplicaCount none of whose requests failed leaves no index
   behind, whichever lines of the list of templates have one field.  If all
   do, that includes the indices created while it ran, which is what makes it
   right to write the templates before the indices are listed; if none does,
   as Elasticsearch answers, it is about the indices of its list.          *)
THEOREM CleanPassIsComplete == Spec => []NoneLeftBehind
<1>1. Init => PassInv
  BY TypeInit DEF Init, PassInv, TemplatesServed, IndicesServed, NoneLeftBehind
<1>2. PassInv /\ [Next]_vars => PassInv'
  BY TypeStep, TemplatesServedStep, IndicesServedStep DEF PassInv
<1>3. PassInv => NoneLeftBehind
  BY DEF PassInv
<1> QED
  BY <1>1, <1>2, <1>3, PTL DEF Spec
=============================================================================
