------------------------- MODULE ClusterNodesProofs -------------------------
(***************************************************************************)
(* Theorems about ClusterNodes, for any custom resources, lists of node    *)
(* groups, policies and bounds.                                            *)
(***************************************************************************)
EXTENDS ClusterNodes, FiniteSetTheorems, WellFoundedInduction, SequenceTheorems, TLAPS

-----------------------------------------------------------------------------
(* Counting roles and listing nodes, for lists of groups of any length.    *)

\* the least-number principle, from the well-foundedness of the numbers
LEMMA LeastNumber ==
    ASSUME NEW T, T \subseteq Nat, T # {}
    PROVE  \E k \in T : \A j \in T : k <= j
<1> DEFINE R == OpToRel(<, Nat)
<1>1. IsWellFoundedOn(R, Nat)
  BY NatLessThanWellFounded
<1>2. \A x, y \in Nat : x < y => <<x, y>> \in R
  BY DEF OpToRel
<1> HIDE DEF R
<1>3. PICK k \in T : \A j \in T : ~(<<j, k>> \in R)
  BY <1>1, WFMin
<1>4. \A j \in T : ~(j < k)
  BY <1>2, <1>3
<1> QED
  BY <1>4

(* The nodes of all groups, listed one group after the other (getNodes
   appends them), are nodes of the groups.                                 *)
LEMMA FlattenType ==
    ASSUME NEW S, NEW q \in Seq(Seq(S))
    PROVE  FlattenSeq(q) \in Seq(S)
<1> DEFINE n == Len(q)
           Step(g, i) == IF i = 1 THEN q[i] ELSE g[i - 1] \o q[i]
           F == CHOOSE g : g = [i \in 1..n |-> Step(g, i)]
           Some(k) == \E g : g = [i \in 1..k |-> Step(g, i)]
<1>1. n \in Nat /\ \A i \in 1..n : q[i] \in Seq(S)
  BY LenProperties, ElementOfSeq
<1>2. FlattenSeq(q) = IF n = 0 THEN q ELSE F[n]
  BY DEF FlattenSeq
<1>3. \A k \in Nat : Some(k)
  <2>1. Some(0)
    <3> DEFINE g == [i \in 1..0 |-> q[i]]
    <3>1. g = [i \in 1..0 |-> Step(g, i)]
      OBVIOUS
    <3> QED
      BY <3>1
  <2>2. ASSUME NEW k \in Nat, Some(k) PROVE Some(k + 1)
    <3>1. PICK g : g = [i \in 1..k |-> Step(g, i)]
      BY <2>2
    <3> DEFINE h == [i \in 1..k + 1 |-> Step(g, i)]
    <3>2. \A i \in 1..k : h[i] = g[i]
      <4> HIDE DEF Step
      <4>1. \A i \in 1..k : g[i] = Step(g, i)
        BY <3>1
      <4> QED
        BY <4>1
    <3>3. ASSUME NEW i \in 1..k + 1 PROVE Step(g, i) = Step(h, i)
      <4>1. CASE i = 1
        BY <4>1
      <4>2. CASE i # 1
        <5>1. i - 1 \in 1..k
          BY <4>2
        <5> HIDE DEF h
        <5>2. h[i - 1] = g[i - 1]
          BY <3>2, <5>1
        <5> QED
          BY <5>2
      <4> QED
        BY <4>1, <4>2
    <3>4. h = [i \in 1..k + 1 |-> Step(h, i)]
      BY <3>3
    <3> QED
      BY <3>4
  <2> HIDE DEF Some
  <2> DEFINE T == {k \in Nat : ~Some(k)}
  <2>3. CASE T # {}
    <3>1. PICK k \in T : \A j \in T : k <= j
      BY <2>3, LeastNumber
    <3>2. k # 0 /\ k - 1 \in Nat /\ k - 1 \notin T
      BY <2>1, <3>1
    <3> QED
      BY <2>2, <3>1, <3>2
  <2> QED
    BY <2>3
<1>4. F = [i \in 1..n |-> Step(F, i)]
  BY <1>1, <1>3
<1> HIDE DEF F
<1>5. \A i \in 1..n : F[i] \in Seq(S)
  <2> DEFINE T == {i \in 1..n : F[i] \notin Seq(S)}
  <2>1. CASE T # {}
    <3>1. PICK k \in T : \A j \in T : k <= j
      <4>1. T \subseteq Nat
        BY <1>1
      <4> HIDE DEF T
      <4> QED
        BY <2>1, <4>1, LeastNumber
    <3>2. CASE k = 1
      BY <3>1, <3>2, <1>1, <1>4
    <3>3. CASE k # 1
      <4>1. k - 1 \in 1..n /\ F[k - 1] \in Seq(S)
        BY <3>1, <3>3, <1>1
      <4>2. F[k - 1] \o q[k] \in Seq(S)
        BY <4>1, <3>1, <1>1, ConcatProperties
      <4> QED
        BY <3>1, <3>3, <4>2, <1>4
    <3> QED
      BY <3>2, <3>3
  <2> QED
    BY <2>1
<1>6. CASE n = 0
  BY <1>2, <1>6, EmptySeq
<1> QED
  BY <1>1, <1>2, <1>5, <1>6

\* CountOf, written out for the kinds of groups K that have the role
CountOfKinds(q, K) ==
    LET f[s \in SUBSET DOMAIN q] ==
          IF s = {} THEN 0
          ELSE LET x == CHOOSE x \in s : TRUE
               IN  f[s \ {x}] + (IF q[x].kind \in K THEN q[x].count ELSE 0)
    IN  f[DOMAIN q]

\* the number of nodes of a kind is a number
LEMMA CountOfKindsType ==
    ASSUME NEW q, IsFiniteSet(DOMAIN q), \A i \in DOMAIN q : q[i].count \in Nat, NEW K
    PROVE  CountOfKinds(q, K) \in Nat
<1> DEFINE D == DOMAIN q
           Pick(s) == CHOOSE x \in s : TRUE
           Weight(x) == IF q[x].kind \in K THEN q[x].count ELSE 0
           Step(g, s) == IF s = {} THEN 0 ELSE g[s \ {Pick(s)}] + Weight(Pick(s))
           F == CHOOSE g : g = [s \in SUBSET D |-> Step(g, s)]
           Small(k) == {s \in SUBSET D : Cardinality(s) <= k}
           Some(k) == \E g : g = [s \in Small(k) |-> Step(g, s)]
<1>1. CountOfKinds(q, K) = F[D]
  BY DEF CountOfKinds
<1>2. \A s \in SUBSET D : IsFiniteSet(s) /\ Cardinality(s) \in Nat
  BY FS_Subset, FS_CardinalityType
<1>3. ASSUME NEW s \in SUBSET D, s # {}
      PROVE  /\ Pick(s) \in s /\ s \ {Pick(s)} \in SUBSET D
             /\ Cardinality(s \ {Pick(s)}) = Cardinality(s) - 1
  <2>1. Pick(s) \in s
    BY <1>3
  <2> HIDE DEF Pick
  <2> QED
    BY <2>1, <1>2, FS_RemoveElement
<1>4. \A x \in D : Weight(x) \in Nat
  OBVIOUS
<1> HIDE DEF Pick, Weight
<1>5. \A k \in Nat : Some(k)
  <2>1. Some(0)
    <3> DEFINE g == [s \in Small(0) |-> 0]
    <3>1. \A s \in Small(0) : s = {}
      BY <1>2, FS_EmptySet
    <3>2. g = [s \in Small(0) |-> Step(g, s)]
      BY <3>1
    <3> QED
      BY <3>2
  <2>2. ASSUME NEW k \in Nat, Some(k) PROVE Some(k + 1)
    <3>1. PICK g : g = [s \in Small(k) |-> Step(g, s)]
      BY <2>2
    <3> DEFINE h == [s \in Small(k + 1) |-> Step(g, s)]
    <3>2. \A s \in Small(k) : h[s] = g[s]
      <4>1. Small(k) \subseteq Small(k + 1)
        BY <1>2
      <4> HIDE DEF Step, Small
      <4>2. \A s \in Small(k) : g[s] = Step(g, s)
        BY <3>1
      <4> QED
        BY <4>1, <4>2
    <3>3. ASSUME NEW s \in Small(k + 1) PROVE Step(g, s) = Step(h, s)
      <4>1. CASE s = {}
        BY <4>1
      <4>2. CASE s # {}
        <5>1. s \ {Pick(s)} \in Small(k)
          BY <4>2, <1>2, <1>3
        <5> HIDE DEF h, Small
        <5>2. h[s \ {Pick(s)}] = g[s \ {Pick(s)}]
          BY <3>2, <5>1
        <5> QED
          BY <5>2
      <4> QED
        BY <4>1, <4>2
    <3>4. h = [s \in Small(k + 1) |-> Step(h, s)]
      BY <3>3
    <3> QED
      BY <3>4
  <2> HIDE DEF Some
  <2> DEFINE T == {k \in Nat : ~Some(k)}
  <2>3. CASE T # {}
    <3>1. PICK k \in T : \A j \in T : k <= j
      BY <2>3, LeastNumber
    <3>2. k # 0 /\ k - 1 \in Nat /\ k - 1 \notin T
      BY <2>1, <3>1
    <3> QED
      BY <2>2, <3>1, <3>2
  <2> QED
    BY <2>3
<1>6. F = [s \in SUBSET D |-> Step(F, s)]
  <2>1. Small(Cardinality(D)) = SUBSET D
    <3>1. \A s \in SUBSET D : Cardinality(s) <= Cardinality(D)
      BY FS_Subset
    <3> QED
      BY <3>1
  <2>2. Some(Cardinality(D))
    BY <1>2, <1>5
  <2>3. \E g : g = [s \in SUBSET D |-> Step(g, s)]
    <3> HIDE DEF Step, Small
    <3> QED
      BY <2>1, <2>2
  <2> QED
    BY <2>3
<1> HIDE DEF F
<1>7. \A s \in SUBSET D : F[s] \in Nat
  <2> DEFINE Bad == {s \in SUBSET D : F[s] \notin Nat}
             T == {Cardinality(s) : s \in Bad}
  <2>1. CASE Bad # {}
    <3>1. PICK k \in T : \A j \in T : k <= j
      <4>1. T \subseteq Nat /\ T # {}
        BY <1>2, <2>1
      <4> HIDE DEF T
      <4> QED
        BY <4>1, LeastNumber
    <3>2. PICK s \in Bad : k = Cardinality(s)
      BY <3>1
    <3>3. F[s] = Step(F, s)
      BY <1>6, <3>2
    <3>4. CASE s = {}
      BY <3>2, <3>3, <3>4
    <3>5. CASE s # {}
      <4>1. s \ {Pick(s)} \in SUBSET D /\ Cardinality(s \ {Pick(s)}) = k - 1 /\ Pick(s) \in D
        BY <1>3, <3>2, <3>5
      <4>2. s \ {Pick(s)} \notin Bad
        <5> SUFFICES ASSUME s \ {Pick(s)} \in Bad PROVE FALSE
          OBVIOUS
        <5>1. k - 1 \in T /\ k \in Nat
          BY <4>1, <3>2, <1>2
        <5> HIDE DEF T
        <5> QED
          BY <5>1, <3>1
      <4>3. F[s \ {Pick(s)}] \in Nat
        BY <4>1, <4>2
      <4> QED
        BY <3>2, <3>3, <3>5, <4>1, <4>3, <1>4
    <3> QED
      BY <3>4, <3>5
  <2> QED
    BY <2>1
<1> QED
  BY <1>1, <1>7

\* the counts of a custom resource are numbers, whatever it asks for
LEMMA CountsType ==
    ASSUME NEW q \in Seq([kind: Kind, count: Nat, uuid: Nat])
    PROVE  getMasterCount(q) \in Nat /\ getDataCount(q) \in Nat
<1>1. getMasterCount(q) = CountOfKinds(q, {"dm", "m"})
  BY DEF getMasterCount, CountOf, isMasterNode, CountOfKinds, FoldSeq, FoldFunction,
         FoldFunctionOnSet, MapThenFoldSet
<1>2. getDataCount(q) = CountOfKinds(q, {"dm", "d"})
  BY DEF getDataCount, CountOf, isDataNode, CountOfKinds, FoldSeq, FoldFunction,
         FoldFunctionOnSet, MapThenFoldSet
<1>3. Len(q) \in Nat /\ DOMAIN q = 1..Len(q)
  BY LenProperties
<1>4. \A i \in DOMAIN q : q[i].count \in Nat
  <2> TAKE i \in DOMAIN q
  <2>1. q[i] \in [kind: Kind, count: Nat, uuid: Nat]
    BY <1>3, ElementOfSeq
  <2> QED
    BY <2>1
<1>5. IsFiniteSet(DOMAIN q)
  BY <1>3, FS_Interval
<1> QED
  BY <1>1, <1>2, <1>4, <1>5, CountOfKindsType

\* a function on an initial interval is a sequence
LEMMA IntervalIsSeq ==
    ASSUME NEW S, NEW n \in Nat, NEW f \in [1..n -> S]
    PROVE  f \in Seq(S)
BY SeqDef

(* A node derived from the custom resource is named after the roles and the
   UUID of one of its groups.                                              *)
LEMMA NodesType ==
    ASSUME NEW U, NEW q \in Seq([kind: Kind, count: Nat, uuid: U])
    PROVE  NodesOf(q) \in Seq([name: Kind \X U \X Nat, replicas: Nat])
<1> DEFINE R == [name: Kind \X U \X Nat, replicas: Nat]
           G == [kind: Kind, count: Nat, uuid: U]
           f == [i \in DOMAIN q |-> GetNodeTypeInterface(q[i])]
<1>1. Len(q) \in Nat /\ DOMAIN q = 1..Len(q) /\ \A i \in 1..Len(q) : q[i] \in G
  BY LenProperties, ElementOfSeq
<1>2. ASSUME NEW g \in G PROVE GetNodeTypeInterface(g) \in Seq(R)
  <2>1. [i \in 1..g.count |-> [name |-> <<g.kind, g.uuid, i>>, replicas |-> 1]] \in [1..g.count -> R]
    OBVIOUS
  <2>2. [i \in 1..g.count |-> [name |-> <<g.kind, g.uuid, i>>, replicas |-> 1]] \in Seq(R)
    BY <2>1, IntervalIsSeq
  <2>3. <<[name |-> <<g.kind, g.uuid, 0>>, replicas |-> g.count]>> \in Seq(R)
    OBVIOUS
  <2> QED
    BY <2>2, <2>3 DEF GetNodeTypeInterface
<1> HIDE DEF R, G
<1>3. f \in [1..Len(q) -> Seq(R)]
  BY <1>1, <1>2
<1>4. f \in Seq(Seq(R))
  BY <1>1, <1>3, IntervalIsSeq
<1>5. FlattenSeq(f) \in Seq(R)
  BY <1>4, FlattenType
<1> QED
  BY <1>5 DEF NodesOf, R

-----------------------------------------------------------------------------
(* Type correctness.                                                       *)

\* the data of a reconcile
DataTyped ==
    /\ cr \in [Clusters -> Resource] /\ dpl \in Resource /\ copy \in Resource
    /\ todo \in Seq([name: NodeName, replicas: Nat]) /\ uuids \in Nat

\* the settings the operator makes in Elasticsearch
EsTyped == min \in [Clusters -> Nat] /\ repl \in [Clusters -> Nat]

\* where the operator is, and what users and restarts have done
ControlTyped ==
    /\ edits \in 0..MaxEdits /\ crashes \in 0..MaxCrash
    /\ tampered \subseteq Clusters /\ told \subseteq Clusters \X Nat
    /\ panicked \subseteq {"flush", "index", "uuid"}
    /\ pc \in {"idle", "check", "failed", "valid", "uuid", "purgeMin", "keep",
               "loop", "create", "save", "min", "finish"}
    /\ req \in Clusters /\ idx \in Nat \ {0}

\* the flags of the operator
FlagsTyped == made \in BOOLEAN /\ wrongConfig \in BOOLEAN /\ again \in BOOLEAN

(* What the steps of a reconcile rely on: a check that exists, a node to
   create, a UUID in every group once getNodes has dereferenced them.      *)
StepsInv ==
    /\ pc = "check" => idx \in 1..4
    /\ pc \in {"create", "save", "min"} \/ (pc = "check" /\ again) => todo # <<>>
    /\ pc \in {"purgeMin", "keep"} => \A i \in DOMAIN dpl.spec : dpl.spec[i].uuid # NoUuid

TypeInv == DataTyped /\ EsTyped /\ ControlTyped /\ FlagsTyped /\ StepsInv

\* a custom resource remains one when it is written
LEMMA ResourceUpdates ==
    ASSUME NEW r \in Resource
    PROVE  /\ \A C \in SUBSET Condition : [r EXCEPT !.conds = C] \in Resource
           /\ \A S \in SUBSET NodeName : [r EXCEPT !.nodes = S] \in Resource
           /\ \A S \in SUBSET NodeName, C \in SUBSET Condition :
                 [r EXCEPT !.nodes = S, !.conds = C] \in Resource
           /\ \A s \in Seq(Group), p \in Policies :
                 [r EXCEPT !.spec = s, !.policy = p] \in Resource
BY DEF Resource

\* a resource that does not exist, and one that a user creates
LEMMA NewResources ==
    ASSUME uuids \in Nat
    PROVE  /\ NoCR \in Resource
           /\ \A l \in Lists, p \in Policies : NewCR(l, p) \in Resource
<1>1. NoCR \in Resource
  BY DEF NoCR, Resource
<1>2. ASSUME NEW l \in Lists, NEW p \in Policies PROVE NewCR(l, p) \in Resource
  <2> DEFINE s == [i \in DOMAIN l |-> [kind |-> l[i].kind, count |-> l[i].count, uuid |-> NoUuid]]
  <2>1. Len(l) \in Nat /\ DOMAIN l = 1..Len(l)
        /\ \A i \in 1..Len(l) : l[i] \in [kind: Kind, count: Nat]
    BY ListsAssumption, LenProperties, ElementOfSeq
  <2>2. s \in [1..Len(l) -> Group]
    BY <2>1 DEF Group, NoUuid
  <2>3. s \in Seq(Group)
    BY <2>1, <2>2, IntervalIsSeq
  <2>4. NewCR(l, p) = [NoCR EXCEPT !.exists = TRUE, !.spec = s, !.policy = p]
    BY DEF NewCR, Groups
  <2> HIDE DEF s
  <2> QED
    BY <2>3, <2>4 DEF NoCR, Resource
<1> QED
  BY <1>1, <1>2

\* what is well typed remains so when another UUID is drawn
LEMMA TypesGrow ==
    ASSUME uuids \in Nat, uuids' = uuids + 1
    PROVE  /\ Resource \subseteq Resource'
           /\ \A s \in Seq([name: NodeName, replicas: Nat]) : s \in Seq([name: NodeName', replicas: Nat])
<1>1. Group \subseteq Group' /\ NodeName \subseteq NodeName'
  BY DEF Group, NodeName
<1>2. \A s \in Seq(Group) : s \in Seq(Group')
  BY <1>1, SeqMonotonic
<1>3. Resource \subseteq Resource'
  <2> SUFFICES ASSUME NEW r \in Resource PROVE r \in Resource'
    OBVIOUS
  <2>1. r.spec \in Seq(Group') /\ r.nodes \subseteq NodeName'
    BY <1>1, <1>2 DEF Resource
  <2> QED
    BY <2>1 DEF Resource
<1>4. [name: NodeName, replicas: Nat] \subseteq [name: NodeName', replicas: Nat]
  BY <1>1
<1>5. \A s \in Seq([name: NodeName, replicas: Nat]) : s \in Seq([name: NodeName', replicas: Nat])
  BY <1>4, SeqMonotonic
<1> QED
  BY <1>3, <1>5

\* setUUIDs gives a group the UUID it has drawn
Drawn(r) == [r EXCEPT !.spec[idx].uuid = uuids + 1]

LEMMA DrawnType ==
    ASSUME uuids \in Nat, uuids' = uuids + 1, NEW r \in Resource, idx \in DOMAIN r.spec
    PROVE  /\ Drawn(r) \in Resource'
           /\ Drawn(r).exists = r.exists /\ Drawn(r).nodes = r.nodes /\ Drawn(r).conds = r.conds
           /\ DOMAIN Drawn(r).spec = DOMAIN r.spec
           /\ \A i \in DOMAIN r.spec : Drawn(r).spec[i].uuid = IF i = idx THEN uuids + 1 ELSE r.spec[i].uuid
<1> DEFINE g == [r.spec[idx] EXCEPT !.uuid = uuids + 1]
           s == [r.spec EXCEPT ![idx] = g]
<1>1. r.spec \in Seq(Group') /\ r \in Resource'
  BY TypesGrow DEF Resource
<1>2. Len(r.spec) \in Nat /\ DOMAIN r.spec = 1..Len(r.spec)
  BY <1>1, LenProperties
<1>3. r.spec[idx] \in Group' /\ \A i \in DOMAIN r.spec : r.spec[i] \in Group'
  BY <1>1, <1>2, ElementOfSeq
<1>4. g \in Group' /\ g.uuid = uuids + 1
  BY <1>3 DEF Group
<1> HIDE DEF g
<1>5. s \in Seq(Group') /\ DOMAIN s = DOMAIN r.spec
      /\ \A i \in DOMAIN r.spec : s[i] = IF i = idx THEN g ELSE r.spec[i]
  BY <1>1, <1>2, <1>4, ExceptSeq
<1>6. Drawn(r) = [r EXCEPT !.spec = s]
  BY DEF Drawn, g
<1> HIDE DEF s
<1> QED
  BY <1>1, <1>4, <1>5, <1>6 DEF Resource

\* the types depend on the UUIDs drawn, and on nothing else that changes
LEMMA TypesKept ==
    ASSUME UNCHANGED uuids
    PROVE  Resource' = Resource /\ NodeName' = NodeName
BY DEF Resource, Group, NodeName

\* a reconcile that returns leaves no data behind
LEMMA ReturnData ==
    ASSUME DataTyped, Return, UNCHANGED uuids, cr' \in [Clusters -> Resource]
    PROVE  DataTyped'
<1>1. dpl' = NoCR /\ copy' = NoCR /\ todo' = <<>>
  BY DEF Return
<1>2. NoCR \in Resource
  BY NewResources DEF DataTyped
<1>3. <<>> \in Seq([name: NodeName, replicas: Nat])
  BY EmptySeq
<1> QED
  BY <1>1, <1>2, <1>3, TypesKept DEF DataTyped

\* an edit keeps the UUIDs it does not take away
LEMMA EditedType ==
    ASSUME DataTyped, NEW c \in Clusters, NEW l \in Lists, NEW p \in Policies, EditSpec(c, l, p)
    PROVE  cr' \in [Clusters -> Resource]
<1> DEFINE old == cr[c].spec
           kept(i) == IF i \in DOMAIN old /\ old[i].kind = l[i].kind THEN old[i].uuid ELSE NoUuid
           new == [i \in DOMAIN l |-> [kind |-> l[i].kind, count |-> l[i].count, uuid |-> kept(i)]]
<1>1. Len(l) \in Nat /\ DOMAIN l = 1..Len(l)
      /\ \A i \in 1..Len(l) : l[i] \in [kind: Kind, count: Nat]
  BY ListsAssumption, LenProperties, ElementOfSeq
<1>2. cr[c] \in Resource /\ old \in Seq(Group) /\ uuids \in Nat
  BY DEF DataTyped, Resource
<1>3. \A i \in DOMAIN old : old[i] \in Group
  BY <1>2, LenProperties, ElementOfSeq
<1>4. \A i \in DOMAIN l : kept(i) \in 0..uuids
  BY <1>2, <1>3 DEF Group, NoUuid
<1> HIDE DEF kept
<1>5. new \in [1..Len(l) -> Group]
  BY <1>1, <1>4 DEF Group
<1>6. new \in Seq(Group)
  BY <1>1, <1>5, IntervalIsSeq
<1>7. cr' = [cr EXCEPT ![c].spec = new, ![c].policy = p]
  BY DEF EditSpec, Groups, kept
<1> HIDE DEF new
<1>8. cr' = [cr EXCEPT ![c] = [@ EXCEPT !.spec = new, !.policy = p]]
  BY <1>7, <1>2 DEF DataTyped, Resource
<1> QED
  BY <1>2, <1>6, <1>8, ResourceUpdates DEF DataTyped

\* the condition a check reports is one of the four
LEMMA ChecksType == \A i \in 1..4 : Checks[i] \in Condition
BY DEF Checks, Condition

\* every step keeps the data well typed
LEMMA DataStep == TypeInv /\ [Next]_vars => DataTyped'
<1> SUFFICES ASSUME TypeInv, [Next]_vars PROVE DataTyped'
  OBVIOUS
<1>a. /\ DataTyped /\ cr \in [Clusters -> Resource] /\ dpl \in Resource /\ copy \in Resource
      /\ todo \in Seq([name: NodeName, replicas: Nat]) /\ uuids \in Nat /\ req \in Clusters
      /\ cr[req] \in Resource
  BY DEF TypeInv, DataTyped, ControlTyped
<1>b. ASSUME UNCHANGED <<cr, uuids, dpl, todo, copy>> PROVE DataTyped'
  BY <1>a, <1>b, TypesKept DEF DataTyped
<1>1. CASE isValidConf
  <2> DEFINE cond == Checks[idx]
             old == cr[req].conds
             new(C) == [cr[req] EXCEPT !.conds = C]
  <2>1. UNCHANGED <<uuids, todo, copy>> /\ cond \in Condition
    BY <1>1, ChecksType DEF isValidConf, TypeInv, StepsInv
  <2>2. \/ UNCHANGED <<cr, dpl>>
        \/ \E C \in {old \cup {cond}, old \ {cond}} : cr' = [cr EXCEPT ![req] = new(C)] /\ dpl' = new(C)
    BY <1>1 DEF isValidConf, updateConditionWithRetry
  <2>3. \A C \in {old \cup {cond}, old \ {cond}} : C \in SUBSET Condition
    BY <2>1, <1>a DEF Resource
  <2>4. \A C \in {old \cup {cond}, old \ {cond}} : new(C) \in Resource
    BY <2>3, <1>a, ResourceUpdates
  <2> HIDE DEF new, cond, old
  <2> QED
    BY <2>1, <2>2, <2>4, <1>a, TypesKept DEF DataTyped
<1>2. CASE Fail \/ OperatorRestart
  BY <1>2, <1>a, ReturnData DEF Fail, OperatorRestart, Restart
<1>3. CASE Pass \/ PurgeMinMasters \/ UpdateReplicaCount
  BY <1>3, <1>b DEF Pass, PurgeMinMasters, UpdateReplicaCount
<1>4. CASE setUUIDs
  <2>1. CASE Panic("index") /\ UNCHANGED <<cr, uuids>>
    BY <2>1, <1>a, ReturnData DEF Panic, Restart
  <2>2. CASE UNCHANGED <<cr, uuids, todo, copy>> /\ (dpl' = dpl \/ dpl' = cr[req])
    BY <2>2, <1>a, TypesKept DEF DataTyped
  <2>3. CASE /\ uuids' = uuids + 1 /\ UNCHANGED <<todo, copy>>
             /\ \/ idx \in DOMAIN cr[req].spec /\ dpl' = Drawn(cr[req])
                \/ idx \in DOMAIN dpl.spec /\ dpl' = Drawn(dpl) /\ UNCHANGED cr
             /\ cr' = cr \/ (idx \in DOMAIN cr[req].spec /\ cr' = [cr EXCEPT ![req] = Drawn(@)])
    <3>a. uuids' = uuids + 1 /\ uuids' \in Nat
      BY <2>3, <1>a
    <3>b. todo \in Seq([name: NodeName', replicas: Nat])
      BY <3>a, <1>a, TypesGrow
    <3>c. \A r \in Resource : r \in Resource'
      BY <3>a, <1>a, TypesGrow
    <3>1. cr \in [Clusters -> Resource'] /\ copy \in Resource'
      BY <3>c, <1>a
    <3>2. dpl' \in Resource'
      BY <2>3, <1>a, DrawnType
    <3>3. idx \in DOMAIN cr[req].spec => Drawn(cr[req]) \in Resource'
      BY <2>3, <1>a, DrawnType
    <3>4. cr' \in [Clusters -> Resource']
      BY <2>3, <3>1, <3>3, <1>a
    <3> QED
      BY <2>3, <3>a, <3>b, <3>1, <3>2, <3>4 DEF DataTyped
  <2> QED
    BY <1>4, <2>1, <2>2, <2>3 DEF setUUIDs, Drawn
<1>5. CASE getNodes
  <2>1. CASE Panic("uuid")
    BY <2>1, <1>5, <1>a, ReturnData DEF getNodes, Panic, Restart
  <2>2. CASE UNCHANGED <<dpl, todo, copy>>
    BY <2>2, <1>5, <1>b DEF getNodes
  <2> QED
    BY <1>5, <2>1, <2>2 DEF getNodes
<1>6. CASE Keep
  <2>1. /\ dpl' = [dpl EXCEPT !.nodes = @ \ Purged] /\ todo' = NodesOf(dpl.spec)
        /\ UNCHANGED <<cr, uuids, copy>>
    BY <1>6 DEF Keep
  <2>2. dpl' \in Resource
    <3>1. dpl.nodes \ Purged \in SUBSET NodeName
      BY <1>a DEF Resource
    <3>2. dpl' = [dpl EXCEPT !.nodes = dpl.nodes \ Purged]
      BY <2>1
    <3> QED
      BY <3>1, <3>2, <1>a, ResourceUpdates
  <2>3. dpl.spec \in Seq([kind: Kind, count: Nat, uuid: 1..uuids])
    <3> DEFINE G == [kind: Kind, count: Nat, uuid: 1..uuids]
    <3>1. dpl.spec \in Seq(Group)
      BY <1>a DEF Resource
    <3>2. Len(dpl.spec) \in Nat /\ DOMAIN dpl.spec = 1..Len(dpl.spec)
          /\ dpl.spec \in [1..Len(dpl.spec) -> Group]
      BY <3>1, LenProperties
    <3>3. \A i \in DOMAIN dpl.spec : dpl.spec[i].uuid # NoUuid
      BY <1>6 DEF Keep, TypeInv, StepsInv
    <3>4. dpl.spec \in [1..Len(dpl.spec) -> G]
      BY <3>2, <3>3, <1>a DEF Group, NoUuid
    <3> QED
      BY <3>2, <3>4, IntervalIsSeq
  <2>4. NodesOf(dpl.spec) \in Seq([name: NodeName, replicas: Nat])
    BY <2>3, NodesType DEF NodeName
  <2> QED
    BY <2>1, <2>2, <2>4, <1>a, TypesKept DEF DataTyped
<1>7. CASE NextNode
  BY <1>7, <1>a, TypesKept DEF NextNode, DataTyped
<1>8. CASE Create
  <2>1. CASE Return
    BY <2>1, <1>8, <1>a, ReturnData DEF Create
  <2>2. CASE UNCHANGED <<dpl, todo, copy>>
    BY <2>2, <1>8, <1>b DEF Create
  <2> QED
    BY <1>8, <2>1, <2>2 DEF Create
<1>9. CASE SaveNode
  <2> DEFINE recorded == copy.nodes \cup {Head(todo).name}
             new == [cr[req] EXCEPT !.nodes = recorded, !.conds = copy.conds]
  <2>1. todo # <<>>
    BY <1>9 DEF SaveNode, TypeInv, StepsInv
  <2>2. Head(todo) \in [name: NodeName, replicas: Nat]
    BY <2>1, <1>a, HeadTailProperties
  <2>3. recorded \in SUBSET NodeName /\ copy.conds \in SUBSET Condition
    BY <2>2, <1>a DEF Resource
  <2>4. new \in Resource
    BY <2>3, <1>a, ResourceUpdates
  <2>5. UNCHANGED <<uuids, todo, copy>>
    BY <1>9 DEF SaveNode
  <2>6. UNCHANGED <<cr, dpl>> \/ ((UNCHANGED cr \/ cr' = [cr EXCEPT ![req] = new]) /\ dpl' = new)
    BY <1>9, Zenon DEF SaveNode
  <2> HIDE DEF new
  <2> QED
    BY <2>4, <2>5, <2>6, <1>a, TypesKept DEF DataTyped
<1>10. CASE UpdateMinMasters
  <2>1. todo # <<>> /\ todo' = Tail(todo) /\ UNCHANGED <<cr, dpl, uuids, copy>>
    BY <1>10 DEF UpdateMinMasters, TypeInv, StepsInv
  <2>2. Tail(todo) \in Seq([name: NodeName, replicas: Nat])
    BY <2>1, <1>a, HeadTailProperties
  <2> QED
    BY <2>1, <2>2, <1>a, TypesKept DEF DataTyped
<1>11. CASE UpdateClusterStatus
  <2> DEFINE new == [cr[req] EXCEPT !.nodes = dpl.nodes, !.conds = dpl.conds]
  <2>1. new \in Resource
    BY <1>a, ResourceUpdates DEF Resource
  <2>2. UNCHANGED cr \/ cr' = [cr EXCEPT ![req].nodes = dpl.nodes, ![req].conds = dpl.conds]
    BY <1>11 DEF UpdateClusterStatus
  <2>3. UNCHANGED cr \/ cr' = [cr EXCEPT ![req] = new]
    BY <2>2, <1>a DEF Resource
  <2> HIDE DEF new
  <2>4. cr' \in [Clusters -> Resource]
    BY <2>1, <2>3, <1>a
  <2> QED
    BY <1>11, <2>4, <1>a, ReturnData DEF UpdateClusterStatus
<1>12. CASE \E c \in Clusters : JoinCluster(c) \/ LeaveCluster(c)
  BY <1>12, <1>b DEF JoinCluster, LeaveCluster, envFrame, local
<1>13. CASE \E c \in Clusters : StartReconcile(c)
  BY <1>13, <1>a, TypesKept DEF StartReconcile, DataTyped
<1>14. CASE \E c \in Clusters : FlushNodes(c)
  <2>1. CASE Panic("flush")
    BY <2>1, <1>14, <1>a, ReturnData DEF FlushNodes, Panic, Restart
  <2>2. CASE UNCHANGED local
    BY <2>2, <1>14, <1>b DEF FlushNodes, local
  <2> QED
    BY <1>14, <2>1, <2>2 DEF FlushNodes
<1>15. CASE \E c \in Clusters : DeleteCR(c)
  <2>1. PICK c \in Clusters : cr' = [cr EXCEPT ![c] = NoCR]
    BY <1>15 DEF DeleteCR
  <2>2. UNCHANGED <<uuids, dpl, todo, copy>>
    BY <1>15 DEF DeleteCR, local
  <2> QED
    BY <2>1, <2>2, <1>a, NewResources, TypesKept DEF DataTyped
<1>16. CASE \E c \in Clusters, l \in Lists, p \in Policies : EditSpec(c, l, p)
  <2>1. cr' \in [Clusters -> Resource]
    BY <1>16, <1>a, EditedType
  <2>2. UNCHANGED <<uuids, dpl, todo, copy>>
    BY <1>16 DEF EditSpec, envFrame, local
  <2> QED
    BY <2>1, <2>2, <1>a, TypesKept DEF DataTyped
<1>17. CASE \E c \in Clusters, l \in Lists, p \in Policies : RecreateCR(c, l, p)
  <2>1. PICK c \in Clusters, l \in Lists, p \in Policies : cr' = [cr EXCEPT ![c] = NewCR(l, p)]
    BY <1>17 DEF RecreateCR
  <2>2. UNCHANGED <<uuids, dpl, todo, copy>>
    BY <1>17 DEF RecreateCR, envFrame, local
  <2> QED
    BY <2>1, <2>2, <1>a, NewResources, TypesKept DEF DataTyped
<1>18. CASE UNCHANGED vars
  BY <1>18, <1>b DEF vars, local
<1> QED
  BY <1>1, <1>2, <1>3, <1>4, <1>5, <1>6, <1>7, <1>8, <1>9, <1>10, <1>11, <1>12, <1>13, <1>14,
     <1>15, <1>16, <1>17, <1>18 DEF Next, Reconcile, Pods

\* the master and data counts of the custom resource in memory are numbers
LEMMA CountsTyped ==
    ASSUME DataTyped
    PROVE  getMasterCount(dpl.spec) \in Nat /\ getDataCount(dpl.spec) \in Nat
<1>1. dpl.spec \in Seq(Group)
  BY DEF DataTyped, Resource
<1>2. Group \subseteq [kind: Kind, count: Nat, uuid: Nat]
  BY DEF DataTyped, Group
<1>3. dpl.spec \in Seq([kind: Kind, count: Nat, uuid: Nat])
  BY <1>1, <1>2, SeqMonotonic
<1> QED
  BY <1>3, CountsType

\* what the operator sets in Elasticsearch is a number
LEMMA EsStep == TypeInv /\ [Next]_vars => EsTyped'
<1> SUFFICES ASSUME TypeInv, [Next]_vars PROVE EsTyped'
  OBVIOUS
<1>a. DataTyped /\ min \in [Clusters -> Nat] /\ repl \in [Clusters -> Nat] /\ req \in Clusters
  BY DEF TypeInv, EsTyped, ControlTyped
<1>b. ASSUME UNCHANGED es PROVE EsTyped'
  BY <1>a, <1>b DEF EsTyped, es
<1>1. CASE updateMinMasters /\ UNCHANGED repl
  <2> DEFINE desired == getMasterCount(dpl.spec) \div 2 + 1
  <2>1. desired \in Nat
    BY <1>a, CountsTyped
  <2>2. UNCHANGED min \/ min' = [min EXCEPT ![req] = desired]
    BY <1>1 DEF updateMinMasters, SetMinMasterNodes
  <2> HIDE DEF desired
  <2> QED
    BY <1>1, <1>a, <2>1, <2>2 DEF EsTyped
<1>2. CASE UpdateReplicaCount
  <2> DEFINE r == calculateReplicaCount(dpl)
  <2>1. r \in Int
    <3> DEFINE n == getDataCount(dpl.spec)
    <3>1. n \in Nat
      BY <1>a, CountsTyped
    <3>2. r = CASE dpl.policy = "Full"     -> n - 1
                [] dpl.policy = "Multiple" -> IF n = 0 THEN 0 ELSE (n - 1) \div 2
                [] dpl.policy = "Single"   -> 1
                [] dpl.policy = "Zero"     -> 0
                [] OTHER                   -> IF n = 1 THEN 0 ELSE 1
      BY DEF calculateReplicaCount
    <3> HIDE DEF n, r
    <3> QED
      BY <3>1, <3>2
  <2>2. UNCHANGED min /\ (UNCHANGED repl \/ (r >= 0 /\ repl' = [repl EXCEPT ![req] = r]))
    BY <1>2 DEF UpdateReplicaCount
  <2> HIDE DEF r
  <2> QED
    BY <1>a, <2>1, <2>2 DEF EsTyped
<1>3. CASE \E c \in Clusters : DeleteCR(c)
  BY <1>3, <1>a DEF DeleteCR, EsTyped
<1>4. CASE PurgeMinMasters \/ UpdateMinMasters
  BY <1>1, <1>4 DEF PurgeMinMasters, UpdateMinMasters
<1>5. CASE \/ isValidConf \/ Fail \/ Pass \/ setUUIDs \/ getNodes \/ Keep \/ NextNode \/ Create
           \/ SaveNode \/ UpdateClusterStatus \/ OperatorRestart
  BY <1>5, <1>b DEF isValidConf, Fail, Pass, setUUIDs, getNodes, Keep, NextNode, Create, SaveNode,
                    UpdateClusterStatus, OperatorRestart
<1>6. CASE \E c \in Clusters : JoinCluster(c) \/ LeaveCluster(c) \/ StartReconcile(c) \/ FlushNodes(c)
  BY <1>6, <1>b DEF JoinCluster, LeaveCluster, StartReconcile, FlushNodes, envFrame
<1>7. CASE \E c \in Clusters, l \in Lists, p \in Policies : EditSpec(c, l, p) \/ RecreateCR(c, l, p)
  BY <1>7, <1>b DEF EditSpec, RecreateCR, envFrame
<1>8. CASE UNCHANGED vars
  BY <1>8, <1>b DEF vars
<1> QED
  BY <1>2, <1>3, <1>4, <1>5, <1>6, <1>7, <1>8 DEF Next, Reconcile, Pods

\* the operator is at one of its steps, and the bounds hold
LEMMA ControlStep == TypeInv /\ [Next]_vars => ControlTyped'
<1> SUFFICES ASSUME TypeInv, [Next]_vars PROVE ControlTyped'
  OBVIOUS
<1> USE DEF ControlTyped
<1>a. ControlTyped
  BY DEF TypeInv
<1>b. ASSUME UNCHANGED <<edits, tampered, crashes, panicked, told, local>> PROVE ControlTyped'
  BY <1>a, <1>b DEF local
<1>1. CASE isValidConf
  <2>1. idx \in 1..4 /\ Len(Checks) = 4
    BY <1>1 DEF isValidConf, TypeInv, StepsInv, Checks
  <2>2. /\ UNCHANGED <<edits, tampered, crashes, panicked, told, req>>
        /\ pc' \in {pc, "failed", "create", "valid"} /\ idx' \in {idx, idx + 1, 1, 5}
    BY <1>1, <2>1 DEF isValidConf, NotWritten, user, hist
  <2> QED
    BY <1>a, <2>1, <2>2
<1>2. CASE Fail \/ Pass \/ PurgeMinMasters \/ Keep \/ NextNode \/ SaveNode \/ UpdateMinMasters
           \/ UpdateReplicaCount \/ UpdateClusterStatus
  BY <1>2, <1>a DEF Fail, Pass, PurgeMinMasters, Keep, NextNode, SaveNode, UpdateMinMasters,
                    UpdateReplicaCount, UpdateClusterStatus, Return, user, hist
<1>3. CASE Create
  <2>1. /\ UNCHANGED <<edits, tampered, crashes, panicked, told, req>>
        /\ pc' \in {"save", "idle"} /\ idx' \in {idx, 1}
    BY <1>3 DEF Create, Return, user, hist
  <2> QED
    BY <1>a, <2>1
<1>4. CASE setUUIDs
  <2>1. /\ UNCHANGED <<edits, tampered, crashes, told, req>> /\ idx' \in {idx + 1, 1}
        /\ pc' \in {pc, "idle"} /\ panicked' \in {panicked, panicked \cup {"index"}}
    BY <1>4 DEF setUUIDs, Panic, Restart, Return, user
  <2> QED
    BY <1>a, <2>1
<1>5. CASE getNodes
  <2>1. /\ UNCHANGED <<edits, tampered, crashes, told, req>> /\ idx' \in {idx, 1}
        /\ pc' \in {"keep", "purgeMin", "idle"} /\ panicked' \in {panicked, panicked \cup {"uuid"}}
    BY <1>5 DEF getNodes, Panic, Restart, Return, user
  <2> QED
    BY <1>a, <2>1
<1>6. CASE \E c \in Clusters : JoinCluster(c) \/ LeaveCluster(c)
  BY <1>6, <1>b DEF JoinCluster, LeaveCluster, envFrame, user, hist
<1>7. CASE \E c \in Clusters : StartReconcile(c)
  BY <1>7, <1>a DEF StartReconcile, user, hist
<1>8. CASE \E c \in Clusters : FlushNodes(c)
  <2>1. CASE Panic("flush")
    BY <1>8, <2>1, <1>a DEF FlushNodes, Panic, Restart, Return, user
  <2>2. CASE UNCHANGED <<panicked, local>>
    BY <1>8, <2>2, <1>b DEF FlushNodes, user
  <2> QED
    BY <1>8, <2>1, <2>2 DEF FlushNodes
<1>9. CASE \E c \in Clusters : DeleteCR(c)
  BY <1>9, <1>a, BoundsAssumption DEF DeleteCR, hist, local
<1>10. CASE \E c \in Clusters, l \in Lists, p \in Policies : EditSpec(c, l, p)
  <2>1. PICK c \in Clusters : edits < MaxEdits /\ edits' = edits + 1 /\ tampered' \in {tampered, tampered \cup {c}}
    BY <1>10 DEF EditSpec
  <2>2. UNCHANGED <<crashes, panicked, told, pc, req, idx>>
    BY <1>10 DEF EditSpec, envFrame, hist, local
  <2> QED
    BY <2>1, <2>2, <1>a, BoundsAssumption
<1>11. CASE \E c \in Clusters, l \in Lists, p \in Policies : RecreateCR(c, l, p)
  BY <1>11, <1>b DEF RecreateCR, envFrame, user, hist
<1>12. CASE OperatorRestart
  BY <1>12, <1>a, BoundsAssumption DEF OperatorRestart, Restart, Return, user
<1>13. CASE UNCHANGED vars
  BY <1>13, <1>b DEF vars, user, hist
<1> QED
  BY <1>1, <1>2, <1>3, <1>4, <1>5, <1>6, <1>7, <1>8, <1>9, <1>10, <1>11, <1>12, <1>13
     DEF Next, Reconcile, Pods

\* the flags stay flags
LEMMA FlagsStep == TypeInv /\ [Next]_vars => FlagsTyped'
<1> SUFFICES ASSUME TypeInv, [Next]_vars PROVE FlagsTyped'
  OBVIOUS
<1> USE DEF FlagsTyped
<1>a. FlagsTyped
  BY DEF TypeInv
<1>b. ASSUME UNCHANGED <<mem, again>> PROVE FlagsTyped'
  BY <1>a, <1>b, Zenon DEF mem
<1>c. ASSUME UNCHANGED <<made, wrongConfig>>, again' \in {TRUE, FALSE} PROVE FlagsTyped'
  BY <1>a, <1>c, Zenon
<1>d. ASSUME Restart PROVE FlagsTyped'
  BY <1>d, Zenon DEF Restart, Return
<1>1. CASE isValidConf
  BY <1>1, <1>b DEF isValidConf
<1>2. CASE Fail
  <2>1. made' = made /\ wrongConfig' = TRUE /\ again' = FALSE
    BY <1>2 DEF Fail, Return
  <2> QED
    BY <1>a, <2>1, Zenon
<1>3. CASE Pass
  <2>1. made' = made /\ wrongConfig' = FALSE /\ again' = again
    BY <1>3 DEF Pass
  <2> QED
    BY <1>a, <2>1, Zenon
<1>4. CASE setUUIDs
  <2>1. CASE Panic("index")
    BY <2>1, <1>d DEF Panic
  <2>2. CASE UNCHANGED <<mem, again>>
    BY <2>2, <1>b
  <2> QED
    BY <1>4, <2>1, <2>2 DEF setUUIDs
<1>5. CASE getNodes
  <2>1. CASE Panic("uuid")
    BY <2>1, <1>d DEF Panic
  <2>2. CASE made' = TRUE /\ UNCHANGED <<wrongConfig, again>>
    BY <2>2, <1>a, Zenon
  <2> QED
    BY <1>5, <2>1, <2>2 DEF getNodes
<1>6. CASE NextNode \/ UpdateClusterStatus
  BY <1>6, <1>c DEF NextNode, UpdateClusterStatus, Return, mem
<1>7. CASE Keep
  BY <1>7, <1>a, Zenon DEF Keep
<1>8. CASE PurgeMinMasters \/ SaveNode \/ UpdateMinMasters \/ UpdateReplicaCount
  BY <1>8, <1>b DEF PurgeMinMasters, SaveNode, UpdateMinMasters, UpdateReplicaCount
<1>9. CASE Create
  <2>1. UNCHANGED mem /\ (UNCHANGED again \/ again' = FALSE)
    BY <1>9 DEF Create, Return
  <2> QED
    BY <2>1, <1>b, <1>c DEF mem
<1>10. CASE \E c \in Clusters : StartReconcile(c)
  BY <1>10, <1>c DEF StartReconcile, mem
<1>11. CASE \E c \in Clusters : FlushNodes(c)
  <2>1. CASE Panic("flush")
    BY <2>1, <1>d DEF Panic
  <2>2. CASE UNCHANGED <<made, wrongConfig, local>>
    <3>1. UNCHANGED <<made, wrongConfig, again>>
      BY <2>2 DEF local
    <3> QED
      BY <1>a, <3>1, Zenon
  <2> QED
    BY <1>11, <2>1, <2>2 DEF FlushNodes
<1>12. CASE \E c \in Clusters : JoinCluster(c) \/ LeaveCluster(c) \/ DeleteCR(c)
  BY <1>12, <1>b DEF JoinCluster, LeaveCluster, DeleteCR, envFrame, local
<1>13. CASE \E c \in Clusters, l \in Lists, p \in Policies : EditSpec(c, l, p) \/ RecreateCR(c, l, p)
  BY <1>13, <1>b DEF EditSpec, RecreateCR, envFrame, local
<1>14. CASE OperatorRestart
  BY <1>14, <1>d DEF OperatorRestart
<1>15. CASE UNCHANGED vars
  BY <1>15, <1>b DEF vars, local
<1> QED
  BY <1>1, <1>2, <1>3, <1>4, <1>5, <1>6, <1>7, <1>8, <1>9, <1>10, <1>11, <1>12, <1>13, <1>14, <1>15
     DEF Next, Reconcile, Pods

\* the steps of a reconcile find what they rely on
LEMMA StepsStep == TypeInv /\ [Next]_vars => StepsInv'
<1> SUFFICES ASSUME TypeInv, [Next]_vars PROVE StepsInv'
  OBVIOUS
<1> USE DEF StepsInv
<1>a. StepsInv
  BY DEF TypeInv
<1>b. ASSUME UNCHANGED <<pc, dpl, again, idx, todo>> PROVE StepsInv'
  BY <1>a, <1>b
<1>c. ASSUME Return PROVE StepsInv'
  BY <1>c DEF Return
<1>1. CASE isValidConf
  <2>1. /\ pc = "check" /\ idx \in 1..4 /\ again' = again /\ todo' = todo /\ Len(Checks) = 4
        /\ \/ pc' \in {"failed", "valid"}
           \/ pc' = "create" /\ again
           \/ pc' = pc /\ idx < 4 /\ idx' = idx + 1
    BY <1>1, <1>a DEF isValidConf, Checks
  <2> QED
    BY <1>a, <2>1
<1>2. CASE Fail \/ UpdateClusterStatus \/ OperatorRestart
  BY <1>2, <1>c DEF Fail, UpdateClusterStatus, OperatorRestart, Restart
<1>3. CASE Pass \/ PurgeMinMasters \/ Keep \/ UpdateMinMasters \/ UpdateReplicaCount
  BY <1>3, <1>a DEF Pass, PurgeMinMasters, Keep, UpdateMinMasters, UpdateReplicaCount
<1>4. CASE setUUIDs
  <2>1. CASE Panic("index")
    BY <2>1, <1>c DEF Panic, Restart
  <2>2. CASE pc = "uuid" /\ UNCHANGED pc
    BY <2>2
  <2> QED
    BY <1>4, <2>1, <2>2 DEF setUUIDs
<1>5. CASE getNodes
  <2>1. CASE Panic("uuid")
    BY <2>1, <1>c DEF Panic, Restart
  <2>2. CASE /\ \A i \in DOMAIN dpl.spec : dpl.spec[i].uuid # NoUuid
             /\ pc' \in {"keep", "purgeMin"} /\ UNCHANGED dpl
    BY <2>2
  <2> QED
    BY <1>5, <2>1, <2>2 DEF getNodes
<1>6. CASE NextNode
  BY <1>6 DEF NextNode
<1>7. CASE Create
  <2>1. Return \/ (pc = "create" /\ pc' = "save" /\ UNCHANGED todo)
    BY <1>7 DEF Create
  <2> QED
    BY <2>1, <1>a, <1>c
<1>8. CASE SaveNode
  <2>1. pc = "save" /\ pc' = "min" /\ UNCHANGED todo
    BY <1>8 DEF SaveNode
  <2> QED
    BY <2>1, <1>a
<1>9. CASE \E c \in Clusters : StartReconcile(c)
  <2>1. pc' = "check" /\ idx' = 1 /\ again' = FALSE
    BY <1>9 DEF StartReconcile
  <2> QED
    BY <2>1
<1>10. CASE \E c \in Clusters : FlushNodes(c)
  BY <1>10, <1>b, <1>c DEF FlushNodes, Panic, Restart, local
<1>11. CASE \E c \in Clusters : JoinCluster(c) \/ LeaveCluster(c) \/ DeleteCR(c)
  BY <1>11, <1>b DEF JoinCluster, LeaveCluster, DeleteCR, envFrame, local
<1>12. CASE \E c \in Clusters, l \in Lists, p \in Policies : EditSpec(c, l, p) \/ RecreateCR(c, l, p)
  BY <1>12, <1>b DEF EditSpec, RecreateCR, envFrame, local
<1>13. CASE UNCHANGED vars
  BY <1>13, <1>b DEF vars, local
<1> QED
  BY <1>1, <1>2, <1>3, <1>4, <1>5, <1>6, <1>7, <1>8, <1>9, <1>10, <1>11, <1>12, <1>13
     DEF Next, Reconcile, Pods

(* The type invariant in its inductive form: the types proper, and what each
   step of a reconcile relies on.                                          *)
LEMMA TypeInvAlways == Spec => []TypeInv
<1>1. Init => TypeInv
  <2> SUFFICES ASSUME Init PROVE TypeInv
    OBVIOUS
  <2>1. uuids \in Nat /\ NoCR \in Resource /\ <<>> \in Seq([name: NodeName, replicas: Nat])
        /\ \A l \in Lists, p \in Policies : NewCR(l, p) \in Resource
    BY NewResources, EmptySeq DEF Init
  <2>2. PICK f \in [Clusters -> Lists], g \in [Clusters -> Policies] : cr = [c \in Clusters |-> NewCR(f[c], g[c])]
    BY DEF Init
  <2>3. cr \in [Clusters -> Resource]
    BY <2>1, <2>2
  <2>4. DataTyped
    BY <2>1, <2>3 DEF Init, DataTyped
  <2>5. EsTyped /\ ControlTyped /\ StepsInv
    BY BoundsAssumption DEF Init, EsTyped, ControlTyped, StepsInv
  <2>6. FlagsTyped
    BY DEF Init, FlagsTyped
  <2> QED
    BY <2>4, <2>5, <2>6 DEF TypeInv
<1>2. TypeInv /\ [Next]_vars => TypeInv'
  BY DataStep, EsStep, ControlStep, FlagsStep, StepsStep DEF TypeInv
<1> QED
  BY <1>1, <1>2, PTL DEF Spec

(* TypeOK always holds, for any custom resources, lists of node groups and
   policies.  In particular the settings computed for Elasticsearch are
   numbers, and every node a status records or a reconcile creates is named
   after a UUID that setUUIDs has drawn.                                   *)
THEOREM TypeCorrect == Spec => []TypeOK
<1>1. TypeInv => TypeOK
  BY DEF TypeInv, DataTyped, EsTyped, ControlTyped, FlagsTyped, TypeOK
<1> QED
  BY <1>1, TypeInvAlways, PTL

-----------------------------------------------------------------------------
(* The UUIDs of the groups and the nodes named after them.                 *)

\* a custom resource whose groups have kept the UUIDs they were given
Clean(c) == cr[c].exists /\ c \notin tampered

Uuids(spec) == {spec[i].uuid : i \in DOMAIN spec}    \* the UUIDs of the groups
Used(names) == {n[2] : n \in names}                  \* the UUIDs nodes are named after

\* every node a resource records is one of its groups', and it is not blamed
Sound(r) == Used(r.nodes) \subseteq Uuids(r.spec) /\ "InvalidUUID" \notin r.conds

(* Behind UUIDsBlamedRightly: the resource itself is sound, and so is all that
   a reconcile may still write to it: the resource in memory, the copy of its
   status and the nodes it is about to create, which are named after UUIDs
   the resource has kept since they were read.                             *)
RecordsInv ==
    \A c \in Clusters : (cr[c].exists \/ cr[c] = NoCR) /\ (Clean(c) => Sound(cr[c]))
LocalsInv ==
    /\ pc = "idle" => todo = <<>> /\ copy = NoCR
    /\ pc # "idle" /\ Clean(req) =>
         /\ Sound(dpl) /\ Uuids(dpl.spec) \ {NoUuid} \subseteq Uuids(cr[req].spec)
         /\ Used(copy.nodes) \subseteq Uuids(cr[req].spec) /\ "InvalidUUID" \notin copy.conds
         /\ Used(Names(todo)) \subseteq Uuids(cr[req].spec)
UuidInv == RecordsInv /\ LocalsInv

\* a node is named after a UUID that was drawn
LEMMA UsedDrawn ==
    ASSUME uuids \in Nat
    PROVE  /\ \A S \in SUBSET NodeName : NoUuid \notin Used(S)
           /\ \A s \in Seq([name: NodeName, replicas: Nat]) : Names(s) \in SUBSET NodeName
<1>1. \A n \in NodeName : n[2] # NoUuid
  BY DEF NodeName, NoUuid
<1>2. \A s \in Seq([name: NodeName, replicas: Nat]) : \A i \in DOMAIN s : s[i] \in [name: NodeName, replicas: Nat]
  BY LenProperties, ElementOfSeq
<1> QED
  BY <1>1, <1>2 DEF Used, Names

\* hasValidUUIDs, in these terms
LEMMA ValidWhenSound == \A r : Sound(r) => hasValidUUIDs(r)
BY DEF Sound, Used, Uuids, hasValidUUIDs

\* a resource nobody has worked on is sound
LEMMA NewIsSound ==
    /\ Sound(NoCR) /\ NoCR.exists = FALSE
    /\ \A l, p : Sound(NewCR(l, p)) /\ NewCR(l, p).exists = TRUE
BY DEF Sound, NoCR, NewCR, Used, Uuids

\* the nodes of a list of groups are named after the groups' UUIDs
LEMMA NodesUsed ==
    ASSUME uuids \in Nat, NEW q \in Seq(Group)
    PROVE  Used(Names(NodesOf(q))) \subseteq Uuids(q)
<1> DEFINE U == Uuids(q)
           R == [name: Kind \X U \X Nat, replicas: Nat]
<1>1. Len(q) \in Nat /\ DOMAIN q = 1..Len(q) /\ q \in [1..Len(q) -> Group]
  BY LenProperties
<1>2. q \in [1..Len(q) -> [kind: Kind, count: Nat, uuid: U]]
  BY <1>1 DEF Group, Uuids
<1>3. q \in Seq([kind: Kind, count: Nat, uuid: U])
  BY <1>1, <1>2, IntervalIsSeq
<1>4. NodesOf(q) \in Seq(R)
  BY <1>3, NodesType
<1>5. \A i \in DOMAIN NodesOf(q) : NodesOf(q)[i] \in R
  BY <1>4, LenProperties, ElementOfSeq
<1> HIDE DEF U
<1>6. \A n \in Names(NodesOf(q)) : n \in Kind \X U \X Nat
  BY <1>5 DEF Names
<1>7. \A n \in Names(NodesOf(q)) : n[2] \in U
  BY <1>6
<1> QED
  BY <1>7 DEF Used, U

\* a group is given a UUID only if it has none
LEMMA DrawnUuids ==
    ASSUME uuids \in Nat, uuids' = uuids + 1, NEW r \in Resource, idx \in DOMAIN r.spec,
           r.spec[idx].uuid = NoUuid
    PROVE  /\ Uuids(r.spec) \ {NoUuid} \subseteq Uuids(Drawn(r).spec)
           /\ Sound(r) => Sound(Drawn(r))
<1>1. Uuids(r.spec) \ {NoUuid} \subseteq Uuids(Drawn(r).spec)
  BY DrawnType DEF Uuids
<1>2. NoUuid \notin Used(r.nodes)
  BY UsedDrawn DEF Resource
<1> QED
  BY <1>1, <1>2, DrawnType DEF Sound

(* An edit that loses no UUID in use: what was named after a UUID of the
   groups still is.                                                        *)
LEMMA EditedUuids ==
    ASSUME DataTyped, NEW c \in Clusters, NEW l \in Lists, NEW p \in Policies, EditSpec(c, l, p)
    PROVE  /\ \A d \in Clusters : d # c => cr'[d] = cr[d]
           /\ cr'[c].exists = cr[c].exists /\ cr'[c].nodes = cr[c].nodes /\ cr'[c].conds = cr[c].conds
           /\ tampered \subseteq tampered'
           /\ c \notin tampered' => Uuids(cr[c].spec) \ {NoUuid} \subseteq Uuids(cr'[c].spec)
<1> DEFINE old == cr[c].spec
           kept(i) == IF i \in DOMAIN old /\ old[i].kind = l[i].kind THEN old[i].uuid ELSE NoUuid
           new == [i \in DOMAIN l |-> [kind |-> l[i].kind, count |-> l[i].count, uuid |-> kept(i)]]
           lost == \E i \in DOMAIN old : old[i].uuid # NoUuid /\ \A j \in DOMAIN new : new[j].uuid # old[i].uuid
<1>1. cr' = [cr EXCEPT ![c].spec = new, ![c].policy = p] /\ cr[c].exists
  BY DEF EditSpec, Groups
<1>2. tampered' = IF lost THEN tampered \cup {c} ELSE tampered
  BY DEF EditSpec, Groups
<1>3. ~lost => Uuids(old) \ {NoUuid} \subseteq Uuids(new)
  BY DEF Uuids
<1> HIDE DEF new, lost
<1>4. cr[c] \in Resource /\ cr \in [Clusters -> Resource]
  BY DEF DataTyped
<1>5. cr'[c] = [cr[c] EXCEPT !.spec = new, !.policy = p] /\ \A d \in Clusters : d # c => cr'[d] = cr[d]
  BY <1>1, <1>4
<1>6. cr'[c].spec = new /\ cr'[c].exists = cr[c].exists /\ cr'[c].nodes = cr[c].nodes
      /\ cr'[c].conds = cr[c].conds
  BY <1>4, <1>5 DEF Resource
<1> QED
  BY <1>2, <1>3, <1>5, <1>6

\* a check of a sound resource does not find fault with its UUIDs
LEMMA ConditionWritten ==
    ASSUME TypeInv, UuidInv, isValidConf
    PROVE  \/ UNCHANGED <<cr, dpl>>
           \/ \E C \in SUBSET Condition :
                /\ cr' = [cr EXCEPT ![req] = [cr[req] EXCEPT !.conds = C]]
                /\ dpl' = [cr[req] EXCEPT !.conds = C] /\ cr[req].exists
                /\ Clean(req) => "InvalidUUID" \notin C
<1> DEFINE cond == Checks[idx]
           old == cr[req].conds
           ok == Valid(cond, dpl)
           C == IF ~ok THEN old \cup {cond} ELSE old \ {cond}
<1>1. req \in Clusters /\ cr[req] \in Resource /\ old \in SUBSET Condition /\ cond \in Condition /\ pc = "check"
  BY ChecksType DEF TypeInv, StepsInv, ControlTyped, DataTyped, Resource, isValidConf
<1>2. C \in SUBSET Condition
  BY <1>1
<1>3. UNCHANGED <<cr, dpl>>
      \/ (cr[req].exists /\ cr' = [cr EXCEPT ![req] = [cr[req] EXCEPT !.conds = C]] /\ dpl' = [cr[req] EXCEPT !.conds = C])
  BY Zenon DEF isValidConf, updateConditionWithRetry
<1>4. ASSUME Clean(req) PROVE "InvalidUUID" \notin C
  <2>1. Sound(dpl) /\ "InvalidUUID" \notin old
    BY <1>1, <1>4 DEF UuidInv, RecordsInv, LocalsInv, Sound
  <2>2. cond = "InvalidUUID" => ok
    BY <2>1, ValidWhenSound DEF Valid
  <2> HIDE DEF cond, ok, old
  <2> QED
    BY <2>1, <2>2
<1> HIDE DEF C
<1> QED
  BY <1>2, <1>3, <1>4

\* what setUUIDs does, when no write of a UUID is lost
LEMMA UuidWritten ==
    ASSUME TypeInv, setUUIDs, MaxLost = 0
    PROVE  \/ Return /\ UNCHANGED cr
           \/ UNCHANGED <<cr, dpl, pc, req, todo, copy>>
           \/ cr[req].exists /\ dpl' = cr[req] /\ UNCHANGED <<cr, pc, req, todo, copy>>
           \/ /\ cr[req].exists
              /\ uuids' = uuids + 1 /\ idx \in DOMAIN cr[req].spec /\ cr[req].spec[idx].uuid = NoUuid
              /\ dpl' = Drawn(cr[req]) /\ cr' = [cr EXCEPT ![req] = Drawn(cr[req])]
              /\ UNCHANGED <<pc, req, todo, copy>>
           \/ ~cr[req].exists /\ UNCHANGED <<cr, pc, req, todo, copy>>
<1>1. ~(uuids < MaxLost)
  BY DEF TypeInv, DataTyped
<1> QED
  BY <1>1 DEF setUUIDs, Panic, Restart, Drawn

\* the custom resources stay sound
LEMMA RecordsStep ==
    ASSUME MaxLost = 0
    PROVE  TypeInv /\ UuidInv /\ [Next]_vars => RecordsInv'
<1> SUFFICES ASSUME TypeInv, UuidInv, [Next]_vars PROVE RecordsInv'
  OBVIOUS
<1>a. /\ RecordsInv /\ LocalsInv /\ DataTyped /\ cr \in [Clusters -> Resource] /\ dpl \in Resource
      /\ copy \in Resource /\ todo \in Seq([name: NodeName, replicas: Nat]) /\ uuids \in Nat
      /\ req \in Clusters /\ cr[req] \in Resource
  BY DEF TypeInv, UuidInv, DataTyped, ControlTyped
<1>b. ASSUME UNCHANGED <<cr, tampered>> PROVE RecordsInv'
  BY <1>a, <1>b DEF RecordsInv, Clean
\* a write by the operator of the resource it works on
<1>c. ASSUME NEW r, cr' = [cr EXCEPT ![req] = r], r.exists, Clean(req) => Sound(r), UNCHANGED tampered,
             cr[req].exists
      PROVE  RecordsInv'
  <2> SUFFICES ASSUME NEW c \in Clusters
               PROVE  (cr'[c].exists \/ cr'[c] = NoCR) /\ (Clean(c)' => Sound(cr'[c]))
    BY DEF RecordsInv
  <2>1. CASE c = req
    BY <1>a, <1>c, <2>1 DEF Clean
  <2>2. CASE c # req
    BY <1>a, <1>c, <2>2 DEF RecordsInv, Clean
  <2> QED
    BY <2>1, <2>2
<1>1. CASE isValidConf
  <2>1. UNCHANGED tampered
    BY <1>1 DEF isValidConf, user
  <2>2. CASE UNCHANGED <<cr, dpl>>
    BY <1>b, <2>1, <2>2
  <2>3. ASSUME NEW C \in SUBSET Condition, cr' = [cr EXCEPT ![req] = [cr[req] EXCEPT !.conds = C]],
               cr[req].exists, Clean(req) => "InvalidUUID" \notin C
        PROVE  RecordsInv'
    <3> DEFINE r == [cr[req] EXCEPT !.conds = C]
    <3>1. r.exists /\ r.nodes = cr[req].nodes /\ r.spec = cr[req].spec /\ r.conds = C
      BY <1>a, <2>3 DEF Resource
    <3>2. cr' = [cr EXCEPT ![req] = r]
      BY <2>3
    <3> HIDE DEF r
    <3>3. Clean(req) => Sound(r)
      BY <1>a, <2>3, <3>1 DEF RecordsInv, Sound
    <3> QED
      BY <1>c, <2>1, <2>3, <3>1, <3>2, <3>3
  <2> QED
    BY <1>1, <2>2, <2>3, ConditionWritten
<1>2. CASE setUUIDs
  <2>1. UNCHANGED tampered
    BY <1>2 DEF setUUIDs, user
  <2>2. CASE UNCHANGED cr
    BY <1>b, <2>1, <2>2
  <2>3. CASE /\ uuids' = uuids + 1 /\ idx \in DOMAIN cr[req].spec /\ cr[req].spec[idx].uuid = NoUuid
             /\ cr' = [cr EXCEPT ![req] = Drawn(cr[req])]
    <3>1. cr[req].exists /\ Drawn(cr[req]).exists = cr[req].exists
      <4>a. cr[req].spec # <<>> /\ NoCR.spec = <<>>
        BY <2>3 DEF NoCR
      <4>1. cr[req] # NoCR
        BY <4>a
      <4>2. cr[req].exists
        BY <1>a, <4>1 DEF RecordsInv
      <4> QED
        BY <1>a, <2>3, <4>2, DrawnType
    <3>2. Clean(req) => Sound(Drawn(cr[req]))
      BY <1>a, <2>3, DrawnUuids DEF RecordsInv
    <3> QED
      BY <1>c, <2>1, <2>3, <3>1, <3>2
  <2> QED
    BY <1>2, <2>2, <2>3, UuidWritten
<1>3. CASE SaveNode
  <2> DEFINE recorded == copy.nodes \cup {Head(todo).name}
             r == [cr[req] EXCEPT !.nodes = recorded, !.conds = copy.conds]
  <2>1. UNCHANGED tampered /\ todo # <<>> /\ pc # "idle"
    BY <1>3 DEF SaveNode, TypeInv, StepsInv, user
  <2>2. UNCHANGED cr \/ (cr[req].exists /\ cr' = [cr EXCEPT ![req] = r])
    BY <1>3, Zenon DEF SaveNode
  <2>3. CASE cr[req].exists /\ cr' = [cr EXCEPT ![req] = r]
    <3>1. r.exists /\ r.nodes = recorded /\ r.spec = cr[req].spec /\ r.conds = copy.conds
      BY <1>a, <2>3 DEF Resource
    <3>2. Head(todo).name \in Names(todo)
      <4>1. 1 \in DOMAIN todo /\ Head(todo) = todo[1]
        BY <1>a, <2>1, HeadTailProperties, LenProperties, EmptySeq
      <4> QED
        BY <4>1 DEF Names
    <3>3. Used(recorded) \subseteq Used(copy.nodes) \cup Used(Names(todo))
      BY <3>2 DEF Used
    <3> HIDE DEF r, recorded
    <3>4. Clean(req) => Sound(r)
      BY <1>a, <2>1, <3>1, <3>3 DEF LocalsInv, Sound
    <3> QED
      BY <1>c, <2>1, <2>3, <3>1, <3>4
  <2> QED
    BY <1>b, <2>1, <2>2, <2>3
<1>4. CASE UpdateClusterStatus
  <2> DEFINE r == [cr[req] EXCEPT !.nodes = dpl.nodes, !.conds = dpl.conds]
  <2>1. UNCHANGED tampered /\ pc # "idle"
    BY <1>4 DEF UpdateClusterStatus, user
  <2>2. UNCHANGED cr \/ (cr[req].exists /\ cr' = [cr EXCEPT ![req].nodes = dpl.nodes, ![req].conds = dpl.conds])
    BY <1>4 DEF UpdateClusterStatus
  <2>3. UNCHANGED cr \/ (cr[req].exists /\ cr' = [cr EXCEPT ![req] = r])
    BY <2>2, <1>a DEF Resource
  <2>4. r.exists = cr[req].exists /\ r.nodes = dpl.nodes /\ r.spec = cr[req].spec /\ r.conds = dpl.conds
    BY <1>a DEF Resource
  <2>5. NoUuid \notin Used(dpl.nodes)
    BY <1>a, UsedDrawn DEF Resource
  <2> HIDE DEF r
  <2>6. Clean(req) => Sound(r)
    BY <1>a, <2>1, <2>4, <2>5 DEF LocalsInv, Sound
  <2> QED
    BY <1>b, <1>c, <2>1, <2>3, <2>4, <2>6
<1>5. CASE \/ Fail \/ Pass \/ getNodes \/ PurgeMinMasters \/ Keep \/ NextNode \/ Create
           \/ UpdateMinMasters \/ UpdateReplicaCount \/ OperatorRestart
  BY <1>5, <1>b DEF Fail, Pass, getNodes, PurgeMinMasters, Keep, NextNode, Create, UpdateMinMasters,
                    UpdateReplicaCount, OperatorRestart, user
<1>6. CASE \E c \in Clusters : JoinCluster(c) \/ LeaveCluster(c) \/ StartReconcile(c) \/ FlushNodes(c)
  BY <1>6, <1>b DEF JoinCluster, LeaveCluster, StartReconcile, FlushNodes, user
<1>7. CASE \E c \in Clusters : DeleteCR(c)
  <2>1. PICK c \in Clusters : cr' = [cr EXCEPT ![c] = NoCR] /\ tampered' = tampered \ {c}
    BY <1>7 DEF DeleteCR
  <2>2. ASSUME NEW d \in Clusters, d # c
        PROVE  (cr'[d].exists \/ cr'[d] = NoCR) /\ (Clean(d)' => Sound(cr'[d]))
    BY <1>a, <2>1, <2>2 DEF RecordsInv, Clean
  <2>3. cr'[c] = NoCR
    BY <1>a, <2>1
  <2> QED
    BY <2>2, <2>3, NewIsSound DEF RecordsInv
<1>8. CASE \E c \in Clusters, l \in Lists, p \in Policies : EditSpec(c, l, p)
  <2>1. PICK c \in Clusters, l \in Lists, p \in Policies : EditSpec(c, l, p)
    BY <1>8
  <2>2. /\ \A d \in Clusters : d # c => cr'[d] = cr[d]
        /\ cr'[c].exists = cr[c].exists /\ cr'[c].nodes = cr[c].nodes /\ cr'[c].conds = cr[c].conds
        /\ tampered \subseteq tampered' /\ cr[c].exists
        /\ c \notin tampered' => Uuids(cr[c].spec) \ {NoUuid} \subseteq Uuids(cr'[c].spec)
    BY <1>a, <2>1, EditedUuids DEF EditSpec
  <2>3. NoUuid \notin Used(cr[c].nodes)
    BY <1>a, UsedDrawn DEF Resource
  <2>4. Clean(c)' => Sound(cr'[c])
    BY <1>a, <2>2, <2>3 DEF RecordsInv, Clean, Sound
  <2>5. \A d \in Clusters : d # c => (cr'[d].exists \/ cr'[d] = NoCR) /\ (Clean(d)' => Sound(cr'[d]))
    BY <1>a, <2>2 DEF RecordsInv, Clean
  <2> QED
    BY <2>2, <2>4, <2>5 DEF RecordsInv
<1>9. CASE \E c \in Clusters, l \in Lists, p \in Policies : RecreateCR(c, l, p)
  <2>1. PICK c \in Clusters, l \in Lists, p \in Policies : cr' = [cr EXCEPT ![c] = NewCR(l, p)] /\ UNCHANGED tampered
    BY <1>9 DEF RecreateCR, user
  <2>2. cr'[c] = NewCR(l, p) /\ \A d \in Clusters : d # c => cr'[d] = cr[d]
    BY <1>a, <2>1
  <2>3. \A d \in Clusters : d # c => (cr'[d].exists \/ cr'[d] = NoCR) /\ (Clean(d)' => Sound(cr'[d]))
    BY <1>a, <2>1, <2>2 DEF RecordsInv, Clean
  <2> QED
    BY <2>2, <2>3, NewIsSound DEF RecordsInv
<1>10. CASE UNCHANGED vars
  BY <1>10, <1>b DEF vars, user
<1> QED
  BY <1>1, <1>2, <1>3, <1>4, <1>5, <1>6, <1>7, <1>8, <1>9, <1>10 DEF Next, Reconcile, Pods

\* what a reconcile may still write stays sound
LEMMA LocalsStep ==
    ASSUME MaxLost = 0, "recreate" \notin Hazards
    PROVE  TypeInv /\ UuidInv /\ [Next]_vars => LocalsInv'
<1> SUFFICES ASSUME TypeInv, UuidInv, [Next]_vars PROVE LocalsInv'
  OBVIOUS
<1>a. /\ RecordsInv /\ LocalsInv /\ DataTyped /\ cr \in [Clusters -> Resource] /\ dpl \in Resource
      /\ copy \in Resource /\ todo \in Seq([name: NodeName, replicas: Nat]) /\ uuids \in Nat
      /\ req \in Clusters /\ cr[req] \in Resource
  BY DEF TypeInv, UuidInv, DataTyped, ControlTyped
<1>u. NoUuid \notin Used(dpl.nodes) /\ NoUuid \notin Used(copy.nodes) /\ NoUuid \notin Used(Names(todo))
  BY <1>a, UsedDrawn DEF Resource
<1>b. ASSUME UNCHANGED <<cr, tampered, req, dpl, todo, copy>>, pc = "idle" <=> pc' = "idle"
      PROVE  LocalsInv'
  BY <1>a, <1>b DEF LocalsInv, Clean
<1>c. ASSUME Return PROVE LocalsInv'
  BY <1>c DEF LocalsInv, Return
\* the operator rereads the resource it works on, having written r to it
<1>d. ASSUME NEW r, cr' = [cr EXCEPT ![req] = r], dpl' = r, Clean(req) => Sound(r), r.exists = cr[req].exists,
             Uuids(cr[req].spec) \ {NoUuid} \subseteq Uuids(r.spec),
             UNCHANGED <<tampered, req, todo, copy>>, pc # "idle", pc' # "idle"
      PROVE  LocalsInv'
  <2>1. cr'[req'] = r
    BY <1>a, <1>d
  <2>2. Clean(req)' => Clean(req)
    BY <1>d, <2>1 DEF Clean
  <2> QED
    BY <1>a, <1>d, <1>u, <2>1, <2>2 DEF LocalsInv
<1>1. CASE isValidConf
  <2>1. UNCHANGED <<tampered, req, todo, copy>> /\ pc # "idle" /\ pc' # "idle"
    BY <1>1 DEF isValidConf, user
  <2>2. CASE UNCHANGED <<cr, dpl>>
    BY <1>b, <2>1, <2>2
  <2>3. ASSUME NEW C \in SUBSET Condition, cr' = [cr EXCEPT ![req] = [cr[req] EXCEPT !.conds = C]],
               dpl' = [cr[req] EXCEPT !.conds = C], Clean(req) => "InvalidUUID" \notin C
        PROVE  LocalsInv'
    <3> DEFINE r == [cr[req] EXCEPT !.conds = C]
    <3>1. r.exists = cr[req].exists /\ r.nodes = cr[req].nodes /\ r.spec = cr[req].spec /\ r.conds = C
      BY <1>a DEF Resource
    <3>2. cr' = [cr EXCEPT ![req] = r] /\ dpl' = r
      BY <2>3
    <3> HIDE DEF r
    <3>3. Clean(req) => Sound(r)
      BY <1>a, <2>3, <3>1 DEF RecordsInv, Sound
    <3> QED
      BY <1>d, <2>1, <3>1, <3>2, <3>3
  <2> QED
    BY <1>1, <2>2, <2>3, ConditionWritten
<1>2. CASE setUUIDs
  <2>1. UNCHANGED tampered /\ pc = "uuid"
    BY <1>2 DEF setUUIDs, user
  <2>2. CASE UNCHANGED <<cr, dpl, pc, req, todo, copy>>
    BY <1>b, <2>1, <2>2
  <2>3. CASE cr[req].exists /\ dpl' = cr[req] /\ UNCHANGED <<cr, pc, req, todo, copy>>
    <3>1. cr' = [cr EXCEPT ![req] = cr[req]] /\ (Clean(req) => Sound(cr[req]))
      BY <1>a, <2>3 DEF RecordsInv
    <3> QED
      BY <1>d, <2>1, <2>3, <3>1
  <2>4. CASE /\ uuids' = uuids + 1 /\ idx \in DOMAIN cr[req].spec /\ cr[req].spec[idx].uuid = NoUuid
             /\ dpl' = Drawn(cr[req]) /\ cr' = [cr EXCEPT ![req] = Drawn(cr[req])]
             /\ UNCHANGED <<pc, req, todo, copy>>
    <3>1. Drawn(cr[req]).exists = cr[req].exists
      BY <1>a, <2>4, DrawnType
    <3>2. Uuids(cr[req].spec) \ {NoUuid} \subseteq Uuids(Drawn(cr[req]).spec)
      BY <1>a, <2>4, DrawnUuids
    <3>3. Clean(req) => Sound(Drawn(cr[req]))
      BY <1>a, <2>4, DrawnUuids DEF RecordsInv
    <3> QED
      BY <1>d, <2>1, <2>4, <3>1, <3>2, <3>3
  <2>5. CASE ~cr[req].exists /\ UNCHANGED <<cr, pc, req, todo, copy>>
    BY <2>1, <2>5 DEF LocalsInv, Clean
  <2> QED
    BY <1>2, <1>c, <2>2, <2>3, <2>4, <2>5, UuidWritten
<1>3. CASE getNodes
  <2>1. CASE Panic("uuid")
    BY <2>1, <1>c DEF Panic, Restart
  <2>2. CASE UNCHANGED <<req, dpl, todo, copy>> /\ pc' # "idle"
    BY <1>3, <2>2, <1>b DEF getNodes, user
  <2> QED
    BY <1>3, <2>1, <2>2 DEF getNodes
<1>4. CASE Keep
  <2>1. /\ dpl' = [dpl EXCEPT !.nodes = @ \ Purged] /\ todo' = NodesOf(dpl.spec)
        /\ UNCHANGED <<cr, tampered, req, copy>> /\ pc = "keep" /\ pc' # "idle"
    BY <1>4 DEF Keep, user
  <2>2. dpl'.nodes \subseteq dpl.nodes /\ dpl'.spec = dpl.spec /\ dpl'.conds = dpl.conds
    BY <1>a, <2>1 DEF Resource
  <2>3. Used(dpl'.nodes) \subseteq Used(dpl.nodes)
    BY <2>2 DEF Used
  <2>4. NoUuid \notin Uuids(dpl.spec)
    BY <2>1 DEF TypeInv, StepsInv, Uuids
  <2>5. Used(Names(todo')) \subseteq Uuids(dpl.spec)
    BY <1>a, <2>1, NodesUsed DEF Resource
  <2> QED
    BY <1>a, <2>1, <2>2, <2>3, <2>4, <2>5 DEF LocalsInv, Clean, Sound
<1>5. CASE NextNode
  <2>1. copy' = dpl /\ UNCHANGED <<cr, tampered, req, dpl, todo>> /\ pc = "loop" /\ pc' # "idle"
    BY <1>5 DEF NextNode, user
  <2> QED
    BY <1>a, <1>u, <2>1 DEF LocalsInv, Clean, Sound
<1>6. CASE Create
  <2>1. Return \/ (UNCHANGED <<cr, tampered, req, dpl, todo, copy>> /\ pc # "idle" /\ pc' # "idle")
    BY <1>6 DEF Create, user
  <2> QED
    BY <1>b, <1>c, <2>1
<1>7. CASE SaveNode
  <2> DEFINE recorded == copy.nodes \cup {Head(todo).name}
             r == [cr[req] EXCEPT !.nodes = recorded, !.conds = copy.conds]
  <2>1. UNCHANGED <<tampered, req, todo, copy>> /\ todo # <<>> /\ pc # "idle" /\ pc' # "idle"
    BY <1>7 DEF SaveNode, TypeInv, StepsInv, user
  <2>2. UNCHANGED <<cr, dpl>> \/ ((UNCHANGED cr \/ cr' = [cr EXCEPT ![req] = r]) /\ dpl' = r)
    BY <1>7, Zenon DEF SaveNode
  <2>3. r.exists = cr[req].exists /\ r.nodes = recorded /\ r.spec = cr[req].spec /\ r.conds = copy.conds
    BY <1>a DEF Resource
  <2>4. Head(todo).name \in Names(todo)
    <3>1. 1 \in DOMAIN todo /\ Head(todo) = todo[1]
      BY <1>a, <2>1, HeadTailProperties, LenProperties, EmptySeq
    <3> QED
      BY <3>1 DEF Names
  <2>5. Used(recorded) \subseteq Used(copy.nodes) \cup Used(Names(todo))
    BY <2>4 DEF Used
  <2> HIDE DEF r, recorded
  <2>6. Clean(req) => Sound(r)
    BY <1>a, <2>1, <2>3, <2>5 DEF LocalsInv, Sound
  <2>7. CASE cr' = [cr EXCEPT ![req] = r] /\ dpl' = r
    BY <1>d, <2>1, <2>3, <2>6, <2>7
  <2>8. CASE UNCHANGED cr /\ dpl' = r
    BY <1>a, <2>1, <2>3, <2>6, <2>8 DEF LocalsInv, Clean
  <2> QED
    BY <1>b, <2>1, <2>2, <2>7, <2>8
<1>8. CASE UpdateMinMasters
  <2>1. todo' = Tail(todo) /\ UNCHANGED <<cr, tampered, req, dpl, copy>> /\ pc = "min" /\ pc' # "idle" /\ todo # <<>>
    BY <1>8 DEF UpdateMinMasters, TypeInv, StepsInv, user
  <2>2. Names(Tail(todo)) \subseteq Names(todo)
    <3>1. /\ Len(todo) \in Nat /\ DOMAIN todo = 1..Len(todo)
          /\ Len(Tail(todo)) = Len(todo) - 1 /\ DOMAIN Tail(todo) = 1..Len(Tail(todo))
          /\ \A i \in 1..Len(Tail(todo)) : Tail(todo)[i] = todo[i + 1]
      BY <1>a, <2>1, HeadTailProperties, LenProperties
    <3>2. \A i \in DOMAIN Tail(todo) : i + 1 \in DOMAIN todo /\ Tail(todo)[i].name = todo[i + 1].name
      BY <3>1
    <3> QED
      BY <3>2 DEF Names
  <2>3. Used(Names(todo')) \subseteq Used(Names(todo))
    BY <2>1, <2>2 DEF Used
  <2> QED
    BY <1>a, <2>1, <2>3 DEF LocalsInv, Clean
<1>9. CASE Fail \/ UpdateClusterStatus \/ OperatorRestart
  BY <1>9, <1>c DEF Fail, UpdateClusterStatus, OperatorRestart, Restart
<1>10. CASE Pass \/ PurgeMinMasters \/ UpdateReplicaCount
  BY <1>10, <1>b DEF Pass, PurgeMinMasters, UpdateReplicaCount, user
<1>11. CASE \E c \in Clusters : JoinCluster(c) \/ LeaveCluster(c)
  BY <1>11, <1>b DEF JoinCluster, LeaveCluster, envFrame, user, local
<1>12. CASE \E c \in Clusters : StartReconcile(c)
  <2>1. PICK c \in Clusters : /\ pc = "idle" /\ req' = c /\ dpl' = cr[c] /\ pc' = "check"
                              /\ UNCHANGED <<cr, tampered, todo, copy>>
    BY <1>12 DEF StartReconcile, user
  <2>2. Clean(c)' => Sound(dpl')
    BY <1>a, <2>1 DEF RecordsInv, Clean
  <2>3. Used(copy.nodes) = {} /\ Used(Names(todo)) = {} /\ "InvalidUUID" \notin copy.conds
    <3>1. todo = <<>> /\ copy = NoCR
      BY <1>a, <2>1 DEF LocalsInv
    <3>2. copy.nodes = {} /\ copy.conds = {}
      BY <3>1 DEF NoCR
    <3>3. Names(todo) = {}
      BY <3>1 DEF Names
    <3> QED
      BY <3>2, <3>3 DEF Used
  <2> QED
    BY <2>1, <2>2, <2>3 DEF LocalsInv
<1>13. CASE \E c \in Clusters : FlushNodes(c)
  <2>1. CASE Panic("flush")
    BY <2>1, <1>c DEF Panic, Restart
  <2>2. CASE UNCHANGED local
    BY <1>13, <2>2, <1>b DEF FlushNodes, user, local
  <2> QED
    BY <1>13, <2>1, <2>2 DEF FlushNodes
<1>14. CASE \E c \in Clusters : DeleteCR(c)
  <2>1. PICK c \in Clusters : cr' = [cr EXCEPT ![c] = NoCR] /\ tampered' = tampered \ {c}
    BY <1>14 DEF DeleteCR
  <2>2. UNCHANGED <<pc, req, dpl, todo, copy>>
    BY <1>14 DEF DeleteCR, local
  <2>3. CASE c = req
    <3>1. ~Clean(req)'
      BY <1>a, <2>1, <2>2, <2>3, NewIsSound DEF Clean
    <3> QED
      BY <1>a, <2>2, <3>1 DEF LocalsInv
  <2>4. CASE c # req
    <3>1. cr'[req'] = cr[req] /\ (Clean(req)' => Clean(req))
      BY <1>a, <2>1, <2>2, <2>4 DEF Clean
    <3> QED
      BY <1>a, <2>2, <3>1 DEF LocalsInv
  <2> QED
    BY <2>3, <2>4
<1>15. CASE \E c \in Clusters, l \in Lists, p \in Policies : EditSpec(c, l, p)
  <2>1. PICK c \in Clusters, l \in Lists, p \in Policies : EditSpec(c, l, p)
    BY <1>15
  <2>2. /\ \A d \in Clusters : d # c => cr'[d] = cr[d]
        /\ cr'[c].exists = cr[c].exists /\ tampered \subseteq tampered'
        /\ c \notin tampered' => Uuids(cr[c].spec) \ {NoUuid} \subseteq Uuids(cr'[c].spec)
    BY <1>a, <2>1, EditedUuids
  <2>3. UNCHANGED <<pc, req, dpl, todo, copy>>
    BY <2>1 DEF EditSpec, envFrame, local
  <2>4. Clean(req)' => Clean(req) /\ Uuids(cr[req].spec) \ {NoUuid} \subseteq Uuids(cr'[req'].spec)
    BY <1>a, <2>2, <2>3 DEF Clean
  <2> QED
    BY <1>a, <1>u, <2>3, <2>4 DEF LocalsInv
<1>16. CASE \E c \in Clusters, l \in Lists, p \in Policies : RecreateCR(c, l, p)
  <2>1. PICK c \in Clusters, l \in Lists, p \in Policies :
           cr' = [cr EXCEPT ![c] = NewCR(l, p)] /\ (pc = "idle" \/ req # c) /\ UNCHANGED tampered
    BY <1>16 DEF RecreateCR, user
  <2>2. UNCHANGED <<pc, req, dpl, todo, copy>>
    BY <1>16 DEF RecreateCR, envFrame, local
  <2>3. CASE pc = "idle"
    BY <1>a, <2>2, <2>3 DEF LocalsInv
  <2>4. CASE req # c
    <3>1. cr'[req'] = cr[req] /\ (Clean(req)' => Clean(req))
      BY <1>a, <2>1, <2>2, <2>4 DEF Clean
    <3> QED
      BY <1>a, <2>2, <3>1 DEF LocalsInv
  <2> QED
    BY <2>1, <2>3, <2>4
<1>17. CASE UNCHANGED vars
  BY <1>17, <1>b DEF vars, user, local
<1> QED
  BY <1>1, <1>2, <1>3, <1>4, <1>5, <1>6, <1>7, <1>8, <1>9, <1>10, <1>11, <1>12, <1>13, <1>14,
     <1>15, <1>16, <1>17 DEF Next, Reconcile, Pods

(* As long as every UUID that setUUIDs draws is written (MaxLost = 0), a
   custom resource is refused for its UUIDs (hasValidUUIDs: "then someone did
   something bad") only if a user took away one that was in use.  Failed
   writes of statuses and conditions, failed creations, restarts in any step,
   deletions and other custom resources are allowed, but no resource is
   recreated while a reconcile still works on its predecessor: it would be
   given the old node names (README, D21).                             *)
THEOREM UsersAreBlamedRightly ==
    ASSUME MaxLost = 0, "recreate" \notin Hazards
    PROVE  Spec => []UUIDsBlamedRightly
<1>1. Init => UuidInv
  <2> SUFFICES ASSUME Init PROVE UuidInv
    OBVIOUS
  <2>1. PICK f \in [Clusters -> Lists], g \in [Clusters -> Policies] : cr = [c \in Clusters |-> NewCR(f[c], g[c])]
    BY DEF Init
  <2>2. RecordsInv
    BY <2>1, NewIsSound DEF RecordsInv
  <2>3. LocalsInv
    BY DEF Init, LocalsInv
  <2> QED
    BY <2>2, <2>3 DEF UuidInv
<1>2. TypeInv /\ UuidInv /\ [Next]_vars => UuidInv'
  BY RecordsStep, LocalsStep DEF UuidInv
<1>3. UuidInv => UUIDsBlamedRightly
  <2> SUFFICES ASSUME UuidInv, NEW c \in Clusters, "InvalidUUID" \in cr[c].conds PROVE c \in tampered
    BY DEF UUIDsBlamedRightly
  <2>1. NoCR.conds = {}
    BY DEF NoCR
  <2>2. cr[c].exists
    BY <2>1 DEF UuidInv, RecordsInv
  <2> QED
    BY <2>2 DEF UuidInv, RecordsInv, Clean, Sound
<1> QED
  BY <1>1, <1>2, <1>3, TypeInvAlways, PTL DEF Spec

-----------------------------------------------------------------------------
(* The number of masters, when users scale one group.                      *)

\* what users may ask for: one group of nodes with both roles, of any size.
\* With two groups, or one that changes its roles, nodes of a group that was
\* given up can be left over beside those of the new one
OneGroup == \A l \in Lists : Len(l) = 1 /\ l[1].kind = "dm"

One(r) == Len(r.spec) = 1 /\ r.spec[1].kind = "dm"
UuidOf(r) == r.spec[1].uuid

\* node n is one of the first k of the group
Member(n, uuid, k) == \E i \in 1..k : n = <<"dm", uuid, i>>

(* Every object is one of the first three nodes of the one group, whose UUID
   does not change once there is an object: whatever was left over by a
   failed delete or a restart has the name of a node that is allowed.      *)
ObjectsInv ==
    DOMAIN objs = Clusters /\ \A c \in Clusters :
      /\ cr[c].exists => One(cr[c])
      /\ \A n \in DOMAIN objs[c] : /\ cr[c].exists /\ UuidOf(cr[c]) # NoUuid
                                   /\ objs[c][n] = 1 /\ Member(n, UuidOf(cr[c]), maxMasterCount)

(* The nodes of a reconcile may be too many only until their number has been
   checked again, in the resource in memory they were made from.           *)
Fresh == pc = "loop" \/ (pc = "check" /\ idx = 1)
TodoInv ==
    /\ pc = "idle" => todo = <<>>
    /\ pc # "idle" /\ cr[req].exists =>
         /\ One(dpl) /\ UuidOf(dpl) \in {NoUuid, UuidOf(cr[req])}
         /\ todo # <<>> => UuidOf(cr[req]) # NoUuid
         /\ \/ \A i \in DOMAIN todo : todo[i].replicas = 1 /\ Member(todo[i].name, UuidOf(cr[req]), maxMasterCount)
            \/ Fresh /\ todo = NodesOf(dpl.spec) /\ UuidOf(dpl) # NoUuid
            \/ pc = "failed"
OneInv == ObjectsInv /\ TodoInv

\* the masters of one group are its nodes
LEMMA OneCount ==
    ASSUME NEW q \in Seq([kind: Kind, count: Nat, uuid: Nat]), Len(q) = 1, q[1].kind = "dm"
    PROVE  getMasterCount(q) = q[1].count
<1> DEFINE D == DOMAIN q
           K == {"dm", "m"}
           Pick(s) == CHOOSE x \in s : TRUE
           Weight(x) == IF q[x].kind \in K THEN q[x].count ELSE 0
           Step(g, s) == IF s = {} THEN 0 ELSE g[s \ {Pick(s)}] + Weight(Pick(s))
           F == CHOOSE g : g = [s \in SUBSET D |-> Step(g, s)]
<1>1. getMasterCount(q) = CountOfKinds(q, K)
  BY DEF getMasterCount, CountOf, isMasterNode, CountOfKinds, FoldSeq, FoldFunction,
         FoldFunctionOnSet, MapThenFoldSet
<1>2. CountOfKinds(q, K) = F[D]
  BY DEF CountOfKinds
<1>3. D = {1} /\ q[1].count \in Nat
  <2>1. DOMAIN q = 1..1
    BY LenProperties
  <2> DEFINE G == [kind: Kind, count: Nat, uuid: Nat]
  <2> HIDE DEF G
  <2>a. q \in Seq(G)
    BY DEF G
  <2>b. q[1] \in G
    BY <2>a, ElementOfSeq
  <2>2. q[1] \in [kind: Kind, count: Nat, uuid: Nat]
    BY <2>b DEF G
  <2> QED
    BY <2>1, <2>2
<1>4. Pick({1}) = 1 /\ Weight(1) = q[1].count
  OBVIOUS
<1>5. \A s \in SUBSET D : s = {} \/ s = {1}
  BY <1>3
<1> HIDE DEF Pick, Weight, D
<1>6. F = [s \in SUBSET D |-> Step(F, s)]
  <2> DEFINE g == [s \in SUBSET D |-> IF s = {} THEN 0 ELSE q[1].count]
  <2>1. g[{}] = 0 /\ {} \in SUBSET D
    OBVIOUS
  <2>2. \A s \in SUBSET D : s # {} => Step(g, s) = q[1].count
    <3> HIDE DEF g
    <3> SUFFICES Step(g, {1}) = q[1].count
      BY <1>5
    <3>1. {1} \ {Pick({1})} = {}
      BY <1>4
    <3>2. Step(g, {1}) = 0 + q[1].count
      BY <1>4, <2>1, <3>1
    <3> QED
      BY <1>3, <3>2
  <2>3. \A s \in SUBSET D : g[s] = Step(g, s)
    <3> SUFFICES ASSUME NEW s \in SUBSET D PROVE g[s] = Step(g, s)
      OBVIOUS
    <3> QED
      BY <2>2
  <2>4. g = [s \in SUBSET D |-> Step(g, s)]
    <3> HIDE DEF Step
    <3> QED
      BY <2>3
  <2> HIDE DEF g, Step
  <2> QED
    BY <2>4
<1> HIDE DEF F
<1>7. F[{}] = 0
  BY <1>6
<1>8. {1} \ {Pick({1})} = {} /\ D = {1}
  BY <1>3, <1>4
<1>9. F[{1}] = F[{}] + q[1].count
  BY <1>4, <1>6, <1>8
<1>10. F[D] = q[1].count
  BY <1>3, <1>7, <1>8, <1>9
<1> QED
  BY <1>1, <1>2, <1>10

\* the nodes of one group
LEMMA OneNodes ==
    ASSUME NEW q \in Seq([kind: Kind, count: Nat, uuid: Nat]), Len(q) = 1, q[1].kind = "dm"
    PROVE  NodesOf(q) = [i \in 1..q[1].count |-> [name |-> <<"dm", q[1].uuid, i>>, replicas |-> 1]]
<1> DEFINE f == [i \in DOMAIN q |-> GetNodeTypeInterface(q[i])]
           Step(g, i) == IF i = 1 THEN f[i] ELSE g[i - 1] \o f[i]
           F == CHOOSE g : g = [i \in 1..Len(f) |-> Step(g, i)]
<1>1. DOMAIN q = 1..1
  BY LenProperties
<1>2. Len(f) = 1
  <2>1. f \in [1..1 -> {GetNodeTypeInterface(q[1])}]
    BY <1>1
  <2>2. f \in Seq({GetNodeTypeInterface(q[1])}) /\ DOMAIN f = 1..1
    BY <2>1, IntervalIsSeq
  <2>3. DOMAIN f = 1..Len(f) /\ Len(f) \in Nat
    BY <2>2, LenProperties
  <2> HIDE DEF f
  <2> QED
    BY <2>2, <2>3
<1>3. f[1] = GetNodeTypeInterface(q[1])
  BY <1>1
<1> HIDE DEF f
<1>4. FlattenSeq(f) = F[1]
  BY <1>2 DEF FlattenSeq
<1>5. F[1] = f[1]
  <2> DEFINE g == [i \in 1..1 |-> f[1]]
  <2>1. g = [i \in 1..Len(f) |-> Step(g, i)]
    BY <1>2
  <2>2. F = [i \in 1..Len(f) |-> Step(F, i)]
    <3> HIDE DEF g, Step
    <3> QED
      BY <2>1
  <2> HIDE DEF F
  <2>3. F[1] = Step(F, 1)
    <3> HIDE DEF Step
    <3> QED
      BY <1>2, <2>2
  <2> QED
    BY <2>3
<1> QED
  BY <1>3, <1>4, <1>5 DEF NodesOf, GetNodeTypeInterface, isDataNode, f

\* three objects of one replica have three pods
LEMMA ThreePods ==
    ASSUME ObjectsInv, NEW c \in Clusters
    PROVE  IsFiniteSet(PodsOf(c)) /\ MastersIn(PodsOf(c)) <= maxMasterCount
<1> DEFINE u == UuidOf(cr[c])
           P(i) == <<<<"dm", u, i>>, 1>>
           M == {p \in PodsOf(c) : isMasterNode(p[1][1])}
           T == {P(1), P(2), P(3)}
<1>1. IsFiniteSet(T) /\ Cardinality(T) <= 3
  <2>1. IsFiniteSet({P(1)}) /\ Cardinality({P(1)}) = 1
    BY FS_Singleton
  <2> HIDE DEF P
  <2>2. IsFiniteSet({P(1), P(2)}) /\ Cardinality({P(1), P(2)}) \in {1, 2}
    <3>1. {P(1), P(2)} = {P(1)} \cup {P(2)}
      OBVIOUS
    <3> QED
      BY <2>1, <3>1, FS_AddElement
  <2>3. T = {P(1), P(2)} \cup {P(3)}
    OBVIOUS
  <2> QED
    BY <2>2, <2>3, FS_AddElement
<1>2. \A n \in DOMAIN objs[c] : objs[c][n] = 1 /\ \E i \in 1..3 : n = <<"dm", u, i>>
  BY DEF ObjectsInv, Member, maxMasterCount
<1>3. PodsOf(c) \subseteq T
  <2> SUFFICES ASSUME NEW n \in DOMAIN objs[c], NEW i \in 1..objs[c][n] PROVE <<n, i>> \in T
    BY DEF PodsOf
  <2>1. i = 1
    BY <1>2
  <2>2. n \in {<<"dm", u, 1>>, <<"dm", u, 2>>, <<"dm", u, 3>>}
    BY <1>2
  <2> QED
    BY <2>1, <2>2
<1>4. M \subseteq T /\ IsFiniteSet(PodsOf(c))
  BY <1>1, <1>3, FS_Subset
<1> HIDE DEF M, T
<1>5. IsFiniteSet(M) /\ Cardinality(M) <= Cardinality(T)
  BY <1>1, <1>4, FS_Subset
<1>6. Cardinality(M) \in Nat /\ Cardinality(T) \in Nat
  BY <1>1, <1>5, FS_CardinalityType
<1>7. Cardinality(M) <= 3
  BY <1>1, <1>5, <1>6
<1> QED
  BY <1>4, <1>7 DEF MastersIn, M, maxMasterCount


(* What a step other than a deletion does to custom resource c: it stays
   there, with one group, and the group keeps the UUID it has.             *)
SpecKept(c) ==
    /\ cr[c].exists => cr'[c].exists /\ UuidOf(cr[c]) \in {NoUuid, UuidOf(cr'[c])}
    /\ cr'[c].exists => One(cr'[c])

\* a write by the operator of the resource it works on
LEMMA WriteKeeps ==
    ASSUME TypeInv, ObjectsInv, NEW r, cr' = [cr EXCEPT ![req] = r], cr[req].exists,
           r.exists, One(r), UuidOf(cr[req]) \in {NoUuid, UuidOf(r)}
    PROVE  \A c \in Clusters : SpecKept(c)
<1>1. cr \in [Clusters -> Resource] /\ req \in Clusters
  BY DEF TypeInv, DataTyped, ControlTyped
<1> SUFFICES ASSUME NEW c \in Clusters PROVE SpecKept(c)
  OBVIOUS
<1>2. CASE c = req
  <2>1. cr'[c] = r
    BY <1>1, <1>2
  <2> QED
    BY <1>2, <2>1 DEF SpecKept
<1>3. CASE c # req
  <2>1. cr'[c] = cr[c]
    BY <1>1, <1>3
  <2> QED
    BY <2>1 DEF SpecKept, ObjectsInv
<1> QED
  BY <1>2, <1>3

\* setUUIDs changes nothing of a group but its UUID
LEMMA DrawnOne ==
    ASSUME uuids \in Nat, uuids' = uuids + 1, NEW r \in Resource, One(r), idx \in DOMAIN r.spec
    PROVE  /\ One(Drawn(r)) /\ UuidOf(Drawn(r)) = uuids + 1 /\ Drawn(r).exists = r.exists
           /\ Drawn(r).spec[1].count = r.spec[1].count
<1> DEFINE g == [r.spec[idx] EXCEPT !.uuid = uuids + 1]
           s == [r.spec EXCEPT ![idx] = g]
<1>1. r.spec \in Seq(Group) /\ Len(r.spec) = 1 /\ r.spec[1].kind = "dm"
  BY DEF Resource, One
<1>2. DOMAIN r.spec = 1..1 /\ idx = 1
  BY <1>1, LenProperties
<1>3. r.spec[1] \in Group
  BY <1>1, ElementOfSeq
<1>4. g.kind = "dm" /\ g.uuid = uuids + 1 /\ g.count = r.spec[1].count /\ g \in Group'
  BY <1>1, <1>2, <1>3 DEF Group
<1> HIDE DEF g
<1>5. r.spec \in Seq(Group')
  BY TypesGrow DEF Resource
<1>6. s \in Seq(Group') /\ Len(s) = 1 /\ s[1] = g
  BY <1>1, <1>2, <1>4, <1>5, ExceptSeq
<1>7. Drawn(r) = [r EXCEPT !.spec = s]
  BY DEF Drawn, g
<1> HIDE DEF s
<1>8. Drawn(r).spec = s /\ Drawn(r).exists = r.exists
  BY <1>7 DEF Resource
<1> QED
  BY <1>4, <1>6, <1>8 DEF One, UuidOf

\* a resource that a user creates, in a group that users may ask for
LEMMA NewOne ==
    ASSUME OneGroup, NEW l \in Lists, NEW p \in Policies
    PROVE  One(NewCR(l, p)) /\ UuidOf(NewCR(l, p)) = NoUuid /\ NewCR(l, p).exists
<1> DEFINE s == [i \in DOMAIN l |-> [kind |-> l[i].kind, count |-> l[i].count, uuid |-> NoUuid]]
           G == [kind: Kind, count: Nat]
<1>1. l \in Seq(G) /\ Len(l) = 1 /\ l[1].kind = "dm"
  BY ListsAssumption DEF OneGroup
<1>2. DOMAIN l = 1..1
  BY <1>1, LenProperties
<1>3. s \in [1..1 -> {[kind |-> l[1].kind, count |-> l[1].count, uuid |-> NoUuid]}]
  BY <1>2
<1>4. Len(s) = 1
  <2>1. s \in Seq({[kind |-> l[1].kind, count |-> l[1].count, uuid |-> NoUuid]}) /\ DOMAIN s = 1..1
    BY <1>3, IntervalIsSeq
  <2> HIDE DEF s
  <2> QED
    BY <2>1, LenProperties
<1>5. s[1].kind = "dm" /\ s[1].uuid = NoUuid
  BY <1>1, <1>2
<1>6. NewCR(l, p).spec = s /\ NewCR(l, p).exists
  BY DEF NewCR, NoCR, Groups
<1> QED
  BY <1>4, <1>5, <1>6 DEF One, UuidOf

\* an edit keeps the UUID of the group
LEMMA EditKeeps ==
    ASSUME OneGroup, TypeInv, ObjectsInv, NEW c \in Clusters, NEW l \in Lists, NEW p \in Policies, EditSpec(c, l, p)
    PROVE  /\ \A d \in Clusters : SpecKept(d)
           /\ \A d \in Clusters : cr[d].exists => cr'[d].exists /\ UuidOf(cr'[d]) = UuidOf(cr[d])
<1> DEFINE old == cr[c].spec
           kept(i) == IF i \in DOMAIN old /\ old[i].kind = l[i].kind THEN old[i].uuid ELSE NoUuid
           new == [i \in DOMAIN l |-> [kind |-> l[i].kind, count |-> l[i].count, uuid |-> kept(i)]]
           G == [kind: Kind, count: Nat]
<1>a. cr \in [Clusters -> Resource] /\ cr[c] \in Resource
  BY DEF TypeInv, DataTyped
<1>1. cr' = [cr EXCEPT ![c].spec = new, ![c].policy = p] /\ cr[c].exists
  BY DEF EditSpec, Groups
<1>2. Len(old) = 1 /\ old[1].kind = "dm" /\ old \in Seq(Group) /\ One(cr[c])
  BY <1>a, <1>1 DEF ObjectsInv, One, Resource
<1>3. DOMAIN old = 1..1
  BY <1>2, LenProperties
<1>4. l \in Seq(G) /\ Len(l) = 1 /\ l[1].kind = "dm"
  BY ListsAssumption DEF OneGroup
<1>5. DOMAIN l = 1..1
  BY <1>4, LenProperties
<1>6. new[1].kind = "dm" /\ new[1].uuid = old[1].uuid
  BY <1>2, <1>3, <1>4, <1>5
<1>7. Len(new) = 1
  <2> DEFINE g == [kind |-> l[1].kind, count |-> l[1].count, uuid |-> kept(1)]
  <2>1. new \in [1..1 -> {g}]
    BY <1>5
  <2>2. new \in Seq({g}) /\ DOMAIN new = 1..1
    BY <2>1, IntervalIsSeq
  <2> HIDE DEF new, g
  <2> QED
    BY <2>2, LenProperties
<1> HIDE DEF new
<1>8. /\ cr'[c].spec = new /\ cr'[c].exists
      /\ \A d \in Clusters : d # c => cr'[d] = cr[d]
  BY <1>a, <1>1 DEF Resource
<1>9. One(cr'[c]) /\ UuidOf(cr'[c]) = UuidOf(cr[c])
  BY <1>6, <1>7, <1>8 DEF One, UuidOf
<1> QED
  BY <1>8, <1>9 DEF SpecKept, ObjectsInv

\* the operator writes the status of the resource, never its groups
LEMMA StatusKeeps ==
    ASSUME TypeInv, ObjectsInv, isValidConf \/ SaveNode \/ UpdateClusterStatus
    PROVE  /\ \A c \in Clusters : SpecKept(c)
           /\ \A c \in Clusters : cr'[c].exists = cr[c].exists /\ cr'[c].spec = cr[c].spec
           /\ isValidConf \/ SaveNode => dpl' = dpl \/ (cr[req].exists /\ dpl'.spec = cr[req].spec)
<1>1. cr \in [Clusters -> Resource] /\ req \in Clusters /\ cr[req] \in Resource
  BY DEF TypeInv, DataTyped, ControlTyped
<1>a. ASSUME UNCHANGED cr PROVE \A c \in Clusters : SpecKept(c)
  BY <1>a DEF SpecKept, ObjectsInv
<1>b. ASSUME NEW r, cr' = [cr EXCEPT ![req] = r], cr[req].exists, r.exists = cr[req].exists, r.spec = cr[req].spec
      PROVE  /\ \A c \in Clusters : SpecKept(c)
             /\ \A c \in Clusters : cr'[c].exists = cr[c].exists /\ cr'[c].spec = cr[c].spec
  <2>1. One(r) /\ UuidOf(r) = UuidOf(cr[req])
    BY <1>1, <1>b DEF ObjectsInv, One, UuidOf
  <2>2. \A c \in Clusters : SpecKept(c)
    BY <1>b, <2>1, WriteKeeps
  <2>3. cr'[req] = r /\ \A c \in Clusters : c # req => cr'[c] = cr[c]
    BY <1>1, <1>b
  <2> QED
    BY <1>b, <2>2, <2>3
<1>2. ASSUME isValidConf
      PROVE  \/ UNCHANGED <<cr, dpl>>
             \/ \E r : /\ cr[req].exists /\ cr' = [cr EXCEPT ![req] = r] /\ dpl' = r
                       /\ r.exists = cr[req].exists /\ r.spec = cr[req].spec
  <2> DEFINE C == IF ~Valid(Checks[idx], dpl) THEN cr[req].conds \cup {Checks[idx]} ELSE cr[req].conds \ {Checks[idx]}
             r == [cr[req] EXCEPT !.conds = C]
  <2>1. UNCHANGED <<cr, dpl>> \/ (cr[req].exists /\ cr' = [cr EXCEPT ![req] = r] /\ dpl' = r)
    BY <1>2, Zenon DEF isValidConf, updateConditionWithRetry
  <2> HIDE DEF C
  <2>2. r.exists = cr[req].exists /\ r.spec = cr[req].spec
    BY <1>1 DEF Resource
  <2> HIDE DEF r
  <2> QED
    BY <2>1, <2>2
<1>3. ASSUME SaveNode
      PROVE  \/ UNCHANGED <<cr, dpl>>
             \/ \E r : /\ cr[req].exists /\ (UNCHANGED cr \/ cr' = [cr EXCEPT ![req] = r]) /\ dpl' = r
                       /\ r.exists = cr[req].exists /\ r.spec = cr[req].spec
  <2> DEFINE S == copy.nodes \cup {Head(todo).name}
             r == [cr[req] EXCEPT !.nodes = S, !.conds = copy.conds]
  <2>1. \/ UNCHANGED <<cr, dpl>>
        \/ cr[req].exists /\ (UNCHANGED cr \/ cr' = [cr EXCEPT ![req] = r]) /\ dpl' = r
    BY <1>3, Zenon DEF SaveNode
  <2> HIDE DEF S
  <2>2. r.exists = cr[req].exists /\ r.spec = cr[req].spec
    BY <1>1 DEF Resource
  <2> HIDE DEF r
  <2> QED
    BY <2>1, <2>2
<1>4. ASSUME UpdateClusterStatus
      PROVE  \/ UNCHANGED cr
             \/ \E r : /\ cr[req].exists /\ cr' = [cr EXCEPT ![req] = r]
                       /\ r.exists = cr[req].exists /\ r.spec = cr[req].spec
  <2> DEFINE r == [cr[req] EXCEPT !.nodes = dpl.nodes, !.conds = dpl.conds]
  <2>1. UNCHANGED cr \/ (cr[req].exists /\ cr' = [cr EXCEPT ![req].nodes = dpl.nodes, ![req].conds = dpl.conds])
    BY <1>4 DEF UpdateClusterStatus
  <2>2. UNCHANGED cr \/ (cr[req].exists /\ cr' = [cr EXCEPT ![req] = r])
    BY <2>1, <1>1 DEF Resource
  <2>3. r.exists = cr[req].exists /\ r.spec = cr[req].spec
    BY <1>1 DEF Resource
  <2> HIDE DEF r
  <2> QED
    BY <2>2, <2>3
<1>5. UpdateClusterStatus => ~isValidConf /\ ~SaveNode
  BY DEF UpdateClusterStatus, isValidConf, SaveNode
<1>6. UNCHANGED cr \/ \E r : /\ cr[req].exists /\ cr' = [cr EXCEPT ![req] = r]
                             /\ r.exists = cr[req].exists /\ r.spec = cr[req].spec
  BY <1>2, <1>3, <1>4
<1>7. isValidConf \/ SaveNode => dpl' = dpl \/ (cr[req].exists /\ dpl'.spec = cr[req].spec)
  BY <1>2, <1>3
<1> QED
  BY <1>a, <1>b, <1>6, <1>7

\* setUUIDs, when no write of a UUID is lost
LEMMA UuidKeeps ==
    ASSUME MaxLost = 0, TypeInv, ObjectsInv, setUUIDs
    PROVE  \A c \in Clusters : SpecKept(c)
<1>1. uuids \in Nat /\ req \in Clusters /\ cr[req] \in Resource
  BY DEF TypeInv, DataTyped, ControlTyped
<1>2. CASE UNCHANGED cr
  BY <1>2 DEF SpecKept, ObjectsInv
<1>3. CASE /\ cr[req].exists
           /\ uuids' = uuids + 1 /\ idx \in DOMAIN cr[req].spec /\ cr[req].spec[idx].uuid = NoUuid
           /\ cr' = [cr EXCEPT ![req] = Drawn(cr[req])]
  <2>1. One(cr[req])
    BY <1>1, <1>3 DEF ObjectsInv
  <2>2. idx = 1
    <3>1. cr[req].spec \in Seq(Group) /\ Len(cr[req].spec) = 1
      BY <1>1, <2>1 DEF Resource, One
    <3> QED
      BY <1>3, <3>1, LenProperties
  <2>3. UuidOf(cr[req]) = NoUuid
    BY <1>3, <2>2 DEF UuidOf
  <2>4. One(Drawn(cr[req])) /\ Drawn(cr[req]).exists
    BY <1>1, <1>3, <2>1, DrawnOne
  <2> QED
    BY <1>3, <2>3, <2>4, WriteKeeps
<1> QED
  BY <1>2, <1>3, UuidWritten

\* every step but a deletion keeps the groups of all resources
LEMMA SpecsStep ==
    ASSUME OneGroup, MaxLost = 0, TypeInv, ObjectsInv, [Next]_vars, \A c \in Clusters : ~DeleteCR(c)
    PROVE  \A c \in Clusters : SpecKept(c)
<1>a. ASSUME UNCHANGED cr PROVE \A c \in Clusters : SpecKept(c)
  BY <1>a DEF SpecKept, ObjectsInv
<1>1. CASE isValidConf \/ SaveNode \/ UpdateClusterStatus
  BY <1>1, StatusKeeps
<1>2. CASE setUUIDs
  BY <1>2, UuidKeeps
<1>3. CASE \/ Fail \/ Pass \/ getNodes \/ PurgeMinMasters \/ Keep \/ NextNode \/ Create
           \/ UpdateMinMasters \/ UpdateReplicaCount \/ OperatorRestart
  BY <1>3, <1>a DEF Fail, Pass, getNodes, PurgeMinMasters, Keep, NextNode, Create, UpdateMinMasters,
                    UpdateReplicaCount, OperatorRestart
<1>4. CASE \E c \in Clusters : JoinCluster(c) \/ LeaveCluster(c) \/ StartReconcile(c) \/ FlushNodes(c)
  BY <1>4, <1>a DEF JoinCluster, LeaveCluster, StartReconcile, FlushNodes
<1>5. CASE \E c \in Clusters, l \in Lists, p \in Policies : EditSpec(c, l, p)
  BY <1>5, EditKeeps
<1>6. CASE \E c \in Clusters, l \in Lists, p \in Policies : RecreateCR(c, l, p)
  <2>1. PICK c \in Clusters, l \in Lists, p \in Policies : ~cr[c].exists /\ cr' = [cr EXCEPT ![c] = NewCR(l, p)]
    BY <1>6 DEF RecreateCR
  <2>2. cr'[c] = NewCR(l, p) /\ \A d \in Clusters : d # c => cr'[d] = cr[d]
    BY <2>1 DEF TypeInv, DataTyped
  <2> QED
    BY <2>1, <2>2, NewOne DEF SpecKept, ObjectsInv
<1>7. CASE UNCHANGED vars
  BY <1>7, <1>a DEF vars
<1> QED
  BY <1>1, <1>2, <1>3, <1>4, <1>5, <1>6, <1>7 DEF Next, Reconcile, Pods

\* node objects stay within the group
LEMMA ObjectsStep ==
    ASSUME OneGroup, MaxLost = 0, TypeInv, OneInv, [Next]_vars
    PROVE  ObjectsInv'
<1>a. ObjectsInv /\ TodoInv /\ DOMAIN objs = Clusters /\ req \in Clusters
  BY DEF OneInv, ObjectsInv, TypeInv, ControlTyped
<1> DEFINE Kept(c) == \A n \in DOMAIN objs'[c] :
                        \/ n \in DOMAIN objs[c] /\ objs'[c][n] = objs[c][n]
                        \/ /\ cr[c].exists /\ UuidOf(cr[c]) # NoUuid
                           /\ objs'[c][n] = 1 /\ Member(n, UuidOf(cr[c]), maxMasterCount)
<1>b. ASSUME DOMAIN objs' = Clusters, \A c \in Clusters : SpecKept(c), \A c \in Clusters : Kept(c)
      PROVE  ObjectsInv'
  <2> SUFFICES ASSUME NEW c \in Clusters
               PROVE  /\ cr'[c].exists => One(cr'[c])
                      /\ \A n \in DOMAIN objs'[c] : /\ cr'[c].exists /\ UuidOf(cr'[c]) # NoUuid
                                                    /\ objs'[c][n] = 1 /\ Member(n, UuidOf(cr'[c]), maxMasterCount)
    BY <1>b DEF ObjectsInv, UuidOf, One, Member, maxMasterCount, NoUuid
  <2>1. cr'[c].exists => One(cr'[c])
    BY <1>b DEF SpecKept
  <2>2. ASSUME NEW n \in DOMAIN objs'[c]
        PROVE  /\ cr[c].exists /\ UuidOf(cr[c]) # NoUuid
               /\ objs'[c][n] = 1 /\ Member(n, UuidOf(cr[c]), maxMasterCount)
    BY <1>a, <1>b, <2>2 DEF ObjectsInv
  <2>3. ASSUME cr[c].exists, UuidOf(cr[c]) # NoUuid PROVE cr'[c].exists /\ UuidOf(cr'[c]) = UuidOf(cr[c])
    BY <1>b, <2>3 DEF SpecKept
  <2> QED
    BY <2>1, <2>2, <2>3
<1>c. ASSUME UNCHANGED objs PROVE DOMAIN objs' = Clusters /\ \A c \in Clusters : Kept(c)
  BY <1>a, <1>c
<1>1. CASE \E c \in Clusters : DeleteCR(c)
  <2>1. PICK c \in Clusters : cr' = [cr EXCEPT ![c] = NoCR] /\ objs' = [objs EXCEPT ![c] = <<>>]
    BY <1>1 DEF DeleteCR
  <2>2. /\ cr'[c] = NoCR /\ objs'[c] = <<>> /\ DOMAIN objs' = Clusters
        /\ \A d \in Clusters : d # c => cr'[d] = cr[d] /\ objs'[d] = objs[d]
    BY <1>a, <2>1 DEF TypeInv, DataTyped
  <2>3. ~NoCR.exists /\ DOMAIN <<>> = {}
    BY DEF NoCR
  <2> SUFFICES ASSUME NEW d \in Clusters
               PROVE  /\ cr'[d].exists => One(cr'[d])
                      /\ \A n \in DOMAIN objs'[d] : /\ cr'[d].exists /\ UuidOf(cr'[d]) # NoUuid
                                                    /\ objs'[d][n] = 1 /\ Member(n, UuidOf(cr'[d]), maxMasterCount)
    BY <2>2 DEF ObjectsInv, UuidOf, One, Member, maxMasterCount, NoUuid
  <2>4. CASE d = c
    BY <2>2, <2>3, <2>4
  <2>5. CASE d # c
    <3>1. cr'[d] = cr[d] /\ objs'[d] = objs[d]
      BY <2>2, <2>5
    <3> QED
      BY <1>a, <3>1 DEF ObjectsInv
  <2> QED
    BY <2>4, <2>5
<1>2. CASE \A c \in Clusters : ~DeleteCR(c)
  <2>a. \A c \in Clusters : SpecKept(c)
    BY <1>a, <1>2, SpecsStep
  <2>1. CASE Keep
    <3>1. PICK gone : objs' = [objs EXCEPT ![req] = [n \in DOMAIN @ \ gone |-> @[n]]]
      BY <2>1 DEF Keep
    <3>2. /\ DOMAIN objs' = Clusters
          /\ objs'[req] = [n \in DOMAIN objs[req] \ gone |-> objs[req][n]]
          /\ \A c \in Clusters : c # req => objs'[c] = objs[c]
      BY <1>a, <3>1
    <3>3. \A c \in Clusters : Kept(c)
      BY <3>2
    <3> QED
      BY <1>b, <2>a, <3>2, <3>3
  <2>2. CASE Create
    <3> DEFINE h == Head(todo)
               new == [m \in DOMAIN objs[req] \cup {h.name} |-> IF m = h.name THEN h.replicas ELSE objs[req][m]]
    <3>1. CASE UNCHANGED objs
      BY <1>b, <1>c, <2>a, <3>1
    <3>2. CASE cr[req].exists /\ objs' = [objs EXCEPT ![req] = new]
      <4>1. pc = "create" /\ todo # <<>>
        BY <2>2 DEF Create, TypeInv, StepsInv
      <4>2. 1 \in DOMAIN todo /\ h = todo[1]
        BY <4>1, HeadTailProperties, LenProperties, EmptySeq DEF TypeInv, DataTyped
      <4>3. /\ UuidOf(cr[req]) # NoUuid
            /\ \A i \in DOMAIN todo : todo[i].replicas = 1 /\ Member(todo[i].name, UuidOf(cr[req]), maxMasterCount)
        BY <1>a, <3>2, <4>1 DEF TodoInv, Fresh
      <4>4. h.replicas = 1 /\ Member(h.name, UuidOf(cr[req]), maxMasterCount)
        BY <4>2, <4>3
      <4> HIDE DEF h
      <4>5. /\ DOMAIN objs' = Clusters /\ objs'[req] = new
            /\ \A c \in Clusters : c # req => objs'[c] = objs[c]
        BY <1>a, <3>2
      <4>6. Kept(req)
        BY <3>2, <4>3, <4>4, <4>5
      <4>7. \A c \in Clusters : Kept(c)
        BY <4>5, <4>6
      <4> QED
        BY <1>b, <2>a, <4>5, <4>7
    <3> QED
      BY <2>2, <3>1, <3>2 DEF Create
  <2>3. CASE UNCHANGED objs
    BY <1>b, <1>c, <2>a, <2>3
  <2> QED
    BY <1>2, <2>1, <2>2, <2>3
    DEF Next, Reconcile, Pods, isValidConf, Fail, Pass, setUUIDs, getNodes, PurgeMinMasters, NextNode, SaveNode,
        UpdateMinMasters, UpdateReplicaCount, UpdateClusterStatus, JoinCluster, LeaveCluster, StartReconcile,
        FlushNodes, EditSpec, RecreateCR, OperatorRestart, kube, vars
<1> QED
  BY <1>1, <1>2

\* the nodes of a resource whose number of masters was found valid
LEMMA CheckedNodes ==
    ASSUME TypeInv, One(dpl), isValidMasterCount(dpl)
    PROVE  \A i \in DOMAIN NodesOf(dpl.spec) :
             /\ NodesOf(dpl.spec)[i].replicas = 1
             /\ Member(NodesOf(dpl.spec)[i].name, UuidOf(dpl), maxMasterCount)
<1> DEFINE q == dpl.spec
           k == q[1].count
<1>1. q \in Seq(Group) /\ Len(q) = 1 /\ q[1].kind = "dm"
  BY DEF TypeInv, DataTyped, Resource, One
<1>2. Group \subseteq [kind: Kind, count: Nat, uuid: Nat]
  BY DEF TypeInv, DataTyped, Group
<1>3. q \in Seq([kind: Kind, count: Nat, uuid: Nat])
  BY <1>1, <1>2, SeqMonotonic
<1>4. q # <<>>
  BY <1>1
<1>5. getMasterCount(q) = k
  BY <1>1, <1>3, OneCount
<1>6. k \in 1..3
  BY <1>4, <1>5 DEF isValidMasterCount, maxMasterCount
<1>7. NodesOf(q) = [i \in 1..k |-> [name |-> <<"dm", q[1].uuid, i>>, replicas |-> 1]]
  BY <1>1, <1>3, OneNodes
<1> QED
  BY <1>6, <1>7 DEF Member, UuidOf, maxMasterCount

\* what a reconcile may still create stays within the group
LEMMA TodoStep ==
    ASSUME OneGroup, MaxLost = 0, "recreate" \notin Hazards, TypeInv, OneInv, [Next]_vars
    PROVE  TodoInv'
<1> DEFINE Bounded == \A i \in DOMAIN todo : /\ todo[i].replicas = 1
                                             /\ Member(todo[i].name, UuidOf(cr[req]), maxMasterCount)
           Unchecked == Fresh /\ todo = NodesOf(dpl.spec) /\ UuidOf(dpl) # NoUuid
           Working == /\ One(dpl) /\ UuidOf(dpl) \in {NoUuid, UuidOf(cr[req])}
                      /\ todo # <<>> => UuidOf(cr[req]) # NoUuid
                      /\ Bounded \/ Unchecked \/ pc = "failed"
<1>a. /\ ObjectsInv /\ req \in Clusters /\ cr \in [Clusters -> Resource] /\ cr[req] \in Resource
      /\ todo \in Seq([name: NodeName, replicas: Nat])
  BY DEF OneInv, TypeInv, ControlTyped, DataTyped
<1>b. (pc = "idle" => todo = <<>>) /\ (pc # "idle" /\ cr[req].exists => Working)
  BY DEF OneInv, TodoInv
<1>c. ASSUME pc' = "idle" => todo' = <<>>, pc' # "idle" /\ cr'[req'].exists => Working' PROVE TodoInv'
  BY <1>c DEF TodoInv
<1>d. cr[req].exists => One(cr[req])
  BY <1>a DEF ObjectsInv
<1> HIDE DEF Working
<1>e. ASSUME Return PROVE TodoInv'
  BY <1>c, <1>e DEF Return
\* steps that change neither the nodes to create nor the resource in memory
<1>f. ASSUME UNCHANGED <<dpl, todo, req>>, pc # "idle", pc' # "idle",
             cr'[req].exists => cr[req].exists /\ UuidOf(cr'[req]) = UuidOf(cr[req]),
             Fresh => Fresh' \/ todo = <<>>, pc = "failed" => pc' = "failed"
      PROVE  TodoInv'
  <2> SUFFICES ASSUME cr'[req].exists PROVE Working'
    BY <1>c, <1>f
  <2>1. Working /\ UuidOf(cr'[req']) = UuidOf(cr[req]) /\ UuidOf(dpl') = UuidOf(dpl)
        /\ NodesOf(dpl'.spec) = NodesOf(dpl.spec) /\ (One(dpl) => One(dpl'))
    BY <1>b, <1>f
  <2>2. Bounded => Bounded'
    BY <1>f, <2>1
  <2>3. Unchecked => Unchecked' \/ todo = <<>>
    BY <1>f, <2>1 DEF NoUuid
  <2>4. todo = <<>> => Bounded
    OBVIOUS
  <2> HIDE DEF Bounded, Unchecked
  <2> QED
    BY <1>f, <2>1, <2>2, <2>3, <2>4 DEF Working, NoUuid
<1>1. CASE isValidConf
  <2> DEFINE ok == Valid(Checks[idx], dpl)
  <2>1. /\ pc = "check" /\ UNCHANGED <<req, todo>> /\ pc' \in {"check", "failed", "create", "valid"}
        /\ ok \/ pc' = "failed"
    BY <1>1 DEF isValidConf
  <2>2. /\ cr'[req].exists = cr[req].exists /\ UuidOf(cr'[req]) = UuidOf(cr[req])
        /\ dpl' = dpl \/ (cr[req].exists /\ dpl'.spec = cr[req].spec)
    BY <1>1, <1>a, StatusKeeps DEF UuidOf
  <2> SUFFICES ASSUME cr'[req].exists PROVE Working'
    BY <1>c, <2>1
  <2>3. Working
    BY <1>b, <2>1, <2>2
  <2>4. One(dpl') /\ UuidOf(dpl') \in {NoUuid, UuidOf(cr'[req'])}
    BY <1>d, <2>1, <2>2, <2>3 DEF Working, One, UuidOf
  <2>5. todo' # <<>> => UuidOf(cr'[req']) # NoUuid
    BY <2>1, <2>2, <2>3 DEF Working
  <2>6. Bounded => Bounded'
    BY <2>1, <2>2
  <2>7. ASSUME Unchecked, ok PROVE Bounded
    <3>1. idx = 1 /\ todo = NodesOf(dpl.spec) /\ UuidOf(dpl) # NoUuid
      BY <2>1, <2>7 DEF Fresh
    <3>2. isValidMasterCount(dpl)
      BY <2>7, <3>1 DEF Valid, Checks
    <3>3. One(dpl) /\ UuidOf(dpl) = UuidOf(cr[req])
      BY <2>3, <3>1 DEF Working
    <3> QED
      BY <3>1, <3>2, <3>3, CheckedNodes
  <2>8. Bounded' \/ pc' = "failed"
    <3> HIDE DEF Bounded, Unchecked, ok
    <3> QED
      BY <2>1, <2>3, <2>6, <2>7 DEF Working
  <2> HIDE DEF Bounded, Unchecked
  <2> QED
    BY <2>4, <2>5, <2>8 DEF Working, NoUuid
<1>2. CASE Fail \/ UpdateClusterStatus \/ OperatorRestart
  BY <1>2, <1>e DEF Fail, UpdateClusterStatus, OperatorRestart, Restart
<1>3. CASE setUUIDs
  <2>1. CASE Return
    BY <1>e, <2>1
  <2>2. ASSUME UNCHANGED <<cr, dpl, pc, req, todo>> PROVE TodoInv'
    <3>1. pc = "uuid"
      BY <1>3 DEF setUUIDs
    <3> QED
      BY <1>f, <2>2, <3>1 DEF Fresh
  <2>3. ASSUME ~cr[req].exists, UNCHANGED <<cr, pc, req, todo>> PROVE TodoInv'
    BY <1>b, <1>c, <2>3
  <2>4. ASSUME cr[req].exists, UNCHANGED <<pc, req, todo>>, pc = "uuid", One(dpl'),
               UuidOf(dpl') = UuidOf(cr'[req]), UuidOf(cr[req]) \in {NoUuid, UuidOf(cr'[req])}
        PROVE  TodoInv'
    <3>1. Working /\ ~Fresh
      BY <1>b, <2>4 DEF Fresh
    <3>2. Bounded /\ (todo # <<>> => UuidOf(cr[req]) # NoUuid)
      BY <2>4, <3>1 DEF Working
    <3>3. Bounded'
      <4>1. CASE todo = <<>>
        BY <2>4, <4>1
      <4>2. CASE UuidOf(cr'[req']) = UuidOf(cr[req])
        BY <2>4, <3>2, <4>2
      <4> QED
        BY <2>4, <3>2, <4>1, <4>2
    <3>4. todo' # <<>> => UuidOf(cr'[req']) # NoUuid
      BY <2>4, <3>2
    <3>5. One(dpl') /\ UuidOf(dpl') = UuidOf(cr'[req'])
      BY <2>4
    <3> HIDE DEF Bounded, Unchecked
    <3>6. Working'
      BY <3>3, <3>4, <3>5 DEF Working, NoUuid
    <3> QED
      BY <1>c, <2>4, <3>6
  <2>5. ASSUME cr[req].exists, dpl' = cr[req], UNCHANGED <<cr, pc, req, todo>> PROVE TodoInv'
    <3>1. pc = "uuid" /\ One(dpl') /\ UuidOf(dpl') = UuidOf(cr'[req]) /\ UuidOf(cr[req]) = UuidOf(cr'[req])
      BY <1>3, <1>d, <2>5 DEF setUUIDs
    <3> QED
      BY <2>4, <2>5, <3>1
  <2>6. ASSUME cr[req].exists,
               uuids' = uuids + 1, idx \in DOMAIN cr[req].spec, cr[req].spec[idx].uuid = NoUuid,
               dpl' = Drawn(cr[req]), cr' = [cr EXCEPT ![req] = Drawn(cr[req])], UNCHANGED <<pc, req, todo>>
        PROVE  TodoInv'
    <3>1. pc = "uuid" /\ cr'[req] = Drawn(cr[req]) /\ One(dpl')
      BY <1>3, <1>a, <1>d, <2>6, DrawnOne DEF setUUIDs, TypeInv, DataTyped
    <3>2. UuidOf(cr[req]) \in {NoUuid, UuidOf(cr'[req])}
      BY <1>3, <1>a, <2>6, UuidKeeps DEF SpecKept
    <3>3. UuidOf(dpl') = UuidOf(cr'[req])
      BY <2>6, <3>1
    <3> QED
      BY <2>4, <2>6, <3>1, <3>2, <3>3
  <2> QED
    BY <1>3, <2>1, <2>2, <2>3, <2>5, <2>6, UuidWritten
<1>4. CASE \/ Pass \/ getNodes \/ PurgeMinMasters
  <2>1. CASE Return
    BY <1>e, <2>1
  <2>2. CASE pc \in {"valid", "uuid", "purgeMin"} /\ pc' # "idle" /\ UNCHANGED <<cr, dpl, todo, req>>
    BY <1>f, <2>2 DEF Fresh
  <2> QED
    BY <1>4, <2>1, <2>2 DEF Pass, getNodes, PurgeMinMasters, Panic, Restart
<1>5. CASE Keep
  <2>1. /\ pc = "keep" /\ pc' = "loop" /\ UNCHANGED <<cr, req>> /\ todo' = NodesOf(dpl.spec)
        /\ dpl' = [dpl EXCEPT !.nodes = @ \ Purged]
    BY <1>5 DEF Keep
  <2>2. dpl'.spec = dpl.spec
    BY <2>1 DEF TypeInv, DataTyped, Resource
  <2> SUFFICES ASSUME cr[req].exists PROVE Working'
    BY <1>c, <2>1
  <2>3. Working
    BY <1>b, <2>1
  <2>4. UuidOf(dpl) # NoUuid
    <3>1. dpl.spec \in Seq(Group) /\ Len(dpl.spec) = 1
      BY <2>3 DEF Working, One, TypeInv, DataTyped, Resource
    <3>2. 1 \in DOMAIN dpl.spec
      BY <3>1, LenProperties
    <3> QED
      BY <2>1, <3>2 DEF TypeInv, StepsInv, UuidOf
  <2>5. One(dpl') /\ UuidOf(dpl') = UuidOf(dpl) /\ UuidOf(dpl) = UuidOf(cr[req])
    BY <2>2, <2>3, <2>4 DEF Working, One, UuidOf
  <2>6. Unchecked'
    BY <2>1, <2>2, <2>4, <2>5 DEF Fresh, NoUuid
  <2>7. UuidOf(cr'[req']) = UuidOf(cr[req])
    BY <2>1
  <2> HIDE DEF Bounded, Unchecked
  <2> QED
    BY <2>4, <2>5, <2>6, <2>7 DEF Working, NoUuid
<1>6. CASE NextNode \/ UpdateReplicaCount
  <2>1. /\ pc = "loop" /\ pc' # "idle" /\ UNCHANGED <<cr, dpl, todo, req>>
        /\ Fresh' \/ todo = <<>>
    BY <1>6 DEF NextNode, UpdateReplicaCount, Fresh
  <2> QED
    BY <1>f, <2>1
<1>7. CASE Create
  <2>1. CASE Return
    BY <1>e, <2>1
  <2>2. CASE pc = "create" /\ pc' = "save" /\ UNCHANGED <<cr, dpl, todo, req>>
    BY <1>f, <2>2 DEF Fresh
  <2> QED
    BY <1>7, <2>1, <2>2 DEF Create
<1>8. CASE SaveNode
  <2>1. pc = "save" /\ pc' = "min" /\ UNCHANGED <<req, todo>>
    BY <1>8 DEF SaveNode
  <2>2. /\ cr'[req].exists = cr[req].exists /\ UuidOf(cr'[req]) = UuidOf(cr[req])
        /\ dpl' = dpl \/ (cr[req].exists /\ dpl'.spec = cr[req].spec)
    BY <1>8, <1>a, StatusKeeps DEF UuidOf
  <2> SUFFICES ASSUME cr'[req].exists PROVE Working'
    BY <1>c, <2>1
  <2>3. Working /\ ~Fresh
    BY <1>b, <2>1, <2>2 DEF Fresh
  <2>4. One(dpl') /\ UuidOf(dpl') \in {NoUuid, UuidOf(cr'[req'])}
    BY <1>d, <2>1, <2>2, <2>3 DEF Working, One, UuidOf
  <2>5. Bounded /\ (todo # <<>> => UuidOf(cr[req]) # NoUuid)
    BY <2>1, <2>3 DEF Working
  <2>6. Bounded' /\ (todo' # <<>> => UuidOf(cr'[req']) # NoUuid)
    BY <2>1, <2>2, <2>5
  <2> HIDE DEF Bounded, Unchecked
  <2> QED
    BY <2>4, <2>6 DEF Working, NoUuid
<1>9. CASE UpdateMinMasters
  <2>1. pc = "min" /\ pc' = "loop" /\ UNCHANGED <<cr, dpl, req>> /\ todo' = Tail(todo) /\ todo # <<>>
    BY <1>9 DEF UpdateMinMasters, TypeInv, StepsInv
  <2> SUFFICES ASSUME cr[req].exists PROVE Working'
    BY <1>c, <2>1
  <2>2. Working /\ ~Fresh
    BY <1>b, <2>1 DEF Fresh
  <2>3. Bounded /\ UuidOf(cr[req]) # NoUuid /\ One(dpl) /\ UuidOf(dpl) \in {NoUuid, UuidOf(cr[req])}
    BY <2>1, <2>2 DEF Working
  <2>4. \A i \in DOMAIN todo' : i + 1 \in DOMAIN todo /\ todo'[i] = todo[i + 1]
    BY <1>a, <2>1, HeadTailProperties, LenProperties, EmptySeq
  <2>5. UuidOf(cr'[req']) = UuidOf(cr[req]) /\ One(dpl') /\ UuidOf(dpl') = UuidOf(dpl)
    BY <2>1, <2>3
  <2>6. Bounded'
    BY <2>3, <2>4, <2>5
  <2> HIDE DEF Bounded, Unchecked
  <2> QED
    BY <2>3, <2>5, <2>6 DEF Working, NoUuid
<1>10. CASE \E c \in Clusters : StartReconcile(c)
  <2>1. PICK c \in Clusters : StartReconcile(c)
    BY <1>10
  <2>2. /\ cr[c].exists /\ req' = c /\ dpl' = cr[c] /\ pc = "idle" /\ pc' = "check"
        /\ UNCHANGED <<cr, todo>>
    BY <2>1 DEF StartReconcile
  <2>3. todo' = <<>> /\ One(dpl') /\ UuidOf(dpl') = UuidOf(cr'[req'])
    BY <1>a, <1>b, <2>2 DEF ObjectsInv
  <2>4. Bounded'
    BY <2>3
  <2> HIDE DEF Bounded, Unchecked
  <2>5. Working'
    BY <2>3, <2>4 DEF Working, NoUuid
  <2> QED
    BY <1>c, <2>2, <2>5
\* users and pods: what the reconcile has at hand stays as it is
<1>g. ASSUME UNCHANGED local, cr'[req].exists => pc = "idle" \/ (cr[req].exists /\ UuidOf(cr'[req]) = UuidOf(cr[req]))
      PROVE  TodoInv'
  <2>1. UNCHANGED <<pc, idx, dpl, todo, req>>
    BY <1>g DEF local
  <2>2. CASE pc = "idle"
    BY <1>b, <1>c, <2>1, <2>2
  <2>3. CASE pc # "idle"
    BY <1>f, <1>g, <2>1, <2>3 DEF Fresh
  <2> QED
    BY <2>2, <2>3
<1>11. CASE \E c \in Clusters : JoinCluster(c) \/ LeaveCluster(c)
  BY <1>11, <1>g DEF JoinCluster, LeaveCluster, envFrame
<1>12. CASE \E c \in Clusters : FlushNodes(c)
  <2>1. CASE Return
    BY <1>e, <2>1
  <2>2. CASE UNCHANGED <<cr, local>>
    BY <1>g, <2>2
  <2> QED
    BY <1>12, <2>1, <2>2 DEF FlushNodes, Panic, Restart
<1>13. CASE \E c \in Clusters : DeleteCR(c)
  <2>1. PICK c \in Clusters : cr' = [cr EXCEPT ![c] = NoCR] /\ UNCHANGED local
    BY <1>13 DEF DeleteCR
  <2>2. cr'[req] = NoCR \/ cr'[req] = cr[req]
    BY <1>a, <2>1
  <2>3. ~NoCR.exists
    BY DEF NoCR
  <2> QED
    BY <1>g, <2>1, <2>2, <2>3
<1>14. CASE \E c \in Clusters, l \in Lists, p \in Policies : EditSpec(c, l, p)
  <2>1. PICK c \in Clusters, l \in Lists, p \in Policies : EditSpec(c, l, p)
    BY <1>14
  <2>2. UNCHANGED local /\ cr[c].exists
    BY <2>1 DEF EditSpec, envFrame
  <2>3. cr[req].exists => UuidOf(cr'[req]) = UuidOf(cr[req])
    BY <1>a, <2>1, EditKeeps
  <2>4. cr'[req].exists => cr[req].exists
    BY <1>a, <2>1, <2>2, EditedUuids DEF TypeInv
  <2> QED
    BY <1>g, <2>2, <2>3, <2>4
<1>15. CASE \E c \in Clusters, l \in Lists, p \in Policies : RecreateCR(c, l, p)
  <2>1. PICK c \in Clusters, l \in Lists, p \in Policies :
          UNCHANGED local /\ cr' = [cr EXCEPT ![c] = NewCR(l, p)] /\ (pc = "idle" \/ req # c)
    BY <1>15 DEF RecreateCR, envFrame
  <2>2. pc = "idle" \/ cr'[req] = cr[req]
    BY <1>a, <2>1
  <2> QED
    BY <1>g, <2>1, <2>2
<1>16. CASE UNCHANGED vars
  BY <1>16, <1>g DEF vars
<1> QED
  BY <1>1, <1>2, <1>3, <1>4, <1>5, <1>6, <1>7, <1>8, <1>9, <1>10, <1>11, <1>12, <1>13, <1>14, <1>15, <1>16
  DEF Next, Reconcile, Pods

(* The operator never creates more than three masters, when users scale one
   group of nodes: whatever they edit or delete between two steps of a
   reconcile, or recreate once it has returned, whatever write, request or
   delete fails, and wherever the operator is restarted.  The check in the loop (isValidConf before every
   create) is what holds it: the nodes to create were made before it, from
   the resource in memory that it looks at first.  With MaxLost = 0 every
   UUID drawn is written; one that is not makes a second set of nodes.     *)
THEOREM MastersAreBounded ==
    ASSUME OneGroup, MaxLost = 0, "recreate" \notin Hazards
    PROVE  Spec => []MastersBounded
<1>1. Init => OneInv
  <2> SUFFICES ASSUME Init PROVE OneInv
    OBVIOUS
  <2>1. PICK f \in [Clusters -> Lists], g \in [Clusters -> Policies] : cr = [c \in Clusters |-> NewCR(f[c], g[c])]
    BY DEF Init
  <2>2. /\ objs = [c \in Clusters |-> <<>>] /\ pc = "idle" /\ todo = <<>>
    BY DEF Init
  <2>3. \A c \in Clusters : One(cr[c]) /\ DOMAIN objs[c] = {}
    BY <2>1, <2>2, NewOne
  <2> QED
    BY <2>2, <2>3 DEF OneInv, ObjectsInv, TodoInv
<1>2. TypeInv /\ OneInv /\ [Next]_vars => OneInv'
  BY ObjectsStep, TodoStep DEF OneInv
<1>3. OneInv => MastersBounded
  BY ThreePods DEF OneInv, MastersBounded
<1> QED
  BY <1>1, <1>2, <1>3, TypeInvAlways, PTL DEF Spec

-----------------------------------------------------------------------------
(* The quorum, when users wait between two changes of the size.            *)

SizeOf(r) == r.spec[1].count

\* the first k nodes of the group with this UUID
Nodes(uuid, k) == {<<"dm", uuid, i>> : i \in 1..k}

\* the pods that the objects o of a cluster ask for
PodsIn(o) == UNION {{<<n, i>> : i \in 1..o[n]} : n \in DOMAIN o}

(* The pods of c are those its objects ask for, and these are the first ones
   of its group: all of the group, if a reconcile of c is under way.       *)
Rested(c) ==
    /\ joined[c] = PodsOf(c)
    /\ \E k \in 0..maxMasterCount :
         /\ DOMAIN objs[c] = Nodes(UuidOf(cr[c]), k)
         /\ pc = "idle" \/ req # c \/ k = SizeOf(cr[c])

(* Users change the size of a cluster at rest, and its policy at any time. *)
Waits == \A c \in Clusters :
            cr[c].exists /\ cr'[c].exists /\ SizeOf(cr'[c]) # SizeOf(cr[c]) => Rested(c)
ScalingWaits == [][Waits]_vars

\* users do not scale to nothing
NeverEmpty == \A l \in Lists : l[1].count # 0

(* A cluster: its custom resource r, the objects o of its nodes, the pods j
   that have joined and the quorum m.  The first k nodes are up; there are
   no others.                                                              *)
Up(o, j, uuid, k) == \A n \in Nodes(uuid, k) : n \in DOMAIN o /\ <<n, 1>> \in j
Within(o, uuid, k) == DOMAIN o \subseteq Nodes(uuid, k)

(* The quorum counts on pods that have joined and are not about to leave.
   When there are pods or objects too many, all nodes that were asked for
   are up: they were when the user asked for fewer.                        *)
Quorate(r, o, j, m) ==
    /\ IsFiniteSet(j) /\ m <= MastersIn(j \cap PodsIn(o))
    /\ ~r.exists => j = {}
    /\ r.exists => /\ SizeOf(r) # 0
                   /\ \/ j \subseteq PodsIn(o) /\ Within(o, UuidOf(r), SizeOf(r))
                      \/ Up(o, j, UuidOf(r), SizeOf(r))

(* A reconcile of this cluster that works with size d and still has the nodes
   t to create.  If the user has asked for another size since, the nodes are
   those of size d, and up.                                                *)
InFlight(r, o, j, d, t) ==
    /\ d # 0
    /\ d = SizeOf(r) \/ (Up(o, j, UuidOf(r), d) /\ Within(o, UuidOf(r), d))
    /\ \A i \in DOMAIN t : \/ t[i].name \in Nodes(UuidOf(r), d) \cap Nodes(UuidOf(r), SizeOf(r))
                           \/ t[i].name \in DOMAIN o /\ <<t[i].name, 1>> \in j

(* Before objects are deleted the quorum is one that d nodes can meet.     *)
Lowered(r, o, m, d) == Within(o, UuidOf(r), d) \/ m <= d

Purging == pc = "keep" /\ Purged # {}
QuorumOf(c) == Quorate(cr[c], objs[c], joined[c], min[c])
FlightInv ==
    pc # "idle" /\ cr[req].exists =>
      /\ InFlight(cr[req], objs[req], joined[req], SizeOf(dpl), todo)
      /\ Purging => Lowered(cr[req], objs[req], min[req], SizeOf(dpl))
QuorumInv == DOMAIN joined = Clusters /\ (\A c \in Clusters : QuorumOf(c)) /\ FlightInv

\* counting masters
LEMMA MastersGrow ==
    ASSUME NEW S, IsFiniteSet(S), NEW T \in SUBSET S
    PROVE  /\ IsFiniteSet(T) /\ MastersIn(T) \in Nat /\ MastersIn(S) \in Nat
           /\ MastersIn(T) <= MastersIn(S) /\ MastersIn(S) <= Cardinality(S)
<1> DEFINE M(U) == {p \in U : isMasterNode(p[1][1])}
<1>1. IsFiniteSet(T) /\ IsFiniteSet(M(S)) /\ IsFiniteSet(M(T)) /\ Cardinality(M(S)) <= Cardinality(S)
  BY FS_Subset
<1>2. M(T) \in SUBSET M(S)
  OBVIOUS
<1> HIDE DEF M
<1>3. Cardinality(M(T)) <= Cardinality(M(S))
  BY <1>1, <1>2, FS_Subset
<1>4. Cardinality(M(T)) \in Nat /\ Cardinality(M(S)) \in Nat
  BY <1>1, FS_CardinalityType
<1> QED
  BY <1>1, <1>3, <1>4 DEF MastersIn, M

\* k nodes that are up are k masters that stay
LEMMA UpCount ==
    ASSUME NEW o, NEW j, NEW uuid, NEW k \in Nat, IsFiniteSet(j), Up(o, j, uuid, k),
           \A n \in DOMAIN o : o[n] = 1
    PROVE  k <= MastersIn(j \cap PodsIn(o))
<1> DEFINE S == j \cap PodsIn(o)
           M == {p \in S : isMasterNode(p[1][1])}
           f == [i \in 1..k |-> <<<<"dm", uuid, i>>, 1>>]
<1>1. \A i \in 1..k : f[i] \in M
  <2> TAKE i \in 1..k
  <2> DEFINE n == <<"dm", uuid, i>>
  <2>1. n \in Nodes(uuid, k)
    BY DEF Nodes
  <2>2. n \in DOMAIN o /\ <<n, 1>> \in j /\ o[n] = 1
    BY <2>1 DEF Up
  <2> HIDE DEF n
  <2>3. <<n, 1>> \in PodsIn(o)
    BY <2>2 DEF PodsIn
  <2>4. <<n, 1>> \in S
    BY <2>2, <2>3
  <2> HIDE DEF S
  <2> QED
    BY <2>4 DEF n, isMasterNode
<1>2. f \in Injection(1..k, M)
  <2>1. f \in [1..k -> M]
    BY <1>1
  <2>2. \A a, b \in 1..k : f[a] = f[b] => a = b
    OBVIOUS
  <2> HIDE DEF f, M
  <2> QED
    BY <2>1, <2>2 DEF Injection, IsInjective
<1>3. IsFiniteSet(M)
  <2>1. IsFiniteSet(S)
    BY FS_Subset
  <2> QED
    BY <2>1, FS_Subset
<1> HIDE DEF f, M, S
<1>4. Cardinality(1..k) <= Cardinality(M)
  BY <1>2, <1>3, FS_Injection
<1>5. Cardinality(1..k) = k
  BY FS_Interval
<1> QED
  BY <1>4, <1>5 DEF MastersIn, M, S

\* objects of one replica, in which all nodes of a smaller size are nodes of a larger one
LEMMA NodesFacts ==
    /\ \A uuid : Nodes(uuid, 0) = {}
    /\ \A uuid : \A k, l \in Nat : k <= l => Nodes(uuid, k) \subseteq Nodes(uuid, l)
    /\ \A uuid : \A k \in Nat \ {0} : Nodes(uuid, k) # {}
    /\ \A o : (\A n \in DOMAIN o : o[n] = 1) => PodsIn(o) = {<<n, 1>> : n \in DOMAIN o}
<1>1. \A uuid : \A k \in Nat \ {0} : Nodes(uuid, k) # {}
  <2> TAKE uuid
  <2> TAKE k \in Nat \ {0}
  <2>1. 1 \in 1..k
    OBVIOUS
  <2> QED
    BY <2>1 DEF Nodes
<1>2. ASSUME NEW o, \A n \in DOMAIN o : o[n] = 1 PROVE PodsIn(o) = {<<n, 1>> : n \in DOMAIN o}
  <2>1. 1..1 = {1}
    OBVIOUS
  <2>2. \A n \in DOMAIN o : {<<n, i>> : i \in 1..o[n]} = {<<n, 1>>}
    BY <1>2, <2>1
  <2> QED
    BY <2>2 DEF PodsIn
<1>3. ASSUME NEW uuid PROVE Nodes(uuid, 0) = {}
  <2>1. 1..0 = {}
    OBVIOUS
  <2> QED
    BY <2>1 DEF Nodes
<1>4. ASSUME NEW uuid, NEW k \in Nat, NEW l \in Nat, k <= l PROVE Nodes(uuid, k) \subseteq Nodes(uuid, l)
  <2>1. 1..k \subseteq 1..l
    BY <1>4
  <2> QED
    BY <2>1 DEF Nodes
<1> QED
  BY <1>1, <1>2, <1>3, <1>4

\* a pod joins
LEMMA JoinKeeps ==
    ASSUME NEW r, NEW o, NEW j, NEW m \in Nat, Quorate(r, o, j, m), NEW p \in PodsIn(o), DOMAIN o # {} => r.exists
    PROVE  /\ Quorate(r, o, j \cup {p}, m)
           /\ \A d, t : InFlight(r, o, j, d, t) => InFlight(r, o, j \cup {p}, d, t)
<1>1. r.exists /\ IsFiniteSet(j)
  BY DEF PodsIn, Quorate
<1>2. IsFiniteSet(j \cup {p})
  BY <1>1, FS_AddElement
<1>3. m <= MastersIn((j \cup {p}) \cap PodsIn(o))
  <2>1. IsFiniteSet((j \cup {p}) \cap PodsIn(o)) /\ (j \cap PodsIn(o)) \in SUBSET ((j \cup {p}) \cap PodsIn(o))
    BY <1>2, FS_Subset
  <2>2. m <= MastersIn(j \cap PodsIn(o))
    BY DEF Quorate
  <2>3. MastersIn(j \cap PodsIn(o)) \in Nat /\ MastersIn((j \cup {p}) \cap PodsIn(o)) \in Nat
        /\ MastersIn(j \cap PodsIn(o)) <= MastersIn((j \cup {p}) \cap PodsIn(o))
    BY <2>1, MastersGrow
  <2> HIDE DEF PodsIn, MastersIn
  <2> QED
    BY <2>2, <2>3
<1>4. \A k : Up(o, j, UuidOf(r), k) => Up(o, j \cup {p}, UuidOf(r), k)
  BY DEF Up
<1>5. Quorate(r, o, j \cup {p}, m)
  BY <1>1, <1>2, <1>3, <1>4 DEF Quorate
<1> QED
  BY <1>4, <1>5 DEF InFlight

\* a pod leaves
LEMMA LeaveKeeps ==
    ASSUME NEW r, NEW o, NEW j, NEW m \in Nat, Quorate(r, o, j, m), NEW p \in j \ PodsIn(o),
           \A n \in DOMAIN o : o[n] = 1
    PROVE  /\ Quorate(r, o, j \ {p}, m)
           /\ \A d, t : InFlight(r, o, j, d, t) => InFlight(r, o, j \ {p}, d, t)
<1>1. IsFiniteSet(j) /\ m <= MastersIn(j \cap PodsIn(o))
  BY DEF Quorate
<1>2. IsFiniteSet(j \ {p})
  BY <1>1, FS_RemoveElement
<1>3. (j \ {p}) \cap PodsIn(o) = j \cap PodsIn(o)
  OBVIOUS
<1>4. \A n \in DOMAIN o : <<n, 1>> # p
  BY NodesFacts
<1>5. \A k : Up(o, j, UuidOf(r), k) => Up(o, j \ {p}, UuidOf(r), k)
  BY <1>4 DEF Up
<1>6. r.exists
  BY DEF Quorate
<1>7. Quorate(r, o, j \ {p}, m)
  BY <1>1, <1>2, <1>3, <1>5, <1>6 DEF Quorate
<1> QED
  BY <1>4, <1>5, <1>7 DEF InFlight

\* the operator creates the object of the first node it has to
LEMMA CreateKeeps ==
    ASSUME NEW r, NEW o, NEW j, NEW m \in Nat, NEW d, NEW t, Quorate(r, o, j, m), r.exists,
           InFlight(r, o, j, d, t), \A n \in DOMAIN o : o[n] = 1, 1 \in DOMAIN t,
           NEW n, n = t[1].name, NEW new, new = [x \in DOMAIN o \cup {n} |-> IF x = n THEN 1 ELSE o[x]]
    PROVE  Quorate(r, new, j, m) /\ InFlight(r, new, j, d, t)
<1> DEFINE u == UuidOf(r)
           b == SizeOf(r)
<1>1. n \in Nodes(u, d) \cap Nodes(u, b) \/ n \in DOMAIN o
  BY DEF InFlight
<1>2. DOMAIN new = DOMAIN o \cup {n} /\ (\A x \in DOMAIN new : new[x] = 1)
  OBVIOUS
<1>3. PodsIn(o) \subseteq PodsIn(new)
  BY <1>2, NodesFacts
<1>4. IsFiniteSet(j) /\ m <= MastersIn(j \cap PodsIn(o))
  BY DEF Quorate
<1>5. m <= MastersIn(j \cap PodsIn(new))
  <2>1. IsFiniteSet(j \cap PodsIn(new)) /\ j \cap PodsIn(o) \in SUBSET (j \cap PodsIn(new))
    BY <1>3, <1>4, FS_Subset
  <2>2. MastersIn(j \cap PodsIn(o)) \in Nat /\ MastersIn(j \cap PodsIn(new)) \in Nat
        /\ MastersIn(j \cap PodsIn(o)) <= MastersIn(j \cap PodsIn(new))
    BY <2>1, MastersGrow
  <2> QED
    BY <1>4, <2>2
<1>6. \A k : Up(o, j, u, k) => Up(new, j, u, k)
  BY <1>2 DEF Up
<1>7. (Within(o, u, d) => Within(new, u, d)) /\ (Within(o, u, b) => Within(new, u, b))
  BY <1>1, <1>2 DEF Within
<1> HIDE DEF u, b
<1>8. Quorate(r, new, j, m)
  BY <1>3, <1>4, <1>5, <1>6, <1>7 DEF Quorate, u, b
<1>9. InFlight(r, new, j, d, t)
  BY <1>2, <1>6, <1>7 DEF InFlight, u, b
<1> QED
  BY <1>8, <1>9

\* the operator deletes objects of nodes that are not among the first d
LEMMA PurgeKeeps ==
    ASSUME NEW r, NEW o, NEW j, NEW m \in Nat, NEW d \in Nat, NEW t, Quorate(r, o, j, m), r.exists,
           InFlight(r, o, j, d, t), \A n \in DOMAIN o : o[n] = 1,
           NEW gone, gone \cap Nodes(UuidOf(r), d) = {}, gone # {} => Lowered(r, o, m, d),
           NEW new, new = [n \in DOMAIN o \ gone |-> o[n]],
           NEW q, \A i \in DOMAIN q : q[i].name \in Nodes(UuidOf(r), d)
    PROVE  Quorate(r, new, j, m) /\ InFlight(r, new, j, d, q)
<1> DEFINE u == UuidOf(r)
           b == SizeOf(r)
<1>1. DOMAIN new = DOMAIN o \ gone /\ \A n \in DOMAIN new : new[n] = 1
  OBVIOUS
<1>2. \A i \in DOMAIN q : d # b => q[i].name \in DOMAIN new /\ <<q[i].name, 1>> \in j
  BY <1>1 DEF InFlight, Up
<1>3. Up(o, j, u, d) => Up(new, j, u, d)
  BY <1>1 DEF Up
<1>4. Within(o, u, d) => Within(new, u, d)
  BY <1>1 DEF Within
<1>5. InFlight(r, new, j, d, q)
  BY <1>2, <1>3, <1>4 DEF InFlight
<1>6. CASE Within(o, u, d) \/ gone = {}
  <2>1. DOMAIN new = DOMAIN o
    BY <1>1, <1>6 DEF Within
  <2>2. PodsIn(new) = PodsIn(o)
    BY <1>1, <2>1, NodesFacts
  <2>3. Up(new, j, u, b) <=> Up(o, j, u, b)
    BY <2>1 DEF Up
  <2>4. Within(new, u, b) <=> Within(o, u, b)
    BY <2>1 DEF Within
  <2>5. Quorate(r, new, j, m)
    BY <2>2, <2>3, <2>4 DEF Quorate
  <2> QED
    BY <1>5, <2>5
<1>7. CASE ~Within(o, u, d) /\ gone # {}
  <2>1. d = b /\ m <= d /\ Up(o, j, u, d) /\ IsFiniteSet(j)
    BY <1>7 DEF InFlight, Quorate, Lowered
  <2>2. Up(new, j, u, d)
    BY <1>3, <2>1
  <2>3. d <= MastersIn(j \cap PodsIn(new))
    BY <1>1, <2>1, <2>2, UpCount
  <2>4. MastersIn(j \cap PodsIn(new)) \in Nat
    <3>1. j \cap PodsIn(new) \in SUBSET j
      OBVIOUS
    <3> QED
      BY <2>1, <3>1, MastersGrow
  <2>5. m <= MastersIn(j \cap PodsIn(new))
    BY <2>1, <2>3, <2>4
  <2>6. Quorate(r, new, j, m)
    BY <2>1, <2>2, <2>5 DEF Quorate
  <2> QED
    BY <1>5, <2>6
<1> QED
  BY <1>6, <1>7

\* the operator sets the quorum of d nodes, and Elasticsearch accepts it
LEMMA QuorumSet ==
    ASSUME NEW r, NEW o, NEW j, NEW m, NEW d \in Nat, NEW t, Quorate(r, o, j, m), r.exists,
           InFlight(r, o, j, d, t), \A n \in DOMAIN o : o[n] = 1,
           NEW new, new = d \div 2 + 1, new <= MastersIn(j)
    PROVE  Quorate(r, o, j, new) /\ Lowered(r, o, new, d)
<1>1. new \in Nat /\ new <= d
  <2>1. d # 0
    BY DEF InFlight
  <2> QED
    BY <2>1
<1>2. Lowered(r, o, new, d)
  BY <1>1 DEF Lowered
<1>3. IsFiniteSet(j) /\ MastersIn(j \cap PodsIn(o)) \in Nat
  <2>1. j \cap PodsIn(o) \in SUBSET j
    OBVIOUS
  <2> QED
    BY <2>1, MastersGrow DEF Quorate
<1>4. new <= MastersIn(j \cap PodsIn(o))
  <2>1. CASE j \subseteq PodsIn(o)
    <3>1. j \cap PodsIn(o) = j
      BY <2>1
    <3> QED
      BY <3>1
  <2>2. CASE ~(j \subseteq PodsIn(o))
    <3>1. Up(o, j, UuidOf(r), d)
      BY <2>2 DEF Quorate, InFlight
    <3>2. d <= MastersIn(j \cap PodsIn(o))
      BY <1>3, <3>1, UpCount
    <3> QED
      BY <1>1, <1>3, <3>2
  <2> QED
    BY <2>1, <2>2
<1> QED
  BY <1>2, <1>4 DEF Quorate

\* a user changes the size of a cluster at rest
LEMMA EditQuorate ==
    ASSUME NEW r, NEW o, NEW j, NEW m \in Nat, Quorate(r, o, j, m), r.exists, \A n \in DOMAIN o : o[n] = 1,
           j = PodsIn(o), NEW k \in Nat, DOMAIN o = Nodes(UuidOf(r), k),
           NEW s, s.exists, UuidOf(s) = UuidOf(r), SizeOf(s) \in Nat \ {0}
    PROVE  /\ Quorate(s, o, j, m)
           /\ \A d, t : InFlight(r, o, j, d, t) /\ k = SizeOf(r) => InFlight(s, o, j, d, t) /\ Within(o, UuidOf(s), d)
<1> DEFINE u == UuidOf(r)
           b == SizeOf(s)
<1>1. \A n \in Nodes(u, k) : n \in DOMAIN o /\ <<n, 1>> \in j
  BY NodesFacts
<1>2. Up(o, j, u, k) /\ Within(o, u, k)
  BY <1>1 DEF Up, Within
<1>3. CASE b <= k
  <2>1. Up(o, j, u, b)
    BY <1>1, <1>3, NodesFacts DEF Up
  <2> QED
    BY <1>1, <1>2, <2>1 DEF Quorate, InFlight
<1>4. CASE k <= b
  <2>1. Within(o, u, b)
    BY <1>4, NodesFacts DEF Within
  <2> QED
    BY <1>1, <1>2, <2>1 DEF Quorate, InFlight
<1> QED
  BY <1>3, <1>4

\* the operator writes the status, or a user the policy
LEMMA SameSize ==
    ASSUME NEW r, NEW s, NEW o, NEW j, NEW m, Quorate(r, o, j, m), s.exists = r.exists,
           r.exists => SizeOf(s) = SizeOf(r) /\ UuidOf(s) = UuidOf(r)
    PROVE  /\ Quorate(s, o, j, m)
           /\ r.exists => \A d, t : /\ InFlight(r, o, j, d, t) => InFlight(s, o, j, d, t)
                                    /\ Lowered(r, o, m, d) => Lowered(s, o, m, d)
BY DEF Quorate, InFlight, Lowered

\* the operator reads the resource anew
LEMMA ReadAnew ==
    ASSUME NEW r, NEW o, NEW j, NEW m, NEW d, NEW t, r.exists, Quorate(r, o, j, m), InFlight(r, o, j, d, t)
    PROVE  InFlight(r, o, j, SizeOf(r), t)
BY DEF InFlight, Quorate

\* a reconcile begins
LEMMA Begins ==
    ASSUME NEW r, NEW o, NEW j, NEW m, r.exists, Quorate(r, o, j, m)
    PROVE  InFlight(r, o, j, SizeOf(r), <<>>)
<1>1. DOMAIN <<>> = {}
  OBVIOUS
<1> QED
  BY <1>1 DEF InFlight, Quorate

\* a group that has no UUID yet has no nodes
LEMMA NothingThere ==
    ASSUME NEW r, NEW o, NEW j, NEW m, Quorate(r, o, j, m), DOMAIN o = {}, r.exists => SizeOf(r) \in Nat
    PROVE  /\ j = {} /\ m <= MastersIn({})
           /\ \A s : s.exists /\ SizeOf(s) # 0 => Quorate(s, o, j, m)
<1>1. PodsIn(o) = {}
  BY DEF PodsIn
<1>2. j = {}
  <2>1. CASE r.exists
    <3>1. ~Up(o, j, UuidOf(r), SizeOf(r))
      BY <2>1, NodesFacts DEF Up, Quorate
    <3> QED
      BY <1>1, <2>1, <3>1 DEF Quorate
  <2> QED
    BY <2>1 DEF Quorate
<1>3. j \cap PodsIn(o) = {}
  BY <1>2
<1>4. m <= MastersIn({}) /\ IsFiniteSet(j)
  BY <1>3 DEF Quorate
<1> QED
  BY <1>1, <1>2, <1>3, <1>4 DEF Quorate, Within

\* the group the operator works with
LEMMA WorkedWith ==
    ASSUME TypeInv, One(dpl)
    PROVE  /\ SizeOf(dpl) \in Nat /\ getMasterCount(dpl.spec) = SizeOf(dpl)
           /\ Names(NodesOf(dpl.spec)) = Nodes(UuidOf(dpl), SizeOf(dpl))
<1> DEFINE q == dpl.spec
           k == q[1].count
<1>1. q \in Seq(Group) /\ Len(q) = 1 /\ q[1].kind = "dm"
  BY DEF TypeInv, DataTyped, Resource, One
<1>2. Group \subseteq [kind: Kind, count: Nat, uuid: Nat]
  BY DEF TypeInv, DataTyped, Group
<1>3. q \in Seq([kind: Kind, count: Nat, uuid: Nat])
  BY <1>1, <1>2, SeqMonotonic
<1>4. getMasterCount(q) = k
  BY <1>1, <1>3, OneCount
<1>5. k \in Nat
  BY <1>3, <1>4, CountsType
<1>6. NodesOf(q) = [i \in 1..k |-> [name |-> <<"dm", q[1].uuid, i>>, replicas |-> 1]]
  BY <1>1, <1>3, OneNodes
<1>7. Names(NodesOf(q)) = {<<"dm", q[1].uuid, i>> : i \in 1..k}
  BY <1>6 DEF Names
<1> QED
  BY <1>4, <1>5, <1>7 DEF SizeOf, UuidOf, Nodes

\* the sizes that users ask for
LEMMA AskedFor ==
    ASSUME TypeInv, ObjectsInv, NEW c \in Clusters, cr[c].exists
    PROVE  SizeOf(cr[c]) \in Nat
<1>1. cr[c].spec \in Seq(Group) /\ Len(cr[c].spec) = 1
  BY DEF TypeInv, DataTyped, Resource, ObjectsInv, One
<1>2. cr[c].spec[1] \in Group
  BY <1>1, ElementOfSeq
<1> QED
  BY <1>2 DEF Group, SizeOf

(* updateMinMasters: the quorum it sets can be met by pods that stay, and
   before nodes are deleted it does not fail to lower it.                   *)
LEMMA MinStep ==
    ASSUME "es" \notin Hazards, TypeInv, OneInv, QuorumInv, updateMinMasters, pc # "idle"
    PROVE  /\ \A c \in Clusters : Quorate(cr[c], objs[c], joined[c], min'[c])
           /\ cr[req].exists => Lowered(cr[req], objs[req], min'[req], SizeOf(dpl))
<1> DEFINE r == cr[req]
           o == objs[req]
           j == joined[req]
           m == min[req]
           d == SizeOf(dpl)
           desired == getMasterCount(dpl.spec) \div 2 + 1
           Accepted == desired <= MastersIn(j) /\ min' = [min EXCEPT ![req] = desired]
<1>a. req \in Clusters /\ min \in [Clusters -> Nat] /\ m \in Nat /\ getMasterCount(dpl.spec) \in Nat
  BY CountsTyped DEF TypeInv, ControlTyped, EsTyped
<1>b. Quorate(r, o, j, m) /\ IsFiniteSet(j) /\ \A n \in DOMAIN o : o[n] = 1
  BY <1>a DEF QuorumInv, QuorumOf, Quorate, OneInv, ObjectsInv
<1>c. MastersIn(j) \in Nat /\ Cardinality(j) \in Nat /\ MastersIn(j) <= Cardinality(j)
  BY <1>b, MastersGrow, FS_CardinalityType
<1>1. Accepted \/ UNCHANGED min
  BY DEF updateMinMasters, SetMinMasterNodes
<1>2. EsUp(req) /\ desired <= MastersIn(j) => Accepted
  <2> SUFFICES ASSUME EsUp(req), desired <= MastersIn(j) PROVE Accepted
    OBVIOUS
  <2>1. GetClusterNodeCount(req) = {Cardinality(j)}
    BY DEF GetClusterNodeCount
  <2>2. desired \in Nat
    BY <1>a
  <2>3. ~(Cardinality(j) < desired)
    BY <1>c, <2>2
  <2>4. ~(desired > MastersIn(j))
    BY <1>c, <2>2
  <2> HIDE DEF desired
  <2> QED
    BY <2>1, <2>3, <2>4 DEF updateMinMasters, SetMinMasterNodes, desired
<1>3. CASE ~r.exists
  <2>1. j = {}
    BY <1>3, <1>b DEF Quorate
  <2>2. MastersIn({}) = 0
    <3>1. {p \in {} : isMasterNode(p[1][1])} = {}
      OBVIOUS
    <3> QED
      BY <3>1, FS_EmptySet DEF MastersIn
  <2>3. ~(desired <= MastersIn(j))
    <3>1. desired >= 1 /\ desired \in Nat
      BY <1>a
    <3> QED
      BY <2>1, <2>2, <3>1
  <2>4. UNCHANGED min
    BY <1>1, <2>3
  <2> QED
    BY <1>3, <2>4 DEF QuorumInv, QuorumOf
<1>4. CASE r.exists
  <2>1. One(dpl) /\ InFlight(r, o, j, d, todo)
    BY <1>4 DEF OneInv, TodoInv, QuorumInv, FlightInv
  <2>2. d \in Nat /\ desired = d \div 2 + 1
    BY <2>1, WorkedWith
  <2>3. CASE Accepted
    <3>1. min'[req] = desired /\ \A c \in Clusters : c # req => min'[c] = min[c]
      BY <1>a, <2>3
    <3>2. Quorate(r, o, j, desired) /\ Lowered(r, o, desired, d)
      <4>1. desired <= MastersIn(j)
        BY <2>3
      <4> HIDE DEF r, o, j, m, d, desired, Accepted
      <4>2. \A n \in DOMAIN o : o[n] = 1
        BY <1>b
      <4>3. Quorate(r, o, j, m) /\ r.exists /\ InFlight(r, o, j, d, todo)
        BY <1>4, <1>b, <2>1
      <4> QED
        BY <2>2, <4>1, <4>2, <4>3, QuorumSet
    <3> QED
      BY <3>1, <3>2 DEF QuorumInv, QuorumOf
  <2>4. CASE ~Accepted
    <3>1. UNCHANGED min
      BY <1>1, <2>4
    <3>2. Within(o, UuidOf(r), d)
      <4> SUFFICES ASSUME ~Within(o, UuidOf(r), d) PROVE FALSE
        OBVIOUS
      <4>1. Up(o, j, UuidOf(r), d) /\ d # 0
        BY <1>4, <1>b, <2>1 DEF InFlight, Quorate
      <4>2. d <= MastersIn(j \cap PodsIn(o)) /\ m <= MastersIn(j \cap PodsIn(o))
        BY <1>b, <2>2, <4>1, UpCount DEF Quorate
      <4>3. MastersIn(j \cap PodsIn(o)) \in Nat /\ MastersIn(j \cap PodsIn(o)) <= MastersIn(j)
        <5>1. j \cap PodsIn(o) \in SUBSET j
          OBVIOUS
        <5> QED
          BY <1>b, <5>1, MastersGrow
      <4>4. d <= MastersIn(j) /\ m <= MastersIn(j)
        BY <1>a, <1>c, <2>2, <4>2, <4>3
      <4>5. EsUp(req)
        BY <1>a, <1>c, <2>2, <4>1, <4>4 DEF EsUp
      <4>6. desired <= MastersIn(j)
        BY <1>c, <2>2, <4>1, <4>4
      <4> QED
        BY <1>2, <2>4, <4>5, <4>6
    <3>3. Lowered(r, o, m, d)
      BY <3>2 DEF Lowered
    <3> QED
      BY <3>1, <3>3 DEF QuorumInv, QuorumOf
  <2> QED
    BY <2>3, <2>4
<1> QED
  BY <1>3, <1>4

\* every step keeps the quorum within reach
LEMMA QuorumStep ==
    ASSUME OneGroup, NeverEmpty, MaxLost = 0, "es" \notin Hazards, "recreate" \notin Hazards,
           TypeInv, OneInv, QuorumInv, [Next]_vars, [Waits]_vars
    PROVE  QuorumInv'
<1>a. /\ ObjectsInv /\ TodoInv /\ FlightInv /\ DOMAIN joined = Clusters /\ DOMAIN objs = Clusters
      /\ req \in Clusters /\ cr \in [Clusters -> Resource] /\ cr[req] \in Resource
      /\ min \in [Clusters -> Nat] /\ todo \in Seq([name: NodeName, replicas: Nat])
  BY DEF OneInv, QuorumInv, ObjectsInv, TypeInv, ControlTyped, DataTyped, EsTyped
<1>b. \A c \in Clusters : /\ Quorate(cr[c], objs[c], joined[c], min[c]) /\ min[c] \in Nat
                          /\ \A n \in DOMAIN objs[c] : objs[c][n] = 1
                          /\ cr[c].exists => SizeOf(cr[c]) \in Nat
                          /\ DOMAIN objs[c] # {} => cr[c].exists /\ UuidOf(cr[c]) # NoUuid
  BY <1>a, AskedFor DEF QuorumInv, QuorumOf, ObjectsInv
<1>c. pc # "idle" /\ cr[req].exists =>
        /\ InFlight(cr[req], objs[req], joined[req], SizeOf(dpl), todo)
        /\ Purging => Lowered(cr[req], objs[req], min[req], SizeOf(dpl))
        /\ One(dpl) /\ UuidOf(dpl) \in {NoUuid, UuidOf(cr[req])} /\ (todo # <<>> => UuidOf(cr[req]) # NoUuid)
  BY <1>a DEF FlightInv, TodoInv
<1> DEFINE Flight == pc' # "idle" /\ cr'[req'].exists =>
             /\ InFlight(cr'[req'], objs'[req'], joined'[req'], SizeOf(dpl'), todo')
             /\ Purging' => Lowered(cr'[req'], objs'[req'], min'[req'], SizeOf(dpl'))
           Quorums == \A c \in Clusters : Quorate(cr'[c], objs'[c], joined'[c], min'[c])
<1>d. ASSUME DOMAIN joined' = Clusters, Quorums, Flight PROVE QuorumInv'
  BY <1>d DEF QuorumInv, QuorumOf, FlightInv
<1>e. pc' # "keep" => ~Purging'
  BY DEF Purging
\* steps in which the cluster stays what it is
<1>f. ASSUME UNCHANGED <<kube, min>>,
             \A c \in Clusters : /\ cr'[c].exists = cr[c].exists
                                 /\ cr[c].exists => SizeOf(cr'[c]) = SizeOf(cr[c]) /\ UuidOf(cr'[c]) = UuidOf(cr[c])
      PROVE  /\ DOMAIN joined' = Clusters /\ Quorums
             /\ Return => Flight
             /\ pc # "idle" /\ UNCHANGED <<req, todo>> /\ SizeOf(dpl') = SizeOf(dpl) /\ ~Purging' => Flight
             /\ pc # "idle" /\ UNCHANGED <<req, todo>> /\ SizeOf(dpl') = SizeOf(cr'[req]) /\ ~Purging' => Flight
             /\ UNCHANGED local /\ UNCHANGED nodes => Flight
  <2>1. UNCHANGED <<objs, joined, min>>
    BY <1>f DEF kube
  <2>2. Quorums
    <3> SUFFICES ASSUME NEW c \in Clusters PROVE Quorate(cr'[c], objs'[c], joined'[c], min'[c])
      OBVIOUS
    <3>1. Quorate(cr'[c], objs[c], joined[c], min[c])
      BY <1>b, <1>f, SameSize
    <3> QED
      BY <2>1, <3>1
  <2>3. Return => Flight
    BY DEF Return
  <2>4. ASSUME pc # "idle", cr'[req].exists
        PROVE  /\ InFlight(cr'[req], objs'[req], joined'[req], SizeOf(dpl), todo)
               /\ InFlight(cr'[req], objs'[req], joined'[req], SizeOf(cr'[req]), todo)
               /\ Lowered(cr[req], objs[req], min[req], SizeOf(dpl)) => Lowered(cr'[req], objs'[req], min'[req], SizeOf(dpl))
    <3>1. cr[req].exists /\ SizeOf(cr'[req]) = SizeOf(cr[req])
      BY <1>a, <1>f, <2>4
    <3>2. /\ InFlight(cr[req], objs[req], joined[req], SizeOf(dpl), todo)
          /\ InFlight(cr[req], objs[req], joined[req], SizeOf(cr'[req]), todo)
      BY <1>a, <1>b, <1>c, <2>4, <3>1, ReadAnew
    <3>3. /\ InFlight(cr'[req], objs[req], joined[req], SizeOf(dpl), todo)
          /\ InFlight(cr'[req], objs[req], joined[req], SizeOf(cr'[req]), todo)
          /\ Lowered(cr[req], objs[req], min[req], SizeOf(dpl)) => Lowered(cr'[req], objs[req], min[req], SizeOf(dpl))
      BY <1>a, <1>b, <1>f, <3>1, <3>2, SameSize
    <3> QED
      BY <2>1, <3>3
  <2>5. pc # "idle" /\ UNCHANGED <<req, todo>> /\ SizeOf(dpl') = SizeOf(dpl) /\ ~Purging' => Flight
    BY <2>4
  <2>6. pc # "idle" /\ UNCHANGED <<req, todo>> /\ SizeOf(dpl') = SizeOf(cr'[req]) /\ ~Purging' => Flight
    BY <2>4
  <2>7. ASSUME UNCHANGED local, UNCHANGED nodes PROVE Flight
    <3>1. UNCHANGED <<pc, req, dpl, todo, nodes>>
      BY <2>7 DEF local
    <3>2. Purging' <=> Purging
      BY <3>1 DEF Purging, Purged
    <3>3. cr'[req].exists = cr[req].exists
      BY <1>a, <1>f
    <3> QED
      BY <1>c, <2>4, <3>1, <3>2, <3>3
  <2> QED
    BY <1>a, <2>1, <2>2, <2>3, <2>5, <2>6, <2>7
<1>g. UNCHANGED cr => \A c \in Clusters :
        /\ cr'[c].exists = cr[c].exists
        /\ cr[c].exists => SizeOf(cr'[c]) = SizeOf(cr[c]) /\ UuidOf(cr'[c]) = UuidOf(cr[c])
  OBVIOUS
\* steps of another cluster, or of no reconcile
<1>h. ASSUME NEW c \in Clusters, UNCHANGED local, UNCHANGED nodes,
             c # req \/ pc = "idle" \/ ~cr'[c].exists,
             DOMAIN joined' = Clusters, Quorate(cr'[c], objs'[c], joined'[c], min'[c]),
             \A e \in Clusters : e # c => cr'[e] = cr[e] /\ objs'[e] = objs[e] /\ joined'[e] = joined[e] /\ min'[e] = min[e]
      PROVE  QuorumInv'
  <2>1. UNCHANGED <<pc, req, dpl, todo, nodes>>
    BY <1>h DEF local
  <2>2. Purging' <=> Purging
    BY <2>1 DEF Purging, Purged
  <2>3. Flight
    <3>1. CASE c # req
      <4>1. cr'[req] = cr[req] /\ objs'[req] = objs[req] /\ joined'[req] = joined[req] /\ min'[req] = min[req]
        BY <1>a, <1>h, <3>1
      <4> QED
        BY <1>c, <2>1, <2>2, <4>1
    <3>2. CASE c = req
      BY <1>h, <2>1, <3>2
    <3> QED
      BY <3>1, <3>2
  <2>4. Quorums
    <3> SUFFICES ASSUME NEW e \in Clusters PROVE Quorate(cr'[e], objs'[e], joined'[e], min'[e])
      OBVIOUS
    <3>1. CASE e = c
      BY <1>h, <3>1
    <3>2. CASE e # c
      <4>1. cr'[e] = cr[e] /\ objs'[e] = objs[e] /\ joined'[e] = joined[e] /\ min'[e] = min[e]
        BY <1>h, <3>2
      <4> QED
        BY <1>b, <4>1
    <3> QED
      BY <3>1, <3>2
  <2> HIDE DEF Flight, Quorums
  <2> QED
    BY <1>d, <1>h, <2>3, <2>4
<1> HIDE DEF Flight, Quorums
<1>1. CASE isValidConf \/ SaveNode \/ UpdateClusterStatus
  <2>1. UNCHANGED <<kube, min>> /\ pc # "idle"
    BY <1>1 DEF isValidConf, SaveNode, UpdateClusterStatus, es
  <2>2. \A c \in Clusters : cr'[c].exists = cr[c].exists /\ cr'[c].spec = cr[c].spec
    BY <1>1, <1>a, StatusKeeps
  <2>3. \A c \in Clusters : SizeOf(cr'[c]) = SizeOf(cr[c]) /\ UuidOf(cr'[c]) = UuidOf(cr[c])
    BY <2>2 DEF SizeOf, UuidOf
  <2>4. CASE UpdateClusterStatus
    <3>1. Return
      BY <2>4 DEF UpdateClusterStatus
    <3> QED
      BY <1>d, <1>f, <2>1, <2>2, <2>3, <3>1
  <2>5. CASE isValidConf \/ SaveNode
    <3>1. UNCHANGED <<req, todo>> /\ pc' # "keep"
      BY <2>5 DEF isValidConf, SaveNode
    <3>2. dpl' = dpl \/ (cr[req].exists /\ dpl'.spec = cr[req].spec)
      BY <2>5, <1>a, StatusKeeps
    <3>3. SizeOf(dpl') = SizeOf(dpl) \/ SizeOf(dpl') = SizeOf(cr'[req])
      BY <1>a, <2>2, <3>2 DEF SizeOf
    <3> QED
      BY <1>d, <1>e, <1>f, <2>1, <2>2, <2>3, <3>1, <3>3
  <2> QED
    BY <1>1, <2>4, <2>5
<1>2. CASE Fail \/ OperatorRestart
  <2>1. UNCHANGED <<kube, min, cr>> /\ Return
    BY <1>2 DEF Fail, OperatorRestart, Restart, es
  <2> QED
    BY <1>d, <1>f, <1>g, <2>1
<1>3. CASE setUUIDs
  <2>1. UNCHANGED <<kube, min>> /\ pc = "uuid"
    BY <1>3 DEF setUUIDs, es
  <2>2. CASE UNCHANGED cr /\ (Return \/ (UNCHANGED <<req, todo, pc>> /\ (dpl' = dpl \/ dpl' = cr[req])))
    BY <1>d, <1>e, <1>f, <1>g, <2>1, <2>2
  <2>3. CASE UNCHANGED <<cr, req, todo, pc>> /\ ~cr[req].exists
    <3>1. Flight
      BY <2>3 DEF Flight
    <3> QED
      BY <1>d, <1>f, <1>g, <2>1, <2>3, <3>1
  <2>4. CASE /\ cr[req].exists
             /\ uuids' = uuids + 1 /\ idx \in DOMAIN cr[req].spec /\ cr[req].spec[idx].uuid = NoUuid
             /\ dpl' = Drawn(cr[req]) /\ cr' = [cr EXCEPT ![req] = Drawn(cr[req])]
             /\ UNCHANGED <<pc, req, todo>>
    <3> DEFINE s == Drawn(cr[req])
    <3>1. One(cr[req])
      BY <1>a, <2>4 DEF ObjectsInv
    <3>2. idx = 1
      <4>1. cr[req].spec \in Seq(Group) /\ Len(cr[req].spec) = 1
        BY <1>a, <3>1 DEF Resource, One
      <4> QED
        BY <2>4, <4>1, LenProperties
    <3>3. UuidOf(cr[req]) = NoUuid
      BY <2>4, <3>2 DEF UuidOf
    <3>4. s.exists /\ SizeOf(s) = SizeOf(cr[req])
      BY <1>a, <2>4, <3>1, DrawnOne DEF SizeOf, TypeInv, DataTyped
    <3>5. DOMAIN objs[req] = {} /\ todo = <<>>
      BY <1>a, <1>b, <1>c, <2>1, <2>4, <3>3
    <3>6. cr'[req] = s /\ \A c \in Clusters : c # req => cr'[c] = cr[c]
      BY <1>a, <2>4
    <3> HIDE DEF s
    <3>7. SizeOf(s) # 0
      BY <1>a, <1>b, <2>4, <3>4 DEF Quorate
    <3>8. Quorate(s, objs[req], joined[req], min[req])
      BY <1>a, <1>b, <3>4, <3>5, <3>7, NothingThere
    <3>9. InFlight(s, objs[req], joined[req], SizeOf(s), <<>>)
      BY <3>4, <3>8, Begins
    <3>10. UNCHANGED <<objs, joined, min>>
      BY <2>1 DEF kube
    <3>11. Flight
      <4>1. todo' = <<>> /\ dpl' = s /\ req' = req /\ ~Purging'
        BY <1>e, <2>1, <2>4, <3>5 DEF s
      <4> QED
        BY <3>6, <3>9, <3>10, <4>1 DEF Flight
    <3>12. Quorums
      BY <1>b, <3>6, <3>8, <3>10 DEF Quorums
    <3> QED
      BY <1>a, <1>d, <3>10, <3>11, <3>12
  <2> QED
    BY <1>3, <2>2, <2>3, <2>4, UuidWritten
<1>4. CASE Pass \/ NextNode \/ UpdateReplicaCount
  <2>1. UNCHANGED <<kube, min, cr, req, todo, dpl>> /\ pc # "idle" /\ pc' # "keep"
    BY <1>4 DEF Pass, NextNode, UpdateReplicaCount, es
  <2> QED
    BY <1>d, <1>e, <1>f, <1>g, <2>1
<1>5. CASE getNodes
  <2>1. UNCHANGED <<kube, min, cr>> /\ pc # "idle"
    BY <1>5 DEF getNodes, es
  <2>2. Return \/ (UNCHANGED <<nodes, req, dpl, todo>> /\ (pc' = "keep" => Purged = {}))
    BY <1>5 DEF getNodes, Panic, Restart
  <2>3. CASE Return
    BY <1>d, <1>f, <1>g, <2>1, <2>3
  <2>4. CASE UNCHANGED <<nodes, req, dpl, todo>> /\ (pc' = "keep" => Purged = {})
    <3>1. ~Purging'
      BY <2>4 DEF Purging, Purged
    <3> QED
      BY <1>d, <1>f, <1>g, <2>1, <2>4, <3>1
  <2> QED
    BY <2>2, <2>3, <2>4
<1>6. CASE PurgeMinMasters \/ UpdateMinMasters
  <2>1. /\ updateMinMasters /\ pc # "idle" /\ UNCHANGED <<kube, cr, req, dpl>>
        /\ UNCHANGED todo \/ (pc = "min" /\ pc' = "loop" /\ todo' = Tail(todo) /\ todo # <<>>)
    BY <1>6 DEF PurgeMinMasters, UpdateMinMasters, TypeInv, StepsInv
  <2>2. UNCHANGED <<objs, joined>>
    BY <2>1 DEF kube
  <2>3. Quorums
    BY <2>1, <2>2, MinStep DEF Quorums
  <2>4. ASSUME cr[req].exists
        PROVE  /\ InFlight(cr[req], objs[req], joined[req], SizeOf(dpl), todo')
               /\ Lowered(cr[req], objs[req], min'[req], SizeOf(dpl))
    <3>1. InFlight(cr[req], objs[req], joined[req], SizeOf(dpl), todo)
      BY <1>c, <2>1, <2>4
    <3>2. CASE UNCHANGED todo
      BY <2>1, <2>4, <3>1, <3>2, MinStep
    <3>3. CASE todo' = Tail(todo) /\ todo # <<>>
      <4>1. \A i \in DOMAIN todo' : i + 1 \in DOMAIN todo /\ todo'[i] = todo[i + 1]
        BY <1>a, <3>3, HeadTailProperties, LenProperties, EmptySeq
      <4>2. InFlight(cr[req], objs[req], joined[req], SizeOf(dpl), todo')
        BY <3>1, <4>1 DEF InFlight
      <4> QED
        BY <2>1, <2>4, <4>2, MinStep
    <3> QED
      BY <2>1, <3>2, <3>3
  <2>5. Flight
    BY <2>1, <2>2, <2>4 DEF Flight
  <2> QED
    BY <1>a, <1>d, <2>2, <2>3, <2>5
<1>7. CASE Keep
  <2> DEFINE new(gone) == [n \in DOMAIN objs[req] \ gone |-> objs[req][n]]
             d == SizeOf(dpl)
             q == NodesOf(dpl.spec)
  <2>1. PICK gone \in SUBSET Purged : objs' = [objs EXCEPT ![req] = [n \in DOMAIN @ \ gone |-> @[n]]]
    BY <1>7 DEF Keep
  <2>2. /\ objs'[req] = new(gone) /\ \A c \in Clusters : c # req => objs'[c] = objs[c]
    BY <1>a, <2>1
  <2>3. /\ pc = "keep" /\ pc' = "loop" /\ UNCHANGED <<cr, req, joined, min>> /\ todo' = q
        /\ dpl' = [dpl EXCEPT !.nodes = @ \ Purged]
    BY <1>7 DEF Keep, es
  <2>4. SizeOf(dpl') = d
    BY <2>3 DEF TypeInv, DataTyped, Resource, SizeOf
  <2>5. CASE ~cr[req].exists
    <3>1. DOMAIN objs[req] = {} /\ joined[req] = {}
      BY <1>a, <1>b, <2>5 DEF Quorate
    <3>2. joined[req] \cap PodsIn(new(gone)) = joined[req] \cap PodsIn(objs[req])
      BY <3>1
    <3> HIDE DEF new
    <3>3. Quorate(cr[req], new(gone), joined[req], min[req])
      BY <1>a, <1>b, <2>5, <3>2 DEF Quorate
    <3>4. Quorums
      BY <1>b, <2>2, <2>3, <3>3 DEF Quorums
    <3>5. Flight
      BY <2>3, <2>5 DEF Flight
    <3> QED
      BY <1>a, <1>d, <2>3, <3>4, <3>5
  <2>6. CASE cr[req].exists
    <3>1. /\ One(dpl) /\ InFlight(cr[req], objs[req], joined[req], d, todo)
          /\ Purging => Lowered(cr[req], objs[req], min[req], d)
      BY <1>c, <2>3, <2>6
    <3>2. UuidOf(dpl) = UuidOf(cr[req])
      <4>1. dpl.spec \in Seq(Group) /\ Len(dpl.spec) = 1
        BY <3>1 DEF One, TypeInv, DataTyped, Resource
      <4>2. 1 \in DOMAIN dpl.spec
        BY <4>1, LenProperties
      <4>3. UuidOf(dpl) # NoUuid
        BY <2>3, <4>2 DEF TypeInv, StepsInv, UuidOf
      <4> QED
        BY <1>c, <2>3, <2>6, <4>3
    <3>3. d \in Nat /\ Names(q) = Nodes(UuidOf(cr[req]), d)
      BY <3>1, <3>2, WorkedWith
    <3>4. \A i \in DOMAIN q : q[i].name \in Nodes(UuidOf(cr[req]), d)
      BY <3>3 DEF Names
    <3>5. gone \cap Nodes(UuidOf(cr[req]), d) = {} /\ (gone # {} => Purged # {})
      <4>1. Purged \cap Names(q) = {}
        BY DEF Purged
      <4> QED
        BY <2>1, <3>3, <4>1
    <3>6. gone # {} => Lowered(cr[req], objs[req], min[req], d)
      BY <2>3, <3>1, <3>5 DEF Purging
    <3> HIDE DEF d, q
    <3>7. Quorate(cr[req], new(gone), joined[req], min[req]) /\ InFlight(cr[req], new(gone), joined[req], d, q)
      BY <1>a, <1>b, <2>6, <3>1, <3>3, <3>4, <3>5, <3>6, PurgeKeeps
    <3> HIDE DEF new
    <3>8. Quorums
      BY <1>b, <2>2, <2>3, <3>7 DEF Quorums
    <3>9. Flight
      <4>1. ~Purging'
        BY <1>e, <2>3
      <4> QED
        BY <2>2, <2>3, <2>4, <3>7, <4>1 DEF Flight
    <3> QED
      BY <1>a, <1>d, <2>3, <3>8, <3>9
  <2> QED
    BY <2>5, <2>6
<1>8. CASE Create
  <2> DEFINE n == Head(todo)
             new == [x \in DOMAIN objs[req] \cup {n.name} |-> IF x = n.name THEN n.replicas ELSE objs[req][x]]
  <2>1. UNCHANGED <<cr, joined, min>> /\ pc = "create"
    BY <1>8 DEF Create, es
  <2>2. CASE Return /\ UNCHANGED objs
    BY <1>d, <1>f, <1>g, <2>1, <2>2 DEF kube
  <2>3. CASE ~cr[req].exists /\ UNCHANGED <<objs, req>>
    <3>1. Flight
      BY <2>1, <2>3 DEF Flight
    <3> QED
      BY <1>d, <1>f, <1>g, <2>1, <2>3, <3>1 DEF kube
  <2>4. CASE cr[req].exists /\ objs' = [objs EXCEPT ![req] = new] /\ pc' = "save" /\ UNCHANGED <<req, dpl, todo>>
    <3>1. todo # <<>>
      BY <2>1 DEF TypeInv, StepsInv
    <3>2. 1 \in DOMAIN todo /\ n = todo[1]
      BY <1>a, <3>1, HeadTailProperties, LenProperties, EmptySeq
    <3>3. n.replicas = 1
      BY <1>a, <2>1, <2>4, <3>2 DEF TodoInv, Fresh
    <3>4. objs'[req] = new /\ \A c \in Clusters : c # req => objs'[c] = objs[c]
      BY <1>a, <2>4
    <3> DEFINE one == [x \in DOMAIN objs[req] \cup {todo[1].name} |-> IF x = todo[1].name THEN 1 ELSE objs[req][x]]
    <3>5. new = one
      BY <3>2, <3>3
    <3>6. InFlight(cr[req], objs[req], joined[req], SizeOf(dpl), todo)
      BY <1>c, <2>1, <2>4
    <3>7. Quorate(cr[req], one, joined[req], min[req]) /\ InFlight(cr[req], one, joined[req], SizeOf(dpl), todo)
      <4> DEFINE r == cr[req]
                 o == objs[req]
                 j == joined[req]
                 m == min[req]
                 d == SizeOf(dpl)
                 x1 == todo[1].name
      <4>1. Quorate(r, o, j, m) /\ m \in Nat /\ r.exists /\ (\A x \in DOMAIN o : o[x] = 1) /\ InFlight(r, o, j, d, todo)
        BY <1>a, <1>b, <2>4, <3>6
      <4>2. one = [x \in DOMAIN o \cup {x1} |-> IF x = x1 THEN 1 ELSE o[x]] /\ x1 = todo[1].name
        OBVIOUS
      <4> HIDE DEF r, o, j, m, d, one, x1
      <4>3. Quorate(r, one, j, m) /\ InFlight(r, one, j, d, todo)
        BY <3>2, <4>1, <4>2, CreateKeeps
      <4> QED
        BY <4>3 DEF r, j, m, d
    <3> HIDE DEF new, one
    <3>8. Quorums
      BY <1>b, <2>1, <3>4, <3>5, <3>7 DEF Quorums
    <3>9. Flight
      <4>1. ~Purging'
        BY <1>e, <2>4
      <4> QED
        BY <2>1, <2>4, <3>4, <3>5, <3>7, <4>1 DEF Flight
    <3> QED
      BY <1>a, <1>d, <2>1, <3>8, <3>9
  <2>5. CASE UNCHANGED <<objs, req, dpl, todo>> /\ pc' = "save"
    <3>1. ~Purging' /\ UNCHANGED <<kube, min>> /\ pc # "idle"
      BY <1>e, <2>1, <2>5 DEF kube
    <3> QED
      BY <1>d, <1>f, <2>1, <2>5, <3>1
  <2> QED
    BY <1>8, <2>2, <2>3, <2>4, <2>5, Zenon DEF Create
<1>9. CASE \E c \in Clusters : StartReconcile(c)
  <2>1. PICK c \in Clusters : StartReconcile(c)
    BY <1>9
  <2>2. /\ cr[c].exists /\ req' = c /\ dpl' = cr[c] /\ pc = "idle" /\ pc' = "check"
        /\ UNCHANGED <<cr, todo, kube, min>>
    BY <2>1 DEF StartReconcile, es
  <2>3. todo' = <<>> /\ ~Purging'
    BY <1>a, <1>e, <2>2 DEF TodoInv
  <2>4. InFlight(cr[c], objs[c], joined[c], SizeOf(cr[c]), <<>>)
    BY <1>b, <2>2, Begins
  <2>5. Flight
    BY <2>2, <2>3, <2>4 DEF Flight, kube
  <2> QED
    BY <1>d, <1>f, <1>g, <2>2, <2>5
<1>10. CASE \E c \in Clusters : JoinCluster(c) \/ LeaveCluster(c)
  <2>1. PICK c \in Clusters : JoinCluster(c) \/ LeaveCluster(c)
    BY <1>10
  <2>2. PodsOf(c) = PodsIn(objs[c])
    BY DEF PodsOf, PodsIn
  <2>3. UNCHANGED <<cr, objs, min, local, nodes>>
    BY <2>1 DEF JoinCluster, LeaveCluster, envFrame, es, mem
  <2>4. PICK j : /\ joined' = [joined EXCEPT ![c] = j]
                 /\ Quorate(cr[c], objs[c], j, min[c])
                 /\ \A d, t : InFlight(cr[c], objs[c], joined[c], d, t) => InFlight(cr[c], objs[c], j, d, t)
    <3>1. CASE JoinCluster(c)
      <4>1. PICK p \in PodsOf(c) : joined' = [joined EXCEPT ![c] = @ \cup {p}]
        BY <3>1 DEF JoinCluster
      <4>2. joined' = [joined EXCEPT ![c] = joined[c] \cup {p}]
        BY <4>1
      <4>3. /\ Quorate(cr[c], objs[c], joined[c], min[c]) /\ min[c] \in Nat
            /\ (DOMAIN objs[c] # {} => cr[c].exists) /\ p \in PodsIn(objs[c])
        BY <1>b, <2>2
      <4>4. /\ Quorate(cr[c], objs[c], joined[c] \cup {p}, min[c])
            /\ \A d, t : InFlight(cr[c], objs[c], joined[c], d, t) => InFlight(cr[c], objs[c], joined[c] \cup {p}, d, t)
        BY <4>3, JoinKeeps
      <4> QED
        BY <4>2, <4>4
    <3>2. CASE LeaveCluster(c)
      <4>1. PICK p \in joined[c] \ PodsOf(c) : joined' = [joined EXCEPT ![c] = @ \ {p}]
        BY <3>2 DEF LeaveCluster
      <4>2. joined' = [joined EXCEPT ![c] = joined[c] \ {p}]
        BY <4>1
      <4> QED
        BY <1>b, <2>2, <4>2, LeaveKeeps
    <3> QED
      BY <2>1, <3>1, <3>2
  <2>5. DOMAIN joined' = Clusters /\ joined'[c] = j /\ \A e \in Clusters : e # c => joined'[e] = joined[e]
    BY <1>a, <2>4
  <2>6. CASE c # req
    BY <1>h, <2>3, <2>4, <2>5, <2>6
  <2>7. CASE c = req
    <3>1. UNCHANGED <<pc, req, dpl, todo, nodes>>
      BY <2>3 DEF local
    <3>2. Purging' <=> Purging
      BY <3>1 DEF Purging, Purged
    <3>3. Quorums
      BY <1>b, <2>3, <2>4, <2>5 DEF Quorums
    <3>4. Flight
      BY <1>c, <2>3, <2>4, <2>5, <2>7, <3>1, <3>2 DEF Flight
    <3> QED
      BY <1>d, <2>5, <3>3, <3>4
  <2> QED
    BY <2>6, <2>7
<1>11. CASE \E c \in Clusters : FlushNodes(c)
  <2>1. pc = "idle" /\ (Return \/ UNCHANGED local)
    BY <1>11 DEF FlushNodes, Panic, Restart, es
  <2>2. pc' = "idle"
    BY <2>1 DEF Return, local
  <2>3. Flight
    BY <2>2 DEF Flight
  <2>4. UNCHANGED <<cr, kube, min>>
    BY <1>11 DEF FlushNodes, es
  <2> QED
    BY <1>d, <1>f, <1>g, <2>3, <2>4
<1>12. CASE \E c \in Clusters : DeleteCR(c)
  <2>1. PICK c \in Clusters : DeleteCR(c)
    BY <1>12
  <2>2. /\ cr' = [cr EXCEPT ![c] = NoCR] /\ objs' = [objs EXCEPT ![c] = <<>>] /\ joined' = [joined EXCEPT ![c] = {}]
        /\ min' = [min EXCEPT ![c] = 0] /\ UNCHANGED local /\ UNCHANGED nodes
    BY <2>1 DEF DeleteCR, mem
  <2>3. /\ cr'[c] = NoCR /\ objs'[c] = <<>> /\ joined'[c] = {} /\ min'[c] = 0 /\ DOMAIN joined' = Clusters
        /\ \A e \in Clusters : e # c => cr'[e] = cr[e] /\ objs'[e] = objs[e] /\ joined'[e] = joined[e] /\ min'[e] = min[e]
    BY <1>a, <2>2
  <2>4. ~NoCR.exists
    BY DEF NoCR
  <2>5. Quorate(NoCR, <<>>, {}, 0)
    <3>1. IsFiniteSet({})
      BY FS_EmptySet
    <3>2. {} \cap PodsIn(<<>>) = {}
      OBVIOUS
    <3>3. MastersIn({}) \in Nat
      BY <3>1, MastersGrow
    <3>4. 0 <= MastersIn({})
      BY <3>3
    <3> QED
      BY <2>4, <3>1, <3>2, <3>4 DEF Quorate
  <2> QED
    BY <1>h, <2>2, <2>3, <2>4, <2>5
<1>13. CASE \E c \in Clusters, l \in Lists, p \in Policies : EditSpec(c, l, p)
  <2>1. PICK c \in Clusters, l \in Lists, p \in Policies : EditSpec(c, l, p)
    BY <1>13
  <2>2. UNCHANGED <<kube, min, local, nodes>> /\ cr[c].exists
    BY <2>1 DEF EditSpec, envFrame, es, mem
  <2>3. /\ \A e \in Clusters : e # c => cr'[e] = cr[e]
        /\ cr'[c].exists /\ cr'[c].exists = cr[c].exists /\ UuidOf(cr'[c]) = UuidOf(cr[c])
    <3>1. cr'[c].exists = cr[c].exists /\ \A e \in Clusters : e # c => cr'[e] = cr[e]
      BY <2>1, EditedUuids DEF TypeInv
    <3> QED
      BY <1>a, <2>1, <2>2, <3>1, EditKeeps
  <2>4. SizeOf(cr'[c]) \in Nat \ {0}
    <3>1. l \in Seq([kind: Kind, count: Nat]) /\ Len(l) = 1 /\ l[1].count # 0
      BY ListsAssumption DEF OneGroup, NeverEmpty
    <3>2. DOMAIN l = 1..1 /\ l[1] \in [kind: Kind, count: Nat]
      <4> DEFINE G == [kind: Kind, count: Nat]
      <4> HIDE DEF G
      <4>1. l \in Seq(G)
        BY <3>1 DEF G
      <4>2. DOMAIN l = 1..1
        BY <3>1, <4>1, LenProperties
      <4>3. l[1] \in G
        BY <3>1, <4>1, ElementOfSeq
      <4> QED
        BY <4>2, <4>3 DEF G
    <3> DEFINE old == cr[c].spec
               kept(i) == IF i \in DOMAIN old /\ old[i].kind = l[i].kind THEN old[i].uuid ELSE NoUuid
               new == [i \in DOMAIN l |-> [kind |-> l[i].kind, count |-> l[i].count, uuid |-> kept(i)]]
    <3>3. cr' = [cr EXCEPT ![c].spec = new, ![c].policy = p]
      BY <2>1 DEF EditSpec, Groups
    <3>4. new[1].count = l[1].count
      BY <3>2
    <3> HIDE DEF new
    <3>5. cr'[c].spec = new
      BY <1>a, <3>3 DEF Resource
    <3> QED
      BY <3>1, <3>2, <3>4, <3>5 DEF SizeOf
  <2>5. CASE SizeOf(cr'[c]) = SizeOf(cr[c])
    <3>1. \A e \in Clusters : /\ cr'[e].exists = cr[e].exists
                              /\ cr[e].exists => SizeOf(cr'[e]) = SizeOf(cr[e]) /\ UuidOf(cr'[e]) = UuidOf(cr[e])
      BY <2>2, <2>3, <2>5
    <3> QED
      BY <1>d, <1>f, <2>2, <3>1
  <2>6. CASE SizeOf(cr'[c]) # SizeOf(cr[c])
    <3>1. Rested(c)
      <4>1. cr' # cr
        BY <2>6
      <4>2. Waits
        BY <4>1 DEF vars
      <4> QED
        BY <2>2, <2>3, <2>6, <4>2 DEF Waits
    <3>2. PICK k \in 0..maxMasterCount : /\ DOMAIN objs[c] = Nodes(UuidOf(cr[c]), k)
                                         /\ pc = "idle" \/ req # c \/ k = SizeOf(cr[c])
      BY <3>1 DEF Rested
    <3>3. k \in Nat /\ joined[c] = PodsIn(objs[c]) /\ UNCHANGED <<objs, joined, min>>
      BY <2>2, <3>1 DEF Rested, PodsOf, PodsIn, maxMasterCount, kube
    <3>4. /\ Quorate(cr'[c], objs[c], joined[c], min[c])
          /\ \A d, t : InFlight(cr[c], objs[c], joined[c], d, t) /\ k = SizeOf(cr[c])
                         => InFlight(cr'[c], objs[c], joined[c], d, t) /\ Within(objs[c], UuidOf(cr'[c]), d)
      BY <1>b, <2>2, <2>3, <2>4, <3>2, <3>3, EditQuorate
    <3>5. CASE pc = "idle" \/ req # c
      BY <1>a, <1>h, <2>2, <2>3, <3>3, <3>4, <3>5
    <3>6. CASE pc # "idle" /\ req = c /\ k = SizeOf(cr[c])
      <4>1. UNCHANGED <<pc, req, dpl, todo>>
        BY <2>2 DEF local
      <4>2. InFlight(cr'[c], objs[c], joined[c], SizeOf(dpl), todo) /\ Within(objs[c], UuidOf(cr'[c]), SizeOf(dpl))
        BY <1>c, <2>2, <3>4, <3>6
      <4>3. Lowered(cr'[c], objs[c], min[c], SizeOf(dpl))
        BY <4>2 DEF Lowered
      <4>4. Flight
        BY <3>3, <3>6, <4>1, <4>2, <4>3 DEF Flight
      <4>5. Quorums
        BY <1>b, <2>3, <3>3, <3>4 DEF Quorums
      <4> QED
        BY <1>a, <1>d, <3>3, <4>4, <4>5
    <3> QED
      BY <3>2, <3>5, <3>6
  <2> QED
    BY <2>5, <2>6
<1>14. CASE \E c \in Clusters, l \in Lists, p \in Policies : RecreateCR(c, l, p)
  <2>1. PICK c \in Clusters, l \in Lists, p \in Policies : RecreateCR(c, l, p)
    BY <1>14
  <2>2. /\ ~cr[c].exists /\ (pc = "idle" \/ req # c) /\ cr' = [cr EXCEPT ![c] = NewCR(l, p)]
        /\ UNCHANGED <<objs, joined, min, nodes>> /\ UNCHANGED local
    BY <2>1 DEF RecreateCR, envFrame, kube, es, mem
  <2>3. cr'[c] = NewCR(l, p) /\ \A e \in Clusters : e # c => cr'[e] = cr[e]
    BY <1>a, <2>2
  <2>4. NewCR(l, p).exists /\ SizeOf(NewCR(l, p)) # 0
    <3>1. l \in Seq([kind: Kind, count: Nat]) /\ Len(l) = 1 /\ l[1].count # 0
      BY ListsAssumption DEF OneGroup, NeverEmpty
    <3>2. DOMAIN l = 1..1
      BY <3>1, LenProperties
    <3> DEFINE s == [i \in DOMAIN l |-> [kind |-> l[i].kind, count |-> l[i].count, uuid |-> NoUuid]]
    <3>3. s[1].count # 0
      BY <3>1, <3>2
    <3>4. NewCR(l, p).spec = s
      BY DEF NewCR, NoCR, Groups
    <3> HIDE DEF s
    <3>5. SizeOf(NewCR(l, p)) # 0
      BY <3>3, <3>4 DEF SizeOf
    <3> QED
      BY <3>5, NewOne
  <2>5. DOMAIN objs[c] = {}
    BY <1>b, <2>2
  <2>6. Quorate(NewCR(l, p), objs[c], joined[c], min[c])
    BY <1>b, <2>2, <2>4, <2>5, NothingThere
  <2> QED
    BY <1>a, <1>h, <2>2, <2>3, <2>6
<1>15. CASE UNCHANGED vars
  <2>1. UNCHANGED <<cr, kube, min, nodes>> /\ UNCHANGED local
    BY <1>15 DEF vars, es, mem
  <2> QED
    BY <1>d, <1>f, <1>g, <2>1
<1> QED
  BY <1>1, <1>2, <1>3, <1>4, <1>5, <1>6, <1>7, <1>8, <1>9, <1>10, <1>11, <1>12, <1>13, <1>14, <1>15
  DEF Next, Reconcile, Pods

(* The quorum the operator sets in Elasticsearch can be met by the masters
   that exist, when users scale one group of nodes, never to nothing, and
   change its size only while its pods are those of its objects: for any
   number of changes, of custom resources, restarts, deletions, failing
   creations and failing writes.  A resource is recreated once the reconcile
   of its predecessor has returned, and Elasticsearch has to
   answer: the error of lowering the quorum before nodes are deleted is
   ignored.                                                                *)
THEOREM QuorumStaysReachable ==
    ASSUME OneGroup, NeverEmpty, MaxLost = 0, "es" \notin Hazards, "recreate" \notin Hazards
    PROVE  Spec /\ ScalingWaits => []QuorumReachable
<1>1. Init => OneInv /\ QuorumInv
  <2> SUFFICES ASSUME Init PROVE OneInv /\ QuorumInv
    OBVIOUS
  <2>1. PICK f \in [Clusters -> Lists], g \in [Clusters -> Policies] : cr = [c \in Clusters |-> NewCR(f[c], g[c])]
    BY DEF Init
  <2>2. /\ objs = [c \in Clusters |-> <<>>] /\ joined = [c \in Clusters |-> {}] /\ min = [c \in Clusters |-> 0]
        /\ pc = "idle" /\ todo = <<>>
    BY DEF Init
  <2>3. \A c \in Clusters : One(cr[c]) /\ cr[c].exists /\ DOMAIN objs[c] = {}
    BY <2>1, <2>2, NewOne
  <2>4. OneInv
    BY <2>2, <2>3 DEF OneInv, ObjectsInv, TodoInv
  <2>5. ASSUME NEW c \in Clusters PROVE SizeOf(cr[c]) # 0
    <3> DEFINE l == f[c]
               s == [i \in DOMAIN l |-> [kind |-> l[i].kind, count |-> l[i].count, uuid |-> NoUuid]]
    <3>1. l \in Lists
      BY <2>5
    <3> HIDE DEF l
    <3>2. l \in Seq([kind: Kind, count: Nat]) /\ Len(l) = 1 /\ l[1].count # 0
      BY <3>1, ListsAssumption DEF OneGroup, NeverEmpty
    <3>3. DOMAIN l = 1..1
      BY <3>2, LenProperties
    <3>4. s[1].count # 0
      BY <3>2, <3>3
    <3>5. cr[c].spec = s
      BY <2>1, <2>5 DEF NewCR, NoCR, Groups, l
    <3> HIDE DEF s
    <3> QED
      BY <3>4, <3>5 DEF SizeOf
  <2>6. ASSUME NEW c \in Clusters PROVE QuorumOf(c)
    <3>1. IsFiniteSet({}) /\ {} \cap PodsIn(objs[c]) = {}
      BY FS_EmptySet
    <3>2. MastersIn({}) \in Nat
      BY <3>1, MastersGrow
    <3>3. 0 <= MastersIn({}) /\ joined[c] = {} /\ min[c] = 0
      BY <2>2, <2>6, <3>2
    <3>4. Within(objs[c], UuidOf(cr[c]), SizeOf(cr[c]))
      BY <2>3 DEF Within
    <3> QED
      BY <2>3, <2>5, <3>1, <3>3, <3>4 DEF QuorumOf, Quorate
  <2> QED
    BY <2>2, <2>4, <2>6 DEF QuorumInv, FlightInv
<1>2. TypeInv /\ OneInv /\ QuorumInv /\ [Next]_vars /\ [Waits]_vars => OneInv' /\ QuorumInv'
  BY ObjectsStep, TodoStep, QuorumStep DEF OneInv
<1>3. TypeInv /\ OneInv /\ QuorumInv => QuorumReachable
  <2> SUFFICES ASSUME TypeInv, OneInv, QuorumInv, NEW c \in Clusters PROVE min[c] <= MastersIn(PodsOf(c))
    BY DEF QuorumReachable
  <2> DEFINE S == joined[c] \cap PodsIn(objs[c])
  <2>1. min[c] <= MastersIn(S) /\ min[c] \in Nat
    BY DEF QuorumInv, QuorumOf, Quorate, TypeInv, EsTyped
  <2>2. PodsOf(c) = PodsIn(objs[c])
    BY DEF PodsOf, PodsIn
  <2>3. IsFiniteSet(PodsOf(c))
    BY ThreePods DEF OneInv
  <2>4. MastersIn(S) \in Nat /\ MastersIn(PodsOf(c)) \in Nat /\ MastersIn(S) <= MastersIn(PodsOf(c))
    <3>1. S \in SUBSET PodsOf(c)
      BY <2>2
    <3> QED
      BY <2>3, <3>1, MastersGrow
  <2> HIDE DEF S
  <2> QED
    BY <2>1, <2>4
<1> QED
  BY <1>1, <1>2, <1>3, TypeInvAlways, PTL DEF Spec, ScalingWaits
=============================================================================
