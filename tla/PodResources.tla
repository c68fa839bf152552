--------------------------- MODULE PodResources ----------------------------
(***************************************************************************)
(* newResourceRequirements (common.go): the cpu and memory of a node's     *)
(* container from what its group asks for, what the custom resource asks   *)
(* for all groups in common, and the defaults.  A quantity is a number; 0  *)
(* is a quantity that is not set, as IsZero has it.                        *)
(***************************************************************************)
EXTENDS Integers, TLAPS

Pair == [request: Nat, limit: Nat]
Unset == [request |-> 0, limit |-> 0]

defaultMemory     == [request |-> 1024, limit |-> 4096]   \* 1Gi, 4Gi
defaultCPURequest == 100                                  \* 100m

Or(quantity, otherwise) == IF quantity # 0 THEN quantity ELSE otherwise

\* if only one of the two is given it stands for the other as well
BothOf(p) == [request |-> Or(p.request, p.limit), limit |-> Or(p.limit, p.request)]

Memory(node, common) ==
    IF node = Unset /\ common = Unset THEN defaultMemory
    ELSE IF common = Unset THEN BothOf(node)
    ELSE [request |-> Or(node.request, BothOf(common).request),
          limit   |-> Or(node.limit, BothOf(common).limit)]

\* a limit stands for the request, but not the other way round
CPU(node, common) ==
    IF node = Unset /\ common = Unset
    THEN [request |-> defaultCPURequest, limit |-> 0]
    ELSE IF common = Unset
    THEN [request |-> BothOf(node).request, limit |-> node.limit]
    ELSE [request |-> Or(node.request, BothOf(common).request),
          limit   |-> Or(node.limit, common.limit)]

-----------------------------------------------------------------------------
Consistent(p) == p.request # 0 /\ p.limit # 0 => p.request <= p.limit

(* Whatever is left out of the custom resource, newResourceRequirements gives
   a container a memory request, a memory limit and a cpu request.         *)
THEOREM AlwaysRequested ==
    ASSUME NEW node \in Pair, NEW common \in Pair
    PROVE  /\ Memory(node, common) \in Pair /\ CPU(node, common) \in Pair
           /\ Memory(node, common).request # 0 /\ Memory(node, common).limit # 0
           /\ CPU(node, common).request # 0
<1>1. BothOf(node) \in Pair /\ BothOf(common) \in Pair
    BY DEF BothOf, Or, Pair
<1>2. ASSUME NEW p \in Pair, p # Unset
      PROVE  BothOf(p).request # 0 /\ BothOf(p).limit # 0
    <2>1. p = [request |-> p.request, limit |-> p.limit]
        BY <1>2 DEF Pair
    <2>2. p.request # 0 \/ p.limit # 0
        BY <1>2, <2>1 DEF Unset
    <2> QED
        BY <2>2 DEF BothOf, Or
<1>3. CASE node = Unset /\ common = Unset
    BY <1>3 DEF Memory, CPU, defaultMemory, defaultCPURequest, Pair
<1>4. CASE node # Unset /\ common = Unset
    BY <1>1, <1>2, <1>4 DEF Memory, CPU, Pair
<1>5. CASE common # Unset
    BY <1>1, <1>2, <1>5 DEF Memory, CPU, Or, Pair
<1> QED
    BY <1>3, <1>4, <1>5

(* No request exceeds its limit, which Kubernetes would refuse, as long as a
   group that overrides the common settings sets both of the two or neither:
   newResourceRequirements takes each of them from where it finds it.      *)
THEOREM RequestsWithinLimits ==
    ASSUME NEW node \in Pair, NEW common \in Pair,
           Consistent(node), Consistent(common),
           common = Unset \/ node = Unset \/ (node.request # 0 /\ node.limit # 0)
    PROVE  Consistent(Memory(node, common)) /\ Consistent(CPU(node, common))
<1>1. CASE common = Unset /\ node = Unset
    BY <1>1 DEF Memory, CPU, defaultMemory, Consistent
<1>2. CASE common = Unset /\ node # Unset
    BY <1>2 DEF Memory, CPU, BothOf, Or, Pair, Consistent
<1>3. CASE common # Unset /\ node = Unset
    BY <1>3 DEF Memory, CPU, BothOf, Or, Pair, Consistent, Unset
<1>4. CASE common # Unset /\ node.request # 0 /\ node.limit # 0
    BY <1>4 DEF Memory, CPU, BothOf, Or, Pair, Consistent, Unset
<1> QED
    BY <1>1, <1>2, <1>3, <1>4
=============================================================================
