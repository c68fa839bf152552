--------------------------- MODULE RollingRestart ---------------------------
(***************************************************************************)
(* What a rolling upgrade promises the data in the cluster, in three       *)
(* variables: nodes have their turn one after the other, a node's shards   *)
(* are taken away only in its turn and while Elasticsearch is told not to  *)
(* move them, and a turn begins only when no shard is missing.             *)
(* RollingUpgrade implements this when nothing fails.                      *)
(***************************************************************************)
EXTENDS TLAPS

CONSTANT Node

VARIABLES
    turn,      \* the nodes being taken down and brought back
    alloc,     \* cluster.routing.allocation.enable
    missing    \* the nodes whose shards are not assigned

vars == <<turn, alloc, missing>>

Init == turn = {} /\ alloc = "all" /\ missing = {}

\* a node's turn begins in a green cluster, when it is no other node's turn
Begin(n) ==
    /\ turn = {} /\ missing = {}
    /\ turn' = {n} /\ UNCHANGED <<alloc, missing>>

\* shards stay where they are during a turn
Disable ==
    /\ turn # {}
    /\ alloc' = "none" /\ UNCHANGED <<turn, missing>>

\* the last node of the cluster takes the transient setting with it
TakeDown(n) ==
    /\ n \in turn /\ alloc = "none"
    /\ missing' = missing \cup {n} /\ alloc' \in {"none", "all"} /\ UNCHANGED turn

\* the turn ends by letting Elasticsearch assign the shards again
Enable ==
    /\ turn' = {} /\ alloc' = "all" /\ UNCHANGED missing

Recover(n) ==
    /\ alloc = "all"
    /\ missing' = missing \ {n} /\ UNCHANGED <<turn, alloc>>

Next ==
    \/ Disable \/ Enable
    \/ \E n \in Node : Begin(n) \/ TakeDown(n) \/ Recover(n)

Spec == Init /\ [][Next]_vars

(* At no time are the shards of two nodes missing: with one replica every
   shard has a copy left.                                                  *)
OneNodeMissing ==
    /\ \A m, n \in turn : m = n
    /\ \A m, n \in missing : m = n
    /\ missing # {} /\ turn # {} => missing = turn

(* A rolling restart in the sense of RollingRestart never has the shards of
   two nodes missing, whatever the number of nodes: the promise that update
   and restart keep by waiting for a green cluster before a turn.          *)
THEOREM AtMostOneNodeMissing == Spec => []OneNodeMissing
<1>1. Init => OneNodeMissing
  BY DEF Init, OneNodeMissing
<1>2. OneNodeMissing /\ [Next]_vars => OneNodeMissing'
  <2> SUFFICES ASSUME OneNodeMissing, [Next]_vars
               PROVE  OneNodeMissing'
    OBVIOUS
  <2>1. CASE Disable
    BY <2>1 DEF Disable, OneNodeMissing
  <2>2. CASE Enable
    BY <2>2 DEF Enable, OneNodeMissing
  <2>3. ASSUME NEW n \in Node, Begin(n)
        PROVE  OneNodeMissing'
    BY <2>3 DEF Begin, OneNodeMissing
  <2>4. ASSUME NEW n \in Node, TakeDown(n)
        PROVE  OneNodeMissing'
    BY <2>4 DEF TakeDown, OneNodeMissing
  <2>5. ASSUME NEW n \in Node, Recover(n)
        PROVE  OneNodeMissing'
    <3>1. \A m \in missing' : m \in missing
      BY <2>5 DEF Recover
    <3>2. turn' = turn
      BY <2>5 DEF Recover
    <3>3. missing' # {} => missing' = missing
      BY <2>5 DEF Recover, OneNodeMissing
    <3> QED
      BY <3>1, <3>2, <3>3 DEF OneNodeMissing
  <2>6. CASE UNCHANGED vars
    BY <2>6 DEF vars, OneNodeMissing
  <2> QED
    BY <2>1, <2>2, <2>3, <2>4, <2>5, <2>6 DEF Next
<1> QED
  BY <1>1, <1>2, PTL DEF Spec
=============================================================================
