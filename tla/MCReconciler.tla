---------------------------- MODULE MCReconciler ----------------------------
(* The specifications the run of Reconciler lets users ask for.            *)
EXTENDS Reconciler

S(masters, data, replicas, valid) ==
    [masters |-> masters, data |-> data, replicas |-> replicas, valid |-> valid]

\* too many masters are rejected
SomeSpecs == {S(3, 2, 1, TRUE), S(4, 2, 1, FALSE)}
=============================================================================
