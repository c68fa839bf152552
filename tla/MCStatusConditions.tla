------------------------- MODULE MCStatusConditions -------------------------
(* The clusters, pods and settings the run of StatusConditions uses.       *)
EXTENDS StatusConditions, TLC

CONSTANTS c1, c2, n1

P(phase, unscheduled, es, proxy) ==
    [phase |-> phase, unscheduled |-> unscheduled, elasticsearch |-> es, proxy |-> proxy]

Unscheduled == P("Pending", TRUE, "", "")
Starting    == P("Pending", FALSE, "", "")
Crashed     == P("Running", FALSE, "terminated", "waiting")
Up          == P("Running", FALSE, "running", "running")
Unready     == P("Running", FALSE, "unready", "running")
Evicted     == P("Failed", FALSE, "", "terminated")

\* none, one, and two pods of one node, with every kind among them
SomePods == {<<>>, <<Starting>>, <<Crashed>>, <<Evicted, Unready>>, <<Up, Unscheduled>>}

OneNode == n1 :> c1

W(kind, value) == [kind |-> kind, value |-> value]

\* percentages, sizes, one of them with an unknown unit, and none at all
SomeSettings == {[enabled |-> TRUE, low |-> W("pct", 2), high |-> W("pct", 2)],
                 [enabled |-> TRUE, low |-> W("bad", 2), high |-> W("abs", 2)],
                 [enabled |-> FALSE, low |-> W("pct", 0), high |-> W("pct", 0)]}
=============================================================================
