--------------------------- MODULE MCClusterNodes ---------------------------
(* The lists of node groups the runs of ClusterNodes let users ask for.    *)
EXTENDS ClusterNodes

G(kind, count) == [kind |-> kind, count |-> count]

\* all nodes have both roles; four masters are too many
Scaling == {<<G("dm", 1)>>, <<G("dm", 3)>>, <<G("dm", 4)>>}
TwoOrThree == {<<G("dm", 1)>>, <<G("dm", 2)>>, <<G("dm", 3)>>}
TooManyMasters == {<<G("dm", 4)>>}
TooManyOrNoData == TooManyMasters \cup {<<G("m", 3)>>}
Fixed == {<<G("dm", 2)>>}

\* a group of masters, scaled on its own, beside a group of data nodes
SeparateMasters == {<<G("d", 1), G("m", 1)>>, <<G("d", 1), G("m", 3)>>}
MastersFirst == {<<G("m", 1), G("d", 1)>>, <<G("m", 3), G("d", 1)>>}
Sizes == TwoOrThree \cup SeparateMasters

\* a group is added, removed or changes its roles
Regrouped == {<<G("dm", 1)>>, <<G("dm", 1), G("d", 1)>>,
              <<G("d", 1), G("dm", 1)>>, <<>>}
RegroupedOrInvalid == Regrouped \cup TooManyMasters
=============================================================================
