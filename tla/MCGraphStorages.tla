-------------------------- MODULE MCGraphStorages --------------------------
(* Small instances of GraphStorages for TLC. *)
EXTENDS GraphStorages

\* All components of three nodes.
Small == SUBSET {e \in (1..3) \X (1..3) : e[1] # e[2]}

\* A chain, two chains, trees, diamonds, one with a tail, a cycle with a way in
\* and out, a node with two parents.
Shapes == {
    {<<1, 2>>, <<2, 3>>, <<3, 4>>, <<4, 5>>},
    {<<2, 1>>, <<1, 4>>, <<3, 5>>},
    {<<3, 1>>, <<3, 2>>, <<1, 4>>, <<1, 5>>},
    {<<4, 1>>, <<4, 3>>, <<1, 5>>, <<5, 2>>},
    {<<1, 2>>, <<1, 3>>, <<2, 4>>, <<3, 4>>},
    {<<1, 2>>, <<1, 3>>, <<2, 4>>, <<3, 4>>, <<4, 5>>},
    {<<5, 1>>, <<1, 2>>, <<2, 3>>, <<3, 1>>, <<3, 4>>},
    {<<1, 2>>, <<2, 3>>, <<1, 3>>, <<3, 4>>, <<4, 5>>},
    {<<1, 2>>, <<2, 3>>, <<4, 3>>, <<3, 5>>}}

MCComponents == Small \cup Shapes

\* A cycle beside a root that does not lead to it.
MissedCycle == {{<<1, 2>>, <<2, 3>>, <<4, 5>>, <<5, 4>>}}

\* A short chain, which is measured, and a longer cycle, which is not.
StaleStatistics == {{<<1, 2>>, <<2, 3>>, <<4, 5>>, <<5, 6>>, <<6, 7>>, <<7, 8>>, <<8, 4>>}}

MCWindows    == {<<1, 1>>, <<2, 2>>, <<1, Far>>}
============================================================================
