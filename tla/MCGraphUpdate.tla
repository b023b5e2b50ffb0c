--------------------------- MODULE MCGraphUpdate ---------------------------
(* An imported corpus has the nodes 0, 1, 2 with the names a, b, c; the      *)
(* component C1 is the path 0 -> 1 -> 2, and C2 the edge 0 -> 1.             *)
EXTENDS GraphUpdate

CONSTANTS a, b, c, C1, C2

MCImportName  == [i \in 0 .. 2 |-> IF i = 0 THEN a ELSE IF i = 1 THEN b ELSE c]
MCImportEdges == [x \in Components |-> IF x = C1 THEN {<<0, 1>>, <<1, 2>>} ELSE {<<0, 1>>}]
=============================================================================
