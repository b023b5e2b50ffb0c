--------------------------- MODULE LabelledGraph ---------------------------
(****************************************************************************)
(* What a GraphUpdate promises: nodes by name with a type and labels, edges  *)
(* by component with labels, and events that do nothing when what they are   *)
(* about does not exist (comments of graphupdate.h).                         *)
(****************************************************************************)
CONSTANTS Names, Types, LabelKeys, LabelValues, Components, None

VARIABLES
    type,       \* type[n]: the type of node n, or None
    label,      \* label[<<n, k>>]
    edges,      \* the edges <<c, m, n>>
    edgeLabels  \* the labels <<c, m, n, k, v>>

vars == <<type, label, edges, edgeLabels>>

Exists(n) == type[n] # None

----------------------------------------------------------------------------
(* Events on one node.                                                      *)

AddNode(n, t) ==
    /\ ~Exists(n)
    /\ type' = [type EXCEPT ![n] = t]
    /\ label' = label

AddNodeLabel(n, k, v) ==
    /\ Exists(n) /\ label[<<n, k>>] = None
    /\ label' = [label EXCEPT ![<<n, k>>] = v]
    /\ type' = type

DeleteNodeLabel(n, k) ==
    /\ label' = [label EXCEPT ![<<n, k>>] = None]
    /\ type' = type

NodeEvent ==
    /\ UNCHANGED <<edges, edgeLabels>>
    /\ \E n \in Names :
          \/ \E t \in Types : AddNode(n, t)
          \/ \E k \in LabelKeys :
                DeleteNodeLabel(n, k) \/ \E v \in LabelValues : AddNodeLabel(n, k, v)

\* With its labels, and all edges to and from it.
DeleteNode(n) ==
    /\ Exists(n)
    /\ type' = [type EXCEPT ![n] = None]
    /\ label' = [x \in Names \X LabelKeys |-> IF x[1] = n THEN None ELSE label[x]]
    /\ edges' = {e \in edges : n \notin {e[2], e[3]}}
    /\ edgeLabels' = {e \in edgeLabels : n \notin {e[2], e[3]}}

----------------------------------------------------------------------------
(* Events on one edge and its labels.                                       *)

LabelsOf(c, m, n) == {x \in edgeLabels : x[1] = c /\ x[2] = m /\ x[3] = n}

AddEdge(c, m, n) ==
    /\ Exists(m) /\ Exists(n) /\ m # n
    /\ edges' = edges \cup {<<c, m, n>>}

DeleteEdge(c, m, n) ==
    /\ edgeLabels' = edgeLabels \ LabelsOf(c, m, n)
    /\ edges' = edges \ {<<c, m, n>>}

AddEdgeLabel(c, m, n, k, v) ==
    /\ <<c, m, n>> \in edges
    /\ edgeLabels' = edgeLabels \cup {<<c, m, n, k, v>>}

DeleteEdgeLabel(c, m, n, k) ==
    edgeLabels' = edgeLabels \ {x \in LabelsOf(c, m, n) : x[4] = k}

EdgeEvent ==
    /\ UNCHANGED <<type, label>>
    /\ \/ /\ UNCHANGED edgeLabels
          /\ \E c \in Components, m, n \in Names : AddEdge(c, m, n)
       \/ \E c \in Components, m, n \in Names : DeleteEdge(c, m, n)
       \/ /\ UNCHANGED edges
          /\ \E c \in Components, m, n \in Names, k \in LabelKeys :
                \/ DeleteEdgeLabel(c, m, n, k)
                \/ \E v \in LabelValues : AddEdgeLabel(c, m, n, k, v)

Next == NodeEvent \/ EdgeEvent \/ \E n \in Names : DeleteNode(n)

\* A graph in which labels and edges are those of existing nodes.
Init ==
    /\ type \in [Names -> Types \cup {None}]
    /\ label \in [Names \X LabelKeys -> LabelValues \cup {None}]
    /\ \A x \in Names \X LabelKeys : label[x] # None => Exists(x[1])
    /\ edges \subseteq {e \in Components \X Names \X Names : Exists(e[2]) /\ Exists(e[3])}
    /\ edgeLabels = {}

Spec == Init /\ [][Next]_vars
=============================================================================
