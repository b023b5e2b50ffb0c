-------------------------------- MODULE DFS --------------------------------
(****************************************************************************)
(* One depth first traversal of a graph (util/dfs.cpp), step by step: the   *)
(* cycle safe one, by which graph components are measured, copied and       *)
(* asked for connections, and the one that yields every node only once.     *)
(****************************************************************************)
EXTENDS Naturals, Sequences

CONSTANTS Nodes, Far     \* Far is uintmax, which no distance reaches

ASSUME DFSAssumption == Far \in Nat

VARIABLES
    gs,                  \* getOutgoingEdges of the graph storage, per node
    cycleSafe,           \* which of the two classes it is
    startNode, minDistance, maxDistance,
    traversalStack,      \* <<node, distance>> pairs, the top is the last one
    lastDistance, nodesInCurrentPath, distanceToNode, cycleDetected,  \* CycleSafeDFS
    outputted            \* UniqueDFS

parameters == <<gs, cycleSafe, startNode, minDistance, maxDistance>>
progress   == <<traversalStack, lastDistance, nodesInCurrentPath, distanceToNode,
                cycleDetected, outputted>>
dfsVars    == <<parameters, progress>>

\* The constructors.
Construct(graph, safe, n, min, max) ==
    /\ gs' = graph /\ cycleSafe' = safe
    /\ startNode' = n /\ minDistance' = min /\ maxDistance' = max
    /\ traversalStack' = <<<<n, 0>>>>
    /\ lastDistance' = 0 /\ cycleDetected' = FALSE
    /\ nodesInCurrentPath' = {n} /\ distanceToNode' = {<<0, n>>}
    /\ outputted' = {}

----------------------------------------------------------------------------
Exhausted == traversalStack = <<>>

node     == traversalStack[Len(traversalStack)][1]
distance == traversalStack[Len(traversalStack)][2]

Pop == SubSeq(traversalStack, 1, Len(traversalStack) - 1)

\* A completed subgraph leaves the path: everything from this distance on.
Completed ==
    IF lastDistance >= distance /\ \E p \in distanceToNode : p[1] = distance
    THEN {p \in distanceToNode : p[1] >= distance} ELSE {}

PathLeft == nodesInCurrentPath \ {p[2] : p \in Completed}

InWindow == minDistance <= distance /\ distance <= maxDistance

Found == InWindow /\ (cycleSafe \/ node \notin outputted)

\* DFS::enterNode: the children are pushed in their order, the last is next.
Children ==
    IF distance < maxDistance
    THEN [i \in 1..Len(gs[node]) |-> <<gs[node][i], distance + 1>>] ELSE <<>>

\* Mutant: lastDistance is only set when a cycle is found.
EnterForgetful ==
    /\ cycleSafe /\ ~Exhausted
    /\ node \notin PathLeft
    /\ traversalStack' = Pop \o Children
    /\ nodesInCurrentPath' = PathLeft \cup {node}
    /\ distanceToNode' = (distanceToNode \ Completed) \cup {<<distance, node>>}
    /\ UNCHANGED <<parameters, lastDistance, cycleDetected, outputted>>

EnterSafely ==
    /\ cycleSafe /\ ~Exhausted
    /\ node \notin PathLeft
    /\ traversalStack' = Pop \o Children
    /\ nodesInCurrentPath' = PathLeft \cup {node}
    /\ distanceToNode' = (distanceToNode \ Completed) \cup {<<distance, node>>}
    /\ lastDistance' = distance
    /\ UNCHANGED <<parameters, cycleDetected, outputted>>

RejectCycle ==
    /\ cycleSafe /\ ~Exhausted
    /\ node \in PathLeft
    /\ traversalStack' = Pop
    /\ nodesInCurrentPath' = PathLeft
    /\ distanceToNode' = distanceToNode \ Completed
    /\ lastDistance' = distance
    /\ cycleDetected' = TRUE
    /\ UNCHANGED <<parameters, outputted>>

EnterAlways ==
    /\ ~cycleSafe /\ ~Exhausted
    /\ traversalStack' = Pop \o Children
    /\ outputted' = IF InWindow THEN outputted \cup {node} ELSE outputted
    /\ UNCHANGED <<parameters, lastDistance, nodesInCurrentPath, distanceToNode, cycleDetected>>

Enter == EnterSafely \/ EnterAlways

Traverse == Enter \/ RejectCycle

\* CycleSafeDFS::reset and UniqueDFS::reset; what was noticed last stays.
Reset ==
    /\ traversalStack' = <<<<startNode, 0>>>>
    /\ IF cycleSafe
       THEN /\ nodesInCurrentPath' = {startNode} /\ distanceToNode' = {<<0, startNode>>}
            /\ UNCHANGED outputted
       ELSE outputted' = {} /\ UNCHANGED <<nodesInCurrentPath, distanceToNode>>
    /\ UNCHANGED <<parameters, lastDistance, cycleDetected>>

----------------------------------------------------------------------------
\* A traversal of its own, of any graph, with any window of distances.
Graphs == [Nodes -> Seq(Nodes)]

DFSInit ==
    /\ gs \in Graphs /\ cycleSafe \in BOOLEAN
    /\ startNode \in Nodes /\ minDistance \in Nat /\ maxDistance \in Nat
    /\ traversalStack = <<<<startNode, 0>>>>
    /\ lastDistance = 0 /\ cycleDetected = FALSE
    /\ nodesInCurrentPath = {startNode} /\ distanceToNode = {<<0, startNode>>}
    /\ outputted = {}

DFSNext == Traverse \/ Reset

DFSSpec == DFSInit /\ [][DFSNext]_dfsVars

----------------------------------------------------------------------------
DFSTypeOK ==
    /\ gs \in Graphs /\ cycleSafe \in BOOLEAN
    /\ startNode \in Nodes /\ minDistance \in Nat /\ maxDistance \in Nat
    /\ traversalStack \in Seq(Nodes \X Nat)
    /\ lastDistance \in Nat
    /\ nodesInCurrentPath \subseteq Nodes
    /\ distanceToNode \subseteq Nat \X Nodes
    /\ cycleDetected \in BOOLEAN
    /\ outputted \subseteq Nodes

HasEdge(m, n) == \E i \in 1..Len(gs[m]) : gs[m][i] = n

\* The path that the cycle check consults is a simple path from the start node,
\* one node per distance and each the child of the one before, although it is
\* kept in two containers of which only parts are erased when subgraphs end.
PathIsSimple ==
    cycleSafe =>
        /\ nodesInCurrentPath = {p[2] : p \in distanceToNode}
        /\ \A p, q \in distanceToNode : p[1] = q[1] <=> p[2] = q[2]
        /\ \A p \in distanceToNode :
              IF p[1] = 0 THEN p[2] = startNode
              ELSE \E q \in distanceToNode : q[1] = p[1] - 1 /\ HasEdge(q[2], p[2])

\* A walk of some length that ends where it began.
ClosedWalk(k, w) ==
    /\ w \in [0..k -> Nodes] /\ k > 0 /\ w[0] = w[k]
    /\ \A i \in 0..(k - 1) : HasEdge(w[i], w[i + 1])

\* A cycle is reported only for a graph that has one.
CyclesAreReal == cycleDetected => \E k \in Nat : \E w \in [0..k -> Nodes] : ClosedWalk(k, w)
============================================================================
