------------------------ MODULE GraphStoragesProofs ------------------------
(****************************************************************************)
(* The traversals and the graph storages are right for every graph, every   *)
(* component and every width of integers: the cycle check of CycleSafeDFS   *)
(* consults a simple path and reports real cycles (DFSSpec), the storages   *)
(* answer what the edges say, and a conversion keeps them (Spec).           *)
(* The way there: walks as functions of their positions, what a traversal   *)
(* still has to visit, what the statistics have measured, what a chain and  *)
(* what entries in pre- and post-order say of walks, and how the copies     *)
(* make them. Induction is over sets of numbers (AllNumbers, FiniteSets).   *)
(****************************************************************************)
EXTENDS GraphStorages, FiniteSetTheorems, SequenceTheorems, WellFoundedInduction, TLAPS

Child(g, m, n) == \E i \in 1..Len(g[m]) : g[m][i] = n
ParentOf(g, D, d, n) == \E q \in D : q[1] = d - 1 /\ Child(g, q[2], n)

\* One node per distance and one distance per node.
Injective == \A p, q \in distanceToNode : p[1] = q[1] <=> p[2] = q[2]

\* Both containers hold the same nodes.
SameNodes == nodesInCurrentPath = {p[2] : p \in distanceToNode}

\* Every node but the start node is the child of one at the distance before.
Parents ==
    \A p \in distanceToNode :
        IF p[1] = 0 THEN p[2] = startNode ELSE ParentOf(gs, distanceToNode, p[1], p[2])

\* No distance is left out, and none is greater than the last.
NoGaps == \A p \in distanceToNode : \A k \in 0..p[1] : \E q \in distanceToNode : q[1] = k
UpToLast == \A p \in distanceToNode : p[1] <= lastDistance

\* What waits on the stack is a child of a node on the path, the top the furthest.
Waiting ==
    \A i \in 1..Len(traversalStack) :
        LET e == traversalStack[i]
        IN  IF e[2] = 0 THEN e[1] = startNode ELSE ParentOf(gs, distanceToNode, e[2], e[1])
Rising ==
    \A i, j \in 1..Len(traversalStack) :
        i <= j => traversalStack[i][2] <= traversalStack[j][2]

Path == Injective /\ SameNodes /\ Parents /\ NoGaps /\ UpToLast /\ Waiting /\ Rising

IInv == DFSTypeOK /\ (cycleSafe => Path)

\* The invariant contains the property.
LEMMA PathIsSimpleFollows == IInv => PathIsSimple
<1>1. SUFFICES ASSUME IInv, cycleSafe PROVE PathIsSimple
  BY DEF PathIsSimple
<1> QED
  BY <1>1 DEF IInv, Path, Injective, SameNodes, Parents, ParentOf, Child, HasEdge, PathIsSimple

\* A sequence without its last element.
LEMMA ButLast ==
    ASSUME NEW S, NEW s \in Seq(S), NEW n \in Nat, n = Len(s) - 1
    PROVE  /\ SubSeq(s, 1, n) \in Seq(S)
           /\ Len(SubSeq(s, 1, n)) = n
           /\ \A i \in 1..n : SubSeq(s, 1, n)[i] = s[i]
<1>1. SubSeq(s, 1, n) \in Seq(S)
  OBVIOUS
<1>2. Len(SubSeq(s, 1, n)) = n
  OBVIOUS
<1>3. \A i \in 1..n : SubSeq(s, 1, n)[i] = s[i]
  OBVIOUS
<1> QED
  BY <1>1, <1>2, <1>3

\* The top of the stack, and what is left without it.
LEMMA Top ==
    ASSUME DFSTypeOK, ~Exhausted
    PROVE  /\ Len(traversalStack) \in Nat \ {0}
           /\ traversalStack[Len(traversalStack)] = <<node, distance>>
           /\ node \in Nodes /\ distance \in Nat
           /\ Pop \in Seq(Nodes \X Nat) /\ Len(Pop) = Len(traversalStack) - 1
           /\ \A i \in 1..Len(Pop) : Pop[i] = traversalStack[i]
<1>1. traversalStack \in Seq(Nodes \X Nat) /\ traversalStack # <<>>
  BY DEF DFSTypeOK, Exhausted
<1>2. Len(traversalStack) \in Nat \ {0}
  BY <1>1, EmptySeq, LenProperties
<1>3. traversalStack[Len(traversalStack)] \in Nodes \X Nat
  BY <1>1, <1>2, ElementOfSeq
<1>4. Len(traversalStack) - 1 \in Nat
  BY <1>2
<1>5. /\ Pop \in Seq(Nodes \X Nat) /\ Len(Pop) = Len(traversalStack) - 1
      /\ \A i \in 1..(Len(traversalStack) - 1) : Pop[i] = traversalStack[i]
  BY <1>1, <1>4, ButLast DEF Pop
<1> QED
  BY <1>2, <1>3, <1>5 DEF node, distance

\* The children of the top, and the stack once they are pushed.
LEMMA Pushed ==
    ASSUME DFSTypeOK, ~Exhausted
    PROVE  /\ Pop \o Children \in Seq(Nodes \X Nat)
           /\ \A i \in 1..Len(Pop \o Children) :
                 IF i <= Len(Pop) THEN (Pop \o Children)[i] = traversalStack[i]
                 ELSE /\ (Pop \o Children)[i][2] = distance + 1
                      /\ Child(gs, node, (Pop \o Children)[i][1])
<1> USE Top
<1>1. gs[node] \in Seq(Nodes)
  BY DEF DFSTypeOK, Graphs
<1>2. /\ Children \in Seq(Nodes \X Nat)
      /\ \A i \in 1..Len(Children) :
            Children[i][2] = distance + 1 /\ Child(gs, node, Children[i][1])
  <2>1. CASE distance < maxDistance
    <3>1. Children = [i \in 1..Len(gs[node]) |-> <<gs[node][i], distance + 1>>]
      BY <2>1 DEF Children
    <3>2. Len(gs[node]) \in Nat /\ \A i \in 1..Len(gs[node]) : gs[node][i] \in Nodes
      BY <1>1, LenProperties, ElementOfSeq
    <3>3. \A i \in 1..Len(gs[node]) : <<gs[node][i], distance + 1>> \in Nodes \X Nat
      BY <3>2
    <3>4. Children \in Seq(Nodes \X Nat) /\ Len(Children) = Len(gs[node])
      BY <3>1, <3>2, <3>3, IsASeq
    <3> QED
      BY <3>1, <3>2, <3>4 DEF Child
  <2>2. CASE ~(distance < maxDistance)
    <3>1. Children = <<>>
      BY <2>2 DEF Children
    <3> QED
      BY <3>1
  <2> QED
    BY <2>1, <2>2
<1>3. /\ Pop \o Children \in Seq(Nodes \X Nat)
      /\ Len(Pop \o Children) = Len(Pop) + Len(Children)
      /\ \A i \in 1..Len(Pop \o Children) :
            (Pop \o Children)[i] =
                IF i <= Len(Pop) THEN Pop[i] ELSE Children[i - Len(Pop)]
  BY <1>2, ConcatProperties
<1>4. ASSUME NEW i \in 1..Len(Pop \o Children), ~(i <= Len(Pop))
      PROVE  i - Len(Pop) \in 1..Len(Children) /\ (Pop \o Children)[i] = Children[i - Len(Pop)]
  <2>1. Len(Pop) \in Nat /\ Len(Children) \in Nat
    BY <1>2, LenProperties
  <2> QED
    BY <1>3, <1>4, <2>1
<1>5. \A i \in 1..Len(Pop) : Pop[i] = traversalStack[i]
  OBVIOUS
<1> QED
  BY <1>2, <1>3, <1>4, <1>5

----------------------------------------------------------------------------
(* The path without the completed subgraph.                                 *)

Kept == distanceToNode \ Completed

\* What is kept is above the top of the stack, and all of the path above it.
LEMMA KeptIsAbove ==
    ASSUME IInv, cycleSafe, ~Exhausted
    PROVE  Kept = {p \in distanceToNode : p[1] < distance}
<1> USE Top
<1>1. distanceToNode \subseteq Nat \X Nodes /\ lastDistance \in Nat /\ NoGaps /\ UpToLast
  BY DEF IInv, Path, DFSTypeOK
<1>2. distance \in Nat
  BY DEF IInv
<1>3. CASE lastDistance >= distance /\ \E p \in distanceToNode : p[1] = distance
  BY <1>1, <1>2, <1>3 DEF Kept, Completed
<1>4. CASE ~(lastDistance >= distance /\ \E p \in distanceToNode : p[1] = distance)
  <2>1. Kept = distanceToNode
    BY <1>4 DEF Kept, Completed
  <2>2. SUFFICES ASSUME NEW p \in distanceToNode PROVE p[1] < distance
    BY <2>1
  <2>3. p[1] \in Nat /\ p[1] <= lastDistance
    BY <1>1 DEF UpToLast
  <2>4. CASE lastDistance < distance
    BY <1>1, <1>2, <2>3, <2>4
  <2>5. CASE ~\E q \in distanceToNode : q[1] = distance
    BY <1>1, <1>2, <2>3, <2>5 DEF NoGaps
  <2> QED
    BY <1>1, <1>2, <1>4, <2>4, <2>5
<1> QED
  BY <1>3, <1>4

LEMMA LeftIsKept ==
    ASSUME IInv, cycleSafe, ~Exhausted
    PROVE  PathLeft = {p[2] : p \in Kept}
<1>1. /\ distanceToNode \subseteq Nat \X Nodes
      /\ nodesInCurrentPath = {p[2] : p \in distanceToNode} /\ Injective
  BY DEF IInv, Path, DFSTypeOK, SameNodes
<1>2. Completed \subseteq distanceToNode
  BY DEF Completed
<1>3. ASSUME NEW p \in Kept, NEW q \in Completed PROVE p[2] # q[2]
  <2>1. p \in distanceToNode /\ q \in distanceToNode /\ p # q
    BY <1>2 DEF Kept
  <2> QED
    BY <1>1, <2>1 DEF Injective
<1> QED
  BY <1>1, <1>2, <1>3 DEF PathLeft, Kept

----------------------------------------------------------------------------
(* Steps                                                                    *)

LEMMA InitHolds == DFSInit => IInv
<1> SUFFICES ASSUME DFSInit PROVE IInv
  OBVIOUS
<1> USE DEF DFSInit
<1>1. traversalStack \in Seq(Nodes \X Nat) /\ Len(traversalStack) = 1
      /\ traversalStack[1] = <<startNode, 0>>
  OBVIOUS
<1>2. DFSTypeOK
  <2>1. distanceToNode \subseteq Nat \X Nodes
    OBVIOUS
  <2>2. cycleDetected \in BOOLEAN /\ cycleSafe \in BOOLEAN
    BY Zenon
  <2> QED
    BY <1>1, <2>1, <2>2 DEF DFSTypeOK
<1>3. Injective /\ SameNodes /\ Parents /\ UpToLast
  BY DEF Injective, SameNodes, Parents, UpToLast
<1>4. NoGaps
  BY DEF NoGaps
<1>5. Waiting /\ Rising
  BY <1>1 DEF Waiting, Rising
<1> QED
  BY <1>2, <1>3, <1>4, <1>5 DEF IInv, Path

LEMMA TypeStep == DFSTypeOK /\ [DFSNext]_dfsVars => DFSTypeOK'
<1> SUFFICES ASSUME DFSTypeOK, [DFSNext]_dfsVars PROVE DFSTypeOK'
  OBVIOUS
<1> USE DEF DFSTypeOK, parameters
<1>1. PathLeft \subseteq Nodes /\ distanceToNode \ Completed \subseteq Nat \X Nodes
  BY DEF PathLeft
<1>2. CASE EnterSafely
  BY <1>1, <1>2, Top, Pushed DEF EnterSafely
<1>3. CASE EnterAlways
  BY <1>3, Top, Pushed DEF EnterAlways
<1>4. CASE RejectCycle
  BY <1>1, <1>4, Top DEF RejectCycle
<1>5. CASE Reset
  <2>1. <<<<startNode, 0>>>> \in Seq(Nodes \X Nat)
    OBVIOUS
  <2> QED
    BY <1>5, <2>1 DEF Reset
<1>6. CASE UNCHANGED dfsVars
  BY <1>6 DEF dfsVars, progress
<1> QED
  BY <1>2, <1>3, <1>4, <1>5, <1>6 DEF DFSNext, Traverse, Enter

\* What is left of the path keeps its shape when the top of the stack is popped.
LEMMA PopKeepsPath ==
    ASSUME IInv, cycleSafe, ~Exhausted
    PROVE  /\ \A p, q \in Kept : p[1] = q[1] <=> p[2] = q[2]
           /\ \A p \in Kept : IF p[1] = 0 THEN p[2] = startNode ELSE ParentOf(gs, Kept, p[1], p[2])
           /\ \A p \in Kept : \A k \in 0..p[1] : \E q \in Kept : q[1] = k
           /\ \A i \in 1..Len(traversalStack) :
                 LET e == traversalStack[i]
                 IN  IF e[2] = 0 THEN e[1] = startNode ELSE ParentOf(gs, Kept, e[2], e[1])
<1> USE Top, KeptIsAbove
<1>1. /\ DFSTypeOK /\ Injective /\ Parents /\ NoGaps /\ Waiting /\ Rising
      /\ distanceToNode \subseteq Nat \X Nodes
  BY DEF IInv, Path, DFSTypeOK
<1>2. distance \in Nat /\ Kept \subseteq distanceToNode
  BY <1>1 DEF Kept
<1>3. \A p, q \in Kept : p[1] = q[1] <=> p[2] = q[2]
  BY <1>1, <1>2 DEF Injective
<1>4. ASSUME NEW d \in Nat, NEW n \in Nodes, d <= distance, d # 0,
             ParentOf(gs, distanceToNode, d, n)
      PROVE  ParentOf(gs, Kept, d, n)
  BY <1>1, <1>2, <1>4 DEF ParentOf
<1>5. ASSUME NEW p \in Kept
      PROVE  IF p[1] = 0 THEN p[2] = startNode ELSE ParentOf(gs, Kept, p[1], p[2])
  BY <1>1, <1>2, <1>4, <1>5 DEF Parents
<1>6. ASSUME NEW p \in Kept, NEW k \in 0..p[1] PROVE \E q \in Kept : q[1] = k
  <2>1. PICK q \in distanceToNode : q[1] = k
    BY <1>1, <1>2 DEF NoGaps
  <2>2. k < distance
    BY <1>1, <1>2
  <2> QED
    BY <1>1, <1>2, <2>1, <2>2
<1>7. ASSUME NEW i \in 1..Len(traversalStack)
      PROVE  IF traversalStack[i][2] = 0 THEN traversalStack[i][1] = startNode
             ELSE ParentOf(gs, Kept, traversalStack[i][2], traversalStack[i][1])
  <2>1. traversalStack[i] \in Nodes \X Nat
    BY <1>1, ElementOfSeq DEF DFSTypeOK
  <2>2. traversalStack[i][2] <= distance
    BY <1>1 DEF Rising
  <2> QED
    BY <1>1, <1>4, <2>1, <2>2 DEF Waiting
<1> QED
  BY <1>3, <1>5, <1>6, <1>7

LEMMA EnterStep == IInv /\ cycleSafe /\ EnterSafely => Path'
<1> SUFFICES ASSUME IInv, cycleSafe, EnterSafely PROVE Path'
  OBVIOUS
<1>1. ~Exhausted /\ DFSTypeOK
  BY DEF EnterSafely, IInv
<1>2. /\ node \in Nodes /\ distance \in Nat /\ Len(traversalStack) \in Nat \ {0}
      /\ traversalStack[Len(traversalStack)] = <<node, distance>>
      /\ Len(Pop) = Len(traversalStack) - 1
  BY <1>1, Top
<1>3. /\ Kept \subseteq Nat \X Nodes /\ Kept = {p \in distanceToNode : p[1] < distance}
      /\ PathLeft = {p[2] : p \in Kept}
  BY <1>1, KeptIsAbove, LeftIsKept DEF DFSTypeOK, Kept
<1>4. /\ node \notin PathLeft
      /\ traversalStack' = Pop \o Children
      /\ nodesInCurrentPath' = PathLeft \cup {node}
      /\ distanceToNode' = Kept \cup {<<distance, node>>}
      /\ lastDistance' = distance
      /\ gs' = gs /\ startNode' = startNode
  BY DEF EnterSafely, Kept, parameters
<1>6. /\ \A p, q \in Kept : p[1] = q[1] <=> p[2] = q[2]
      /\ \A p \in Kept : IF p[1] = 0 THEN p[2] = startNode ELSE ParentOf(gs, Kept, p[1], p[2])
      /\ \A p \in Kept : \A k \in 0..p[1] : \E q \in Kept : q[1] = k
      /\ \A i \in 1..Len(traversalStack) :
            IF traversalStack[i][2] = 0 THEN traversalStack[i][1] = startNode
            ELSE ParentOf(gs, Kept, traversalStack[i][2], traversalStack[i][1])
  BY <1>1, PopKeepsPath
<1>7. IF distance = 0 THEN node = startNode ELSE ParentOf(gs, Kept, distance, node)
  BY <1>2, <1>6
<1>8. Injective'
  BY <1>2, <1>3, <1>4, <1>6 DEF Injective
<1>9. SameNodes'
  <2>1. <<distance, node>>[2] = node
    OBVIOUS
  <2>2. \A x : x \in {p[2] : p \in Kept \cup {<<distance, node>>}} <=> x \in PathLeft \cup {node}
    BY <1>3, <2>1
  <2> QED
    BY <1>4, <2>2 DEF SameNodes
<1>10. \A d, n : ParentOf(gs, Kept, d, n) => ParentOf(gs', distanceToNode', d, n)
  BY <1>4 DEF ParentOf
<1>11. Parents'
  <2>1. SUFFICES ASSUME NEW p \in distanceToNode'
                 PROVE  IF p[1] = 0 THEN p[2] = startNode'
                        ELSE ParentOf(gs', distanceToNode', p[1], p[2])
    BY DEF Parents
  <2>2. CASE p \in Kept
    BY <1>4, <1>6, <1>10, <2>2
  <2>3. CASE p = <<distance, node>>
    BY <1>4, <1>7, <1>10, <2>3
  <2> QED
    BY <1>4, <2>2, <2>3
<1>12. NoGaps'
  <2>1. SUFFICES ASSUME NEW p \in distanceToNode', NEW k \in 0..p[1]
                 PROVE  \E q \in distanceToNode' : q[1] = k
    BY DEF NoGaps
  <2>2. CASE p \in Kept
    BY <1>4, <1>6, <2>2
  <2>3. CASE p = <<distance, node>> /\ k = distance
    BY <1>4, <2>3
  <2>4. CASE p = <<distance, node>> /\ k # distance
    <3>1. k \in 0..(distance - 1) /\ distance # 0
      BY <1>2, <2>4
    <3>2. PICK q \in Kept : q[1] = distance - 1
      BY <1>7, <3>1 DEF ParentOf
    <3> QED
      BY <1>4, <1>6, <3>1, <3>2
  <2> QED
    BY <1>4, <2>2, <2>3, <2>4
<1>13. UpToLast'
  BY <1>2, <1>3, <1>4 DEF UpToLast
<1>14. /\ Pop \o Children \in Seq(Nodes \X Nat)
       /\ \A i \in 1..Len(Pop \o Children) :
             IF i <= Len(Pop) THEN (Pop \o Children)[i] = traversalStack[i]
             ELSE /\ (Pop \o Children)[i][2] = distance + 1
                  /\ Child(gs, node, (Pop \o Children)[i][1])
  BY <1>1, Pushed
<1>15. Waiting'
  <2>1. SUFFICES ASSUME NEW i \in 1..Len(traversalStack')
                 PROVE  IF traversalStack'[i][2] = 0 THEN traversalStack'[i][1] = startNode'
                        ELSE ParentOf(gs', distanceToNode', traversalStack'[i][2],
                                      traversalStack'[i][1])
    BY DEF Waiting
  <2>2. CASE i <= Len(Pop)
    <3>1. i \in 1..Len(traversalStack) /\ traversalStack'[i] = traversalStack[i]
      BY <1>2, <1>4, <1>14, <2>1, <2>2
    <3> QED
      BY <1>4, <1>6, <1>10, <3>1
  <2>3. CASE ~(i <= Len(Pop))
    <3>1. traversalStack'[i][2] = distance + 1 /\ Child(gs, node, traversalStack'[i][1])
      BY <1>4, <1>14, <2>1, <2>3
    <3>2. ParentOf(gs, distanceToNode', distance + 1, traversalStack'[i][1])
      <4> DEFINE q == <<distance, node>>
      <4>1. q \in distanceToNode' /\ q[1] = (distance + 1) - 1 /\ q[2] = node
        BY <1>2, <1>4
      <4> QED
        BY <3>1, <4>1 DEF ParentOf
    <3>3. distance + 1 # 0
      BY <1>2
    <3> QED
      BY <1>4, <3>1, <3>2, <3>3
  <2> QED
    BY <2>2, <2>3
<1>16. Rising'
  <2>1. SUFFICES ASSUME NEW i \in 1..Len(traversalStack'), NEW j \in 1..Len(traversalStack'),
                        i <= j
                 PROVE  traversalStack'[i][2] <= traversalStack'[j][2]
    BY DEF Rising
  <2>2. Rising /\ i \in Nat /\ j \in Nat
    BY DEF IInv, Path
  <2>3. \A k \in 1..Len(traversalStack) :
            traversalStack[k][2] \in Nat /\ traversalStack[k][2] <= distance
    <3>1. \A k \in 1..Len(traversalStack) : traversalStack[k] \in Nodes \X Nat
      BY <1>1, ElementOfSeq DEF DFSTypeOK
    <3> QED
      BY <1>2, <2>2, <3>1 DEF Rising
  <2>4. CASE j <= Len(Pop)
    <3>1. /\ i \in 1..Len(traversalStack) /\ j \in 1..Len(traversalStack)
          /\ traversalStack'[i] = traversalStack[i] /\ traversalStack'[j] = traversalStack[j]
      BY <1>2, <1>4, <1>14, <2>1, <2>2, <2>4
    <3> QED
      BY <2>1, <2>2, <3>1 DEF Rising
  <2>5. CASE ~(j <= Len(Pop))
    <3>1. traversalStack'[j][2] = distance + 1
      BY <1>4, <1>14, <2>1, <2>5
    <3>2. CASE i <= Len(Pop)
      <4>1. i \in 1..Len(traversalStack) /\ traversalStack'[i] = traversalStack[i]
        BY <1>2, <1>4, <1>14, <2>1, <2>2, <3>2
      <4> QED
        BY <1>2, <2>3, <3>1, <4>1
    <3>3. CASE ~(i <= Len(Pop))
      BY <1>2, <1>4, <1>14, <2>1, <3>1, <3>3
    <3> QED
      BY <3>2, <3>3
  <2> QED
    BY <2>4, <2>5
<1> QED
  BY <1>8, <1>9, <1>11, <1>12, <1>13, <1>15, <1>16 DEF Path

LEMMA RejectStep == IInv /\ cycleSafe /\ RejectCycle => Path'
<1> SUFFICES ASSUME IInv, cycleSafe, RejectCycle PROVE Path'
  OBVIOUS
<1>1. ~Exhausted /\ DFSTypeOK /\ Rising
  BY DEF RejectCycle, IInv, Path
<1>2. /\ distance \in Nat /\ Len(traversalStack) \in Nat \ {0}
      /\ Len(Pop) = Len(traversalStack) - 1
      /\ \A i \in 1..Len(Pop) : Pop[i] = traversalStack[i]
  BY <1>1, Top
<1>3. /\ Kept \subseteq Nat \X Nodes /\ Kept = {p \in distanceToNode : p[1] < distance}
      /\ PathLeft = {p[2] : p \in Kept}
  BY <1>1, KeptIsAbove, LeftIsKept DEF DFSTypeOK, Kept
<1>4. /\ traversalStack' = Pop
      /\ nodesInCurrentPath' = PathLeft
      /\ distanceToNode' = Kept
      /\ lastDistance' = distance
      /\ gs' = gs /\ startNode' = startNode
  BY DEF RejectCycle, Kept, parameters
<1>5. /\ \A p, q \in Kept : p[1] = q[1] <=> p[2] = q[2]
      /\ \A p \in Kept : IF p[1] = 0 THEN p[2] = startNode ELSE ParentOf(gs, Kept, p[1], p[2])
      /\ \A p \in Kept : \A k \in 0..p[1] : \E q \in Kept : q[1] = k
      /\ \A i \in 1..Len(traversalStack) :
            IF traversalStack[i][2] = 0 THEN traversalStack[i][1] = startNode
            ELSE ParentOf(gs, Kept, traversalStack[i][2], traversalStack[i][1])
  BY <1>1, PopKeepsPath
<1>6. Injective' /\ SameNodes'
  BY <1>3, <1>4, <1>5 DEF Injective, SameNodes
<1>7. Parents' /\ NoGaps'
  BY <1>4, <1>5 DEF Parents, NoGaps
<1>8. UpToLast'
  BY <1>2, <1>3, <1>4 DEF UpToLast
<1>9. \A i \in 1..Len(Pop) : i \in 1..Len(traversalStack) /\ Pop[i] = traversalStack[i]
  BY <1>2
<1>10. Waiting' /\ Rising'
  BY <1>1, <1>4, <1>5, <1>9 DEF Waiting, Rising
<1> QED
  BY <1>6, <1>7, <1>8, <1>10 DEF Path

\* lastDistance is older than the reset path, which is why it may be too large.
LEMMA ResetStep == IInv /\ cycleSafe /\ Reset => Path'
<1> SUFFICES ASSUME IInv, cycleSafe, Reset PROVE Path'
  OBVIOUS
<1>1. /\ traversalStack' = <<<<startNode, 0>>>>
      /\ nodesInCurrentPath' = {startNode} /\ distanceToNode' = {<<0, startNode>>}
      /\ lastDistance' = lastDistance /\ startNode' = startNode /\ lastDistance \in Nat
  BY DEF Reset, parameters, IInv, DFSTypeOK
<1>2. Len(traversalStack') = 1 /\ traversalStack'[1] = <<startNode, 0>>
  BY <1>1
<1>3. Injective' /\ SameNodes' /\ Parents' /\ UpToLast'
  BY <1>1 DEF Injective, SameNodes, Parents, UpToLast
<1>4. NoGaps'
  BY <1>1 DEF NoGaps
<1>5. Waiting' /\ Rising'
  BY <1>1, <1>2 DEF Waiting, Rising
<1> QED
  BY <1>3, <1>4, <1>5 DEF Path

LEMMA InvariantHolds == IInv /\ [DFSNext]_dfsVars => IInv'
<1> SUFFICES ASSUME IInv, [DFSNext]_dfsVars PROVE IInv'
  OBVIOUS
<1>1. DFSTypeOK'
  BY TypeStep DEF IInv
<1>2. cycleSafe' = cycleSafe
  BY DEF DFSNext, Traverse, Enter, EnterSafely, EnterAlways, RejectCycle, Reset,
         dfsVars, parameters
<1>3. ASSUME cycleSafe PROVE Path'
  <2>1. CASE EnterSafely
    BY <1>3, <2>1, EnterStep
  <2>2. CASE RejectCycle
    BY <1>3, <2>2, RejectStep
  <2>3. CASE Reset
    BY <1>3, <2>3, ResetStep
  <2>4. CASE EnterAlways
    BY <1>3, <2>4 DEF EnterAlways
  <2>5. CASE UNCHANGED dfsVars
    BY <1>3, <2>5 DEF IInv, dfsVars, parameters, progress, Path, Injective, SameNodes,
       Parents, NoGaps, UpToLast, Waiting, Rising
  <2> QED
    BY <2>1, <2>2, <2>3, <2>4, <2>5 DEF DFSNext, Traverse, Enter
<1> QED
  BY <1>1, <1>2, <1>3 DEF IInv

LEMMA AlwaysIInv == DFSSpec => []IInv
  BY InitHolds, InvariantHolds, PTL DEF DFSSpec

\* Every variable keeps its type in every traversal of every graph.
THEOREM TypesHold == DFSSpec => []DFSTypeOK
<1>1. IInv => DFSTypeOK
  BY DEF IInv
<1> QED
  BY <1>1, AlwaysIInv, PTL

\* Whatever the graph and the window of distances, the nodes that the check for
\* cycles consults are a simple path from the start node, although the two
\* containers that hold it are cut back lazily, when the next node is looked at.
THEOREM PathAlwaysSimple == DFSSpec => []PathIsSimple
  BY AlwaysIInv, PathIsSimpleFollows, PTL

----------------------------------------------------------------------------
(* What is reported is a cycle.                                             *)

\* From a node on the path to the parent of the rejected one, and back to it.
LEMMA RejectedClosesWalk ==
    ASSUME IInv, RejectCycle
    PROVE  \E k \in Nat : \E w \in [0..k -> Nodes] : ClosedWalk(k, w)
<1>1. cycleSafe /\ ~Exhausted /\ DFSTypeOK /\ node \in PathLeft
  BY DEF RejectCycle, IInv
<1>2. /\ node \in Nodes /\ distance \in Nat /\ Len(traversalStack) \in Nat \ {0}
      /\ traversalStack[Len(traversalStack)] = <<node, distance>>
  BY <1>1, Top
<1>3. /\ Kept \subseteq Nat \X Nodes /\ Kept = {p \in distanceToNode : p[1] < distance}
      /\ PathLeft = {p[2] : p \in Kept}
  BY <1>1, KeptIsAbove, LeftIsKept DEF DFSTypeOK, Kept
<1>4. /\ \A p, q \in Kept : p[1] = q[1] <=> p[2] = q[2]
      /\ \A p \in Kept : IF p[1] = 0 THEN p[2] = startNode ELSE ParentOf(gs, Kept, p[1], p[2])
      /\ \A p \in Kept : \A k \in 0..p[1] : \E q \in Kept : q[1] = k
      /\ \A i \in 1..Len(traversalStack) :
            IF traversalStack[i][2] = 0 THEN traversalStack[i][1] = startNode
            ELSE ParentOf(gs, Kept, traversalStack[i][2], traversalStack[i][1])
  BY <1>1, PopKeepsPath
<1>5. PICK p \in Kept : p[2] = node
  BY <1>1, <1>3
<1>6. p[1] \in Nat /\ p[1] < distance
  BY <1>3
<1>7. PICK q \in Kept : q[1] = distance - 1 /\ Child(gs, q[2], node)
  <2>1. ParentOf(gs, Kept, distance, node)
    BY <1>2, <1>4, <1>6
  <2> QED
    BY <2>1 DEF ParentOf
<1>8. PICK On \in [0..(distance - 1) -> Nodes] :
          \A d \in 0..(distance - 1) : <<d, On[d]>> \in Kept
  <2>1. ASSUME NEW d \in 0..(distance - 1) PROVE \E n \in Nodes : <<d, n>> \in Kept
    <3>1. PICK r \in Kept : r[1] = d
      BY <1>4, <1>6, <1>7, <2>1
    <3>2. r = <<d, r[2]>> /\ r[2] \in Nodes
      BY <1>3, <3>1
    <3> QED
      BY <3>2
  <2> DEFINE f == [d \in 0..(distance - 1) |-> CHOOSE n \in Nodes : <<d, n>> \in Kept]
  <2>2. \A d \in 0..(distance - 1) : f[d] \in Nodes /\ <<d, f[d]>> \in Kept
    BY <2>1
  <2>3. f \in [0..(distance - 1) -> Nodes]
    BY <2>2
  <2> HIDE DEF f
  <2> QED
    BY <2>2, <2>3
<1>9. PICK k \in Nat : k = distance - p[1] /\ k > 0
  BY <1>2, <1>6
<1>10. \A i \in 0..(k - 1) : p[1] + i \in 0..(distance - 1)
  BY <1>2, <1>6, <1>9
<1>11. PICK w \in [0..k -> Nodes] :
           w[k] = node /\ \A i \in 0..(k - 1) : w[i] = On[p[1] + i]
  <2> DEFINE f == [i \in 0..k |-> IF i = k THEN node ELSE On[p[1] + i]]
  <2>1. ASSUME NEW i \in 0..k, i # k PROVE f[i] = On[p[1] + i] /\ f[i] \in Nodes
    <3>1. i \in 0..(k - 1)
      BY <1>9, <2>1
    <3> QED
      BY <1>8, <1>10, <2>1, <3>1
  <2>2. f[k] = node /\ f \in [0..k -> Nodes]
    <3>1. k \in 0..k /\ f[k] = node
      BY <1>9
    <3>2. \A i \in 0..k : f[i] \in Nodes
      BY <1>2, <2>1, <3>1
    <3> QED
      BY <3>1, <3>2
  <2>3. \A i \in 0..(k - 1) : i \in 0..k /\ i # k
    BY <1>9
  <2> HIDE DEF f
  <2> QED
    BY <2>1, <2>2, <2>3
<1>12. w[0] = node
  <2>1. 0 \in 0..(k - 1) /\ p[1] \in 0..(distance - 1) /\ p[1] + 0 = p[1]
    BY <1>2, <1>6, <1>9
  <2>2. <<p[1], On[p[1]]>> \in Kept
    BY <1>8, <2>1
  <2>3. On[p[1]] = node
    BY <1>4, <1>5, <2>2
  <2> QED
    BY <1>11, <2>1, <2>3
<1>13. ASSUME NEW i \in 0..(k - 1) PROVE HasEdge(w[i], w[i + 1])
  <2>1. p[1] + i \in 0..(distance - 1) /\ i \in Nat
    BY <1>10
  <2>2. <<p[1] + i, w[i]>> \in Kept
    BY <1>8, <1>11, <2>1
  <2>3. CASE i = k - 1
    <3>1. p[1] + i = distance - 1 /\ i + 1 = k
      BY <1>2, <1>6, <1>9, <2>3
    <3>2. <<p[1] + i, w[i]>>[1] = q[1]
      BY <1>7, <3>1
    <3>3. <<p[1] + i, w[i]>>[2] = q[2]
      BY <1>4, <2>2, <3>2
    <3> QED
      BY <1>7, <1>11, <3>1, <3>3 DEF Child, HasEdge
  <2>4. CASE i # k - 1
    <3>1. i + 1 \in 0..(k - 1)
      BY <1>9, <2>4
    <3>2. <<p[1] + (i + 1), w[i + 1]>> \in Kept
      BY <1>8, <1>10, <1>11, <3>1
    <3>3. p[1] + (i + 1) # 0 /\ (p[1] + (i + 1)) - 1 = p[1] + i
      BY <1>6, <2>1
    <3>4. ParentOf(gs, Kept, p[1] + (i + 1), w[i + 1])
      BY <1>4, <3>2, <3>3
    <3>5. PICK r \in Kept : r[1] = p[1] + i /\ Child(gs, r[2], w[i + 1])
      BY <3>3, <3>4 DEF ParentOf
    <3>6. r[2] = <<p[1] + i, w[i]>>[2]
      BY <1>4, <2>2, <3>5
    <3> QED
      BY <3>5, <3>6 DEF Child, HasEdge
  <2> QED
    BY <2>3, <2>4
<1>14. ClosedWalk(k, w)
  BY <1>9, <1>11, <1>12, <1>13 DEF ClosedWalk
<1> QED
  BY <1>14

LEMMA CycleStep == IInv /\ CyclesAreReal /\ [DFSNext]_dfsVars => CyclesAreReal'
<1> SUFFICES ASSUME IInv, CyclesAreReal, [DFSNext]_dfsVars PROVE CyclesAreReal'
  OBVIOUS
<1>1. gs' = gs
  BY DEF DFSNext, Traverse, Enter, EnterSafely, EnterAlways, RejectCycle, Reset,
         dfsVars, parameters
<1> DEFINE Walk == \E k \in Nat : \E w \in [0..k -> Nodes] : ClosedWalk(k, w)
<1>2. cycleDetected' => Walk
  <2>1. CASE RejectCycle
    BY <2>1, RejectedClosesWalk
  <2>2. CASE ~RejectCycle
    <3>1. cycleDetected' = cycleDetected
      BY <2>2 DEF DFSNext, Traverse, Enter, EnterSafely, EnterAlways, Reset,
         dfsVars, progress
    <3> QED
      BY <3>1 DEF CyclesAreReal
  <2> QED
    BY <2>1, <2>2
<1>3. Walk => Walk'
  <2>1. ASSUME NEW k \in Nat, NEW w \in [0..k -> Nodes], ClosedWalk(k, w)
        PROVE  ClosedWalk(k, w)'
    BY <1>1, <2>1 DEF ClosedWalk, HasEdge
  <2> QED
    BY <2>1
<1> QED
  BY <1>2, <1>3 DEF CyclesAreReal

\* A component is called cyclic, and a node is not followed, only where the graph
\* has a closed walk: no acyclic component is ever measured or copied in part.
THEOREM ReportedCyclesExist == DFSSpec => []CyclesAreReal
<1>1. DFSInit => CyclesAreReal
  BY DEF DFSInit, CyclesAreReal
<1> QED
  BY <1>1, AlwaysIInv, CycleStep, PTL DEF DFSSpec

LEMMA Least == ASSUME NEW S \in SUBSET Nat, S # {} PROVE \E m \in S : \A n \in S : m <= n
<1> DEFINE R == OpToRel(<, Nat)
<1>1. IsWellFoundedOn(R, Nat)
  BY NatLessThanWellFounded
<1>2. \A x, y \in Nat : x < y => <<x, y>> \in R
  BY DEF OpToRel
<1> HIDE DEF R
<1>3. PICK m \in S : \A n \in S : ~(<<n, m>> \in R)
  BY <1>1, WFMin, Zenon
<1>4. \A n \in S : n \in Nat /\ m \in Nat /\ ~(n < m)
  BY <1>2, <1>3
<1>5. \A n \in S : m <= n
  BY <1>4
<1> QED
  BY <1>5

\* Induction, over a set instead of a predicate.
LEMMA UpTo ==
    ASSUME NEW N \in Nat, NEW S, 0 \in S, \A n \in 0..(N - 1) : n \in S => n + 1 \in S
    PROVE  0..N \subseteq S
<1> SUFFICES ASSUME NEW m \in 0..N, m \notin S PROVE FALSE
  OBVIOUS
<1> DEFINE T == {n \in 0..N : n \notin S}
<1>1. PICK l \in T : \A n \in T : l <= n
  <2>1. T \in SUBSET Nat /\ T # {}
    OBVIOUS
  <2> HIDE DEF T
  <2> QED
    BY <2>1, Least
<1>2. l \in Nat /\ l # 0 /\ l - 1 \in 0..(N - 1) /\ l - 1 \in 0..N
  BY <1>1
<1>3. l - 1 \in S
  BY <1>1, <1>2
<1> QED
  BY <1>1, <1>2, <1>3

LEMMA AllNumbers ==
    ASSUME NEW S, 0 \in S, \A n \in Nat : n \in S => n + 1 \in S PROVE Nat \subseteq S
<1> SUFFICES ASSUME NEW m \in Nat PROVE m \in S
  OBVIOUS
<1>1. 0..m \subseteq S
  BY UpTo
<1> QED
  BY <1>1

LEMMA FiniteSets ==
    ASSUME NEW A, IsFiniteSet(A), NEW S, {} \in S,
           \A T \in SUBSET A : \A x \in A : T \in S => T \cup {x} \in S
    PROVE  A \in S
<1> DEFINE R == StrictSubsetOrdering(A)
           W == {T \in SUBSET A : A \ T \in S}
<1>1. IsWellFoundedOn(R, SUBSET A)
  BY FS_StrictSubsetOrderingWellFounded, FS_FiniteSubsetsOfFinite
<1>2. A \in W
  <2>1. A \ A = {}
    OBVIOUS
  <2> QED
    BY <2>1
<1>3. PICK T \in W : \A U \in W : ~(<<U, T>> \in R)
  <2> HIDE DEF R
  <2> QED
    BY <1>1, <1>2, WFMin, Zenon
<1>4. ASSUME NEW x \in T PROVE FALSE
  <2>1. (A \ T) \cup {x} \in S
    OBVIOUS
  <2>2. A \ (T \ {x}) = (A \ T) \cup {x}
    OBVIOUS
  <2>3. T \ {x} \in W
    BY <2>1, <2>2
  <2>4. <<T \ {x}, T>> \in R
    BY DEF StrictSubsetOrdering
  <2> QED
    BY <1>3, <2>3, <2>4
<1>5. T = {}
  BY <1>4
<1>6. A \ T = A
  BY <1>5
<1> QED
  BY <1>3, <1>6

LEMMA Greatest ==
    ASSUME NEW A \in SUBSET Nat, IsFiniteSet(A), A # {}
    PROVE  \E m \in A : \A n \in A : n <= m
<1> DEFINE S == {T \in SUBSET A : T = {} \/ \E m \in T : \A n \in T : n <= m}
<1>1. {} \in S
  OBVIOUS
<1>2. ASSUME NEW T \in SUBSET A, NEW x \in A, T \in S PROVE T \cup {x} \in S
  <2>1. CASE T = {}
    BY <2>1
  <2>2. CASE T # {}
    <3>1. PICK m \in T : \A n \in T : n <= m
      BY <1>2, <2>2
    <3>2. CASE x <= m
      BY <3>1, <3>2
    <3>3. CASE m < x
      <4>1. \A n \in T \cup {x} : n <= x
        BY <3>1, <3>3
      <4> QED
        BY <4>1
    <3>4. x <= m \/ m < x
      BY <3>1
    <3> QED
      BY <3>2, <3>3, <3>4
  <2> QED
    BY <2>1, <2>2
<1>3. A \in S
  <2> HIDE DEF S
  <2> QED
    BY <1>1, <1>2, FiniteSets
<1> QED
  BY <1>3

LEMMA MaxIs ==
    ASSUME NEW A \in SUBSET Nat, IsFiniteSet(A), A # {}
    PROVE  Max(A) \in A /\ \A n \in A : n <= Max(A)
<1>1. PICK m \in A : \A n \in A : n <= m
  BY Greatest
<1>2. \A n \in A : m >= n
  BY <1>1
<1>3. Max(A) \in A /\ \A n \in A : Max(A) >= n
  BY <1>2 DEF Max
<1> QED
  BY <1>3

LEMMA MinIs ==
    ASSUME NEW A \in SUBSET Nat, A # {}
    PROVE  Min(A) \in A /\ \A n \in A : Min(A) <= n
<1>1. PICK m \in A : \A n \in A : m <= n
  BY Least
<1> QED
  BY <1>1 DEF Min

----------------------------------------------------------------------------
(* Walks as functions: w[0] is where it begins, w[k] where it ends.         *)

WalksOf(E, k) == {w \in [0..k -> Nodes] : \A i \in 0..(k - 1) : <<w[i], w[i + 1]>> \in E}

Simple(w, k) == \A i, j \in 0..k : w[i] = w[j] => i = j

Alone(n)          == [i \in 0..0 |-> n]
Further(w, k, n)  == [i \in 0..(k + 1) |-> IF i = k + 1 THEN n ELSE w[i]]
Begin(w, j)       == [i \in 0..j |-> w[i]]
Rest(w, k, j)    == [i \in 0..(k - j) |-> w[j + i]]
Joined(v, l, w, k) == [i \in 0..(l + k) |-> IF i < l THEN v[i] ELSE w[i - l]]

LEMMA AloneIs ==
    ASSUME NEW E, NEW n \in Nodes
    PROVE  Alone(n) \in WalksOf(E, 0) /\ Alone(n)[0] = n /\ Simple(Alone(n), 0)
BY DEF Alone, WalksOf, Simple

LEMMA WalkIs ==
    ASSUME NEW E, NEW k \in Nat, NEW w \in WalksOf(E, k)
    PROVE  /\ w \in [0..k -> Nodes] /\ w[0] \in Nodes /\ w[k] \in Nodes
           /\ \A i \in 0..k : w[i] \in Nodes
           /\ \A i \in 0..(k - 1) : <<w[i], w[i + 1]>> \in E
BY DEF WalksOf

LEMMA FurtherIs ==
    ASSUME NEW E, NEW k \in Nat, NEW w \in WalksOf(E, k), NEW n \in Nodes, <<w[k], n>> \in E
    PROVE  /\ Further(w, k, n) \in WalksOf(E, k + 1)
           /\ Further(w, k, n)[k + 1] = n
           /\ \A i \in 0..k : Further(w, k, n)[i] = w[i]
<1> DEFINE f == Further(w, k, n)
<1>1. f[k + 1] = n /\ \A i \in 0..k : f[i] = w[i]
  BY DEF Further
<1>2. f \in [0..(k + 1) -> Nodes]
  BY WalkIs DEF Further
<1>3. ASSUME NEW i \in 0..((k + 1) - 1) PROVE <<f[i], f[i + 1]>> \in E
  <2>1. CASE i = k
    BY <1>1, <2>1
  <2>2. CASE i # k
    <3>1. i \in 0..(k - 1) /\ i + 1 \in 0..k /\ i \in 0..k
      BY <2>2
    <3> QED
      BY <1>1, <3>1, WalkIs
  <2> QED
    BY <2>1, <2>2
<1> QED
  BY <1>1, <1>2, <1>3 DEF WalksOf

LEMMA BeginIs ==
    ASSUME NEW E, NEW k \in Nat, NEW w \in WalksOf(E, k), NEW j \in 0..k
    PROVE  /\ Begin(w, j) \in WalksOf(E, j)
           /\ \A i \in 0..j : Begin(w, j)[i] = w[i]
BY WalkIs DEF Begin, WalksOf

LEMMA RestIs ==
    ASSUME NEW E, NEW k \in Nat, NEW w \in WalksOf(E, k), NEW j \in 0..k
    PROVE  /\ Rest(w, k, j) \in WalksOf(E, k - j)
           /\ \A i \in 0..(k - j) : Rest(w, k, j)[i] = w[j + i]
<1> DEFINE f == Rest(w, k, j)
<1>1. \A i \in 0..(k - j) : j + i \in 0..k /\ f[i] = w[j + i]
  BY DEF Rest
<1>2. f \in [0..(k - j) -> Nodes]
  BY <1>1, WalkIs DEF Rest
<1>3. ASSUME NEW i \in 0..((k - j) - 1) PROVE <<f[i], f[i + 1]>> \in E
  <2>1. i \in 0..(k - j) /\ i + 1 \in 0..(k - j) /\ j + i \in 0..(k - 1) /\ j + (i + 1) = (j + i) + 1
    OBVIOUS
  <2>2. <<w[j + i], w[(j + i) + 1]>> \in E
    BY <2>1, WalkIs
  <2>3. f[i] = w[j + i] /\ f[i + 1] = w[(j + i) + 1]
    BY <1>1, <2>1
  <2> HIDE DEF f
  <2> QED
    BY <2>2, <2>3
<1> QED
  BY <1>1, <1>2, <1>3 DEF WalksOf

LEMMA JoinedIs ==
    ASSUME NEW E, NEW l \in Nat, NEW v \in WalksOf(E, l), NEW k \in Nat, NEW w \in WalksOf(E, k),
           v[l] = w[0]
    PROVE  /\ Joined(v, l, w, k) \in WalksOf(E, l + k)
           /\ \A i \in 0..l : Joined(v, l, w, k)[i] = v[i]
           /\ \A i \in 0..k : Joined(v, l, w, k)[l + i] = w[i]
<1> DEFINE f == Joined(v, l, w, k)
<1>1. \A i \in 0..k : l + i \in 0..(l + k) /\ f[l + i] = w[i]
  BY DEF Joined
<1>2. \A i \in 0..l : i \in 0..(l + k) /\ f[i] = v[i]
  <2>1. ASSUME NEW i \in 0..l PROVE i \in 0..(l + k) /\ f[i] = v[i]
    <3>1. i \in 0..(l + k)
      OBVIOUS
    <3>2. CASE i = l
      <4>1. l - l = 0 /\ f[l] = w[0]
        BY <3>1, <3>2 DEF Joined
      <4> QED
        BY <3>1, <3>2, <4>1
    <3>3. CASE i # l
      BY <3>1, <3>3 DEF Joined
    <3> QED
      BY <3>2, <3>3
  <2> QED
    BY <2>1
<1>3. f \in [0..(l + k) -> Nodes]
  <2>1. ASSUME NEW i \in 0..(l + k) PROVE f[i] \in Nodes
    <3>1. CASE i < l
      BY <1>2, <3>1, WalkIs
    <3>2. CASE ~(i < l)
      <4>1. i - l \in 0..k /\ l + (i - l) = i
        BY <3>2
      <4> QED
        BY <1>1, <4>1, WalkIs
    <3> QED
      BY <3>1, <3>2
  <2> QED
    BY <2>1 DEF Joined
<1>4. ASSUME NEW i \in 0..((l + k) - 1) PROVE <<f[i], f[i + 1]>> \in E
  <2>1. CASE i < l
    <3>1. i \in 0..(l - 1) /\ i \in 0..l /\ i + 1 \in 0..l
      BY <2>1
    <3> QED
      BY <1>2, <3>1, WalkIs
  <2>2. CASE ~(i < l)
    <3>1. /\ i - l \in 0..(k - 1) /\ i - l \in 0..k /\ (i - l) + 1 \in 0..k
          /\ l + (i - l) = i /\ l + ((i - l) + 1) = i + 1
      BY <2>2
    <3>2. <<w[i - l], w[(i - l) + 1]>> \in E
      BY <3>1, WalkIs
    <3>3. f[i] = w[i - l] /\ f[i + 1] = w[(i - l) + 1]
      BY <1>1, <3>1
    <3> HIDE DEF f
    <3> QED
      BY <3>2, <3>3
  <2> QED
    BY <2>1, <2>2
<1> QED
  BY <1>1, <1>2, <1>3, <1>4 DEF WalksOf

\* A walk of fewer edges, or of the same.
LEMMA MoreEdges ==
    ASSUME NEW E, NEW F, E \subseteq F, NEW k \in Nat PROVE WalksOf(E, k) \subseteq WalksOf(F, k)
BY DEF WalksOf

\* A path has fewer edges than there are nodes.
LEMMA PathsAreShort ==
    ASSUME NEW E, NEW k \in Nat, NEW w \in WalksOf(E, k), Simple(w, k)
    PROVE  k < Cardinality(Nodes) /\ k <= Far
<1>1. Cardinality(Nodes) \in Nat /\ IsFiniteSet(Nodes) /\ Cardinality(Nodes) <= Far /\ Far \in Nat
  BY StoragesAssumption, WidthsAssumption, DFSAssumption, FS_CardinalityType
<1>2. IsFiniteSet(0..k) /\ Cardinality(0..k) = k + 1
  BY FS_Interval
<1>3. w \in [0..k -> Nodes]
  BY WalkIs
<1>4. ~(Cardinality(0..k) > Cardinality(Nodes))
  <2> SUFFICES ASSUME Cardinality(0..k) > Cardinality(Nodes) PROVE FALSE
    OBVIOUS
  <2>1. \E x, y \in 0..k : x # y /\ w[x] = w[y]
    BY <1>1, <1>2, <1>3, FS_PigeonHole
  <2> QED
    BY <2>1 DEF Simple
<1> QED
  BY <1>1, <1>2, <1>4

----------------------------------------------------------------------------
(* The reference definitions, walk by walk.                                 *)

WalkEnds(E, k) == {<<w[0], w[k]>> : w \in WalksOf(E, k)}

LEMMA NoEdges == ASSUME NEW E PROVE WalkEnds(E, 0) = {<<n, n>> : n \in Nodes}
<1>1. ASSUME NEW w \in WalksOf(E, 0) PROVE <<w[0], w[0]>> \in {<<n, n>> : n \in Nodes}
  BY WalkIs
<1>2. ASSUME NEW n \in Nodes PROVE <<n, n>> \in WalkEnds(E, 0)
  <2>1. Alone(n) \in WalksOf(E, 0) /\ Alone(n)[0] = n
    BY AloneIs
  <2>2. <<Alone(n)[0], Alone(n)[0]>> \in WalkEnds(E, 0)
    BY <2>1 DEF WalkEnds
  <2> QED
    BY <2>1, <2>2
<1> QED
  BY <1>1, <1>2 DEF WalkEnds

LEMMA OneMoreEdge ==
    ASSUME NEW E \in SUBSET (Nodes \X Nodes), NEW k \in Nat
    PROVE  WalkEnds(E, k + 1) =
              {<<x[1][1], x[2][2]>> : x \in {y \in WalkEnds(E, k) \X E : y[1][2] = y[2][1]}}
<1> DEFINE S == {<<x[1][1], x[2][2]>> : x \in {y \in WalkEnds(E, k) \X E : y[1][2] = y[2][1]}}
<1>1. ASSUME NEW w \in WalksOf(E, k + 1) PROVE <<w[0], w[k + 1]>> \in S
  <2> DEFINE x == <<<<w[0], w[k]>>, <<w[k], w[k + 1]>>>>
  <2>1. k \in 0..(k + 1) /\ k \in 0..((k + 1) - 1) /\ 0 \in 0..k /\ k \in 0..k
    OBVIOUS
  <2>2. <<w[k], w[k + 1]>> \in E
    BY <2>1, WalkIs
  <2>3. /\ Begin(w, k) \in WalksOf(E, k)
        /\ Begin(w, k)[0] = w[0] /\ Begin(w, k)[k] = w[k]
    BY <2>1, BeginIs
  <2>4. <<Begin(w, k)[0], Begin(w, k)[k]>> \in WalkEnds(E, k)
    BY <2>3 DEF WalkEnds
  <2>5. <<w[0], w[k]>> \in WalkEnds(E, k)
    BY <2>3, <2>4
  <2>6. x \in WalkEnds(E, k) \X E /\ x[1][2] = x[2][1] /\ <<x[1][1], x[2][2]>> = <<w[0], w[k + 1]>>
    BY <2>2, <2>5
  <2> HIDE DEF x
  <2> QED
    BY <2>6
<1>2. ASSUME NEW x \in WalkEnds(E, k) \X E, x[1][2] = x[2][1]
      PROVE  <<x[1][1], x[2][2]>> \in WalkEnds(E, k + 1)
  <2>1. PICK w \in WalksOf(E, k) : x[1] = <<w[0], w[k]>>
    BY <1>2 DEF WalkEnds
  <2>2. x[2] \in E /\ x[2] \in Nodes \X Nodes /\ x[2] = <<x[2][1], x[2][2]>> /\ x[2][2] \in Nodes
    OBVIOUS
  <2>3. <<w[k], x[2][2]>> \in E
    BY <1>2, <2>1, <2>2
  <2> DEFINE v == Further(w, k, x[2][2])
  <2>4. v \in WalksOf(E, k + 1) /\ v[k + 1] = x[2][2] /\ v[0] = w[0]
    BY <2>2, <2>3, FurtherIs
  <2>5. <<v[0], v[k + 1]>> \in WalkEnds(E, k + 1)
    BY <2>4 DEF WalkEnds
  <2> HIDE DEF v
  <2> QED
    BY <2>1, <2>4, <2>5
<1> QED
  BY <1>1, <1>2 DEF WalkEnds

LEMMA WalksAre ==
    ASSUME NEW E \in SUBSET (Nodes \X Nodes), NEW k \in Lengths
    PROVE  Walks(E)[k] = WalkEnds(E, k)
<1> DEFINE G(W) == [l \in Lengths |->
                       IF l = 0 THEN {<<n, n>> : n \in Nodes}
                       ELSE {<<x[1][1], x[2][2]>> : x \in {y \in W[l - 1] \X E : y[1][2] = y[2][1]}}]
           C == [l \in Lengths |-> WalkEnds(E, l)]
<1>1. Far \in Nat /\ Lengths = 0..Far
  BY DFSAssumption DEF Lengths
<1>2. Walks(E) = CHOOSE W : W = G(W)
  BY DEF Walks
<1>3. C = G(C)
  <2>1. ASSUME NEW l \in Lengths PROVE C[l] = G(C)[l]
    <3>1. CASE l = 0
      BY <3>1, NoEdges
    <3>2. CASE l # 0
      <4>1. l - 1 \in Lengths /\ l - 1 \in Nat /\ (l - 1) + 1 = l
        BY <1>1, <3>2
      <4>2. C[l - 1] = WalkEnds(E, l - 1)
        BY <4>1
      <4>3. WalkEnds(E, (l - 1) + 1) =
              {<<x[1][1], x[2][2]>> : x \in {y \in WalkEnds(E, l - 1) \X E : y[1][2] = y[2][1]}}
        BY <4>1, OneMoreEdge
      <4> QED
        BY <3>2, <4>1, <4>2, <4>3
    <3> QED
      BY <3>1, <3>2
  <2> QED
    BY <2>1
<1>4. Walks(E) = G(Walks(E))
  <2> HIDE DEF G, C
  <2> QED
    BY <1>2, <1>3
<1> DEFINE S == {l \in Lengths : Walks(E)[l] = WalkEnds(E, l)}
<1>5. 0 \in S
  <2>1. Walks(E)[0] = G(Walks(E))[0] /\ 0 \in Lengths
    BY <1>1, <1>4
  <2>2. G(Walks(E))[0] = {<<n, n>> : n \in Nodes}
    BY <2>1
  <2> QED
    BY <2>1, <2>2, NoEdges
<1>6. ASSUME NEW l \in 0..(Far - 1), l \in S PROVE l + 1 \in S
  <2>1. l + 1 \in Lengths /\ l + 1 # 0 /\ (l + 1) - 1 = l /\ l \in Nat
    BY <1>1
  <2>2. Walks(E)[l + 1] = G(Walks(E))[l + 1]
    BY <1>4
  <2>3. G(Walks(E))[l + 1] =
          {<<x[1][1], x[2][2]>> : x \in {y \in Walks(E)[l] \X E : y[1][2] = y[2][1]}}
    BY <2>1
  <2>4. Walks(E)[l] = WalkEnds(E, l)
    BY <1>6
  <2>5. WalkEnds(E, l + 1) =
          {<<x[1][1], x[2][2]>> : x \in {y \in WalkEnds(E, l) \X E : y[1][2] = y[2][1]}}
    BY <2>1, OneMoreEdge
  <2> QED
    BY <2>1, <2>2, <2>3, <2>4, <2>5
<1>7. 0..Far \subseteq S
  <2> HIDE DEF S
  <2> QED
    BY <1>1, <1>5, <1>6, UpTo
<1> QED
  BY <1>1, <1>7

LEMMA ReachedIs ==
    ASSUME NEW E \in SUBSET (Nodes \X Nodes), NEW m \in Nodes, NEW n \in Nodes,
           NEW min \in Nat, NEW max \in Lengths
    PROVE  n \in Reached(E, m, min, max) <=>
              \E k \in min..max : \E w \in WalksOf(E, k) : w[0] = m /\ w[k] = n
<1>1. max \in Nat /\ \A k \in min..max : k \in Lengths /\ k \in Nat
  BY DFSAssumption DEF Lengths
<1>2. \A k \in min..max : <<m, n>> \in Walks(E)[k] <=> \E w \in WalksOf(E, k) : w[0] = m /\ w[k] = n
  <2> SUFFICES ASSUME NEW k \in min..max
               PROVE  <<m, n>> \in Walks(E)[k] <=> \E w \in WalksOf(E, k) : w[0] = m /\ w[k] = n
    OBVIOUS
  <2>1. Walks(E)[k] = WalkEnds(E, k)
    BY <1>1, WalksAre
  <2> QED
    BY <2>1 DEF WalkEnds
<1> QED
  BY <1>1, <1>2 DEF Reached

----------------------------------------------------------------------------
AsSequence(w, k) == [i \in 1..(k + 1) |-> w[i - 1]]

PathSeqs(E, k) == {AsSequence(w, k) : w \in {v \in WalksOf(E, k) : Simple(v, k)}}

LEMMA SequenceIs ==
    ASSUME NEW E, NEW k \in Nat, NEW w \in WalksOf(E, k)
    PROVE  /\ AsSequence(w, k) \in Seq(Nodes) /\ Len(AsSequence(w, k)) = k + 1
           /\ \A i \in 1..(k + 1) : AsSequence(w, k)[i] = w[i - 1]
           /\ AsSequence(w, k)[1] = w[0] /\ Last(AsSequence(w, k)) = w[k]
<1> DEFINE s == AsSequence(w, k)
<1>1. \A i \in 1..(k + 1) : i - 1 \in 0..k /\ s[i] = w[i - 1] /\ s[i] \in Nodes
  BY WalkIs DEF AsSequence
<1>2. s \in Seq(Nodes) /\ Len(s) = k + 1 /\ DOMAIN s = 1..(k + 1)
  <2>1. s = [i \in 1..(k + 1) |-> s[i]]
    BY DEF AsSequence
  <2> QED
    BY <1>1, <2>1, IsASeq
<1>3. s[1] = w[0] /\ s[k + 1] = w[k]
  BY <1>1
<1> QED
  BY <1>1, <1>2, <1>3 DEF Last

LEMMA OnSequence ==
    ASSUME NEW E, NEW k \in Nat, NEW w \in WalksOf(E, k), NEW n
    PROVE  n \in Range(AsSequence(w, k)) <=> \E i \in 0..k : w[i] = n
<1> DEFINE s == AsSequence(w, k)
<1>1. DOMAIN s = 1..(k + 1) /\ \A i \in 1..(k + 1) : i - 1 \in 0..k /\ s[i] = w[i - 1]
  BY DEF AsSequence
<1>2. ASSUME NEW i \in 0..k PROVE i + 1 \in DOMAIN s /\ s[i + 1] = w[i]
  <2>1. i + 1 \in 1..(k + 1) /\ (i + 1) - 1 = i
    OBVIOUS
  <2> QED
    BY <1>1, <2>1
<1> HIDE DEF s
<1>3. n \in Range(s) <=> \E i \in 0..k : w[i] = n
  BY <1>1, <1>2 DEF Range
<1> QED
  BY <1>3 DEF s

LEMMA NoEdgesSeq == ASSUME NEW E PROVE PathSeqs(E, 0) = {<<n>> : n \in Nodes}
<1>1. ASSUME NEW w \in WalksOf(E, 0) PROVE AsSequence(w, 0) = <<w[0]>> /\ w[0] \in Nodes
  BY WalkIs DEF AsSequence
<1>2. ASSUME NEW n \in Nodes PROVE <<n>> \in PathSeqs(E, 0)
  <2>1. Alone(n) \in WalksOf(E, 0) /\ Alone(n)[0] = n /\ Simple(Alone(n), 0)
    BY AloneIs
  <2>2. AsSequence(Alone(n), 0) \in PathSeqs(E, 0)
    BY <2>1 DEF PathSeqs
  <2> QED
    BY <1>1, <2>1, <2>2
<1> QED
  BY <1>1, <1>2 DEF PathSeqs

LEMMA AppendIs ==
    ASSUME NEW E, NEW k \in Nat, NEW w \in WalksOf(E, k), NEW n \in Nodes
    PROVE  AsSequence(Further(w, k, n), k + 1) = Append(AsSequence(w, k), n)
<1> DEFINE s == AsSequence(w, k)
           t == AsSequence(Further(w, k, n), k + 1)
<1>1. s \in Seq(Nodes) /\ Len(s) = k + 1 /\ \A i \in 1..(k + 1) : s[i] = w[i - 1]
  BY SequenceIs
<1>2. DOMAIN t = 1..(k + 2) /\ t[k + 2] = n
  BY DEF AsSequence, Further
<1>3. ASSUME NEW i \in 1..(k + 1) PROVE t[i] = s[i]
  BY <1>1 DEF AsSequence, Further
<1>4. t = [i \in 1..(k + 2) |-> t[i]]
  BY DEF AsSequence
<1> HIDE DEF s, t
<1>5. Append(s, n) \in Seq(Nodes) /\ Len(Append(s, n)) = k + 2 /\ Append(s, n)[k + 2] = n
      /\ \A i \in 1..(k + 1) : Append(s, n)[i] = s[i]
  BY <1>1
<1>6. \A i \in 1..(k + 2) : Append(s, n)[i] = t[i]
  BY <1>2, <1>3, <1>5
<1>7. Append(s, n) \in [1..(k + 2) -> Nodes]
  BY <1>5, LenProperties
<1>8. Append(s, n) = t
  BY <1>4, <1>6, <1>7
<1> QED
  BY <1>8 DEF s, t

LEMMA OneMoreEdgeSeq ==
    ASSUME NEW E \in SUBSET (Nodes \X Nodes), NEW k \in Nat
    PROVE  PathSeqs(E, k + 1) =
              {Append(x[1], x[2][2]) : x \in
                  {y \in PathSeqs(E, k) \X E : Last(y[1]) = y[2][1] /\ y[2][2] \notin Range(y[1])}}
<1> DEFINE S == {Append(x[1], x[2][2]) : x \in
                  {y \in PathSeqs(E, k) \X E : Last(y[1]) = y[2][1] /\ y[2][2] \notin Range(y[1])}}
<1>1. ASSUME NEW w \in WalksOf(E, k + 1), Simple(w, k + 1) PROVE AsSequence(w, k + 1) \in S
  <2> DEFINE v == Begin(w, k)
             x == <<AsSequence(v, k), <<w[k], w[k + 1]>>>>
  <2>1. k \in 0..(k + 1) /\ k \in 0..((k + 1) - 1) /\ k + 1 \in 0..(k + 1)
    OBVIOUS
  <2>2. <<w[k], w[k + 1]>> \in E /\ w[k + 1] \in Nodes
    BY <2>1, WalkIs
  <2>3. v \in WalksOf(E, k) /\ \A i \in 0..k : v[i] = w[i]
    BY <2>1, BeginIs
  <2>4. Simple(v, k)
    BY <1>1, <2>3 DEF Simple
  <2>5. AsSequence(v, k) \in PathSeqs(E, k)
    BY <2>3, <2>4 DEF PathSeqs
  <2>6. Last(AsSequence(v, k)) = w[k]
    BY <2>3, SequenceIs
  <2>7. w[k + 1] \notin Range(AsSequence(v, k))
    <3>1. \A i \in 0..k : i \in 0..(k + 1) /\ i # k + 1
      OBVIOUS
    <3>2. \A i \in 0..k : v[i] # w[k + 1]
      BY <1>1, <2>1, <2>3, <3>1 DEF Simple
    <3>3. w[k + 1] \in Range(AsSequence(v, k)) <=> \E i \in 0..k : v[i] = w[k + 1]
      <4> HIDE DEF v
      <4> QED
        BY <2>3, OnSequence
    <3> QED
      BY <3>2, <3>3
  <2>8. Further(v, k, w[k + 1]) = w
    <3>1. w \in [0..(k + 1) -> Nodes]
      BY WalkIs
    <3>2. \A i \in 0..(k + 1) : Further(v, k, w[k + 1])[i] = w[i]
      BY <2>3 DEF Further
    <3> QED
      BY <3>1, <3>2 DEF Further
  <2>9. AsSequence(w, k + 1) = Append(AsSequence(v, k), w[k + 1])
    BY <2>2, <2>3, <2>8, AppendIs
  <2>10. /\ x \in PathSeqs(E, k) \X E /\ Last(x[1]) = x[2][1] /\ x[2][2] \notin Range(x[1])
         /\ Append(x[1], x[2][2]) = AsSequence(w, k + 1)
    <3> HIDE DEF v
    <3> QED
      BY <2>2, <2>5, <2>6, <2>7, <2>9
  <2> HIDE DEF x
  <2> QED
    BY <2>10
<1>2. ASSUME NEW x \in PathSeqs(E, k) \X E, Last(x[1]) = x[2][1], x[2][2] \notin Range(x[1])
      PROVE  Append(x[1], x[2][2]) \in PathSeqs(E, k + 1)
  <2>1. PICK w \in WalksOf(E, k) : x[1] = AsSequence(w, k) /\ Simple(w, k)
    BY <1>2 DEF PathSeqs
  <2>2. x[2] \in E /\ x[2] = <<x[2][1], x[2][2]>> /\ x[2][2] \in Nodes
    OBVIOUS
  <2>3. <<w[k], x[2][2]>> \in E /\ \A i \in 0..k : w[i] # x[2][2]
    <3>1. Last(x[1]) = w[k] /\ (x[2][2] \in Range(x[1]) <=> \E i \in 0..k : w[i] = x[2][2])
      BY <2>1, SequenceIs, OnSequence
    <3> QED
      BY <1>2, <2>2, <3>1
  <2> DEFINE v == Further(w, k, x[2][2])
  <2>4. /\ v \in WalksOf(E, k + 1) /\ v[k + 1] = x[2][2] /\ \A i \in 0..k : v[i] = w[i]
    BY <2>2, <2>3, FurtherIs
  <2>5. Simple(v, k + 1)
    <3>1. \A i \in 0..(k + 1) : i = k + 1 \/ i \in 0..k
      OBVIOUS
    <3> HIDE DEF v
    <3> QED
      BY <2>1, <2>3, <2>4, <3>1 DEF Simple
  <2>6. AsSequence(v, k + 1) = Append(x[1], x[2][2])
    BY <2>1, <2>2, AppendIs
  <2> HIDE DEF v
  <2> QED
    BY <2>4, <2>5, <2>6 DEF PathSeqs
<1> QED
  BY <1>1, <1>2 DEF PathSeqs

LEMMA PathsAre ==
    ASSUME NEW E \in SUBSET (Nodes \X Nodes), NEW k \in Lengths
    PROVE  Paths(E)[k] = PathSeqs(E, k)
<1> DEFINE G(P) == [l \in Lengths |->
                       IF l = 0 THEN {<<n>> : n \in Nodes}
                       ELSE {Append(x[1], x[2][2]) : x \in
                    {y \in P[l - 1] \X E : Last(y[1]) = y[2][1] /\ y[2][2] \notin Range(y[1])}}]
           C == [l \in Lengths |-> PathSeqs(E, l)]
<1>1. Far \in Nat /\ Lengths = 0..Far
  BY DFSAssumption DEF Lengths
<1>2. Paths(E) = CHOOSE P : P = G(P)
  BY DEF Paths
<1>3. C = G(C)
  <2>1. ASSUME NEW l \in Lengths PROVE C[l] = G(C)[l]
    <3>1. CASE l = 0
      BY <3>1, NoEdgesSeq
    <3>2. CASE l # 0
      <4>1. l - 1 \in Lengths /\ l - 1 \in Nat /\ (l - 1) + 1 = l
        BY <1>1, <3>2
      <4>2. C[l - 1] = PathSeqs(E, l - 1)
        BY <4>1
      <4>3. PathSeqs(E, (l - 1) + 1) =
              {Append(x[1], x[2][2]) : x \in
                  {y \in PathSeqs(E, l - 1) \X E : Last(y[1]) = y[2][1] /\ y[2][2] \notin Range(y[1])}}
        BY <4>1, OneMoreEdgeSeq
      <4> QED
        BY <3>2, <4>1, <4>2, <4>3
    <3> QED
      BY <3>1, <3>2
  <2> QED
    BY <2>1
<1>4. Paths(E) = G(Paths(E))
  <2> HIDE DEF G, C
  <2> QED
    BY <1>2, <1>3
<1> DEFINE S == {l \in Lengths : Paths(E)[l] = PathSeqs(E, l)}
<1>5. 0 \in S
  <2>1. Paths(E)[0] = G(Paths(E))[0] /\ 0 \in Lengths
    BY <1>1, <1>4
  <2>2. G(Paths(E))[0] = {<<n>> : n \in Nodes}
    BY <2>1
  <2> QED
    BY <2>1, <2>2, NoEdgesSeq
<1>6. ASSUME NEW l \in 0..(Far - 1), l \in S PROVE l + 1 \in S
  <2>1. l + 1 \in Lengths /\ l + 1 # 0 /\ (l + 1) - 1 = l /\ l \in Nat
    BY <1>1
  <2>2. Paths(E)[l + 1] = G(Paths(E))[l + 1]
    BY <1>4
  <2>3. G(Paths(E))[l + 1] =
          {Append(x[1], x[2][2]) : x \in
              {y \in Paths(E)[l] \X E : Last(y[1]) = y[2][1] /\ y[2][2] \notin Range(y[1])}}
    BY <2>1
  <2>4. Paths(E)[l] = PathSeqs(E, l)
    BY <1>6
  <2>5. PathSeqs(E, l + 1) =
          {Append(x[1], x[2][2]) : x \in
              {y \in PathSeqs(E, l) \X E : Last(y[1]) = y[2][1] /\ y[2][2] \notin Range(y[1])}}
    BY <2>1, OneMoreEdgeSeq
  <2> QED
    BY <2>1, <2>2, <2>3, <2>4, <2>5
<1>7. 0..Far \subseteq S
  <2> HIDE DEF S
  <2> QED
    BY <1>1, <1>5, <1>6, UpTo
<1> QED
  BY <1>1, <1>7

LEMMA DistancesIs ==
    ASSUME NEW E \in SUBSET (Nodes \X Nodes), NEW m \in Nodes, NEW n \in Nodes, NEW k
    PROVE  k \in Distances(E, m, n) <=>
              k \in Nat /\ \E w \in WalksOf(E, k) : Simple(w, k) /\ w[0] = m /\ w[k] = n
<1>1. Lengths \subseteq Nat
  BY DFSAssumption DEF Lengths
<1>2. ASSUME NEW l \in Lengths
      PROVE  (\E p \in Paths(E)[l] : p[1] = m /\ Last(p) = n) <=>
                 \E w \in WalksOf(E, l) : Simple(w, l) /\ w[0] = m /\ w[l] = n
  <2>1. Paths(E)[l] = PathSeqs(E, l) /\ l \in Nat
    BY <1>1, PathsAre
  <2>2. \A w \in WalksOf(E, l) : AsSequence(w, l)[1] = w[0] /\ Last(AsSequence(w, l)) = w[l]
    BY <2>1, SequenceIs
  <2>3. \A p : p \in PathSeqs(E, l) <=>
                   \E w \in WalksOf(E, l) : Simple(w, l) /\ p = AsSequence(w, l)
    BY DEF PathSeqs
  <2> QED
    BY <2>1, <2>2, <2>3
<1>3. ASSUME NEW l \in Nat, NEW w \in WalksOf(E, l), Simple(w, l) PROVE l \in Lengths
  BY <1>3, PathsAreShort, DFSAssumption DEF Lengths
<1>4. k \in Distances(E, m, n) <=>
          k \in Lengths /\ \E p \in Paths(E)[k] : p[1] = m /\ Last(p) = n
  BY DEF Distances
<1> QED
  BY <1>1, <1>2, <1>3, <1>4

----------------------------------------------------------------------------
(* The children of a node, in some order, each once.                        *)

LEMMA InjectiveIsOnto ==
    ASSUME NEW S, IsFiniteSet(S), NEW f \in [1..Cardinality(S) -> S], IsInjective(f)
    PROVE  f \in Seq(S) /\ Len(f) = Cardinality(S) /\ Range(f) = S
<1>1. Cardinality(S) \in Nat
  BY FS_CardinalityType
<1>2. f \in Seq(S) /\ Len(f) = Cardinality(S)
  BY <1>1
<1>3. IsFiniteSet(1..Cardinality(S)) /\ Cardinality(1..Cardinality(S)) = Cardinality(S)
  BY <1>1, FS_Interval
<1>4. f \in Injection(1..Cardinality(S), S)
  BY DEF Injection
<1>5. f \in Surjection(1..Cardinality(S), S)
  BY <1>3, <1>4, FS_Injection
<1>6. Range(f) = S
  BY <1>5 DEF Surjection, Range
<1> QED
  BY <1>2, <1>6

LEMMA SetToSeqIs ==
    ASSUME NEW S, IsFiniteSet(S)
    PROVE  /\ SetToSeq(S) \in Seq(S) /\ Len(SetToSeq(S)) = Cardinality(S)
           /\ Range(SetToSeq(S)) = S /\ IsInjective(SetToSeq(S))
<1>1. PICK f : f \in Bijection(1..Cardinality(S), S)
  BY FS_CardinalityType DEF ExistsBijection
<1>2. f \in [1..Cardinality(S) -> S] /\ IsInjective(f)
  BY <1>1 DEF Bijection, Injection
<1>3. SetToSeq(S) \in [1..Cardinality(S) -> S] /\ IsInjective(SetToSeq(S))
  BY <1>2 DEF SetToSeq
<1> QED
  BY <1>3, InjectiveIsOnto

IsAscending(f) == \A i, j \in DOMAIN f : i < j => f[i] < f[j]

LEMMA CanAscend ==
    ASSUME NEW S \in SUBSET Nat, IsFiniteSet(S)
    PROVE  \E f \in [1..Cardinality(S) -> S] : IsAscending(f)
<1> DEFINE Can(T) == \E f \in [1..Cardinality(T) -> T] : IsAscending(f)
           K == {k \in 0..Cardinality(S) : \A T \in SUBSET S : Cardinality(T) = k => Can(T)}
<1>1. Cardinality(S) \in Nat
  BY FS_CardinalityType
<1>2. \A T \in SUBSET S : IsFiniteSet(T) /\ Cardinality(T) \in Nat /\ T \in SUBSET Nat
  BY FS_Subset, FS_CardinalityType
<1>3. 0 \in K
  <2>1. ASSUME NEW T \in SUBSET S, Cardinality(T) = 0 PROVE Can(T)
    <3>1. T = {} /\ 1..Cardinality(T) = {}
      BY <1>2, <2>1, FS_EmptySet
    <3> DEFINE f == [i \in {} |-> 0]
    <3>2. f \in [1..Cardinality(T) -> T] /\ IsAscending(f)
      BY <3>1 DEF IsAscending
    <3> QED
      BY <3>2
  <2> QED
    BY <1>1, <2>1
<1>4. ASSUME NEW k \in 0..(Cardinality(S) - 1), k \in K PROVE k + 1 \in K
  <2>1. ASSUME NEW T \in SUBSET S, Cardinality(T) = k + 1 PROVE Can(T)
    <3>1. T # {}
      BY <1>1, <1>2, <2>1, FS_EmptySet
    <3>2. PICK x \in T : \A y \in T : y <= x
      BY <1>2, <3>1, Greatest
    <3> DEFINE U == T \ {x}
    <3>3. U \in SUBSET S /\ Cardinality(U) = k
      BY <1>1, <1>2, <2>1, FS_RemoveElement
    <3>4. PICK f \in [1..k -> U] : IsAscending(f)
      BY <1>4, <3>3
    <3> DEFINE g == [i \in 1..(k + 1) |-> IF i = k + 1 THEN x ELSE f[i]]
    <3>5. g \in [1..(k + 1) -> T]
      BY <3>4
    <3>6. ASSUME NEW i \in 1..(k + 1), NEW j \in 1..(k + 1), i < j PROVE g[i] < g[j]
      <4>1. i \in 1..k /\ g[i] = f[i] /\ f[i] \in U
        BY <1>1, <3>6, <3>4
      <4>2. f[i] \in Nat /\ x \in Nat /\ f[i] < x
        <5>1. f[i] \in T /\ f[i] # x /\ f[i] <= x /\ T \in SUBSET Nat /\ x \in T
          BY <1>2, <3>2, <4>1
        <5>2. f[i] \in Nat /\ x \in Nat
          BY <5>1
        <5> HIDE DEF U
        <5> QED
          BY <5>1, <5>2
      <4>3. CASE j = k + 1
        BY <4>1, <4>2, <4>3
      <4>4. CASE j # k + 1
        <5>1. j \in 1..k /\ g[j] = f[j]
          BY <4>4
        <5> QED
          BY <3>4, <3>6, <4>1, <5>1 DEF IsAscending
      <4> QED
        BY <4>3, <4>4
    <3>7. IsAscending(g)
      BY <3>6 DEF IsAscending
    <3> QED
      BY <2>1, <3>5, <3>7
  <2> QED
    BY <1>1, <2>1
<1>5. 0..Cardinality(S) \subseteq K
  <2> HIDE DEF K
  <2> QED
    BY <1>1, <1>3, <1>4, UpTo
<1> QED
  BY <1>1, <1>5

LEMMA AscendingIs ==
    ASSUME NEW S \in SUBSET Nat, IsFiniteSet(S)
    PROVE  /\ Ascending(S) \in Seq(S) /\ Len(Ascending(S)) = Cardinality(S)
           /\ Range(Ascending(S)) = S /\ IsInjective(Ascending(S))
<1>1. Ascending(S) \in [1..Cardinality(S) -> S] /\ IsAscending(Ascending(S))
  BY CanAscend DEF Ascending, IsAscending
<1>2. ASSUME NEW i \in 1..Cardinality(S), NEW j \in 1..Cardinality(S), Ascending(S)[i] = Ascending(S)[j]
      PROVE  i = j
  <2>1. Ascending(S)[i] \in Nat /\ Ascending(S)[j] \in Nat
    BY <1>1
  <2>2. ~(i < j) /\ ~(j < i)
    BY <1>1, <1>2, <2>1 DEF IsAscending
  <2> QED
    BY <2>2
<1>3. IsInjective(Ascending(S))
  BY <1>1, <1>2 DEF IsInjective
<1> QED
  BY <1>1, <1>3, InjectiveIsOnto

----------------------------------------------------------------------------
(* What a storage shows to a traversal: the edges E, each once.             *)

Targets(E, n) == {t \in Nodes : <<n, t>> \in E}

Shown(g, E) ==
    /\ g \in Graphs
    /\ \A n \in Nodes : Range(g[n]) = Targets(E, n) /\ IsInjective(g[n])

LEMMA TargetsFinite == ASSUME NEW E, NEW n PROVE IsFiniteSet(Targets(E, n)) /\ Targets(E, n) \in SUBSET Nat
  BY FS_Subset, StoragesAssumption DEF Targets

LEMMA ShownChild ==
    ASSUME NEW g, NEW E, Shown(g, E), NEW m \in Nodes, NEW n
    PROVE  Child(g, m, n) <=> n \in Nodes /\ <<m, n>> \in E
<1>1. g[m] \in Seq(Nodes) /\ Range(g[m]) = Targets(E, m)
  BY DEF Shown, Graphs
<1>2. DOMAIN g[m] = 1..Len(g[m])
  BY <1>1
<1> QED
  BY <1>1, <1>2 DEF Child, Targets, Range

LEMMA EdgesShown ==
    ASSUME NEW s, NEW E \in SUBSET (Nodes \X Nodes), Shown(OutgoingOf(s), E) PROVE EdgesOf(s) = E
<1>1. \A n \in Nodes : Range(getOutgoingEdges(s, n)) = Targets(E, n)
  BY DEF Shown, OutgoingOf
<1>2. \A x : x \in EdgesOf(s) <=> \E n \in Nodes : \E t \in Targets(E, n) : x = <<n, t>>
  BY <1>1 DEF EdgesOf
<1>3. ASSUME NEW x \in E PROVE x \in EdgesOf(s)
  <2>1. x = <<x[1], x[2]>> /\ x[1] \in Nodes /\ x[2] \in Nodes
    OBVIOUS
  <2>2. x[2] \in Targets(E, x[1])
    BY <2>1 DEF Targets
  <2> QED
    BY <1>2, <2>1, <2>2
<1>4. \A n \in Nodes : \A t \in Targets(E, n) : <<n, t>> \in E
  BY DEF Targets
<1> QED
  BY <1>2, <1>3, <1>4

LEMMA AdjacencyShows ==
    ASSUME NEW s, s.impl = Adjacency, s.edges \in SUBSET (Nodes \X Nodes)
    PROVE  Shown(OutgoingOf(s), s.edges) /\ EdgesOf(s) = s.edges
<1>1. ASSUME NEW n \in Nodes PROVE getOutgoingEdges(s, n) = Ascending(Targets(s.edges, n))
  <2>1. {e[2] : e \in {f \in s.edges : f[1] = n}} = Targets(s.edges, n)
    <3>1. ASSUME NEW t \in Targets(s.edges, n)
          PROVE  t \in {e[2] : e \in {f \in s.edges : f[1] = n}}
      <4>1. <<n, t>> \in {f \in s.edges : f[1] = n} /\ <<n, t>>[2] = t
        BY <3>1 DEF Targets
      <4> QED
        BY <4>1
    <3>2. ASSUME NEW e \in s.edges, e[1] = n PROVE e[2] \in Targets(s.edges, n)
      <4>1. e \in Nodes \X Nodes /\ e = <<e[1], e[2]>>
        OBVIOUS
      <4> QED
        BY <3>2, <4>1 DEF Targets
    <3> QED
      BY <3>1, <3>2
  <2>2. s.impl.kind = "adjacency"
    BY DEF Adjacency
  <2> QED
    BY <2>1, <2>2 DEF getOutgoingEdges
<1>2. \A n \in Nodes : /\ getOutgoingEdges(s, n) \in Seq(Nodes)
                       /\ Range(getOutgoingEdges(s, n)) = Targets(s.edges, n)
                       /\ IsInjective(getOutgoingEdges(s, n))
  <2> SUFFICES ASSUME NEW n \in Nodes
               PROVE  /\ getOutgoingEdges(s, n) \in Seq(Nodes)
                      /\ Range(getOutgoingEdges(s, n)) = Targets(s.edges, n)
                      /\ IsInjective(getOutgoingEdges(s, n))
    OBVIOUS
  <2>1. /\ Ascending(Targets(s.edges, n)) \in Seq(Targets(s.edges, n))
        /\ Range(Ascending(Targets(s.edges, n))) = Targets(s.edges, n)
        /\ IsInjective(Ascending(Targets(s.edges, n)))
    BY TargetsFinite, AscendingIs
  <2>2. Targets(s.edges, n) \subseteq Nodes
    BY DEF Targets
  <2>3. Ascending(Targets(s.edges, n)) \in Seq(Nodes)
    BY <2>1, <2>2, SeqMonotonic
  <2> QED
    BY <1>1, <2>1, <2>3
<1>3. Shown(OutgoingOf(s), s.edges)
  BY <1>2 DEF Shown, OutgoingOf, Graphs
<1> QED
  BY <1>3, EdgesShown

----------------------------------------------------------------------------
(* A cycle safe traversal of the edges E. A walk waits while the stack holds *)
(* one of its nodes, at its distance, and the path has those before it.      *)

On(D, w, j) == \A i \in 0..(j - 1) : <<i, w[i]>> \in D

WaitsAt(w, k, i) ==
    /\ traversalStack[i][2] <= k
    /\ w[traversalStack[i][2]] = traversalStack[i][1]
    /\ On(distanceToNode, w, traversalStack[i][2])

Waits(w, k) == \E i \in 1..Len(traversalStack) : WaitsAt(w, k, i)

\* The walk that has just been entered.
Entered(w, k) == k = lastDistance /\ On(distanceToNode, w, k + 1)

LEMMA ConstructIs ==
    ASSUME NEW g \in Graphs, NEW n \in Nodes, NEW min \in Nat, NEW max \in Nat, NEW safe \in BOOLEAN,
           Construct(g, safe, n, min, max)
    PROVE  /\ IInv' /\ traversalStack' = <<<<n, 0>>>>
           /\ \A k \in Nat : \A w : w[0] = n => Waits(w, k)'
<1> USE DEF Construct
<1>1. /\ gs' = g /\ cycleSafe' = safe /\ startNode' = n /\ minDistance' = min /\ maxDistance' = max
      /\ traversalStack' = <<<<n, 0>>>> /\ lastDistance' = 0 /\ cycleDetected' = FALSE
      /\ nodesInCurrentPath' = {n} /\ distanceToNode' = {<<0, n>>} /\ outputted' = {}
  OBVIOUS
<1> HIDE DEF Construct
<1>2. traversalStack' \in Seq(Nodes \X Nat) /\ Len(traversalStack') = 1 /\ traversalStack'[1] = <<n, 0>>
  BY <1>1
<1>3. DFSTypeOK'
  <2>1. distanceToNode' \subseteq Nat \X Nodes
    BY <1>1
  <2>2. cycleDetected' \in BOOLEAN /\ cycleSafe' \in BOOLEAN
    BY <1>1, Zenon
  <2> QED
    BY <1>1, <1>2, <2>1, <2>2 DEF DFSTypeOK
<1>4. Injective' /\ SameNodes' /\ Parents' /\ UpToLast' /\ NoGaps'
  BY <1>1 DEF Injective, SameNodes, Parents, UpToLast, NoGaps
<1>5. Waiting' /\ Rising'
  BY <1>1, <1>2 DEF Waiting, Rising
<1>6. \A k \in Nat : \A w : w[0] = n => Waits(w, k)'
  BY <1>2 DEF Waits, WaitsAt, On
<1> QED
  BY <1>1, <1>3, <1>4, <1>5, <1>6 DEF IInv, Path

\* What comes before the top of the stack stays on the path.
LEMMA StaysOn ==
    ASSUME IInv, cycleSafe, ~Exhausted, NEW w, NEW i \in 1..Len(traversalStack),
           On(distanceToNode, w, traversalStack[i][2])
    PROVE  On(Kept, w, traversalStack[i][2])
<1>1. Kept = {p \in distanceToNode : p[1] < distance}
  BY KeptIsAbove
<1>2. /\ distance \in Nat /\ Len(traversalStack) \in Nat \ {0} /\ Rising
      /\ traversalStack[Len(traversalStack)] = <<node, distance>>
      /\ traversalStack[i] \in Nodes \X Nat
  BY Top, ElementOfSeq DEF IInv, Path, DFSTypeOK
<1>3. traversalStack[i][2] <= distance /\ traversalStack[i][2] \in Nat
  BY <1>2 DEF Rising
<1> DEFINE d == traversalStack[i][2]
<1>4. \A j \in 0..(d - 1) : j < distance
  <2>1. d <= distance /\ d \in Nat
    BY <1>3
  <2> HIDE DEF d
  <2> QED
    BY <1>2, <2>1
<1>5. \A j \in 0..(d - 1) : <<j, w[j]>> \in distanceToNode
  BY DEF On
<1> QED
  BY <1>1, <1>4, <1>5 DEF On

LEMMA EnterMoves ==
    ASSUME IInv, cycleSafe, EnterSafely, NEW E, Shown(gs, E),
           NEW k \in Nat, k <= maxDistance, NEW w \in WalksOf(E, k), Waits(w, k)
    PROVE  Waits(w, k)' \/ Entered(w, k)'
<1>1. ~Exhausted /\ DFSTypeOK
  BY DEF EnterSafely, IInv
<1>2. /\ node \in Nodes /\ distance \in Nat /\ Len(traversalStack) \in Nat \ {0}
      /\ traversalStack[Len(traversalStack)] = <<node, distance>>
      /\ Len(Pop) = Len(traversalStack) - 1 /\ Pop \in Seq(Nodes \X Nat)
      /\ \A i \in 1..Len(Pop) : Pop[i] = traversalStack[i]
  BY <1>1, Top
<1>3. /\ traversalStack' = Pop \o Children
      /\ distanceToNode' = Kept \cup {<<distance, node>>}
      /\ lastDistance' = distance
  BY DEF EnterSafely, Kept
<1>4. PICK i \in 1..Len(traversalStack) : WaitsAt(w, k, i)
  BY DEF Waits
<1>5. On(Kept, w, traversalStack[i][2])
  BY <1>1, <1>4, StaysOn DEF WaitsAt
<1>6. Children \in Seq(Nodes \X Nat) /\ Len(Pop \o Children) = Len(Pop) + Len(Children)
      /\ \A j \in 1..Len(Pop) : (Pop \o Children)[j] = traversalStack[j] /\ j \in 1..Len(Pop \o Children)
      /\ \A h \in 1..Len(Children) : Len(Pop) + h \in 1..Len(Pop \o Children)
                                     /\ (Pop \o Children)[Len(Pop) + h] = Children[h]
  <2>1. Children \in Seq(Nodes \X Nat)
    <3>1. gs[node] \in Seq(Nodes)
      BY <1>1, <1>2 DEF DFSTypeOK, Graphs
    <3>2. Len(gs[node]) \in Nat /\ \A j \in 1..Len(gs[node]) : gs[node][j] \in Nodes
      BY <3>1, LenProperties, ElementOfSeq
    <3>3. \A j \in 1..Len(gs[node]) : <<gs[node][j], distance + 1>> \in Nodes \X Nat
      BY <1>2, <3>2
    <3>4. [j \in 1..Len(gs[node]) |-> <<gs[node][j], distance + 1>>] \in Seq(Nodes \X Nat)
      BY <3>2, <3>3, IsASeq
    <3> QED
      BY <3>4, EmptySeq DEF Children
  <2>2. Len(Children) \in Nat /\ Len(Pop) \in Nat
    BY <1>2, <2>1, LenProperties
  <2>3. /\ Len(Pop \o Children) = Len(Pop) + Len(Children)
        /\ \A j \in 1..Len(Pop) + Len(Children) :
              (Pop \o Children)[j] = IF j <= Len(Pop) THEN Pop[j] ELSE Children[j - Len(Pop)]
    BY <1>2, <2>1, ConcatProperties
  <2>4. \A j \in 1..Len(Pop) : (Pop \o Children)[j] = traversalStack[j] /\ j \in 1..Len(Pop \o Children)
    BY <1>2, <2>2, <2>3
  <2>5. ASSUME NEW j \in 1..Len(Children)
        PROVE  /\ Len(Pop) + j \in 1..Len(Pop \o Children)
               /\ (Pop \o Children)[Len(Pop) + j] = Children[j]
    <3>1. Len(Pop) + j \in 1..(Len(Pop) + Len(Children)) /\ ~(Len(Pop) + j <= Len(Pop))
          /\ (Len(Pop) + j) - Len(Pop) = j
      BY <2>2
    <3> QED
      BY <2>3, <3>1
  <2> QED
    BY <2>1, <2>3, <2>4, <2>5
<1>7. CASE i # Len(traversalStack)
  <2>1. i \in 1..Len(Pop)
    BY <1>2, <1>7
  <2>2. traversalStack'[i] = traversalStack[i] /\ i \in 1..Len(traversalStack')
    BY <1>3, <1>6, <2>1
  <2>3. On(distanceToNode', w, traversalStack[i][2])
    BY <1>3, <1>5 DEF On
  <2>4. WaitsAt(w, k, i)'
    BY <1>4, <2>2, <2>3 DEF WaitsAt
  <2> QED
    BY <2>2, <2>4 DEF Waits
<1>8. CASE i = Len(traversalStack)
  <2>1. distance <= k /\ w[distance] = node /\ On(Kept, w, distance)
    BY <1>2, <1>4, <1>5, <1>8 DEF WaitsAt
  <2>2. On(distanceToNode', w, distance + 1)
    <3>1. \A j \in 0..((distance + 1) - 1) : j = distance \/ j \in 0..(distance - 1)
      BY <1>2
    <3> QED
      BY <1>3, <2>1, <3>1 DEF On
  <2>3. CASE distance = k
    BY <1>3, <2>2, <2>3 DEF Entered
  <2>4. CASE distance # k
    <3>1. distance < k /\ distance < maxDistance /\ distance \in 0..(k - 1) /\ distance + 1 \in 0..k
      BY <1>1, <1>2, <2>1, <2>4 DEF DFSTypeOK
    <3>2. <<node, w[distance + 1]>> \in E /\ w[distance + 1] \in Nodes
      BY <2>1, <3>1, WalkIs
    <3>3. PICK j \in 1..Len(gs[node]) : gs[node][j] = w[distance + 1]
      <4>1. Child(gs, node, w[distance + 1])
        BY <1>2, <3>2, ShownChild
      <4> QED
        BY <4>1 DEF Child
    <3>4. Children = [l \in 1..Len(gs[node]) |-> <<gs[node][l], distance + 1>>]
      BY <3>1 DEF Children
    <3>5. j \in 1..Len(Children) /\ Children[j] = <<w[distance + 1], distance + 1>>
      <4>1. DOMAIN Children = 1..Len(Children)
        BY <1>6, LenProperties
      <4> QED
        BY <3>3, <3>4, <4>1
    <3> DEFINE l == Len(Pop) + j
    <3>6. l \in 1..Len(traversalStack') /\ traversalStack'[l] = <<w[distance + 1], distance + 1>>
      BY <1>3, <1>6, <3>5
    <3> HIDE DEF l
    <3>7. \E h \in 1..Len(traversalStack') : traversalStack'[h] = <<w[distance + 1], distance + 1>>
      BY <3>6
    <3>8. PICK h \in 1..Len(traversalStack') : traversalStack'[h] = <<w[distance + 1], distance + 1>>
      BY <3>7
    <3>9. traversalStack'[h][2] = distance + 1 /\ w[traversalStack'[h][2]] = traversalStack'[h][1]
          /\ distance + 1 <= k
      BY <1>2, <3>1, <3>8
    <3>10. WaitsAt(w, k, h)'
      BY <2>2, <3>9 DEF WaitsAt
    <3> QED
      BY <3>10 DEF Waits
  <2> QED
    BY <2>3, <2>4
<1> QED
  BY <1>7, <1>8

LEMMA RejectMoves ==
    ASSUME IInv, cycleSafe, RejectCycle, NEW k \in Nat, NEW w, Waits(w, k)
    PROVE  Waits(w, k)' \/ ~Simple(w, k)
<1>1. ~Exhausted /\ DFSTypeOK /\ Injective
  BY DEF RejectCycle, IInv, Path
<1>2. /\ node \in Nodes /\ distance \in Nat /\ Len(traversalStack) \in Nat \ {0}
      /\ traversalStack[Len(traversalStack)] = <<node, distance>>
      /\ Len(Pop) = Len(traversalStack) - 1
      /\ \A i \in 1..Len(Pop) : Pop[i] = traversalStack[i]
  BY <1>1, Top
<1>3. traversalStack' = Pop /\ distanceToNode' = Kept /\ node \in PathLeft
  BY DEF RejectCycle, Kept
<1>4. PICK i \in 1..Len(traversalStack) : WaitsAt(w, k, i)
  BY DEF Waits
<1>5. On(Kept, w, traversalStack[i][2])
  BY <1>1, <1>4, StaysOn DEF WaitsAt
<1>6. CASE i # Len(traversalStack)
  <2>1. i \in 1..Len(traversalStack') /\ traversalStack'[i] = traversalStack[i]
    BY <1>2, <1>3, <1>6
  <2>2. WaitsAt(w, k, i)'
    BY <1>3, <1>4, <1>5, <2>1 DEF WaitsAt
  <2> QED
    BY <2>1, <2>2 DEF Waits
<1>7. CASE i = Len(traversalStack)
  <2>1. distance <= k /\ w[distance] = node /\ On(Kept, w, distance)
    BY <1>2, <1>4, <1>5, <1>7 DEF WaitsAt
  <2>2. PathLeft = {p[2] : p \in Kept} /\ Kept = {p \in distanceToNode : p[1] < distance}
    BY <1>1, LeftIsKept, KeptIsAbove
  <2>3. PICK p \in Kept : p[2] = node
    BY <1>3, <2>2
  <2>4. p \in Nat \X Nodes /\ p[1] < distance /\ p \in distanceToNode
    BY <1>1, <2>2, <2>3 DEF DFSTypeOK
  <2>5. p[1] \in 0..(distance - 1) /\ p[1] \in 0..k /\ distance \in 0..k /\ p[1] # distance
    BY <1>2, <2>1, <2>4
  <2>6. <<p[1], w[p[1]]>> \in distanceToNode
    BY <2>1, <2>2, <2>5 DEF On
  <2>7. w[p[1]] = p[2]
    BY <1>1, <2>4, <2>6 DEF Injective
  <2> QED
    BY <2>1, <2>3, <2>5, <2>7 DEF Simple
<1> QED
  BY <1>6, <1>7

\* The path above the top of the stack, and the top, are a walk from the start node.
LEMMA TopWalk ==
    ASSUME IInv, cycleSafe, ~Exhausted, NEW E, Shown(gs, E)
    PROVE  \E w \in WalksOf(E, distance) :
              w[0] = startNode /\ w[distance] = node /\ On(Kept, w, distance)
<1>1. DFSTypeOK /\ Injective /\ Parents /\ NoGaps /\ Waiting
  BY DEF IInv, Path
<1>2. /\ node \in Nodes /\ distance \in Nat /\ Len(traversalStack) \in Nat \ {0}
      /\ traversalStack[Len(traversalStack)] = <<node, distance>>
  BY <1>1, Top
<1>3. Kept = {p \in distanceToNode : p[1] < distance} /\ distanceToNode \subseteq Nat \X Nodes
  BY <1>1, KeptIsAbove DEF DFSTypeOK
<1>4. IF distance = 0 THEN node = startNode ELSE ParentOf(gs, distanceToNode, distance, node)
  <2>1. Len(traversalStack) \in 1..Len(traversalStack)
    BY <1>2
  <2>2. traversalStack[Len(traversalStack)][1] = node /\ traversalStack[Len(traversalStack)][2] = distance
    BY <1>2
  <2> QED
    BY <1>1, <2>1, <2>2 DEF Waiting
<1>5. \A i \in 0..(distance - 1) : \E p \in Kept : p[1] = i
  <2>1. CASE distance = 0
    BY <2>1
  <2>2. CASE distance # 0
    <3>1. PICK q \in distanceToNode : q[1] = distance - 1
      BY <1>4, <2>2 DEF ParentOf
    <3>2. \A i \in 0..(distance - 1) : \E p \in distanceToNode : p[1] = i
      BY <1>1, <3>1 DEF NoGaps
    <3>3. \A i \in 0..(distance - 1) : i < distance
      BY <1>2
    <3> QED
      BY <1>3, <3>2, <3>3
  <2> QED
    BY <2>1, <2>2
<1> DEFINE at(i) == (CHOOSE p \in Kept : p[1] = i)[2]
           w == [i \in 0..distance |-> IF i = distance THEN node ELSE at(i)]
<1>6. \A i \in 0..(distance - 1) : <<i, at(i)>> \in Kept /\ at(i) \in Nodes /\ w[i] = at(i)
  <2> TAKE i \in 0..(distance - 1)
  <2> DEFINE p == CHOOSE p \in Kept : p[1] = i
  <2>1. p \in Kept /\ p[1] = i
    BY <1>5
  <2>2. p \in Nat \X Nodes
    BY <1>3, <2>1
  <2>3. p = <<i, p[2]>> /\ p[2] \in Nodes
    BY <2>1, <2>2
  <2>4. i # distance /\ i \in 0..distance
    BY <1>2
  <2> QED
    BY <2>1, <2>3, <2>4
<1>7. w[distance] = node /\ w \in [0..distance -> Nodes]
  <2>1. \A i \in 0..distance : i = distance \/ i \in 0..(distance - 1)
    BY <1>2
  <2>2. \A i \in 0..distance : w[i] \in Nodes
    BY <1>2, <1>6, <2>1
  <2>3. distance \in 0..distance
    BY <1>2
  <2> QED
    BY <2>2, <2>3
<1> HIDE DEF w, at
<1>8. On(Kept, w, distance)
  BY <1>6 DEF On
<1>9. w[0] = startNode
  <2>1. CASE distance = 0
    BY <1>4, <1>7, <2>1
  <2>2. CASE distance # 0
    <3>1. 0 \in 0..(distance - 1)
      BY <1>2, <2>2
    <3>2. <<0, w[0]>> \in distanceToNode
      BY <1>3, <1>6, <3>1
    <3> QED
      BY <1>1, <3>2 DEF Parents
  <2> QED
    BY <2>1, <2>2
<1>10. \A i \in 0..(distance - 1) : <<w[i], w[i + 1]>> \in E
  <2> TAKE i \in 0..(distance - 1)
  <2>1. <<i, w[i]>> \in distanceToNode /\ w[i] \in Nodes
    BY <1>3, <1>6
  <2>2. ParentOf(gs, distanceToNode, i + 1, w[i + 1])
    <3>1. CASE i + 1 = distance
      BY <1>2, <1>4, <1>7, <3>1
    <3>2. CASE i + 1 # distance
      <4>1. i + 1 \in 0..(distance - 1) /\ i + 1 # 0
        BY <1>2, <3>2
      <4>2. <<i + 1, w[i + 1]>> \in distanceToNode
        BY <1>3, <1>6, <4>1
      <4> QED
        BY <1>1, <4>1, <4>2 DEF Parents
    <3> QED
      BY <3>1, <3>2
  <2>3. PICK q \in distanceToNode : q[1] = (i + 1) - 1 /\ Child(gs, q[2], w[i + 1])
    BY <2>2 DEF ParentOf
  <2>4. q[1] = i
    BY <2>3
  <2>5. q[2] = w[i]
    BY <1>1, <2>1, <2>4 DEF Injective
  <2> QED
    BY <2>1, <2>3, <2>5, ShownChild
<1>11. w \in WalksOf(E, distance)
  BY <1>7, <1>10 DEF WalksOf
<1> QED
  BY <1>7, <1>8, <1>9, <1>11

\* The path leads to a node in one way.
LEMMA OneWalk ==
    ASSUME NEW D, \A p, q \in D : p[1] = q[1] <=> p[2] = q[2],
           NEW E, NEW k \in Nat, NEW v \in WalksOf(E, k), NEW w \in WalksOf(E, k),
           On(D, v, k), On(D, w, k), v[k] = w[k]
    PROVE  v = w
<1>1. \A i \in 0..k : v[i] = w[i]
  <2> TAKE i \in 0..k
  <2>1. CASE i = k
    BY <2>1
  <2>2. CASE i # k
    <3>1. i \in 0..(k - 1)
      BY <2>2
    <3>2. <<i, v[i]>> \in D /\ <<i, w[i]>> \in D
      BY <3>1 DEF On
    <3> QED
      BY <3>2
  <2> QED
    BY <2>1, <2>2
<1> QED
  BY <1>1 DEF WalksOf

LEMMA EnterVisits ==
    ASSUME IInv, cycleSafe, EnterSafely, NEW E, Shown(gs, E)
    PROVE  \E v \in WalksOf(E, distance) :
              /\ v[0] = startNode /\ v[distance] = node /\ Simple(v, distance)
              /\ Waits(v, distance) /\ On(Kept, v, distance)
              /\ \A k \in 0..maxDistance : \A w \in WalksOf(E, k) :
                    Waits(w, k) => Waits(w, k)' \/ (k = distance /\ w = v)
<1>1. ~Exhausted /\ DFSTypeOK /\ Injective
  BY DEF EnterSafely, IInv, Path
<1>2. /\ node \in Nodes /\ distance \in Nat /\ Len(traversalStack) \in Nat \ {0}
      /\ traversalStack[Len(traversalStack)] = <<node, distance>>
  BY <1>1, Top
<1>3. PICK v \in WalksOf(E, distance) : v[0] = startNode /\ v[distance] = node /\ On(Kept, v, distance)
  BY <1>1, TopWalk
<1>4. PathLeft = {p[2] : p \in Kept} /\ Kept = {p \in distanceToNode : p[1] < distance}
      /\ node \notin PathLeft
  BY <1>1, LeftIsKept, KeptIsAbove DEF EnterSafely
<1>5. Simple(v, distance)
  <2>1. \A i \in 0..(distance - 1) : <<i, v[i]>> \in Kept /\ v[i] # node
    BY <1>3, <1>4 DEF On
  <2>2. ASSUME NEW i \in 0..distance, NEW j \in 0..distance, v[i] = v[j] PROVE i = j
    <3>1. (i = distance \/ i \in 0..(distance - 1)) /\ (j = distance \/ j \in 0..(distance - 1))
      BY <1>2
    <3>2. CASE i = distance \/ j = distance
      BY <1>3, <2>1, <2>2, <3>1, <3>2
    <3>3. CASE i # distance /\ j # distance
      <4>1. <<i, v[i]>> \in distanceToNode /\ <<j, v[j]>> \in distanceToNode
        BY <1>4, <2>1, <3>1, <3>3
      <4> QED
        BY <1>1, <2>2, <4>1 DEF Injective
    <3> QED
      BY <3>2, <3>3
  <2> QED
    BY <2>2 DEF Simple
<1>6. Waits(v, distance)
  <2>1. On(distanceToNode, v, distance)
    BY <1>3, <1>4 DEF On
  <2>2. Len(traversalStack) \in 1..Len(traversalStack)
        /\ traversalStack[Len(traversalStack)][2] = distance
        /\ traversalStack[Len(traversalStack)][1] = node /\ distance <= distance
    BY <1>2
  <2>3. WaitsAt(v, distance, Len(traversalStack))
    BY <1>3, <2>1, <2>2 DEF WaitsAt
  <2> QED
    BY <2>2, <2>3 DEF Waits
<1>7. ASSUME NEW k \in 0..maxDistance, NEW w \in WalksOf(E, k), Waits(w, k), ~Waits(w, k)'
      PROVE  k = distance /\ w = v
  <2>1. k \in Nat /\ k <= maxDistance
    BY <1>1 DEF DFSTypeOK
  <2>2. Entered(w, k)'
    BY <1>7, <2>1, EnterMoves
  <2>3. /\ distanceToNode' = Kept \cup {<<distance, node>>} /\ lastDistance' = distance
    BY DEF EnterSafely, Kept
  <2>4. k = distance /\ \A j \in 0..((k + 1) - 1) : <<j, w[j]>> \in distanceToNode'
    BY <2>2, <2>3 DEF Entered, On
  <2>5. w[distance] = node
    <3>1. distance \in 0..((k + 1) - 1)
      BY <1>2, <2>4
    <3>2. <<distance, w[distance]>> \in Kept \cup {<<distance, node>>}
      BY <2>3, <2>4, <3>1
    <3>3. <<distance, w[distance]>> \notin Kept
      BY <1>2, <1>4
    <3> QED
      BY <3>2, <3>3
  <2>6. On(Kept, w, distance)
    <3>1. \A j \in 0..(distance - 1) : j \in 0..((k + 1) - 1) /\ j # distance
      BY <1>2, <2>4
    <3> QED
      BY <2>3, <2>4, <3>1 DEF On
  <2>7. \A p, q \in Kept : p[1] = q[1] <=> p[2] = q[2]
    BY <1>1, <1>4 DEF Injective
  <2>8. w \in WalksOf(E, distance) /\ v[distance] = w[distance]
    BY <1>3, <2>4, <2>5
  <2>9. v = w
    BY <1>2, <1>3, <2>6, <2>7, <2>8, OneWalk
  <2> QED
    BY <2>4, <2>9
<1> QED
  BY <1>3, <1>5, <1>6, <1>7

\* What does not wait is not put on the stack later.
LEMMA WaitedBefore ==
    ASSUME IInv, cycleSafe, EnterSafely, NEW w, NEW k \in Nat, Waits(w, k)'
    PROVE  Waits(w, k)
<1>1. ~Exhausted /\ DFSTypeOK
  BY DEF EnterSafely, IInv
<1>2. /\ node \in Nodes /\ distance \in Nat /\ Len(traversalStack) \in Nat \ {0}
      /\ traversalStack[Len(traversalStack)] = <<node, distance>>
      /\ Len(Pop) = Len(traversalStack) - 1
  BY <1>1, Top
<1>3. /\ traversalStack' = Pop \o Children
      /\ distanceToNode' = Kept \cup {<<distance, node>>}
  BY DEF EnterSafely, Kept
<1>4. PICK i \in 1..Len(traversalStack') : WaitsAt(w, k, i)'
  BY DEF Waits
<1>5. Kept = {p \in distanceToNode : p[1] < distance} /\ Rising
  BY <1>1, KeptIsAbove DEF IInv, Path
<1> DEFINE d == traversalStack'[i][2]
<1>6. d <= k /\ w[d] = traversalStack'[i][1] /\ On(distanceToNode', w, d)
  BY <1>4 DEF WaitsAt
<1>7. CASE i <= Len(Pop)
  <2>1. i \in 1..Len(traversalStack) /\ traversalStack'[i] = traversalStack[i]
    BY <1>1, <1>2, <1>3, <1>7, Pushed
  <2>2. d <= distance /\ d \in Nat
    <3>1. Len(traversalStack) \in 1..Len(traversalStack) /\ i <= Len(traversalStack)
      BY <1>2, <2>1
    <3>2. traversalStack[i][2] <= traversalStack[Len(traversalStack)][2]
      BY <1>5, <2>1, <3>1 DEF Rising
    <3>3. traversalStack[i] \in Nodes \X Nat
      BY <1>1, <2>1, ElementOfSeq DEF DFSTypeOK
    <3> QED
      BY <1>2, <2>1, <3>2, <3>3
  <2>3. \A j \in 0..(d - 1) : j # distance
    <3> HIDE DEF d
    <3> QED
      BY <1>2, <2>2
  <2>4. On(distanceToNode, w, d)
    BY <1>3, <1>5, <1>6, <2>3 DEF On
  <2>5. WaitsAt(w, k, i)
    BY <1>6, <2>1, <2>4 DEF WaitsAt
  <2> QED
    BY <2>1, <2>5 DEF Waits
<1>8. CASE ~(i <= Len(Pop))
  <2>1. d = distance + 1
    BY <1>1, <1>3, <1>8, Pushed
  <2>2. \A j \in 0..((distance + 1) - 1) : <<j, w[j]>> \in Kept \cup {<<distance, node>>}
    BY <1>3, <1>6, <2>1 DEF On
  <2>3. w[distance] = node
    <3>1. distance \in 0..((distance + 1) - 1)
      BY <1>2
    <3>2. <<distance, w[distance]>> \notin Kept
      BY <1>2, <1>5
    <3> QED
      BY <2>2, <3>1, <3>2
  <2>4. On(distanceToNode, w, distance)
    <3>1. \A j \in 0..(distance - 1) : j \in 0..((distance + 1) - 1) /\ j # distance
      BY <1>2
    <3> QED
      BY <1>5, <2>2, <3>1 DEF On
  <2>5. distance <= k
    <3>1. distance + 1 <= k
      BY <1>6, <2>1
    <3> HIDE DEF d
    <3> QED
      BY <1>2, <3>1
  <2>6. WaitsAt(w, k, Len(traversalStack)) /\ Len(traversalStack) \in 1..Len(traversalStack)
    BY <1>2, <2>3, <2>4, <2>5 DEF WaitsAt
  <2> QED
    BY <2>6 DEF Waits
<1> QED
  BY <1>7, <1>8

\* Nothing waits twice, and of what is on the path only the top of the stack.
NoTwins ==
    /\ \A i, j \in 1..Len(traversalStack) : traversalStack[i] = traversalStack[j] => i = j
    /\ \A i \in 1..(Len(traversalStack) - 1) :
          <<traversalStack[i][2], traversalStack[i][1]>> \notin distanceToNode

LEMMA ConstructNoTwins ==
    ASSUME NEW g, NEW n, NEW min, NEW max, NEW safe, Construct(g, safe, n, min, max)
    PROVE  NoTwins'
<1>1. traversalStack' = <<<<n, 0>>>> /\ Len(traversalStack') = 1
  BY DEF Construct
<1> QED
  BY <1>1 DEF NoTwins

LEMMA ChildrenAre ==
    ASSUME DFSTypeOK, ~Exhausted
    PROVE  /\ Len(Pop \o Children) = Len(Pop) + Len(Children) /\ Len(Children) \in Nat
           /\ \A j \in 1..Len(Pop) : (Pop \o Children)[j] = traversalStack[j]
           /\ \A h \in (Len(Pop) + 1)..Len(Pop \o Children) :
                 /\ h - Len(Pop) \in 1..Len(gs[node])
                 /\ (Pop \o Children)[h] = <<gs[node][h - Len(Pop)], distance + 1>>
<1>1. /\ node \in Nodes /\ distance \in Nat /\ Len(traversalStack) \in Nat \ {0}
      /\ Len(Pop) = Len(traversalStack) - 1 /\ Pop \in Seq(Nodes \X Nat)
      /\ \A i \in 1..Len(Pop) : Pop[i] = traversalStack[i]
  BY Top
<1>2. gs[node] \in Seq(Nodes)
  BY <1>1 DEF DFSTypeOK, Graphs
<1>3. Len(gs[node]) \in Nat /\ \A j \in 1..Len(gs[node]) : gs[node][j] \in Nodes
  BY <1>2, LenProperties, ElementOfSeq
<1> DEFINE C == [j \in 1..Len(gs[node]) |-> <<gs[node][j], distance + 1>>]
<1>4. C \in Seq(Nodes \X Nat)
  <2>1. \A j \in 1..Len(gs[node]) : <<gs[node][j], distance + 1>> \in Nodes \X Nat
    BY <1>1, <1>3
  <2> QED
    BY <1>3, <2>1, IsASeq
<1>5. Len(C) = Len(gs[node])
  BY <1>3
<1>6. Children \in Seq(Nodes \X Nat)
  BY <1>4, EmptySeq DEF Children
<1>7. /\ \A j \in 1..Len(Children) : j \in 1..Len(gs[node]) /\ Children[j] = <<gs[node][j], distance + 1>>
  <2>1. CASE Children = C
    BY <1>5, <2>1
  <2>2. CASE Children # C
    <3>1. Children = <<>>
      BY <2>2 DEF Children
    <3> QED
      BY <3>1
  <2> QED
    BY <2>1, <2>2
<1> HIDE DEF C
<1>8. Len(Children) \in Nat /\ Len(Pop) \in Nat
  BY <1>1, <1>6, LenProperties
<1>9. /\ Len(Pop \o Children) = Len(Pop) + Len(Children)
      /\ \A j \in 1..Len(Pop) + Len(Children) :
            (Pop \o Children)[j] = IF j <= Len(Pop) THEN Pop[j] ELSE Children[j - Len(Pop)]
  BY <1>1, <1>6, ConcatProperties
<1>10. \A j \in 1..Len(Pop) : (Pop \o Children)[j] = traversalStack[j]
  BY <1>1, <1>8, <1>9
<1>11. ASSUME NEW h \in (Len(Pop) + 1)..Len(Pop \o Children)
       PROVE  /\ h - Len(Pop) \in 1..Len(gs[node])
              /\ (Pop \o Children)[h] = <<gs[node][h - Len(Pop)], distance + 1>>
  <2>1. h \in 1..Len(Pop) + Len(Children) /\ ~(h <= Len(Pop)) /\ h - Len(Pop) \in 1..Len(Children)
    BY <1>8, <1>9
  <2> QED
    BY <1>7, <1>9, <2>1
<1> QED
  BY <1>8, <1>9, <1>10, <1>11

LEMMA StackRises ==
    ASSUME IInv, cycleSafe, ~Exhausted
    PROVE  \A i \in 1..Len(traversalStack) :
              traversalStack[i] \in Nodes \X Nat /\ traversalStack[i][2] <= distance
<1>1. DFSTypeOK /\ Rising
  BY DEF IInv, Path
<1>2. /\ distance \in Nat /\ Len(traversalStack) \in Nat \ {0}
      /\ traversalStack[Len(traversalStack)] = <<node, distance>>
  BY <1>1, Top
<1>3. \A i \in 1..Len(traversalStack) : i <= Len(traversalStack) /\ Len(traversalStack) \in 1..Len(traversalStack)
  BY <1>2
<1>4. \A i \in 1..Len(traversalStack) : traversalStack[i] \in Nodes \X Nat
  BY <1>1, ElementOfSeq DEF DFSTypeOK
<1>5. \A i \in 1..Len(traversalStack) : traversalStack[i][2] <= traversalStack[Len(traversalStack)][2]
  BY <1>1, <1>3 DEF Rising
<1> QED
  BY <1>2, <1>4, <1>5

LEMMA EnterNoTwins ==
    ASSUME IInv, cycleSafe, EnterSafely, NEW E, Shown(gs, E), NoTwins
    PROVE  /\ NoTwins'
           /\ \A w : \A k : k = distance /\ w[k] = node /\ On(Kept, w, k) => ~Waits(w, k)'
<1>1. ~Exhausted /\ DFSTypeOK
  BY DEF EnterSafely, IInv
<1>2. /\ node \in Nodes /\ distance \in Nat /\ Len(traversalStack) \in Nat \ {0}
      /\ traversalStack[Len(traversalStack)] = <<node, distance>>
      /\ Len(Pop) = Len(traversalStack) - 1
  BY <1>1, Top
<1>3. /\ traversalStack' = Pop \o Children
      /\ distanceToNode' = Kept \cup {<<distance, node>>}
  BY DEF EnterSafely, Kept
<1>4. Kept = {p \in distanceToNode : p[1] < distance}
  BY <1>1, KeptIsAbove
<1> DEFINE P == Len(Pop)
<1>0. PICK T : T = traversalStack'
  OBVIOUS
<1> DEFINE L == Len(T)
<1>5. /\ P \in Nat /\ L \in Nat /\ P <= L
      /\ \A j \in 1..P : T[j] = traversalStack[j]
      /\ \A h \in (P + 1)..L : /\ h - P \in 1..Len(gs[node])
                               /\ T[h] = <<gs[node][h - P], distance + 1>>
  <2>1. /\ Len(Pop \o Children) = Len(Pop) + Len(Children) /\ Len(Children) \in Nat
        /\ \A j \in 1..Len(Pop) : (Pop \o Children)[j] = traversalStack[j]
        /\ \A h \in (Len(Pop) + 1)..Len(Pop \o Children) :
              /\ h - Len(Pop) \in 1..Len(gs[node])
              /\ (Pop \o Children)[h] = <<gs[node][h - Len(Pop)], distance + 1>>
    BY <1>1, ChildrenAre
  <2>2. T = Pop \o Children
    BY <1>0, <1>3
  <2>3. P \in Nat /\ L = P + Len(Children)
    BY <1>2, <2>1, <2>2
  <2>4. P <= L /\ L \in Nat
    BY <2>1, <2>3
  <2> QED
    BY <2>1, <2>2, <2>3, <2>4
<1>6. \A j \in 1..P : j \in 1..(Len(traversalStack) - 1) /\ j \in 1..Len(traversalStack)
                      /\ j # Len(traversalStack)
  BY <1>2
<1>7. \A j \in 1..P : /\ T[j] \in Nodes \X Nat
                      /\ T[j][2] <= distance
                      /\ T[j] # <<node, distance>>
                      /\ <<T[j][2], T[j][1]>> \notin distanceToNode
  <2>1. Len(traversalStack) \in 1..Len(traversalStack)
    BY <1>2
  <2>2. \A j \in 1..P : traversalStack[j] # <<node, distance>>
    BY <1>2, <1>6, <2>1 DEF NoTwins
  <2> QED
    BY <1>1, <1>5, <1>6, <2>2, StackRises DEF NoTwins
<1>a. /\ \A h \in (P + 1)..L : T[h][2] = distance + 1
      /\ \A j \in 1..P : /\ T[j] = <<T[j][1], T[j][2]>> /\ T[j][2] \in Nat
                          /\ ~(T[j][1] = node /\ T[j][2] = distance)
  <2> HIDE DEF P, L
  <2>1. \A h \in (P + 1)..L : T[h][2] = distance + 1
    BY <1>5
  <2>2. ASSUME NEW j \in 1..P PROVE T[j] = <<T[j][1], T[j][2]>> /\ T[j][2] \in Nat
    <3>1. T[j] \in Nodes \X Nat
      BY <1>7
    <3> QED
      BY <3>1
  <2> QED
    BY <1>7, <2>1, <2>2
<1>8. \A i \in 1..L : i \in 1..P \/ i \in (P + 1)..L
  BY <1>5
<1> HIDE DEF P, L
<1>9. ASSUME NEW i \in 1..L, NEW j \in 1..L, T[i] = T[j] PROVE i = j
  <2>1. CASE i \in 1..P /\ j \in 1..P
    BY <1>5, <1>6, <1>9, <2>1 DEF NoTwins
  <2>2. CASE i \in 1..P /\ j \in (P + 1)..L
    <3>1. T[i][2] <= distance /\ T[j][2] = distance + 1
      BY <1>7, <1>a, <2>2
    <3> QED
      BY <1>2, <1>9, <3>1
  <2>3. CASE j \in 1..P /\ i \in (P + 1)..L
    <3>1. T[j][2] <= distance /\ T[i][2] = distance + 1
      BY <1>7, <1>a, <2>3
    <3> QED
      BY <1>2, <1>9, <3>1
  <2>4. CASE i \in (P + 1)..L /\ j \in (P + 1)..L
    <3>1. gs[node][i - P] = gs[node][j - P] /\ i - P \in 1..Len(gs[node]) /\ j - P \in 1..Len(gs[node])
      BY <1>5, <1>9, <2>4
    <3>2. gs[node] \in Seq(Nodes) /\ IsInjective(gs[node])
      BY <1>2 DEF Shown, Graphs
    <3>3. i - P = j - P
      BY <3>1, <3>2, LenProperties DEF IsInjective
    <3> QED
      BY <1>5, <2>4, <3>3
  <2> QED
    BY <1>8, <2>1, <2>2, <2>3, <2>4
<1>10. ASSUME NEW i \in 1..(L - 1)
       PROVE  <<T[i][2], T[i][1]>> \notin distanceToNode'
  <2>1. i \in 1..L
    BY <1>5
  <2>2. CASE i \in 1..P
    <3>1. <<T[i][2], T[i][1]>> \notin Kept
      BY <1>4, <1>7, <2>2
    <3>2. <<T[i][2], T[i][1]>> # <<distance, node>>
      BY <1>a, <2>2
    <3> QED
      BY <1>3, <3>1, <3>2
  <2>3. CASE i \in (P + 1)..L
    <3>1. T[i][2] = distance + 1
      BY <1>5, <2>3
    <3>2. \A p \in distanceToNode' : p[1] <= distance
      BY <1>1, <1>2, <1>3, <1>4 DEF DFSTypeOK
    <3>3. ~(distance + 1 <= distance)
      BY <1>2
    <3> QED
      BY <3>1, <3>2, <3>3
  <2> QED
    BY <1>8, <2>1, <2>2, <2>3
<1>11. ASSUME NEW w, NEW k, k = distance, w[k] = node, On(Kept, w, k), Waits(w, k)' PROVE FALSE
  <2>1. PICK i \in 1..L : WaitsAt(w, k, i)'
    BY <1>0, <1>11 DEF Waits, L
  <2>2. T[i][2] <= distance /\ w[T[i][2]] = T[i][1]
    BY <1>0, <1>11, <2>1 DEF WaitsAt
  <2>3. i \in 1..P
    <3>1. CASE i \in (P + 1)..L
      <4>1. T[i][2] = distance + 1
        BY <1>5, <3>1
      <4> QED
        BY <1>2, <2>2, <4>1
    <3> QED
      BY <1>8, <3>1
  <2>4. CASE T[i][2] = distance
    BY <1>a, <1>11, <2>2, <2>3, <2>4
  <2>5. CASE T[i][2] # distance
    <3>1. T[i][2] \in 0..(distance - 1)
      BY <1>2, <1>a, <2>2, <2>3, <2>5
    <3>2. <<T[i][2], T[i][1]>> \in Kept
      BY <1>11, <2>2, <3>1 DEF On
    <3> QED
      BY <1>4, <1>7, <2>3, <3>2
  <2> QED
    BY <2>4, <2>5
<1> QED
  BY <1>0, <1>9, <1>10, <1>11 DEF NoTwins, L

LEMMA RejectNoTwins == ASSUME IInv, cycleSafe, RejectCycle, NoTwins PROVE NoTwins'
<1>1. ~Exhausted /\ DFSTypeOK
  BY DEF RejectCycle, IInv
<1>2. /\ Len(traversalStack) \in Nat \ {0}
      /\ Len(Pop) = Len(traversalStack) - 1
      /\ \A i \in 1..Len(Pop) : Pop[i] = traversalStack[i]
  BY <1>1, Top
<1>3. traversalStack' = Pop /\ distanceToNode' \subseteq distanceToNode
  BY DEF RejectCycle
<1>4. \A i \in 1..Len(Pop) : i \in 1..Len(traversalStack) /\ i \in 1..(Len(traversalStack) - 1)
  BY <1>2
<1>5. \A i \in 1..(Len(Pop) - 1) : i \in 1..Len(Pop)
  BY <1>2
<1>6. \A i, j \in 1..Len(Pop) : Pop[i] = Pop[j] => i = j
  BY <1>2, <1>4 DEF NoTwins
<1>7. \A i \in 1..(Len(Pop) - 1) : <<Pop[i][2], Pop[i][1]>> \notin distanceToNode'
  BY <1>2, <1>3, <1>4, <1>5 DEF NoTwins
<1> HIDE DEF Pop
<1> QED
  BY <1>3, <1>6, <1>7, Zenon DEF NoTwins

----------------------------------------------------------------------------
(* What the roots lead to.                                                  *)

RootWalks(E) == UNION {{k} \X {w \in WalksOf(E, k) : w[0] \in RootsOf(E)} : k \in Nat}

Led(E, n) == \E x \in RootWalks(E) : x[2][x[1]] = n

Traversed(E) == {e \in E : Led(E, e[1])}

\* E is what is left of M, or of what its roots lead to.
Descends(E, M) == E \subseteq M /\ \A r \in RootsOf(E) : Led(M, r)

EndsOf(E) == UNION {{e[1], e[2]} : e \in E}

OneParent(E) == \A e, f \in E : e[2] = f[2] => e = f

\* Every walk from a root is a path of at most this length, and there are so many.
Bounded(E, depth, count) ==
    /\ IsFiniteSet(RootWalks(E)) /\ Cardinality(RootWalks(E)) <= count
    /\ \A x \in RootWalks(E) : Simple(x[2], x[1]) /\ x[1] <= depth

Measured(E) ==
    /\ stat.rootedTree => OneParent(E)
    /\ \A n \in Nodes : Cardinality(Targets(E, n)) <= stat.maxFanOut
    /\ Cardinality(EndsOf(E)) <= stat.nodes
    /\ ~stat.cyclic => Bounded(E, stat.maxDepth, stat.visits)

LEMMA RootWalkIs ==
    ASSUME NEW E, NEW x
    PROVE  x \in RootWalks(E) <=>
              \E k \in Nat : \E w \in WalksOf(E, k) : x = <<k, w>> /\ w[0] \in RootsOf(E)
  BY DEF RootWalks

LEMMA RootWalkParts ==
    ASSUME NEW E, NEW x \in RootWalks(E)
    PROVE  /\ x = <<x[1], x[2]>> /\ x[1] \in Nat /\ x[2] \in WalksOf(E, x[1])
           /\ x[2][0] \in RootsOf(E)
<1>1a. PICK k \in Nat : \E w \in WalksOf(E, k) : x = <<k, w>> /\ w[0] \in RootsOf(E)
  BY RootWalkIs
<1>1. PICK w \in WalksOf(E, k) : x = <<k, w>> /\ w[0] \in RootsOf(E)
  BY <1>1a
<1>2. x[1] = k /\ x[2] = w
  BY <1>1
<1> QED
  BY <1>1, <1>2

LEMMA LedIs ==
    ASSUME NEW E, NEW n
    PROVE  Led(E, n) <=> \E k \in Nat : \E w \in WalksOf(E, k) : w[0] \in RootsOf(E) /\ w[k] = n
<1>1. ASSUME Led(E, n)
      PROVE  \E k \in Nat : \E w \in WalksOf(E, k) : w[0] \in RootsOf(E) /\ w[k] = n
  BY <1>1, RootWalkParts DEF Led
<1>2. ASSUME NEW k \in Nat, NEW w \in WalksOf(E, k), w[0] \in RootsOf(E), w[k] = n
      PROVE  Led(E, n)
  <2>1. <<k, w>> \in RootWalks(E) /\ <<k, w>>[1] = k /\ <<k, w>>[2] = w
    BY <1>2, RootWalkIs
  <2> QED
    BY <1>2, <2>1 DEF Led
<1> QED
  BY <1>1, <1>2

LEMMA RootsAre ==
    ASSUME NEW E \in SUBSET (Nodes \X Nodes), NEW r
    PROVE  r \in RootsOf(E) <=> r \in Nodes /\ (\E t \in Nodes : <<r, t>> \in E)
                                /\ \A m \in Nodes : <<m, r>> \notin E
<1>1. \A e \in E : e = <<e[1], e[2]>> /\ e[1] \in Nodes /\ e[2] \in Nodes
  OBVIOUS
<1>2. ASSUME r \in RootsOf(E)
      PROVE  r \in Nodes /\ (\E t \in Nodes : <<r, t>> \in E) /\ \A m \in Nodes : <<m, r>> \notin E
  <2>1. PICK e \in E : e[1] = r
    BY <1>2 DEF RootsOf, Sources
  <2>2. \A f \in E : f[2] # r
    BY <1>2 DEF RootsOf
  <2>3. \A m \in Nodes : <<m, r>>[2] = r
    OBVIOUS
  <2> QED
    BY <1>1, <2>1, <2>2, <2>3
<1>3. ASSUME NEW t \in Nodes, <<r, t>> \in E, \A m \in Nodes : <<m, r>> \notin E
      PROVE  r \in RootsOf(E)
  <2>1. <<r, t>>[1] = r
    OBVIOUS
  <2>2. r \in Sources(E)
    BY <1>3, <2>1 DEF Sources
  <2>3. \A f \in E : f[2] # r
    BY <1>1, <1>3
  <2> QED
    BY <2>2, <2>3 DEF RootsOf
<1> QED
  BY <1>2, <1>3

LEMMA RootIsLed ==
    ASSUME NEW E \in SUBSET (Nodes \X Nodes), NEW r \in RootsOf(E)
    PROVE  Led(E, r) /\ <<0, Alone(r)>> \in RootWalks(E)
<1>1. r \in Nodes
  BY RootsAre
<1>2. Alone(r) \in WalksOf(E, 0) /\ Alone(r)[0] = r
  BY <1>1, AloneIs
<1> QED
  BY <1>2, LedIs, RootWalkIs

LEMMA LedFurther ==
    ASSUME NEW E \in SUBSET (Nodes \X Nodes), NEW m, NEW n, <<m, n>> \in E, Led(E, m)
    PROVE  Led(E, n)
<1>1a. PICK k \in Nat : \E w \in WalksOf(E, k) : w[0] \in RootsOf(E) /\ w[k] = m
  BY LedIs
<1>1. PICK w \in WalksOf(E, k) : w[0] \in RootsOf(E) /\ w[k] = m
  BY <1>1a
<1>2. /\ Further(w, k, n) \in WalksOf(E, k + 1)
      /\ Further(w, k, n)[k + 1] = n /\ Further(w, k, n)[0] = w[0]
  <2>1. n \in Nodes /\ 0 \in 0..k
    OBVIOUS
  <2> QED
    BY <1>1, <2>1, FurtherIs
<1>3. k + 1 \in Nat
  OBVIOUS
<1> QED
  BY <1>1, <1>2, <1>3, LedIs

\* A walk from what the roots lead to.
LEMMA LedWalk ==
    ASSUME NEW E \in SUBSET (Nodes \X Nodes), NEW k \in Nat, NEW w \in WalksOf(E, k), Led(E, w[0])
    PROVE  \E l \in Nat : \E v \in WalksOf(E, l) :
              /\ v[0] \in RootsOf(E) /\ v[l] = w[0]
              /\ <<l + k, Joined(v, l, w, k)>> \in RootWalks(E)
<1>1a. PICK l \in Nat : \E v \in WalksOf(E, l) : v[0] \in RootsOf(E) /\ v[l] = w[0]
  BY LedIs
<1>1. PICK v \in WalksOf(E, l) : v[0] \in RootsOf(E) /\ v[l] = w[0]
  BY <1>1a
<1>2. /\ Joined(v, l, w, k) \in WalksOf(E, l + k) /\ Joined(v, l, w, k)[0] = v[0]
  <2>1. 0 \in 0..l
    OBVIOUS
  <2> QED
    BY <1>1, <2>1, JoinedIs
<1>3. l + k \in Nat
  OBVIOUS
<1>4. <<l + k, Joined(v, l, w, k)>> \in RootWalks(E)
  BY <1>1, <1>2, <1>3, RootWalkIs
<1> QED
  BY <1>1, <1>4

\* It is a path, when all walks from roots are.
LEMMA LedIsSimple ==
    ASSUME NEW E \in SUBSET (Nodes \X Nodes), NEW k \in Nat, NEW w \in WalksOf(E, k), Led(E, w[0]),
           \A x \in RootWalks(E) : Simple(x[2], x[1])
    PROVE  Simple(w, k)
<1>1a. PICK l \in Nat : \E v \in WalksOf(E, l) : v[0] \in RootsOf(E) /\ v[l] = w[0] /\ <<l + k, Joined(v, l, w, k)>> \in RootWalks(E)
  BY LedWalk
<1>1. PICK v \in WalksOf(E, l) : v[0] \in RootsOf(E) /\ v[l] = w[0] /\ <<l + k, Joined(v, l, w, k)>> \in RootWalks(E)
  BY <1>1a
<1> DEFINE u == Joined(v, l, w, k)
<1>2. Simple(u, l + k)
  BY <1>1
<1>3. \A i \in 0..k : u[l + i] = w[i] /\ l + i \in 0..(l + k)
  BY <1>1, JoinedIs
<1> HIDE DEF u
<1>4. ASSUME NEW i \in 0..k, NEW j \in 0..k, w[i] = w[j] PROVE i = j
  <2>1. l + i = l + j
    BY <1>2, <1>3, <1>4 DEF Simple
  <2> QED
    BY <2>1
<1> QED
  BY <1>4 DEF Simple

\* Every node of a walk from a root is led to.
LEMMA OnRootWalk ==
    ASSUME NEW E, NEW k \in Nat, NEW w \in WalksOf(E, k), w[0] \in RootsOf(E), NEW i \in 0..k
    PROVE  Led(E, w[i])
<1>1. Begin(w, i) \in WalksOf(E, i) /\ Begin(w, i)[i] = w[i] /\ Begin(w, i)[0] = w[0]
  <2>1. i \in 0..i /\ 0 \in 0..i
    OBVIOUS
  <2> QED
    BY <2>1, BeginIs
<1>2. i \in Nat
  OBVIOUS
<1> QED
  BY <1>1, <1>2, LedIs

\* From what the roots lead to, the traversed edges have the same walks.
LEMMA TraversedWalks ==
    ASSUME NEW E \in SUBSET (Nodes \X Nodes), NEW k \in Nat, NEW w \in WalksOf(E, k), Led(E, w[0])
    PROVE  w \in WalksOf(Traversed(E), k)
<1> DEFINE S == {i \in 0..k : Led(E, w[i])}
<1>1. 0 \in S
  OBVIOUS
<1>2. \A i \in 0..(k - 1) : i \in S => i + 1 \in S
  <2> SUFFICES ASSUME NEW i \in 0..(k - 1), i \in S PROVE i + 1 \in S
    OBVIOUS
  <2>1. <<w[i], w[i + 1]>> \in E /\ i + 1 \in 0..k
    BY WalkIs
  <2> QED
    BY <2>1, LedFurther
<1>3. 0..k \subseteq S
  <2> HIDE DEF S
  <2> QED
    BY <1>1, <1>2, UpTo
<1>4. \A i \in 0..(k - 1) : <<w[i], w[i + 1]>> \in Traversed(E)
  <2> TAKE i \in 0..(k - 1)
  <2>1. <<w[i], w[i + 1]>> \in E /\ i \in 0..k
    BY WalkIs
  <2>2. Led(E, w[i]) /\ <<w[i], w[i + 1]>>[1] = w[i]
    BY <1>3, <2>1
  <2> QED
    BY <2>1, <2>2 DEF Traversed
<1> QED
  BY <1>4 DEF WalksOf

LEMMA TraversedRoots ==
    ASSUME NEW E \in SUBSET (Nodes \X Nodes)
    PROVE  /\ Traversed(E) \subseteq E /\ RootsOf(Traversed(E)) = RootsOf(E)
           /\ \A e \in Traversed(E) : Led(E, e[1]) /\ Led(E, e[2])
<1>1. Traversed(E) \in SUBSET (Nodes \X Nodes) /\ Traversed(E) \subseteq E
  BY DEF Traversed
<1>2. \A e \in Traversed(E) : Led(E, e[1]) /\ Led(E, e[2])
  <2> TAKE e \in Traversed(E)
  <2>1. e \in E /\ Led(E, e[1]) /\ e = <<e[1], e[2]>>
    BY DEF Traversed
  <2> QED
    BY <2>1, LedFurther
<1>3. ASSUME NEW r \in RootsOf(E) PROVE r \in RootsOf(Traversed(E))
  <2>1. r \in Nodes /\ (\E t \in Nodes : <<r, t>> \in E) /\ \A m \in Nodes : <<m, r>> \notin E
    BY RootsAre
  <2>2. PICK t \in Nodes : <<r, t>> \in E
    BY <2>1
  <2>3. <<r, t>> \in Traversed(E)
    BY <2>2, RootIsLed DEF Traversed
  <2> QED
    BY <1>1, <2>1, <2>3, RootsAre
<1>4. ASSUME NEW r \in RootsOf(Traversed(E)) PROVE r \in RootsOf(E)
  <2>1. r \in Nodes /\ (\E t \in Nodes : <<r, t>> \in Traversed(E))
        /\ \A m \in Nodes : <<m, r>> \notin Traversed(E)
    BY <1>1, RootsAre
  <2>2. PICK t \in Nodes : <<r, t>> \in Traversed(E)
    BY <2>1
  <2>3. Led(E, r) /\ <<r, t>> \in E
    BY <2>2 DEF Traversed
  <2>4a. PICK k \in Nat : \E w \in WalksOf(E, k) : w[0] \in RootsOf(E) /\ w[k] = r
    BY <2>3, LedIs
  <2>4. PICK w \in WalksOf(E, k) : w[0] \in RootsOf(E) /\ w[k] = r
    BY <2>4a
  <2>5. CASE k = 0
    BY <2>4, <2>5
  <2>6. CASE k # 0
    <3>1. k - 1 \in 0..(k - 1) /\ k - 1 \in 0..k /\ (k - 1) + 1 = k
      BY <2>6
    <3>2. <<w[k - 1], r>> \in E /\ w[k - 1] \in Nodes
      BY <2>4, <3>1, WalkIs
    <3>3. Led(E, w[k - 1])
      BY <2>4, <3>1, OnRootWalk
    <3>4. <<w[k - 1], r>> \in Traversed(E)
      BY <3>2, <3>3 DEF Traversed
    <3> QED
      BY <2>1, <3>2, <3>4
  <2> QED
    BY <2>5, <2>6
<1> QED
  BY <1>1, <1>2, <1>3, <1>4

LEMMA DescendsItself ==
    ASSUME NEW E \in SUBSET (Nodes \X Nodes) PROVE Descends(E, E)
  BY RootIsLed DEF Descends

LEMMA TraversedDescends ==
    ASSUME NEW M \in SUBSET (Nodes \X Nodes), NEW E, Descends(E, M)
    PROVE  Descends(Traversed(E), M)
<1>1. E \in SUBSET (Nodes \X Nodes)
  BY DEF Descends
<1> QED
  BY <1>1, TraversedRoots DEF Descends

\* Of edges that the roots all lead to, any may be deleted.
LEMMA RootedDescends ==
    ASSUME NEW M \in SUBSET (Nodes \X Nodes), Rooted(M), NEW E \in SUBSET M
    PROVE  Descends(E, M)
<1>1. Far \in Lengths /\ Far \in Nat
  BY DFSAssumption DEF Lengths
<1>2. ASSUME NEW r \in RootsOf(E) PROVE Led(M, r)
  <2>1. r \in Nodes
    BY RootsAre
  <2>2. PICK t \in Nodes : <<r, t>> \in E
    BY RootsAre
  <2>3. <<r, t>> \in M /\ <<r, t>>[1] = r
    BY <2>2
  <2>4. PICK q \in RootsOf(M) : r \in Reached(M, q, 0, Far)
    BY <2>3 DEF Rooted
  <2>5. q \in Nodes
    BY RootsAre
  <2>6. PICK k \in 0..Far : \E w \in WalksOf(M, k) : w[0] = q /\ w[k] = r
    BY <1>1, <2>1, <2>4, <2>5, ReachedIs
  <2>7. k \in Nat
    BY <1>1
  <2> QED
    BY <2>6, <2>7, LedIs
<1> QED
  BY <1>2 DEF Descends

\* A conversion keeps all edges that the roots lead to.
LEMMA RootedIsTraversed ==
    ASSUME NEW E \in SUBSET (Nodes \X Nodes), Rooted(E) PROVE Traversed(E) = E
<1>1. Far \in Lengths /\ Far \in Nat
  BY DFSAssumption DEF Lengths
<1>2. ASSUME NEW e \in E PROVE Led(E, e[1])
  <2>1. e[1] \in Nodes
    OBVIOUS
  <2>2. PICK q \in RootsOf(E) : e[1] \in Reached(E, q, 0, Far)
    BY DEF Rooted
  <2>3. q \in Nodes
    BY RootsAre
  <2>4. PICK k \in 0..Far : \E w \in WalksOf(E, k) : w[0] = q /\ w[k] = e[1]
    BY <1>1, <2>1, <2>2, <2>3, ReachedIs
  <2>5. k \in Nat
    BY <1>1
  <2> QED
    BY <2>2, <2>4, <2>5, LedIs
<1> QED
  BY <1>2 DEF Traversed

LEMMA Fewer ==
    ASSUME NEW S, NEW T, IsFiniteSet(T), NEW f \in [S -> T],
           \A x, y \in S : f[x] = f[y] => x = y
    PROVE  IsFiniteSet(S) /\ Cardinality(S) <= Cardinality(T)
           /\ Cardinality(S) \in Nat /\ Cardinality(T) \in Nat
<1>1. f \in Injection(S, T)
  BY DEF Injection, IsInjective
<1>2. IsFiniteSet(S) /\ Cardinality(S) <= Cardinality(T)
  BY <1>1, FS_Injection
<1> QED
  BY <1>2, FS_CardinalityType

\* Root walks of E begin where a root walk of M has led.
LEMMA BoundedDescends ==
    ASSUME NEW M \in SUBSET (Nodes \X Nodes), NEW E, Descends(E, M),
           NEW depth \in Nat, NEW count \in Nat, Bounded(M, depth, count)
    PROVE  Bounded(E, depth, count)
<1>1. E \in SUBSET (Nodes \X Nodes) /\ E \subseteq M /\ \A r \in RootsOf(E) : Led(M, r)
  BY DEF Descends
<1> DEFINE y(x) == CHOOSE y \in RootWalks(M) : y[2][y[1]] = x[2][0]
           J == [x \in RootWalks(E) |-> <<y(x)[1] + x[1], Joined(y(x)[2], y(x)[1], x[2], x[1])>>]
<1>2. ASSUME NEW x \in RootWalks(E)
      PROVE  /\ x = <<x[1], x[2]>> /\ x[1] \in Nat /\ x[2] \in WalksOf(E, x[1])
             /\ x[2][0] \in RootsOf(E)
             /\ y(x)[1] \in Nat /\ J[x] \in RootWalks(M)
             /\ J[x][1] = y(x)[1] + x[1]
             /\ \A i \in 0..x[1] : J[x][2][y(x)[1] + i] = x[2][i]
  <2>1. /\ x = <<x[1], x[2]>> /\ x[1] \in Nat /\ x[2] \in WalksOf(E, x[1])
        /\ x[2][0] \in RootsOf(E)
    BY RootWalkParts
  <2>2. Led(M, x[2][0])
    BY <1>1, <2>1
  <2>3. y(x) \in RootWalks(M) /\ y(x)[2][y(x)[1]] = x[2][0]
    BY <2>2 DEF Led
  <2> DEFINE l == y(x)[1]
             v == y(x)[2]
             k == x[1]
             w == x[2]
             u == Joined(v, l, w, k)
  <2>4. l \in Nat /\ v \in WalksOf(M, l) /\ v[0] \in RootsOf(M) /\ v[l] = w[0]
    <3> HIDE DEF y
    <3> QED
      BY <2>3, RootWalkParts
  <2>5. w \in WalksOf(M, k) /\ k \in Nat
    BY <1>1, <2>1, MoreEdges
  <2>6. J[x] = <<l + k, u>>
    OBVIOUS
  <2> HIDE DEF l, v, k, w
  <2>7. /\ u \in WalksOf(M, l + k)
        /\ \A i \in 0..l : u[i] = v[i]
        /\ \A i \in 0..k : u[l + i] = w[i]
    BY <2>4, <2>5, JoinedIs
  <2> HIDE DEF u, J, y
  <2>8. 0 \in 0..l /\ l + k \in Nat
    BY <2>4, <2>5
  <2>9. u[0] \in RootsOf(M)
    BY <2>4, <2>7, <2>8
  <2>10. J[x] \in RootWalks(M)
    BY <2>6, <2>7, <2>8, <2>9, RootWalkIs
  <2>11. J[x][1] = l + k /\ J[x][2] = u
    BY <2>6
  <2> QED
    BY <2>1, <2>4, <2>7, <2>10, <2>11 DEF l, k, w
<1>3. J \in [RootWalks(E) -> RootWalks(M)]
  <2> DEFINE j(x) == <<y(x)[1] + x[1], Joined(y(x)[2], y(x)[1], x[2], x[1])>>
  <2>1. ASSUME NEW x \in RootWalks(E) PROVE j(x) \in RootWalks(M)
    <3>1. J[x] = j(x)
      OBVIOUS
    <3> HIDE DEF J, j
    <3> QED
      BY <1>2, <3>1
  <2>2. J = [x \in RootWalks(E) |-> j(x)]
    OBVIOUS
  <2> HIDE DEF J, j
  <2> QED
    BY <2>1, <2>2
<1> DEFINE at(x) == y(x)[1]
<1> HIDE DEF J
<1>4. ASSUME NEW x \in RootWalks(E), NEW z \in RootWalks(E), J[x] = J[z], at(x) < at(z) PROVE FALSE
  <2> HIDE DEF y
  <2>1. /\ at(x) \in Nat /\ at(z) \in Nat /\ x[1] \in Nat /\ z[1] \in Nat
        /\ x[2] \in WalksOf(E, x[1]) /\ z[2][0] \in RootsOf(E)
        /\ at(x) + x[1] = at(z) + z[1]
    BY <1>2, <1>4
  <2> DEFINE i == (at(z) - at(x)) - 1
  <2> HIDE DEF at
  <2>2. /\ i \in 0..(x[1] - 1) /\ i + 1 \in 0..x[1] /\ at(x) + (i + 1) = at(z) + 0 /\ 0 \in 0..z[1]
    BY <1>4, <2>1
  <2>3. <<x[2][i], x[2][i + 1]>> \in E
    BY <2>1, <2>2, WalkIs
  <2>4. x[2][i + 1] = J[x][2][at(x) + (i + 1)] /\ z[2][0] = J[z][2][at(z) + 0]
    BY <1>2, <2>2 DEF at
  <2>5. x[2][i + 1] = z[2][0] /\ x[2][i] \in Nodes
    BY <1>1, <1>4, <2>2, <2>3, <2>4
  <2> QED
    BY <1>1, <2>1, <2>3, <2>5, RootsAre
<1>5. ASSUME NEW x \in RootWalks(E), NEW z \in RootWalks(E), J[x] = J[z] PROVE x = z
  <2> HIDE DEF y
  <2>1. /\ at(x) \in Nat /\ at(z) \in Nat /\ x[1] \in Nat /\ z[1] \in Nat
        /\ x[2] \in WalksOf(E, x[1]) /\ z[2] \in WalksOf(E, z[1])
        /\ at(x) + x[1] = at(z) + z[1]
        /\ x = <<x[1], x[2]>> /\ z = <<z[1], z[2]>>
    BY <1>2, <1>5
  <2>2. at(x) = at(z)
    <3>1. ~(at(x) < at(z)) /\ ~(at(z) < at(x))
      BY <1>4, <1>5
    <3> HIDE DEF at
    <3> QED
      BY <2>1, <3>1
  <2>3. x[1] = z[1]
    <3> HIDE DEF at
    <3> QED
      BY <2>1, <2>2
  <2>4. \A i \in 0..x[1] : x[2][i] = z[2][i]
    BY <1>2, <1>5, <2>2, <2>3
  <2>5. x[2] \in [0..x[1] -> Nodes] /\ z[2] \in [0..x[1] -> Nodes]
    BY <2>1, <2>3 DEF WalksOf
  <2>6. x[2] = z[2]
    <3> DEFINE a == x[2]
               b == z[2]
               k == x[1]
    <3>1. a \in [0..k -> Nodes] /\ b \in [0..k -> Nodes] /\ (\A i \in 0..k : a[i] = b[i])
          /\ k \in Nat
      BY <2>1, <2>4, <2>5
    <3> HIDE DEF a, b, k
    <3>2. a = b
      BY <3>1
    <3> QED
      BY <3>2 DEF a, b
  <2> QED
    BY <2>1, <2>3, <2>6
<1>6. /\ IsFiniteSet(RootWalks(E)) /\ Cardinality(RootWalks(E)) <= Cardinality(RootWalks(M))
      /\ Cardinality(RootWalks(E)) \in Nat /\ Cardinality(RootWalks(M)) \in Nat
      /\ Cardinality(RootWalks(M)) <= count
  <2>1. IsFiniteSet(RootWalks(M)) /\ Cardinality(RootWalks(M)) <= count
    BY DEF Bounded
  <2> HIDE DEF J
  <2> QED
    BY <1>3, <1>5, <2>1, Fewer
<1>7. Cardinality(RootWalks(E)) <= count
  BY <1>6
<1>8. ASSUME NEW x \in RootWalks(E) PROVE Simple(x[2], x[1]) /\ x[1] <= depth
  <2> HIDE DEF y, J
  <2> DEFINE l == y(x)[1]
             k == x[1]
  <2>1. l \in Nat /\ k \in Nat /\ J[x] \in RootWalks(M) /\ J[x][1] = l + k
        /\ \A i \in 0..k : J[x][2][l + i] = x[2][i]
    BY <1>2
  <2> HIDE DEF l
  <2>2. Simple(J[x][2], l + k) /\ l + k <= depth
    BY <2>1 DEF Bounded
  <2>3. k <= depth
    BY <2>1, <2>2
  <2>4. ASSUME NEW i \in 0..k, NEW j \in 0..k, x[2][i] = x[2][j] PROVE i = j
    <3>1. l + i \in 0..(l + k) /\ l + j \in 0..(l + k)
      BY <2>1
    <3>2. J[x][2][l + i] = J[x][2][l + j]
      BY <2>1, <2>4
    <3>3. l + i = l + j
      BY <2>2, <3>1, <3>2 DEF Simple
    <3> QED
      BY <2>1, <3>3
  <2> QED
    BY <2>3, <2>4 DEF Simple
<1> QED
  BY <1>6, <1>7, <1>8 DEF Bounded

StatisticsOK ==
    /\ stat.cyclic \in BOOLEAN /\ stat.rootedTree \in BOOLEAN
    /\ stat.nodes \in Nat /\ stat.maxFanOut \in Nat /\ stat.maxDepth \in Nat /\ stat.visits \in Nat

LEMMA MeasuredDescends ==
    ASSUME NEW M \in SUBSET (Nodes \X Nodes), NEW E, Descends(E, M), StatisticsOK, Measured(M)
    PROVE  Measured(E)
<1>1. E \subseteq M
  BY DEF Descends
<1>2. stat.rootedTree => OneParent(E)
  BY <1>1 DEF Measured, OneParent
<1>3. ASSUME NEW n \in Nodes PROVE Cardinality(Targets(E, n)) <= stat.maxFanOut
  <2>1. Targets(E, n) \in SUBSET Targets(M, n)
    BY <1>1 DEF Targets
  <2>2. IsFiniteSet(Targets(M, n)) /\ IsFiniteSet(Targets(E, n))
    BY TargetsFinite
  <2>3. Cardinality(Targets(E, n)) <= Cardinality(Targets(M, n))
    BY <2>1, <2>2, FS_Subset
  <2>4. Cardinality(Targets(E, n)) \in Nat /\ Cardinality(Targets(M, n)) \in Nat
    BY <2>2, FS_CardinalityType
  <2>5. Cardinality(Targets(M, n)) <= stat.maxFanOut
    BY DEF Measured
  <2> QED
    BY <2>3, <2>4, <2>5 DEF StatisticsOK
<1>4. Cardinality(EndsOf(E)) <= stat.nodes
  <2>1. EndsOf(E) \in SUBSET EndsOf(M)
    BY <1>1 DEF EndsOf
  <2>2. EndsOf(M) \in SUBSET Nodes
    BY DEF EndsOf
  <2>3. IsFiniteSet(EndsOf(M)) /\ IsFiniteSet(EndsOf(E))
    BY <2>1, <2>2, FS_Subset, StoragesAssumption
  <2>4. Cardinality(EndsOf(E)) <= Cardinality(EndsOf(M))
    BY <2>1, <2>3, FS_Subset
  <2>5. Cardinality(EndsOf(E)) \in Nat /\ Cardinality(EndsOf(M)) \in Nat
    BY <2>3, FS_CardinalityType
  <2>6. Cardinality(EndsOf(M)) <= stat.nodes
    BY DEF Measured
  <2> QED
    BY <2>4, <2>5, <2>6 DEF StatisticsOK
<1>5. ~stat.cyclic => Bounded(E, stat.maxDepth, stat.visits)
  BY BoundedDescends DEF Measured, StatisticsOK
<1> QED
  BY <1>2, <1>3, <1>4, <1>5 DEF Measured

\* With one parent each, a node is the end of one root walk.
LEMMA OneRootWalk ==
    ASSUME NEW E \in SUBSET (Nodes \X Nodes), OneParent(E),
           NEW k \in Nat, NEW w \in WalksOf(E, k), w[0] \in RootsOf(E),
           NEW l \in Nat, NEW v \in WalksOf(E, l), v[0] \in RootsOf(E), w[k] = v[l]
    PROVE  k = l /\ w = v
<1> DEFINE S == {i \in 0..k : i <= l /\ w[k - i] = v[l - i]}
<1>1. 0 \in S
  OBVIOUS
<1>2. ASSUME NEW i \in 0..(k - 1), i \in S PROVE i + 1 \in S
  <2>1. i \in Nat /\ i <= l /\ w[k - i] = v[l - i] /\ i + 1 \in 0..k
    BY <1>2
  <2> DEFINE a == (k - i) - 1
             b == (l - i) - 1
  <2>2. a \in 0..(k - 1) /\ a + 1 = k - i /\ a = k - (i + 1)
    BY <1>2, <2>1
  <2>3. <<w[a], w[a + 1]>> \in E /\ w[a] \in Nodes
    <3>1. a \in 0..k
      BY <2>2
    <3> HIDE DEF a
    <3> QED
      BY <2>2, <3>1, WalkIs
  <2>4. i # l
    <3> SUFFICES ASSUME i = l PROVE FALSE
      OBVIOUS
    <3>1. l - i = 0
      BY <2>1
    <3>2. <<w[a], v[0]>> \in E
      BY <2>1, <2>2, <2>3, <3>1
    <3> QED
      BY <2>3, <3>2, RootsAre
  <2>5. b \in 0..(l - 1) /\ b + 1 = l - i /\ b = l - (i + 1) /\ i + 1 <= l
    BY <2>1, <2>4
  <2>6. <<v[b], v[b + 1]>> \in E
    <3> HIDE DEF b
    <3> QED
      BY <2>5, WalkIs
  <2> HIDE DEF a, b
  <2>7. w[a + 1] = v[b + 1]
    BY <2>1, <2>2, <2>5
  <2>8. <<w[a], w[a + 1]>> = <<v[b], v[b + 1]>>
    BY <2>3, <2>6, <2>7 DEF OneParent
  <2>9. w[a] = v[b]
    BY <2>8
  <2> QED
    BY <2>1, <2>2, <2>5, <2>9
<1>3. 0..k \subseteq S
  <2> HIDE DEF S
  <2> QED
    BY <1>1, <1>2, UpTo
<1>4. k \in S
  <2> HIDE DEF S
  <2>1. k \in 0..k
    OBVIOUS
  <2> QED
    BY <1>3, <2>1
<1>5. k <= l /\ w[0] = v[l - k]
  <2>1. k - k = 0
    OBVIOUS
  <2> QED
    BY <1>4, <2>1
<1>6. k = l
  <2> SUFFICES ASSUME k < l PROVE FALSE
    BY <1>5
  <2> DEFINE b == (l - k) - 1
  <2>1. b \in 0..(l - 1) /\ b + 1 = l - k /\ b \in 0..l
    BY <1>5
  <2> HIDE DEF b
  <2>2. <<v[b], v[b + 1]>> \in E /\ v[b] \in Nodes
    BY <2>1, WalkIs
  <2> QED
    BY <1>5, <2>1, <2>2, RootsAre
<1>7. \A i \in 0..k : w[i] = v[i]
  <2> TAKE i \in 0..k
  <2>1. k - i \in 0..k
    OBVIOUS
  <2>2. k - i \in S
    <3> HIDE DEF S
    <3> QED
      BY <1>3, <2>1
  <2>3. k - (k - i) = i /\ l - (k - i) = i
    BY <1>6
  <2> QED
    BY <2>2, <2>3
<1>8. w \in [0..k -> Nodes] /\ v \in [0..k -> Nodes]
  BY <1>6 DEF WalksOf
<1> QED
  BY <1>6, <1>7, <1>8

LEMMA TreeCount ==
    ASSUME NEW E \in SUBSET (Nodes \X Nodes), OneParent(E)
    PROVE  /\ IsFiniteSet(RootWalks(E)) /\ Cardinality(RootWalks(E)) \in Nat
           /\ Cardinality(RootWalks(E)) <= Cardinality(EndsOf(E))
           /\ Cardinality(EndsOf(E)) \in Nat
<1> DEFINE f == [x \in RootWalks(E) |-> x[2][x[1]]]
<1>1. ASSUME NEW x \in RootWalks(E)
      PROVE  /\ x = <<x[1], x[2]>> /\ x[1] \in Nat /\ x[2] \in WalksOf(E, x[1])
             /\ x[2][0] \in RootsOf(E) /\ f[x] = x[2][x[1]]
  BY RootWalkParts
<1>2. ASSUME NEW x \in RootWalks(E) PROVE f[x] \in EndsOf(E)
  <2>1. CASE x[1] = 0
    <3>1. x[2][0] \in Sources(E)
      BY <1>1 DEF RootsOf
    <3> QED
      BY <1>1, <2>1, <3>1 DEF Sources, EndsOf
  <2>2. CASE x[1] # 0
    <3> DEFINE i == x[1] - 1
    <3>1. i \in 0..(x[1] - 1) /\ i + 1 = x[1]
      BY <1>1, <2>2
    <3> HIDE DEF i
    <3>2. <<x[2][i], x[2][i + 1]>> \in E
      BY <1>1, <3>1, WalkIs
    <3>3. <<x[2][i], x[2][i + 1]>>[2] = f[x]
      BY <1>1, <3>1
    <3> QED
      BY <3>2, <3>3 DEF EndsOf
  <2> QED
    BY <2>1, <2>2
<1> HIDE DEF f
<1>3. ASSUME NEW x \in RootWalks(E), NEW z \in RootWalks(E), f[x] = f[z] PROVE x = z
  <2>1. x[1] = z[1] /\ x[2] = z[2]
    BY <1>1, <1>3, OneRootWalk
  <2> QED
    BY <1>1, <2>1
<1>4. f \in [RootWalks(E) -> EndsOf(E)]
  BY <1>2 DEF f
<1>5. IsFiniteSet(EndsOf(E))
  <2>1. EndsOf(E) \in SUBSET Nodes
    BY DEF EndsOf
  <2> QED
    BY <2>1, FS_Subset, StoragesAssumption
<1> QED
  BY <1>3, <1>4, <1>5, Fewer

----------------------------------------------------------------------------
(* A linear storage of the edges T.                                         *)

ChainOK(s, T, r) ==
    LET c == s.nodeChains[r] IN
        /\ c \in Seq(Nodes) /\ Len(c) - 1 <= s.impl.pos /\ Len(c) <= Far
        /\ \A i \in 1..Len(c) : /\ c[i] \in DOMAIN s.node2pos
                                /\ s.node2pos[c[i]] = [root |-> r, pos |-> i - 1]
        /\ \A i \in 1..(Len(c) - 1) : <<c[i], c[i + 1]>> \in T

PositionOK(s, n) ==
    LET p == s.node2pos[n] IN
        /\ p.root \in DOMAIN s.nodeChains
        /\ p.pos \in 0..(Len(s.nodeChains[p.root]) - 1)
        /\ s.nodeChains[p.root][p.pos + 1] = n

LinearOK(s, T) ==
    /\ s.impl.kind = "linear" /\ s.impl.pos \in Nat
    /\ \A r \in DOMAIN s.nodeChains : ChainOK(s, T, r)
    /\ \A n \in DOMAIN s.node2pos : PositionOK(s, n)
    /\ \A e \in T : /\ e[1] \in DOMAIN s.node2pos /\ e[2] \in DOMAIN s.node2pos
                    /\ s.node2pos[e[2]] = [root |-> s.node2pos[e[1]].root,
                                           pos  |-> s.node2pos[e[1]].pos + 1]

\* n is k positions after m.
After(s, m, n, k) ==
    /\ m \in DOMAIN s.node2pos /\ n \in DOMAIN s.node2pos
    /\ s.node2pos[n].root = s.node2pos[m].root
    /\ s.node2pos[n].pos = s.node2pos[m].pos + k

LEMMA WalkAlong ==
    ASSUME NEW s, NEW T \in SUBSET (Nodes \X Nodes), LinearOK(s, T),
           NEW k \in Nat, NEW w \in WalksOf(T, k), w[0] \in DOMAIN s.node2pos
    PROVE  \A i \in 0..k : After(s, w[0], w[i], i)
<1> DEFINE S == {i \in 0..k : After(s, w[0], w[i], i)}
<1>1. s.node2pos[w[0]].pos \in Nat
  <2>1. PositionOK(s, w[0])
    BY DEF LinearOK
  <2> QED
    BY <2>1 DEF PositionOK
<1>2. 0 \in S
  BY <1>1 DEF After
<1>3. \A i \in 0..(k - 1) : i \in S => i + 1 \in S
  <2> SUFFICES ASSUME NEW i \in 0..(k - 1), i \in S PROVE i + 1 \in S
    OBVIOUS
  <2>1. <<w[i], w[i + 1]>> \in T /\ i + 1 \in 0..k
    BY WalkIs
  <2>2. /\ w[i + 1] \in DOMAIN s.node2pos
        /\ s.node2pos[w[i + 1]] = [root |-> s.node2pos[w[i]].root, pos |-> s.node2pos[w[i]].pos + 1]
    BY <2>1 DEF LinearOK
  <2>3. s.node2pos[w[i + 1]].root = s.node2pos[w[i]].root
        /\ s.node2pos[w[i + 1]].pos = s.node2pos[w[i]].pos + 1
    BY <2>2
  <2>4. After(s, w[0], w[i], i)
    OBVIOUS
  <2>5. After(s, w[0], w[i + 1], i + 1)
    BY <1>1, <2>2, <2>3, <2>4 DEF After
  <2> QED
    BY <2>1, <2>5
<1>4. 0..k \subseteq S
  <2> HIDE DEF S
  <2> QED
    BY <1>2, <1>3, UpTo
<1> QED
  BY <1>4

LEMMA AlongIsWalk ==
    ASSUME NEW s, NEW T \in SUBSET (Nodes \X Nodes), LinearOK(s, T),
           NEW m, NEW n, NEW k \in Nat, After(s, m, n, k)
    PROVE  /\ m \in Nodes /\ n \in Nodes /\ k < Far
           /\ \E w \in WalksOf(T, k) : w[0] = m /\ w[k] = n /\ Simple(w, k)
<1> DEFINE a == s.node2pos[m].pos
           r == s.node2pos[m].root
           c == s.nodeChains[r]
           w == [i \in 0..k |-> c[a + 1 + i]]
<1>1. /\ r \in DOMAIN s.nodeChains /\ a \in Nat /\ a + k \in 0..(Len(c) - 1)
      /\ c[a + 1] = m /\ c[(a + k) + 1] = n
  <2>1. PositionOK(s, m) /\ PositionOK(s, n)
    BY DEF LinearOK, After
  <2> QED
    BY <2>1 DEF PositionOK, After
<1>2. /\ c \in Seq(Nodes) /\ Len(c) <= Far /\ Len(c) \in Nat
      /\ \A i \in 1..Len(c) : s.node2pos[c[i]].pos = i - 1
      /\ \A i \in 1..(Len(c) - 1) : <<c[i], c[i + 1]>> \in T
      /\ \A i \in 1..Len(c) : c[i] \in Nodes
  <2>1. ChainOK(s, T, r)
    BY <1>1 DEF LinearOK
  <2>2. c \in Seq(Nodes)
    BY <2>1 DEF ChainOK
  <2>3. Len(c) \in Nat /\ \A i \in 1..Len(c) : c[i] \in Nodes
    BY <2>2, LenProperties, ElementOfSeq
  <2>4. \A i \in 1..Len(c) : s.node2pos[c[i]] = [root |-> r, pos |-> i - 1]
    BY <2>1 DEF ChainOK
  <2>5. ASSUME NEW i \in 1..Len(c) PROVE s.node2pos[c[i]].pos = i - 1
    <3>1. s.node2pos[c[i]] = [root |-> r, pos |-> i - 1]
      BY <2>4
    <3> QED
      BY <3>1
  <2> QED
    BY <2>1, <2>2, <2>3, <2>5 DEF ChainOK
<1> HIDE DEF a, r, c
<1>3. \A i \in 0..k : a + 1 + i \in 1..Len(c) /\ w[i] = c[a + 1 + i]
  BY <1>1, <1>2
<1>4. w \in [0..k -> Nodes]
  BY <1>2, <1>3
<1>5. \A i \in 0..(k - 1) : <<w[i], w[i + 1]>> \in T
  <2> TAKE i \in 0..(k - 1)
  <2>1. i \in 0..k /\ i + 1 \in 0..k /\ a + 1 + i \in 1..(Len(c) - 1) /\ a + 1 + (i + 1) = (a + 1 + i) + 1
    BY <1>1, <1>2
  <2> HIDE DEF w
  <2> QED
    BY <1>2, <1>3, <2>1
<1>6. w[0] = m /\ w[k] = n
  <2>1. a + 1 + 0 = a + 1 /\ a + 1 + k = (a + k) + 1 /\ 0 \in 0..k /\ k \in 0..k
    BY <1>1
  <2> HIDE DEF w
  <2> QED
    BY <1>1, <1>3, <2>1
<1>7. Simple(w, k)
  <2> HIDE DEF w
  <2> SUFFICES ASSUME NEW i \in 0..k, NEW j \in 0..k, w[i] = w[j] PROVE i = j
    BY DEF Simple
  <2>1. (a + 1 + i) - 1 = (a + 1 + j) - 1
    BY <1>2, <1>3
  <2> QED
    BY <1>1, <2>1
<1>8. w \in WalksOf(T, k)
  BY <1>4, <1>5 DEF WalksOf
<1>9. k < Far
  BY <1>1, <1>2, DFSAssumption
<1>10. m \in Nodes /\ n \in Nodes
  BY <1>6, <1>8, WalkIs
<1> QED
  BY <1>6, <1>7, <1>8, <1>9, <1>10

\* Walks are what the positions say.
LEMMA LinearWalks ==
    ASSUME NEW s, NEW T \in SUBSET (Nodes \X Nodes), LinearOK(s, T),
           NEW m \in Nodes, NEW n \in Nodes, NEW k \in Nat, k # 0 \/ m \in DOMAIN s.node2pos
    PROVE  /\ (\E w \in WalksOf(T, k) : w[0] = m /\ w[k] = n) <=> After(s, m, n, k)
           /\ (\E w \in WalksOf(T, k) : Simple(w, k) /\ w[0] = m /\ w[k] = n) <=> After(s, m, n, k)
<1>1. ASSUME NEW w \in WalksOf(T, k), w[0] = m, w[k] = n PROVE After(s, m, n, k)
  <2>1. m \in DOMAIN s.node2pos
    <3>1. CASE k # 0
      <4>1. 0 \in 0..(k - 1)
        BY <3>1
      <4>2. <<w[0], w[0 + 1]>> \in T
        BY <4>1, WalkIs
      <4>3. <<w[0], w[0 + 1]>>[1] = m
        BY <1>1
      <4> QED
        BY <4>2, <4>3 DEF LinearOK
    <3> QED
      BY <3>1
  <2>2. k \in 0..k
    OBVIOUS
  <2> QED
    BY <1>1, <2>1, <2>2, WalkAlong
<1> QED
  BY <1>1, AlongIsWalk

LEMMA LinearDistances ==
    ASSUME NEW s, NEW T \in SUBSET (Nodes \X Nodes), LinearOK(s, T),
           NEW m \in Nodes, NEW n \in Nodes, NEW k \in Nat, k # 0 \/ m \in DOMAIN s.node2pos
    PROVE  k \in Distances(T, m, n) <=> After(s, m, n, k)
  BY LinearWalks, DistancesIs

LEMMA LinearConnectedAgrees ==
    ASSUME NEW s, NEW T \in SUBSET (Nodes \X Nodes), LinearOK(s, T),
           NEW m \in Nodes, NEW n \in Nodes, NEW min \in Nat \ {0}, NEW max \in Nat
    PROVE  LinearConnected(s, m, n, min, max) <=> \E k \in Distances(T, m, n) : k \in min..max
<1>1. \A x \in DOMAIN s.node2pos : s.node2pos[x].pos \in Nat
  BY DEF LinearOK, PositionOK
<1>2. ASSUME LinearConnected(s, m, n, min, max) PROVE \E k \in Distances(T, m, n) : k \in min..max
  <2> DEFINE k == s.node2pos[n].pos - s.node2pos[m].pos
  <2>1. /\ m \in DOMAIN s.node2pos /\ n \in DOMAIN s.node2pos
        /\ s.node2pos[m].root = s.node2pos[n].root /\ k \in min..max
    BY <1>2 DEF LinearConnected, Positioned
  <2>2. k \in Nat /\ s.node2pos[n].pos = s.node2pos[m].pos + k
    BY <1>1, <2>1
  <2>3. After(s, m, n, k)
    BY <2>1, <2>2 DEF After
  <2> HIDE DEF k
  <2> QED
    BY <2>1, <2>2, <2>3, LinearDistances
<1>3. ASSUME NEW k \in Distances(T, m, n), k \in min..max PROVE LinearConnected(s, m, n, min, max)
  <2>1. k \in Nat /\ k # 0
    BY <1>3
  <2>2. After(s, m, n, k)
    BY <2>1, LinearDistances
  <2> QED
    BY <1>1, <1>3, <2>1, <2>2 DEF After, LinearConnected, Positioned
<1> QED
  BY <1>2, <1>3

LEMMA LinearDistanceAgrees ==
    ASSUME NEW s, NEW T \in SUBSET (Nodes \X Nodes), LinearOK(s, T),
           NEW m \in Nodes, NEW n \in Nodes, m # n \/ HasEdges(T, m)
    PROVE  IF LinearDistance(s, m, n) = -1 THEN Distances(T, m, n) = {}
           ELSE LinearDistance(s, m, n) \in Distances(T, m, n)
<1>1. \A x \in DOMAIN s.node2pos : s.node2pos[x].pos \in Nat
  BY DEF LinearOK, PositionOK
<1> DEFINE k == s.node2pos[n].pos - s.node2pos[m].pos
<1>2. CASE LinearConnected(s, m, n, 0, Far)
  <2>1. /\ m \in DOMAIN s.node2pos /\ n \in DOMAIN s.node2pos
        /\ s.node2pos[m].root = s.node2pos[n].root /\ k \in 0..Far
    BY <1>2 DEF LinearConnected, Positioned
  <2>2. k \in Nat /\ s.node2pos[n].pos = s.node2pos[m].pos + k /\ k # -1
    BY <1>1, <2>1
  <2>3. After(s, m, n, k)
    BY <2>1, <2>2 DEF After
  <2>4. LinearDistance(s, m, n) = k
    BY <1>2 DEF LinearDistance
  <2> HIDE DEF k
  <2>5. k \in Distances(T, m, n)
    BY <2>1, <2>2, <2>3, LinearDistances
  <2> QED
    BY <2>2, <2>4, <2>5
<1>3. CASE ~LinearConnected(s, m, n, 0, Far)
  <2>1. LinearDistance(s, m, n) = -1
    BY <1>3 DEF LinearDistance
  <2>2. ASSUME NEW l \in Distances(T, m, n) PROVE FALSE
    <3>1. l \in Nat
      BY DistancesIs
    <3>2. l # 0 \/ m \in DOMAIN s.node2pos
      <4>1. CASE m = n
        <5>1. PICK e \in T : m \in {e[1], e[2]}
          BY <4>1 DEF HasEdges
        <5> QED
          BY <5>1 DEF LinearOK
      <4>2. CASE m # n
        <5>1. PICK w \in WalksOf(T, l) : w[0] = m /\ w[l] = n
          BY DistancesIs
        <5> QED
          BY <4>2, <5>1
      <4> QED
        BY <4>1, <4>2
    <3>3. After(s, m, n, l)
      BY <3>1, <3>2, LinearDistances
    <3>4. l < Far
      BY <3>1, <3>3, AlongIsWalk
    <3>5. s.node2pos[n].pos - s.node2pos[m].pos = l
      BY <1>1, <3>1, <3>3 DEF After
    <3>6. s.node2pos[m].pos <= s.node2pos[n].pos
      BY <1>1, <3>1, <3>3 DEF After
    <3> QED
      BY <1>3, <3>1, <3>3, <3>4, <3>5, <3>6, DFSAssumption DEF After, LinearConnected, Positioned
  <2> QED
    BY <2>1, <2>2
<1> QED
  BY <1>2, <1>3

LEMMA LinearFindAgrees ==
    ASSUME NEW s, NEW T \in SUBSET (Nodes \X Nodes), LinearOK(s, T),
           NEW m \in Nodes, NEW min \in Nat \ {0}, NEW max \in 0..Far
    PROVE  /\ Range(LinearFind(s, m, min, max)) = Reached(T, m, min, max)
           /\ IsInjective(LinearFind(s, m, min, max)) /\ LinearFind(s, m, min, max) \in Seq(Nodes)
<1>1. max \in Lengths /\ max \in Nat /\ Far \in Nat
  BY DFSAssumption DEF Lengths
<1>2. \A n \in Nodes : n \in Reached(T, m, min, max) <=> \E k \in min..max : After(s, m, n, k)
  <2> TAKE n \in Nodes
  <2>1. \A k \in min..max : k \in Nat /\ k # 0
    OBVIOUS
  <2>2. \A k \in min..max : (\E w \in WalksOf(T, k) : w[0] = m /\ w[k] = n) <=> After(s, m, n, k)
    BY <2>1, LinearWalks
  <2> QED
    BY <1>1, <2>2, ReachedIs
<1>3. Reached(T, m, min, max) \subseteq Nodes
  BY DEF Reached
<1>4. CASE ~Positioned(s, m)
  <2>1. LinearFind(s, m, min, max) = <<>>
    BY <1>4 DEF LinearFind
  <2>2. Reached(T, m, min, max) = {}
    BY <1>2, <1>3, <1>4 DEF After, Positioned
  <2> QED
    BY <2>1, <2>2 DEF Range, IsInjective
<1>5. CASE Positioned(s, m)
  <2> DEFINE a == s.node2pos[m].pos
             r == s.node2pos[m].root
             c == s.nodeChains[r]
             end == IF max = Far THEN s.impl.pos ELSE a + max
             lo == a + min + 1
             hi == IF end < Len(c) THEN end + 1 ELSE Len(c)
             f == SubSeq(c, lo, hi)
  <2>1. LinearFind(s, m, min, max) = f
    BY <1>5 DEF LinearFind
  <2>2. m \in DOMAIN s.node2pos /\ PositionOK(s, m)
    BY <1>5 DEF Positioned, LinearOK
  <2>3. r \in DOMAIN s.nodeChains /\ ChainOK(s, T, r) /\ a \in 0..(Len(c) - 1)
    BY <2>2 DEF LinearOK, PositionOK
  <2>4. /\ c \in Seq(Nodes) /\ Len(c) - 1 <= s.impl.pos /\ Len(c) <= Far
        /\ \A i \in 1..Len(c) : c[i] \in DOMAIN s.node2pos /\ s.node2pos[c[i]] = [root |-> r, pos |-> i - 1]
    BY <2>3 DEF ChainOK
  <2>5. Len(c) \in Nat /\ a \in Nat /\ s.impl.pos \in Nat
    <3>1. s.impl.pos \in Nat
      BY DEF LinearOK
    <3>2. Len(c) \in Nat
      BY <2>4, LenProperties
    <3> HIDE DEF a, r, c
    <3> QED
      BY <2>3, <3>1, <3>2
  <2>6. \A i \in 1..Len(c) : /\ s.node2pos[c[i]].pos = i - 1 /\ s.node2pos[c[i]].root = r
                              /\ c[i] \in Nodes
    <3> TAKE i \in 1..Len(c)
    <3>1. s.node2pos[c[i]] = [root |-> r, pos |-> i - 1]
      BY <2>4
    <3> HIDE DEF a, r, c
    <3> QED
      BY <2>4, <3>1, ElementOfSeq
  <2>7. \A n \in DOMAIN s.node2pos : s.node2pos[n].root = r =>
           /\ s.node2pos[n].pos \in 0..(Len(c) - 1) /\ c[s.node2pos[n].pos + 1] = n
    BY DEF LinearOK, PositionOK
  <2> HIDE DEF a, r, c
  <2>8. \A i \in Nat : i \in lo..hi <=> /\ i \in 1..Len(c) /\ i >= a + min + 1
                                           /\ (max = Far \/ i <= a + max + 1)
    <3> TAKE i \in Nat
    <3>1. CASE max = Far
      BY <1>1, <2>4, <2>5, <3>1
    <3>2. CASE max # Far
      BY <1>1, <2>4, <2>5, <3>2
    <3> QED
      BY <3>1, <3>2
  <2>9. lo \in Nat \ {0} /\ hi \in Nat /\ hi <= Len(c)
    <3>1. end \in Nat /\ lo \in Nat \ {0}
      BY <1>1, <2>5
    <3> HIDE DEF end, lo
    <3>2. hi \in Nat
      BY <2>5, <3>1
    <3>3. hi <= Len(c)
      BY <2>5, <3>1
    <3> QED
      BY <3>1, <3>2, <3>3
  <2> HIDE DEF lo, hi
  <2>10. \A n \in Nodes : n \in Reached(T, m, min, max) <=> \E i \in lo..hi : c[i] = n
    <3> TAKE n \in Nodes
    <3>1. ASSUME NEW k \in min..max, After(s, m, n, k) PROVE \E i \in lo..hi : c[i] = n
      <4>1. n \in DOMAIN s.node2pos /\ s.node2pos[n].root = r /\ s.node2pos[n].pos = a + k
        BY <3>1 DEF After, a, r
      <4>2. a + k \in 0..(Len(c) - 1) /\ c[(a + k) + 1] = n
        BY <2>7, <4>1
      <4>3. (a + k) + 1 \in lo..hi
        BY <1>1, <2>5, <2>8, <4>2
      <4> QED
        BY <4>2, <4>3
    <3>2. ASSUME NEW i \in lo..hi, c[i] = n PROVE \E k \in min..max : After(s, m, n, k)
      <4>1. i \in 1..Len(c) /\ i >= a + min + 1 /\ (max = Far \/ i <= a + max + 1)
        BY <2>8, <2>9
      <4>2. (i - 1) - a \in min..max /\ i - 1 = a + ((i - 1) - a)
        BY <1>1, <2>4, <2>5, <4>1
      <4>3. n \in DOMAIN s.node2pos /\ s.node2pos[n].root = r /\ s.node2pos[n].pos = i - 1
        BY <2>4, <2>6, <3>2, <4>1
      <4>4. After(s, m, n, (i - 1) - a)
        BY <2>2, <4>2, <4>3 DEF After, a, r
      <4> QED
        BY <4>2, <4>4
    <3> QED
      BY <1>2, <3>1, <3>2
  <2>11. CASE lo > hi
    <3>1. f = <<>>
      BY <2>9, <2>11, SubSeqEmpty
    <3>2. Reached(T, m, min, max) = {}
      BY <1>3, <2>9, <2>10, <2>11
    <3> QED
      BY <2>1, <3>1, <3>2 DEF Range, IsInjective
  <2>12. CASE lo <= hi
    <3>1. /\ f \in Seq(Nodes) /\ Len(f) = (hi - lo) + 1
          /\ \A j \in 1..((hi - lo) + 1) : f[j] = c[lo + j - 1]
      <4>1. lo \in 1..(Len(c) + 1) /\ hi \in (lo - 1)..Len(c)
        BY <2>5, <2>9, <2>12
      <4> QED
        BY <2>4, <2>9, <2>12, <4>1, SubSeqProperties
    <3> HIDE DEF f
    <3>2. DOMAIN f = 1..((hi - lo) + 1)
      BY <3>1, LenProperties
    <3>3. \A j \in DOMAIN f : lo + j - 1 \in lo..hi /\ lo + j - 1 \in 1..Len(c)
      BY <2>5, <2>9, <3>2
    <3>4. ASSUME NEW i \in DOMAIN f, NEW j \in DOMAIN f, f[i] = f[j] PROVE i = j
      <4>1. (lo + i - 1) - 1 = (lo + j - 1) - 1
        BY <2>6, <3>1, <3>2, <3>3, <3>4
      <4> QED
        BY <2>9, <3>2, <4>1
    <3>5. ASSUME NEW i \in lo..hi PROVE c[i] \in Range(f)
      <4>1. (i - lo) + 1 \in DOMAIN f /\ lo + ((i - lo) + 1) - 1 = i
        BY <2>9, <3>2
      <4>2. f[(i - lo) + 1] = c[i]
        BY <3>1, <3>2, <4>1
      <4> QED
        BY <4>1, <4>2 DEF Range
    <3>6. \A n \in Range(f) : \E i \in lo..hi : c[i] = n
      BY <3>1, <3>2, <3>3 DEF Range
    <3>7. \A i \in lo..hi : i \in 1..Len(c)
      BY <2>5, <2>9
    <3>8. \A n \in Range(f) : n \in Nodes /\ n \in Reached(T, m, min, max)
      BY <2>6, <2>10, <3>6, <3>7
    <3>9. \A n \in Reached(T, m, min, max) : n \in Range(f)
      BY <1>3, <2>10, <3>5
    <3> QED
      BY <2>1, <3>1, <3>4, <3>8, <3>9 DEF IsInjective
  <2> QED
    BY <2>9, <2>11, <2>12
<1> QED
  BY <1>4, <1>5

LEMMA OneStep ==
    ASSUME NEW T \in SUBSET (Nodes \X Nodes), NEW m \in Nodes, 1 <= Far
    PROVE  Reached(T, m, 1, 1) = Targets(T, m)
<1>1. 1 \in Lengths
  BY DFSAssumption DEF Lengths
<1>2. \A n \in Nodes : n \in Reached(T, m, 1, 1) <=> \E w \in WalksOf(T, 1) : w[0] = m /\ w[1] = n
  <2>1. \A k : k \in 1..1 <=> k = 1
    OBVIOUS
  <2> QED
    BY <1>1, <2>1, ReachedIs
<1>3. ASSUME NEW n \in Nodes, <<m, n>> \in T PROVE \E w \in WalksOf(T, 1) : w[0] = m /\ w[1] = n
  <2>1. Alone(m) \in WalksOf(T, 0) /\ Alone(m)[0] = m
    BY AloneIs
  <2>2. Further(Alone(m), 0, n) \in WalksOf(T, 0 + 1) /\ Further(Alone(m), 0, n)[0 + 1] = n
        /\ Further(Alone(m), 0, n)[0] = m
    BY <1>3, <2>1, FurtherIs
  <2> QED
    BY <2>2
<1>4. ASSUME NEW n \in Nodes, NEW w \in WalksOf(T, 1), w[0] = m, w[1] = n PROVE <<m, n>> \in T
  <2>1. 0 \in 0..(1 - 1) /\ 0 + 1 = 1
    OBVIOUS
  <2> QED
    BY <1>4, <2>1, WalkIs
<1>5. Reached(T, m, 1, 1) \subseteq Nodes
  BY DEF Reached
<1> QED
  BY <1>2, <1>3, <1>4, <1>5 DEF Targets

LEMMA LinearShows ==
    ASSUME NEW s, NEW T \in SUBSET (Nodes \X Nodes), LinearOK(s, T), 1 <= Far
    PROVE  Shown(OutgoingOf(s), T) /\ EdgesOf(s) = T
<1>1. ASSUME NEW n \in Nodes
      PROVE  /\ OutgoingOf(s)[n] \in Seq(Nodes) /\ Range(OutgoingOf(s)[n]) = Targets(T, n)
             /\ IsInjective(OutgoingOf(s)[n])
  <2>1. OutgoingOf(s)[n] = LinearFind(s, n, 1, 1)
    BY DEF OutgoingOf, getOutgoingEdges, LinearOK
  <2>2. 1 \in Nat \ {0} /\ 1 \in 0..Far
    BY DFSAssumption
  <2> QED
    BY <2>1, <2>2, LinearFindAgrees, OneStep
<1>2. OutgoingOf(s) \in Graphs
  <2>1. OutgoingOf(s) = [n \in Nodes |-> OutgoingOf(s)[n]]
    BY DEF OutgoingOf
  <2> QED
    BY <1>1, <2>1 DEF Graphs
<1>3. Shown(OutgoingOf(s), T)
  BY <1>1, <1>2 DEF Shown
<1> QED
  BY <1>3, EdgesShown

----------------------------------------------------------------------------
(* The traversals of a copy.                                                *)

AllSimple(E) == \A x \in RootWalks(E) : Simple(x[2], x[1])

\* What a copy has under way: the traversal from a root.
Traversing(E) ==
    /\ IInv /\ NoTwins /\ cycleSafe /\ Shown(gs, E) /\ minDistance = 1 /\ maxDistance = Far
    /\ startNode \in RootsOf(E) /\ startNode \notin roots

LEMMA NothingRejected ==
    ASSUME NEW E \in SUBSET (Nodes \X Nodes), AllSimple(E), Traversing(E), ~Exhausted
    PROVE  /\ node \notin PathLeft /\ distance < Cardinality(Nodes) /\ distance < Far
           /\ node \in Nodes /\ distance \in Nat
           /\ Found <=> distance # 0
           /\ \E w \in WalksOf(E, distance) :
                 /\ w[0] = startNode /\ w[distance] = node /\ On(Kept, w, distance)
                 /\ <<distance, w>> \in RootWalks(E)
<1>1. IInv /\ cycleSafe /\ Shown(gs, E) /\ DFSTypeOK /\ Injective
  BY DEF Traversing, IInv, Path
<1>2. /\ node \in Nodes /\ distance \in Nat
  BY <1>1, Top
<1>3. PICK w \in WalksOf(E, distance) : w[0] = startNode /\ w[distance] = node /\ On(Kept, w, distance)
  BY <1>1, TopWalk
<1>4. <<distance, w>> \in RootWalks(E)
  BY <1>2, <1>3, RootWalkIs DEF Traversing
<1>5. Simple(w, distance)
  <2>1. <<distance, w>>[1] = distance /\ <<distance, w>>[2] = w
    OBVIOUS
  <2> QED
    BY <1>4, <2>1 DEF AllSimple
<1>6. distance < Cardinality(Nodes) /\ distance < Far
  <2>1. distance < Cardinality(Nodes) /\ distance <= Far
    BY <1>2, <1>5, PathsAreShort
  <2>2. Cardinality(Nodes) \in Nat /\ Cardinality(Nodes) <= Far
    BY FS_CardinalityType, StoragesAssumption, WidthsAssumption
  <2> QED
    BY <1>2, <2>1, <2>2, DFSAssumption
<1>7. node \notin PathLeft
  <2> SUFFICES ASSUME node \in PathLeft PROVE FALSE
    OBVIOUS
  <2>1. PathLeft = {p[2] : p \in Kept} /\ Kept = {p \in distanceToNode : p[1] < distance}
    BY <1>1, LeftIsKept, KeptIsAbove
  <2>2. PICK p \in Kept : p[2] = node
    BY <2>1
  <2>3. p \in Nat \X Nodes /\ p[1] < distance /\ p \in distanceToNode
    BY <1>1, <2>1, <2>2 DEF DFSTypeOK
  <2>4. p[1] \in 0..(distance - 1) /\ p[1] \in 0..distance /\ distance \in 0..distance /\ p[1] # distance
    BY <1>2, <2>3
  <2>5. <<p[1], w[p[1]]>> \in distanceToNode
    BY <1>3, <2>1, <2>4 DEF On
  <2>6. w[p[1]] = p[2]
    BY <1>1, <2>3, <2>5 DEF Injective
  <2> QED
    BY <1>3, <1>5, <2>2, <2>4, <2>6 DEF Simple
<1>8. Found <=> distance # 0
  <2>1. minDistance = 1 /\ maxDistance = Far /\ cycleSafe
    BY DEF Traversing
  <2> QED
    BY <1>2, <1>6, <2>1, DFSAssumption DEF Found, InWindow
<1> QED
  BY <1>2, <1>3, <1>4, <1>6, <1>7, <1>8

LEMMA CopyEnters ==
    ASSUME NEW E \in SUBSET (Nodes \X Nodes), AllSimple(E), Traversing(E), Traverse, UNCHANGED roots
    PROVE  EnterSafely /\ Traversing(E)' /\ gs' = gs /\ startNode' = startNode
<1>1. ~Exhausted
  BY DEF Traverse, Enter, EnterSafely, EnterAlways, RejectCycle
<1>2. node \notin PathLeft /\ cycleSafe
  BY <1>1, NothingRejected DEF Traversing
<1>3. EnterSafely
  BY <1>2 DEF Traverse, Enter, RejectCycle, EnterAlways
<1>4. UNCHANGED parameters
  BY <1>3 DEF EnterSafely
<1>5. IInv'
  <2>1. IInv /\ [DFSNext]_dfsVars
    BY <1>3 DEF Traversing, DFSNext, Traverse, Enter
  <2> QED
    BY <2>1, InvariantHolds
<1>6. NoTwins'
  BY <1>2, <1>3, EnterNoTwins DEF Traversing
<1> QED
  BY <1>3, <1>4, <1>5, <1>6 DEF Traversing, parameters

LEMMA CopyBegins ==
    ASSUME NEW E \in SUBSET (Nodes \X Nodes), NEW g, Shown(g, E), NEW r \in RootsOf(E),
           roots' = roots \ {r}, Construct(g, TRUE, r, 1, Far)
    PROVE  /\ Traversing(E)' /\ traversalStack' = <<<<r, 0>>>> /\ startNode' = r
           /\ \A k \in Nat : \A w : w[0] = r => Waits(w, k)'
<1>1. r \in Nodes /\ g \in Graphs
  BY RootsAre DEF Shown
<1>2. /\ IInv' /\ traversalStack' = <<<<r, 0>>>>
      /\ \A k \in Nat : \A w : w[0] = r => Waits(w, k)'
  BY <1>1, ConstructIs, DFSAssumption
<1>3. gs' = g /\ cycleSafe' = TRUE /\ minDistance' = 1 /\ maxDistance' = Far /\ startNode' = r
  BY DEF Construct
<1>4. NoTwins'
  BY ConstructNoTwins
<1> QED
  BY <1>2, <1>3, <1>4 DEF Traversing

----------------------------------------------------------------------------
(* Copying into a linear storage.                                           *)

OneChild(E) == \A e, f \in E : e[1] = f[1] => e = f

LEMMA FewTargets ==
    ASSUME NEW E \in SUBSET (Nodes \X Nodes), \A n \in Nodes : Cardinality(Targets(E, n)) <= 1
    PROVE  OneChild(E)
<1> SUFFICES ASSUME NEW e \in E, NEW f \in E, e[1] = f[1] PROVE e = f
  BY DEF OneChild
<1> DEFINE S == Targets(E, e[1])
<1>1. /\ e = <<e[1], e[2]>> /\ f = <<f[1], f[2]>>
      /\ e[1] \in Nodes /\ e[2] \in Nodes /\ f[2] \in Nodes
  OBVIOUS
<1>2. e[2] \in S /\ f[2] \in S
  BY <1>1 DEF Targets
<1>3. IsFiniteSet(S) /\ Cardinality(S) <= 1 /\ Cardinality(S) \in Nat
  BY <1>1, TargetsFinite, FS_CardinalityType
<1> HIDE DEF S
<1>4. Cardinality(S) # 0
  BY <1>2, <1>3, FS_EmptySet
<1>5. Cardinality(S) = 1
  BY <1>3, <1>4
<1>6. PICK x : S = {x}
  BY <1>3, <1>5, FS_Singleton
<1> QED
  BY <1>1, <1>2, <1>6

\* A chain of what has been copied.
CopiedChain(E, r) ==
    LET c == copied.nodeChains[r] IN
        /\ c \in Seq(Nodes) /\ Len(c) >= 1 /\ c[1] = r
        /\ \A i \in 1..Len(c) : /\ c[i] \in DOMAIN copied.node2pos
                                /\ copied.node2pos[c[i]] = [root |-> r, pos |-> i - 1]
        /\ \A i \in 1..(Len(c) - 1) : <<c[i], c[i + 1]>> \in E

\* It goes on with what waits on the stack, or ends where no edge leads on.
Going(E, c) ==
    \/ traversalStack = <<<<startNode, 0>>>> /\ Len(c) = 1
    \/ \E n \in Nodes : traversalStack = <<<<n, Len(c)>>>> /\ <<c[Len(c)], n>> \in E
Ended(E, c) == \A t \in Nodes : <<c[Len(c)], t>> \notin E

Fields == {"impl", "edges", "order", "node2pos", "nodeChains"}

LinearCopy(E) ==
    /\ DOMAIN copied = Fields
    /\ copied.impl.kind = "linear" /\ copied.impl.pos \in Nat
    /\ roots \subseteq RootsOf(E) /\ DOMAIN copied.nodeChains = RootsOf(E) \ roots
    /\ \A r \in DOMAIN copied.nodeChains : CopiedChain(E, r)
    /\ \A n \in DOMAIN copied.node2pos : PositionOK(copied, n)
    /\ \A r \in DOMAIN copied.nodeChains :
          IF r = startNode /\ ~Exhausted THEN Going(E, copied.nodeChains[r])
                                         ELSE Ended(E, copied.nodeChains[r])
    /\ ~Exhausted => Traversing(E)

Wide(E) == \A x \in RootWalks(E) : x[1] <= copied.impl.pos

LEMMA ChainIsWalk ==
    ASSUME NEW E \in SUBSET (Nodes \X Nodes), AllSimple(E),
           NEW c \in Seq(Nodes), Len(c) >= 1, c[1] \in RootsOf(E),
           \A i \in 1..(Len(c) - 1) : <<c[i], c[i + 1]>> \in E
    PROVE  /\ Len(c) \in Nat \ {0} /\ Len(c) < Far + 1 /\ Len(c) <= Cardinality(Nodes)
           /\ \E x \in RootWalks(E) : x[1] = Len(c) - 1
           /\ \A i \in 1..Len(c) : c[i] \in Nodes /\ Led(E, c[i])
<1> DEFINE k == Len(c) - 1
           w == [i \in 0..k |-> c[i + 1]]
<1>2. Len(c) \in Nat /\ \A i \in 1..Len(c) : c[i] \in Nodes
  BY LenProperties, ElementOfSeq
<1>3. k \in Nat /\ Len(c) = k + 1
  BY <1>2
<1>4. \A i \in 0..k : i + 1 \in 1..Len(c) /\ w[i] = c[i + 1]
  BY <1>3
<1>5. w \in [0..k -> Nodes]
  BY <1>2, <1>4
<1>6. \A i \in 0..(k - 1) : <<w[i], w[i + 1]>> \in E
  <2> TAKE i \in 0..(k - 1)
  <2>1. i \in 0..k /\ i + 1 \in 0..k /\ i + 1 \in 1..(Len(c) - 1)
    BY <1>3
  <2> HIDE DEF w, k
  <2> QED
    BY <1>4, <2>1
<1>7. w[0] = c[1]
  <2>1. 0 \in 0..k /\ 0 + 1 = 1
    BY <1>3
  <2> HIDE DEF w
  <2> QED
    BY <1>4, <2>1
<1>8. w \in WalksOf(E, k)
  BY <1>5, <1>6 DEF WalksOf
<1> HIDE DEF w, k
<1>9. <<k, w>> \in RootWalks(E) /\ <<k, w>>[1] = k /\ <<k, w>>[2] = w
  BY <1>3, <1>7, <1>8, RootWalkIs
<1>10. Simple(w, k)
  BY <1>9 DEF AllSimple
<1>11. k < Cardinality(Nodes) /\ k <= Far
  BY <1>3, <1>8, <1>10, PathsAreShort
<1>12. ASSUME NEW i \in 1..Len(c) PROVE Led(E, c[i])
  <2>1. i - 1 \in 0..k /\ (i - 1) + 1 = i
    BY <1>3
  <2>2. Led(E, w[i - 1]) /\ w[i - 1] = c[i]
    BY <1>3, <1>4, <1>7, <1>8, <2>1, OnRootWalk
  <2> QED
    BY <2>2
<1>13. Cardinality(Nodes) \in Nat
  BY FS_CardinalityType, StoragesAssumption
<1>14. Cardinality(Nodes) <= Far
  BY WidthsAssumption
<1>15. Len(c) - 1 = k
  BY <1>3
<1> QED
  BY <1>2, <1>3, <1>9, <1>11, <1>12, <1>13, <1>14, <1>15, DFSAssumption

LEMMA LinearFinished ==
    ASSUME NEW E \in SUBSET (Nodes \X Nodes), AllSimple(E), OneChild(E), Wide(E),
           LinearCopy(E), Exhausted, roots = {}
    PROVE  LinearOK(copied, Traversed(E))
<1>1. /\ \A r \in DOMAIN copied.nodeChains : CopiedChain(E, r) /\ Ended(E, copied.nodeChains[r])
      /\ DOMAIN copied.nodeChains = RootsOf(E)
  BY DEF LinearCopy
<1>2. ASSUME NEW r \in DOMAIN copied.nodeChains PROVE ChainOK(copied, Traversed(E), r)
  <2> DEFINE c == copied.nodeChains[r]
  <2>1. CopiedChain(E, r) /\ r \in RootsOf(E)
    BY <1>1
  <2>2. /\ Len(c) \in Nat \ {0} /\ Len(c) < Far + 1
        /\ \E x \in RootWalks(E) : x[1] = Len(c) - 1
        /\ \A i \in 1..Len(c) : c[i] \in Nodes /\ Led(E, c[i])
    BY <2>1, ChainIsWalk DEF CopiedChain
  <2>3. Len(c) - 1 <= copied.impl.pos
    BY <2>2 DEF Wide
  <2>4. Len(c) <= Far
    BY <2>2, DFSAssumption
  <2>5. \A i \in 1..(Len(c) - 1) : <<c[i], c[i + 1]>> \in Traversed(E)
    <3> TAKE i \in 1..(Len(c) - 1)
    <3>1. <<c[i], c[i + 1]>> \in E
      BY <2>1 DEF CopiedChain
    <3>2. i \in 1..Len(c) /\ <<c[i], c[i + 1]>>[1] = c[i]
      BY <2>2
    <3> QED
      BY <2>2, <3>1, <3>2 DEF Traversed
  <2> QED
    BY <2>1, <2>3, <2>4, <2>5 DEF ChainOK, CopiedChain
<1>3. ASSUME NEW e \in Traversed(E)
      PROVE  /\ e[1] \in DOMAIN copied.node2pos /\ e[2] \in DOMAIN copied.node2pos
             /\ copied.node2pos[e[2]] = [root |-> copied.node2pos[e[1]].root,
                                         pos  |-> copied.node2pos[e[1]].pos + 1]
  <2>1. e \in E /\ Led(E, e[1]) /\ e = <<e[1], e[2]>> /\ e[2] \in Nodes
    BY DEF Traversed
  <2>2. PICK k \in Nat : \E w \in WalksOf(E, k) : w[0] \in RootsOf(E) /\ w[k] = e[1]
    BY <2>1, LedIs
  <2>3. PICK w \in WalksOf(E, k) : w[0] \in RootsOf(E) /\ w[k] = e[1]
    BY <2>2
  <2> DEFINE r == w[0]
             c == copied.nodeChains[r]
  <2>4. CopiedChain(E, r) /\ Ended(E, c) /\ r \in DOMAIN copied.nodeChains
    BY <1>1, <2>3
  <2>5. /\ c[1] = r /\ Len(c) \in Nat \ {0}
        /\ \A i \in 1..Len(c) : /\ c[i] \in DOMAIN copied.node2pos
                                /\ copied.node2pos[c[i]] = [root |-> r, pos |-> i - 1]
        /\ \A i \in 1..(Len(c) - 1) : <<c[i], c[i + 1]>> \in E
    <3>1. Len(c) \in Nat
      BY <2>4, LenProperties DEF CopiedChain
    <3>2. /\ c[1] = r /\ Len(c) >= 1
          /\ \A i \in 1..Len(c) : /\ c[i] \in DOMAIN copied.node2pos
                                  /\ copied.node2pos[c[i]] = [root |-> r, pos |-> i - 1]
          /\ \A i \in 1..(Len(c) - 1) : <<c[i], c[i + 1]>> \in E
      BY <2>4, Zenon DEF CopiedChain
    <3>3. Len(c) \in Nat \ {0}
      <4> HIDE DEF c, r
      <4> QED
        BY <3>1, <3>2
    <3> QED
      BY <3>2, <3>3, Zenon
  <2> HIDE DEF r, c
  <2>6. ASSUME NEW i \in 1..Len(c), NEW n \in Nodes, <<c[i], n>> \in E
        PROVE  i + 1 \in 1..Len(c) /\ c[i + 1] = n
    <3>1. i # Len(c)
      BY <2>4, <2>6 DEF Ended
    <3>2. i \in 1..(Len(c) - 1) /\ i + 1 \in 1..Len(c)
      BY <2>5, <3>1
    <3>3. <<c[i], c[i + 1]>> \in E
      BY <2>5, <3>2
    <3>4. <<c[i], c[i + 1]>> = <<c[i], n>>
      BY <2>6, <3>3 DEF OneChild
    <3> QED
      BY <3>2, <3>4
  <2> DEFINE S == {i \in 0..k : i + 1 \in 1..Len(c) /\ c[i + 1] = w[i]}
  <2>7. 0 \in S
    BY <2>5 DEF r
  <2>8. \A i \in 0..(k - 1) : i \in S => i + 1 \in S
    <3> SUFFICES ASSUME NEW i \in 0..(k - 1), i \in S PROVE i + 1 \in S
      OBVIOUS
    <3>1. <<w[i], w[i + 1]>> \in E /\ i + 1 \in 0..k /\ w[i + 1] \in Nodes
      BY WalkIs
    <3>2. i + 1 \in 1..Len(c) /\ c[i + 1] = w[i]
      OBVIOUS
    <3> QED
      BY <2>6, <3>1, <3>2
  <2>9. 0..k \subseteq S
    <3> HIDE DEF S
    <3> QED
      BY <2>7, <2>8, UpTo
  <2>10. k + 1 \in 1..Len(c) /\ c[k + 1] = e[1]
    <3>1. k \in 0..k
      OBVIOUS
    <3>2. k \in S
      <4> HIDE DEF S
      <4> QED
        BY <2>9, <3>1
    <3> QED
      BY <2>3, <3>2
  <2>11. (k + 1) + 1 \in 1..Len(c) /\ c[(k + 1) + 1] = e[2]
    BY <2>1, <2>6, <2>10
  <2>12. /\ copied.node2pos[e[1]] = [root |-> r, pos |-> (k + 1) - 1]
         /\ copied.node2pos[e[2]] = [root |-> r, pos |-> ((k + 1) + 1) - 1]
         /\ e[1] \in DOMAIN copied.node2pos /\ e[2] \in DOMAIN copied.node2pos
    BY <2>5, <2>10, <2>11
  <2>13. copied.node2pos[e[1]].root = r /\ copied.node2pos[e[1]].pos = k
    BY <2>12
  <2>14. ((k + 1) + 1) - 1 = k + 1
    OBVIOUS
  <2> QED
    BY <2>12, <2>13, <2>14
<1> QED
  BY <1>2, <1>3 DEF LinearOK, LinearCopy

LEMMA NoWrap == ASSUME NEW x \in Nat, NEW max \in Nat, x <= max PROVE Unsigned(x, max) = x
  BY DEF Unsigned

LEMMA NoSignedWrap == ASSUME NEW x \in Nat, NEW max \in Nat, x <= max PROVE Signed(x, max) = x
<1>1. x + max + 1 \in 0..(2 * max + 1)
  OBVIOUS
<1>2. (x + max + 1) % (2 * max + 2) = x + max + 1
  BY <1>1
<1> QED
  BY <1>2 DEF Signed

\* A chain is begun, or grows by one node that no chain has.
LEMMA ChainGrows ==
    ASSUME NEW E \in SUBSET (Nodes \X Nodes), Wide(E), AllSimple(E), DOMAIN copied = Fields,
           NEW D, DOMAIN copied.nodeChains = D, NEW r, NEW n \in Nodes, n \notin DOMAIN copied.node2pos,
           copied.impl.pos \in Nat, D \subseteq RootsOf(E), r \in RootsOf(E),
           \A q \in D : CopiedChain(E, q),
           \A m \in DOMAIN copied.node2pos : PositionOK(copied, m),
           NEW before \in Seq(Nodes),
           \/ r \notin D /\ before = <<>> /\ n = r
           \/ r \in D /\ before = copied.nodeChains[r] /\ <<before[Len(before)], n>> \in E,
           Chain(n, r, before)
    PROVE  /\ DOMAIN copied'.nodeChains = D \cup {r} /\ copied'.impl = copied.impl
           /\ DOMAIN copied' = Fields
           /\ \A q \in D \cup {r} : CopiedChain(E, q)'
           /\ \A m \in DOMAIN copied'.node2pos : PositionOK(copied, m)'
           /\ copied'.nodeChains[r] = Append(before, n)
           /\ \A q \in D \ {r} : copied'.nodeChains[q] = copied.nodeChains[q]
<1> DEFINE chain == Append(before, n)
           L == Len(before)
           C == [q \in D \cup {r} |-> IF q = r THEN chain ELSE copied.nodeChains[q]]
           P == DOMAIN copied.node2pos
           N == [m \in P \cup {n} |-> IF m = n THEN [root |-> r, pos |-> PositionIn(chain)]
                                      ELSE copied.node2pos[m]]
<1>1. copied' = [copied EXCEPT !.nodeChains = C, !.node2pos = N]
  BY DEF Chain
<1>2. /\ copied'.nodeChains = C /\ copied'.node2pos = N /\ copied'.impl = copied.impl
      /\ DOMAIN copied' = Fields
  <2> HIDE DEF C, N
  <2> QED
    BY <1>1 DEF Fields
<1>3. /\ L \in Nat /\ chain \in Seq(Nodes) /\ Len(chain) = L + 1 /\ chain[L + 1] = n
      /\ \A i \in 1..L : chain[i] = before[i]
  BY LenProperties, AppendProperties
<1>4. r \in D => /\ L >= 1 /\ before[1] = r
                 /\ \A i \in 1..L : /\ before[i] \in P
                                    /\ copied.node2pos[before[i]] = [root |-> r, pos |-> i - 1]
                 /\ \A i \in 1..(L - 1) : <<before[i], before[i + 1]>> \in E
  BY DEF CopiedChain
<1>5. r \notin D => L = 0 /\ n = r
  OBVIOUS
<1>6. C[r] = chain /\ \A q \in D \ {r} : C[q] = copied.nodeChains[q]
  OBVIOUS
<1>7. /\ DOMAIN N = P \cup {n} /\ DOMAIN C = D \cup {r}
      /\ N[n] = [root |-> r, pos |-> PositionIn(chain)]
      /\ \A m \in P : N[m] = copied.node2pos[m]
  OBVIOUS
<1>8. chain[1] = r /\ Len(chain) >= 1
  <2>1. CASE r \in D
    BY <1>3, <1>4, <2>1
  <2>2. CASE r \notin D
    BY <1>3, <1>5, <2>2
  <2> QED
    BY <2>1, <2>2
<1> HIDE DEF chain, C, N
<1>9. \A i \in 1..(Len(chain) - 1) : <<chain[i], chain[i + 1]>> \in E
  <2> TAKE i \in 1..(Len(chain) - 1)
  <2>1. i \in 1..L
    BY <1>3
  <2>2. r \in D
    BY <1>5, <2>1
  <2>3. chain[i] = before[i]
    BY <1>3, <2>1
  <2>4. CASE i = L
    BY <1>3, <2>2, <2>3, <2>4
  <2>5. CASE i # L
    <3>1. i \in 1..(L - 1) /\ i + 1 \in 1..L
      BY <1>3, <2>1, <2>5
    <3> QED
      BY <1>3, <1>4, <2>2, <2>3, <3>1
  <2> QED
    BY <2>4, <2>5
<1>10. PositionIn(chain) = L
  <2>1. PICK x \in RootWalks(E) : x[1] = Len(chain) - 1
    BY <1>3, <1>8, <1>9, ChainIsWalk
  <2>2. L <= copied.impl.pos
    BY <1>3, <2>1 DEF Wide
  <2>3. PositionIn(chain) = Unsigned(L, copied.impl.pos)
    BY <1>3 DEF PositionIn
  <2> QED
    BY <1>3, <2>2, <2>3, NoWrap
<1> HIDE DEF L, P
<1>11. ASSUME NEW q \in D \cup {r} PROVE CopiedChain(E, q)'
  <2>1. CASE q = r
    <3>1. ASSUME NEW i \in 1..Len(chain)
          PROVE  chain[i] \in P \cup {n} /\ N[chain[i]] = [root |-> r, pos |-> i - 1]
      <4>1. CASE i = L + 1
        BY <1>3, <1>7, <1>10, <4>1
      <4>2. CASE i # L + 1
        <5>1. i \in 1..L
          BY <1>3, <4>2
        <5>2. r \in D
          BY <1>3, <1>5, <5>1
        <5>3. chain[i] \in P /\ copied.node2pos[chain[i]] = [root |-> r, pos |-> i - 1]
          BY <1>3, <1>4, <5>1, <5>2
        <5> QED
          BY <1>7, <5>3
      <4> QED
        BY <4>1, <4>2
    <3> QED
      BY <1>2, <1>3, <1>6, <1>7, <1>8, <1>9, <2>1, <3>1 DEF CopiedChain
  <2>2. CASE q # r
    <3>1. q \in D /\ CopiedChain(E, q) /\ copied'.nodeChains[q] = copied.nodeChains[q]
      BY <1>2, <1>6, <2>2
    <3>2. \A m \in P : m \in DOMAIN copied'.node2pos /\ copied'.node2pos[m] = copied.node2pos[m]
      BY <1>2, <1>7
    <3> QED
      BY <3>1, <3>2 DEF CopiedChain, P
  <2> QED
    BY <2>1, <2>2
<1>12. ASSUME NEW m \in DOMAIN copied'.node2pos PROVE PositionOK(copied, m)'
  <2>1. m \in P \cup {n}
    BY <1>2, <1>7
  <2>2. CASE m = n
    <3>1. N[n].root = r /\ N[n].pos = L
      BY <1>7, <1>10
    <3>2. L \in 0..(Len(chain) - 1) /\ chain[L + 1] = n
      BY <1>3
    <3> QED
      BY <1>2, <1>6, <1>7, <2>2, <3>1, <3>2 DEF PositionOK
  <2>3. CASE m # n
    <3> DEFINE p == copied.node2pos[m]
    <3>1. N[m] = p /\ PositionOK(copied, m)
      BY <1>7, <2>1, <2>3 DEF P
    <3>2. /\ p.root \in D /\ p.pos \in 0..(Len(copied.nodeChains[p.root]) - 1)
          /\ copied.nodeChains[p.root][p.pos + 1] = m
      BY <3>1 DEF PositionOK
    <3> HIDE DEF p
    <3>3. CASE p.root = r
      <4>1. p.pos \in 0..(L - 1) /\ before[p.pos + 1] = m
        BY <3>2, <3>3 DEF L
      <4>2. p.pos \in 0..(Len(chain) - 1) /\ chain[p.pos + 1] = m
        BY <1>3, <4>1
      <4> QED
        BY <1>2, <1>6, <1>7, <3>1, <3>2, <3>3, <4>2 DEF PositionOK
    <3>4. CASE p.root # r
      BY <1>2, <1>6, <1>7, <3>1, <3>2, <3>4 DEF PositionOK
    <3> QED
      BY <3>3, <3>4
  <2> QED
    BY <2>1, <2>2, <2>3
<1> QED
  BY <1>2, <1>6, <1>7, <1>11, <1>12 DEF chain

\* A single node on the stack is followed by its child, or by nothing.
LEMMA NextOfOne ==
    ASSUME NEW E \in SUBSET (Nodes \X Nodes), OneChild(E), Traversing(E), ~Exhausted,
           Len(traversalStack) = 1, distance < maxDistance
    PROVE  \/ Pop \o Children = <<>> /\ \A t \in Nodes : <<node, t>> \notin E
           \/ \E t \in Nodes : Pop \o Children = <<<<t, distance + 1>>>> /\ <<node, t>> \in E
<1>1. DFSTypeOK /\ Shown(gs, E)
  BY DEF Traversing, IInv
<1>2. /\ node \in Nodes /\ distance \in Nat /\ Len(Pop) = 0 /\ Pop \in Seq(Nodes \X Nat)
  BY <1>1, Top
<1>3. /\ gs[node] \in Seq(Nodes) /\ Range(gs[node]) = Targets(E, node) /\ IsInjective(gs[node])
  BY <1>1, <1>2 DEF Shown, Graphs
<1>4. Children = [i \in 1..Len(gs[node]) |-> <<gs[node][i], distance + 1>>]
  BY DEF Children
<1> DEFINE g == gs[node]
<1>5. Len(g) \in Nat /\ DOMAIN g = 1..Len(g) /\ \A i \in 1..Len(g) : g[i] \in Nodes
  BY <1>3, LenProperties, ElementOfSeq
<1>6. Pop = <<>>
  BY <1>2, EmptySeq
<1>7. Children \in Seq(Nodes \X Nat) /\ Len(Children) = Len(g)
  <2>1. \A i \in 1..Len(g) : <<g[i], distance + 1>> \in Nodes \X Nat
    BY <1>2, <1>5
  <2> HIDE DEF g
  <2>2. [i \in 1..Len(g) |-> <<g[i], distance + 1>>] \in Seq(Nodes \X Nat)
    BY <1>5, <2>1, IsASeq
  <2> QED
    BY <1>4, <1>5, <2>2 DEF g
<1>8. Pop \o Children = Children
  BY <1>6, <1>7
<1>9. \A i \in 1..Len(g) : g[i] \in Nodes /\ <<node, g[i]>> \in E
  <2> TAKE i \in 1..Len(g)
  <2>1. g[i] \in Range(g)
    BY <1>5 DEF Range
  <2> QED
    BY <1>3, <2>1 DEF Targets
<1>10. Len(g) <= 1
  <2> SUFFICES ASSUME Len(g) > 1 PROVE FALSE
    BY <1>5
  <2>1. 1 \in DOMAIN g /\ 2 \in DOMAIN g
    BY <1>5
  <2>2. <<node, g[1]>> \in E /\ <<node, g[2]>> \in E
    BY <1>5, <1>9, <2>1
  <2>3. <<node, g[1]>> = <<node, g[2]>>
    BY <2>2 DEF OneChild
  <2>4. g[1] = g[2]
    BY <2>3
  <2> QED
    BY <1>3, <2>1, <2>4 DEF IsInjective
<1>11. CASE Len(g) = 0
  <2>1. Targets(E, node) = {}
    BY <1>3, <1>5, <1>11 DEF Range
  <2>2. Children = <<>>
    BY <1>7, <1>11, EmptySeq
  <2> QED
    BY <1>8, <2>1, <2>2 DEF Targets
<1>12. CASE Len(g) = 1
  <2>1. g[1] \in Nodes /\ <<node, g[1]>> \in E
    BY <1>9, <1>12
  <2>2. Children[1] = <<g[1], distance + 1>>
    BY <1>4, <1>12
  <2>3. Children = <<<<g[1], distance + 1>>>>
    <3> HIDE DEF g
    <3> QED
      BY <1>7, <1>12, <2>2
  <2> QED
    BY <1>8, <2>1, <2>3
<1> HIDE DEF g
<1>13. Len(g) = 0 \/ Len(g) = 1
  BY <1>5, <1>10
<1> QED
  BY <1>11, <1>12, <1>13 DEF g

\* A root, and a child of a chain's last node, are new.
LEMMA NewOnChain ==
    ASSUME NEW E \in SUBSET (Nodes \X Nodes), LinearCopy(E), NEW n \in Nodes,
           \/ n \in RootsOf(E) /\ n \notin DOMAIN copied.nodeChains
           \/ \E r \in DOMAIN copied.nodeChains : LET c == copied.nodeChains[r] IN
                 OneParent(E) /\ <<c[Len(c)], n>> \in E
    PROVE  n \notin DOMAIN copied.node2pos
<1> SUFFICES ASSUME n \in DOMAIN copied.node2pos PROVE FALSE
  OBVIOUS
<1> DEFINE p == copied.node2pos[n]
           d == copied.nodeChains[p.root]
<1>1. p.root \in DOMAIN copied.nodeChains /\ p.pos \in 0..(Len(d) - 1) /\ d[p.pos + 1] = n
  BY DEF LinearCopy, PositionOK
<1>2. p.root \in RootsOf(E) /\ CopiedChain(E, p.root)
  BY <1>1 DEF LinearCopy
<1>3. /\ d \in Seq(Nodes) /\ d[1] = p.root
      /\ \A i \in 1..Len(d) : copied.node2pos[d[i]] = [root |-> p.root, pos |-> i - 1]
      /\ \A i \in 1..(Len(d) - 1) : <<d[i], d[i + 1]>> \in E
  BY <1>2 DEF CopiedChain
<1>4. Len(d) \in Nat /\ \A i \in 1..Len(d) : d[i] \in Nodes
  BY <1>3, LenProperties, ElementOfSeq
<1> HIDE DEF d
<1>5. p.pos \in Nat
  BY <1>1, <1>4
<1>6. CASE n \in RootsOf(E) /\ n \notin DOMAIN copied.nodeChains
  <2>1. CASE p.pos = 0
    BY <1>1, <1>3, <1>6, <2>1
  <2>2. CASE p.pos # 0
    <3> DEFINE i == p.pos
    <3>1. i \in 1..(Len(d) - 1) /\ i \in 1..Len(d)
      BY <1>1, <1>4, <2>2
    <3>2. <<d[i], n>> \in E /\ d[i] \in Nodes
      BY <1>1, <1>3, <1>4, <3>1
    <3> QED
      BY <1>6, <3>2, RootsAre
  <2> QED
    BY <2>1, <2>2
<1>7. ASSUME NEW r \in DOMAIN copied.nodeChains, OneParent(E),
             <<copied.nodeChains[r][Len(copied.nodeChains[r])], n>> \in E
      PROVE  FALSE
  <2> DEFINE c == copied.nodeChains[r]
             L == Len(c)
  <2>1. CopiedChain(E, r)
    BY DEF LinearCopy
  <2>2. /\ c \in Seq(Nodes) /\ L >= 1
        /\ \A i \in 1..L : copied.node2pos[c[i]] = [root |-> r, pos |-> i - 1]
    BY <2>1 DEF CopiedChain
  <2>3. L \in Nat /\ \A i \in 1..L : c[i] \in Nodes
    BY <2>2, LenProperties, ElementOfSeq
  <2>4. c[L] \in Nodes /\ <<c[L], n>> \in E /\ L \in 1..L
    BY <1>7, <2>2, <2>3
  <2> HIDE DEF c, L
  <2>5. copied.node2pos[c[L]] = [root |-> r, pos |-> L - 1]
    BY <2>2, <2>4
  <2>6. copied.node2pos[c[L]].root = r /\ copied.node2pos[c[L]].pos = L - 1
    BY <2>5
  <2>7. CASE p.pos = 0
    BY <1>1, <1>2, <1>3, <2>4, <2>7, RootsAre
  <2>8. CASE p.pos # 0
    <3> DEFINE i == p.pos
    <3>1. i \in 1..(Len(d) - 1) /\ i \in 1..Len(d)
      BY <1>1, <1>4, <2>8
    <3>2. <<d[i], n>> \in E
      BY <1>1, <1>3, <3>1
    <3>3. <<d[i], n>> = <<c[L], n>>
      BY <2>4, <3>2, <1>7 DEF OneParent
    <3>4. d[i] = c[L]
      BY <3>3
    <3>5. copied.node2pos[c[L]] = [root |-> p.root, pos |-> i - 1]
      BY <1>3, <3>1, <3>4
    <3>6. r = p.root /\ L - 1 = i - 1
      BY <2>6, <3>5
    <3>7. c = d
      BY <3>6 DEF c, d
    <3>8. L = Len(d) /\ i = L
      BY <1>5, <2>3, <3>6, <3>7 DEF L
    <3> HIDE DEF i
    <3> QED
      BY <1>4, <3>1, <3>8
  <2> QED
    BY <2>7, <2>8
<1> QED
  BY <1>6, <1>7

LEMMA LinearRoot ==
    ASSUME NEW E \in SUBSET (Nodes \X Nodes), AllSimple(E), Wide(E), LinearCopy(E), Exhausted,
           NEW g, Shown(g, E), NEW r \in roots, roots' = roots \ {r}, Chain(r, r, <<>>),
           Construct(g, TRUE, r, 1, Far)
    PROVE  LinearCopy(E)'
<1> DEFINE D == DOMAIN copied.nodeChains
<1>1. /\ DOMAIN copied = Fields /\ copied.impl.kind = "linear" /\ copied.impl.pos \in Nat
      /\ roots \subseteq RootsOf(E) /\ D = RootsOf(E) \ roots /\ r \in RootsOf(E)
      /\ \A q \in D : CopiedChain(E, q) /\ Ended(E, copied.nodeChains[q])
      /\ \A n \in DOMAIN copied.node2pos : PositionOK(copied, n)
  BY DEF LinearCopy
<1>2. r \in Nodes /\ r \notin D
  BY <1>1, RootsAre
<1>3. r \notin DOMAIN copied.node2pos
  BY <1>1, <1>2, NewOnChain
<1>4. /\ DOMAIN copied'.nodeChains = D \cup {r} /\ copied'.impl = copied.impl
      /\ DOMAIN copied' = Fields
      /\ \A q \in D \cup {r} : CopiedChain(E, q)'
      /\ \A m \in DOMAIN copied'.node2pos : PositionOK(copied, m)'
      /\ copied'.nodeChains[r] = Append(<<>>, r)
      /\ \A q \in D \ {r} : copied'.nodeChains[q] = copied.nodeChains[q]
  <2>1. <<>> \in Seq(Nodes)
    OBVIOUS
  <2> HIDE DEF D
  <2>2. DOMAIN copied.nodeChains = D
    BY DEF D
  <2> QED
    BY <1>1, <1>2, <1>3, <2>1, <2>2, ChainGrows
<1>5. Traversing(E)' /\ traversalStack' = <<<<r, 0>>>> /\ startNode' = r
  BY <1>1, CopyBegins
<1>6. Len(copied'.nodeChains[r]) = 1
  BY <1>4
<1>7. roots' \subseteq RootsOf(E) /\ D \cup {r} = RootsOf(E) \ roots'
  BY <1>1
<1>8. ASSUME NEW q \in D \cup {r}
      PROVE  IF q = startNode' /\ ~Exhausted' THEN Going(E, copied.nodeChains[q])'
                                              ELSE Ended(E, copied.nodeChains[q])'
  <2>1. ~Exhausted'
    BY <1>5 DEF Exhausted
  <2>2. CASE q = r
    BY <1>5, <1>6, <2>1, <2>2 DEF Going
  <2>3. CASE q # r
    BY <1>1, <1>4, <1>5, <2>3 DEF Ended
  <2> QED
    BY <2>2, <2>3
<1> QED
  BY <1>1, <1>4, <1>5, <1>7, <1>8 DEF LinearCopy

LEMMA LinearStep ==
    ASSUME NEW E \in SUBSET (Nodes \X Nodes), AllSimple(E), Wide(E), OneParent(E), OneChild(E),
           LinearCopy(E), Traverse, UNCHANGED roots,
           IF distance = 0 THEN UNCHANGED copied
           ELSE Chain(node, startNode, copied.nodeChains[startNode])
    PROVE  LinearCopy(E)'
<1> DEFINE D == DOMAIN copied.nodeChains
           c == copied.nodeChains[startNode]
<1>1. ~Exhausted
  BY DEF Traverse, Enter, EnterSafely, EnterAlways, RejectCycle
<1>2. /\ DOMAIN copied = Fields /\ copied.impl.kind = "linear" /\ copied.impl.pos \in Nat
      /\ roots \subseteq RootsOf(E) /\ D = RootsOf(E) \ roots /\ Traversing(E)
      /\ \A q \in D : CopiedChain(E, q)
      /\ \A n \in DOMAIN copied.node2pos : PositionOK(copied, n)
  BY <1>1 DEF LinearCopy
<1>3. startNode \in D
  BY <1>2 DEF Traversing
<1>4. Going(E, c) /\ CopiedChain(E, startNode)
  BY <1>1, <1>2, <1>3 DEF LinearCopy
<1>5. /\ EnterSafely /\ Traversing(E)' /\ startNode' = startNode
      /\ traversalStack' = Pop \o Children
  BY <1>2, CopyEnters DEF EnterSafely
<1>6. node \in Nodes /\ distance \in Nat /\ distance < Far
  BY <1>1, <1>2, NothingRejected
<1>7. c \in Seq(Nodes) /\ Len(c) \in Nat /\ Len(c) >= 1 /\ c[1] = startNode
  BY <1>4, LenProperties DEF CopiedChain
<1>8. /\ Len(traversalStack) = 1
      /\ \/ node = startNode /\ distance = 0 /\ Len(c) = 1
         \/ distance = Len(c) /\ <<c[Len(c)], node>> \in E
  <2> HIDE DEF c
  <2>1. CASE traversalStack = <<<<startNode, 0>>>> /\ Len(c) = 1
    BY <2>1 DEF node, distance
  <2>2. ASSUME NEW n \in Nodes, traversalStack = <<<<n, Len(c)>>>>, <<c[Len(c)], n>> \in E
        PROVE  Len(traversalStack) = 1 /\ distance = Len(c) /\ <<c[Len(c)], node>> \in E
    <3>1. Len(traversalStack) = 1 /\ traversalStack[1] = <<n, Len(c)>>
      BY <2>2
    <3> QED
      BY <2>2, <3>1 DEF node, distance
  <2> QED
    BY <1>4, <2>1, <2>2 DEF Going
<1> DEFINE new == IF distance = 0 THEN c ELSE Append(c, node)
<1>9. /\ new \in Seq(Nodes) /\ Len(new) = distance + 1 /\ new[Len(new)] = node
  <2>1. CASE distance = 0
    BY <1>6, <1>7, <1>8, <2>1
  <2>2. CASE distance # 0
    BY <1>6, <1>7, <1>8, <2>2, AppendProperties
  <2> QED
    BY <2>1, <2>2
<1>10. /\ DOMAIN copied'.nodeChains = D /\ copied'.impl = copied.impl
       /\ DOMAIN copied' = Fields
       /\ \A q \in D : CopiedChain(E, q)'
       /\ \A m \in DOMAIN copied'.node2pos : PositionOK(copied, m)'
       /\ copied'.nodeChains[startNode] = new
       /\ \A q \in D \ {startNode} : copied'.nodeChains[q] = copied.nodeChains[q]
  <2>1. CASE distance = 0
    BY <1>2, <1>3, <2>1 DEF CopiedChain, PositionOK
  <2>2. CASE distance # 0
    <3>1. <<c[Len(c)], node>> \in E
      BY <1>6, <1>8, <2>2
    <3>2. node \notin DOMAIN copied.node2pos
      BY <1>3, <1>6, <3>1, NewOnChain
    <3>3. D \subseteq RootsOf(E) /\ startNode \in RootsOf(E) /\ Chain(node, startNode, c)
      BY <1>2, <1>3, <2>2
    <3>4. D \cup {startNode} = D
      BY <1>3
    <3>5. PICK before \in Seq(Nodes) : before = c
      BY <1>7
    <3>6. PICK X : X = DOMAIN copied.nodeChains
      OBVIOUS
    <3>7. PICK r : r = startNode
      OBVIOUS
    <3>8. /\ DOMAIN copied'.nodeChains = X \cup {r} /\ copied'.impl = copied.impl
          /\ DOMAIN copied' = Fields
          /\ \A q \in X \cup {r} : CopiedChain(E, q)'
          /\ \A m \in DOMAIN copied'.node2pos : PositionOK(copied, m)'
          /\ copied'.nodeChains[r] = Append(before, node)
          /\ \A q \in X \ {r} : copied'.nodeChains[q] = copied.nodeChains[q]
      <4>1. PICK n \in Nodes : n = node
        BY <1>6
      <4>2. /\ Chain(n, r, before) /\ <<before[Len(before)], n>> \in E /\ before = copied.nodeChains[r]
            /\ n \notin DOMAIN copied.node2pos /\ r \in X /\ X \subseteq RootsOf(E) /\ r \in RootsOf(E)
            /\ DOMAIN copied.nodeChains = X
        <5> HIDE DEF c
        <5>1. DOMAIN copied.nodeChains = X /\ X = D
          BY <3>6
        <5>2. Chain(n, r, before) /\ <<before[Len(before)], n>> \in E /\ n \notin DOMAIN copied.node2pos
          BY <3>1, <3>2, <3>3, <3>5, <3>7, <4>1
        <5>3. before = copied.nodeChains[r]
          BY <3>5, <3>7 DEF c
        <5>4. r \in X /\ X \subseteq RootsOf(E) /\ r \in RootsOf(E)
          BY <1>3, <3>3, <3>7, <5>1
        <5> QED
          BY <5>1, <5>2, <5>3, <5>4
      <4>3. /\ \A q \in X : CopiedChain(E, q)
            /\ \A m \in DOMAIN copied.node2pos : PositionOK(copied, m)
            /\ DOMAIN copied = Fields /\ copied.impl.pos \in Nat
        BY <1>2, <3>6
      <4> HIDE DEF D, c
      <4>4. /\ DOMAIN copied'.nodeChains = X \cup {r} /\ copied'.impl = copied.impl
            /\ DOMAIN copied' = Fields
            /\ \A q \in X \cup {r} : CopiedChain(E, q)'
            /\ \A m \in DOMAIN copied'.node2pos : PositionOK(copied, m)'
            /\ copied'.nodeChains[r] = Append(before, n)
            /\ \A q \in X \ {r} : copied'.nodeChains[q] = copied.nodeChains[q]
        BY <4>2, <4>3, ChainGrows
      <4> QED
        BY <4>1, <4>4
    <3> QED
      BY <2>2, <3>4, <3>5, <3>6, <3>7, <3>8
  <2> QED
    BY <2>1, <2>2
<1> HIDE DEF c, new
<1>11. CASE Pop \o Children = <<>> /\ \A t \in Nodes : <<node, t>> \notin E
  <2>1. Exhausted' /\ Ended(E, new)
    BY <1>5, <1>9, <1>11 DEF Exhausted, Ended
  <2>2. ASSUME NEW q \in D PROVE Ended(E, copied.nodeChains[q])'
    <3>1. CASE q = startNode
      BY <1>10, <2>1, <3>1 DEF Ended
    <3>2. CASE q # startNode
      BY <1>1, <1>10, <3>2 DEF Ended, LinearCopy
    <3> QED
      BY <3>1, <3>2
  <2> QED
    BY <1>2, <1>5, <1>10, <2>1, <2>2 DEF LinearCopy
<1>12. ASSUME NEW t \in Nodes, Pop \o Children = <<<<t, distance + 1>>>>, <<node, t>> \in E
       PROVE  LinearCopy(E)'
  <2>1. traversalStack' = <<<<t, Len(new)>>>> /\ <<new[Len(new)], t>> \in E
    BY <1>5, <1>9, <1>12
  <2>2. ~Exhausted'
    BY <2>1 DEF Exhausted
  <2>3. ASSUME NEW q \in D
        PROVE  IF q = startNode' /\ ~Exhausted' THEN Going(E, copied.nodeChains[q])'
                                                ELSE Ended(E, copied.nodeChains[q])'
    <3>1. CASE q = startNode
      BY <1>5, <1>10, <2>1, <2>2, <3>1 DEF Going
    <3>2. CASE q # startNode
      BY <1>1, <1>5, <1>10, <3>2 DEF Ended, LinearCopy
    <3> QED
      BY <3>1, <3>2
  <2> QED
    BY <1>2, <1>5, <1>10, <2>3 DEF LinearCopy
<1>13. maxDistance = Far
  BY <1>2 DEF Traversing
<1> QED
  BY <1>1, <1>2, <1>6, <1>8, <1>11, <1>12, <1>13, NextOfOne

----------------------------------------------------------------------------
(* A storage in pre- and post-order of the edges T.                         *)

EntryOK(x) == x.node \in Nodes /\ x.level \in Nat /\ x.pre \in Nat /\ x.post \in Nat /\ x.pre <= x.post

ChildrenBelow(s, T, x) ==
    \A n \in Nodes : <<x.node, n>> \in T =>
        \E y \in s.order : Below(x, y) /\ y.node = n /\ y.level = x.level + 1

ParentBelow(s, T, x, y) ==
    \E z \in s.order : Below(x, z) /\ y.level = z.level + 1 /\ <<z.node, y.node>> \in T

PrePostOK(s, T) ==
    /\ s.impl.kind = "prepost"
    /\ \A x \in s.order : EntryOK(x) /\ ChildrenBelow(s, T, x)
    /\ \A x, y \in s.order : Below(x, y) /\ x # y => ParentBelow(s, T, x, y)
    /\ \A e \in T : \E x \in s.order : x.node = e[1]
    /\ \A k \in Nat : \A w \in WalksOf(T, k) : Simple(w, k)

LEMMA BelowBelow ==
    ASSUME NEW x, NEW y, NEW z, EntryOK(x), EntryOK(y), EntryOK(z), Below(x, y), Below(y, z)
    PROVE  Below(x, z)
  BY DEF EntryOK, Below

LEMMA WalkDown ==
    ASSUME NEW s, NEW T \in SUBSET (Nodes \X Nodes), PrePostOK(s, T), NEW x \in s.order,
           NEW k \in Nat, NEW w \in WalksOf(T, k), w[0] = x.node
    PROVE  \E y \in s.order : Below(x, y) /\ y.node = w[k] /\ y.level = x.level + k
<1> DEFINE S == {i \in 0..k : \E y \in s.order : Below(x, y) /\ y.node = w[i] /\ y.level = x.level + i}
<1>0. \A y \in s.order : EntryOK(y) /\ ChildrenBelow(s, T, y)
  BY DEF PrePostOK
<1>1. 0 \in S
  <2>1. Below(x, x) /\ x.level = x.level + 0
    BY <1>0 DEF EntryOK, Below
  <2> QED
    BY <2>1
<1>2. \A i \in 0..(k - 1) : i \in S => i + 1 \in S
  <2> SUFFICES ASSUME NEW i \in 0..(k - 1), i \in S PROVE i + 1 \in S
    OBVIOUS
  <2>1. PICK y \in s.order : Below(x, y) /\ y.node = w[i] /\ y.level = x.level + i
    OBVIOUS
  <2>2. <<w[i], w[i + 1]>> \in T /\ i + 1 \in 0..k /\ w[i + 1] \in Nodes
    BY WalkIs
  <2>3. PICK z \in s.order : Below(y, z) /\ z.node = w[i + 1] /\ z.level = y.level + 1
    BY <1>0, <2>1, <2>2 DEF ChildrenBelow
  <2>4. Below(x, z)
    BY <1>0, <2>1, <2>3, BelowBelow
  <2>5. z.level = x.level + (i + 1)
    BY <1>0, <2>1, <2>3 DEF EntryOK
  <2> QED
    BY <2>2, <2>3, <2>4, <2>5
<1>3. 0..k \subseteq S
  <2> HIDE DEF S
  <2> QED
    BY <1>1, <1>2, UpTo
<1>4. k \in S
  <2> HIDE DEF S
  <2>1. k \in 0..k
    OBVIOUS
  <2> QED
    BY <1>3, <2>1
<1> QED
  BY <1>4

LEMMA WalkUp ==
    ASSUME NEW s, NEW T \in SUBSET (Nodes \X Nodes), PrePostOK(s, T),
           NEW x \in s.order, NEW y \in s.order, Below(x, y)
    PROVE  /\ y.level - x.level \in Nat
           /\ \E w \in WalksOf(T, y.level - x.level) :
                 w[0] = x.node /\ w[y.level - x.level] = y.node
<1> DEFINE Up(v) == /\ v.level - x.level \in Nat
                    /\ \E w \in WalksOf(T, v.level - x.level) :
                          w[0] = x.node /\ w[v.level - x.level] = v.node
           S == {l \in Nat : \A v \in s.order : v.level = l /\ Below(x, v) => Up(v)}
<1>0. \A v \in s.order : EntryOK(v) /\ v.level \in Nat /\ v.node \in Nodes
  BY DEF PrePostOK, EntryOK
<1>1. Up(x)
  <2>1. x.level - x.level = 0
    BY <1>0
  <2> QED
    BY <1>0, <2>1, AloneIs
<1>2. ASSUME NEW v \in s.order, Below(x, v), v # x
      PROVE  \E z \in s.order : /\ Below(x, z) /\ v.level = z.level + 1
                                /\ <<z.node, v.node>> \in T
  BY <1>2 DEF PrePostOK, ParentBelow
<1>3. 0 \in S
  <2> SUFFICES ASSUME NEW v \in s.order, v.level = 0, Below(x, v) PROVE Up(v)
    OBVIOUS
  <2>1. ASSUME v # x PROVE FALSE
    <3>1. PICK z \in s.order : Below(x, z) /\ v.level = z.level + 1 /\ <<z.node, v.node>> \in T
      BY <1>2, <2>1
    <3>2. z.level \in Nat
      BY <1>0
    <3> QED
      BY <3>1, <3>2
  <2> QED
    BY <1>1, <2>1
<1>4. \A l \in Nat : l \in S => l + 1 \in S
  <2> SUFFICES ASSUME NEW l \in Nat, l \in S, NEW v \in s.order, v.level = l + 1, Below(x, v)
               PROVE  Up(v)
    OBVIOUS
  <2>1. CASE v = x
    BY <1>1, <2>1
  <2>2. CASE v # x
    <3>1. PICK z \in s.order : Below(x, z) /\ v.level = z.level + 1 /\ <<z.node, v.node>> \in T
      BY <1>2, <2>2
    <3>2. z.level = l
      BY <1>0, <3>1
    <3>3. Up(z)
      BY <3>1, <3>2
    <3> DEFINE k == z.level - x.level
    <3>4. PICK w \in WalksOf(T, k) : w[0] = x.node /\ w[k] = z.node
      BY <3>3
    <3>5. k \in Nat /\ v.level - x.level = k + 1 /\ v.node \in Nodes
      BY <1>0, <3>1, <3>3
    <3> HIDE DEF k
    <3>6. /\ Further(w, k, v.node) \in WalksOf(T, k + 1)
          /\ Further(w, k, v.node)[k + 1] = v.node /\ Further(w, k, v.node)[0] = w[0]
      <4>1. 0 \in 0..k
        BY <3>5
      <4> QED
        BY <3>1, <3>4, <3>5, <4>1, FurtherIs
    <3> QED
      BY <3>4, <3>5, <3>6
  <2> QED
    BY <2>1, <2>2
<1>5. Nat \subseteq S
  <2> HIDE DEF S
  <2> QED
    BY <1>3, <1>4, AllNumbers
<1> QED
  BY <1>0, <1>5

LEMMA AbsIs == ASSUME NEW a \in Nat PROVE Abs(a) = a
  BY DEF Abs

\* Two entries of nodes, one below the other, for every walk.
LEMMA PrePostWalks ==
    ASSUME NEW s, NEW T \in SUBSET (Nodes \X Nodes), PrePostOK(s, T),
           NEW m \in Nodes, NEW n \in Nodes, NEW k \in Nat \ {0}
    PROVE  /\ (\E w \in WalksOf(T, k) : w[0] = m /\ w[k] = n) <=>
                 \E x, y \in s.order : x.node = m /\ y.node = n /\ Below(x, y) /\ y.level - x.level = k
           /\ (\E w \in WalksOf(T, k) : w[0] = m /\ w[k] = n) <=> k \in Distances(T, m, n)
<1>1. ASSUME NEW w \in WalksOf(T, k), w[0] = m, w[k] = n
      PROVE  \E x, y \in s.order : x.node = m /\ y.node = n /\ Below(x, y) /\ y.level - x.level = k
  <2>1. 0 \in 0..(k - 1)
    OBVIOUS
  <2>2. <<w[0], w[0 + 1]>> \in T
    BY <2>1, WalkIs
  <2>3. <<w[0], w[0 + 1]>>[1] = m
    BY <1>1
  <2>4. PICK x \in s.order : x.node = m
    BY <2>2, <2>3 DEF PrePostOK
  <2>5. PICK y \in s.order : Below(x, y) /\ y.node = w[k] /\ y.level = x.level + k
    BY <1>1, <2>4, WalkDown
  <2>6. x.level \in Nat
    BY DEF PrePostOK, EntryOK
  <2>7. y.level - x.level = k
    BY <2>5, <2>6
  <2> QED
    BY <1>1, <2>4, <2>5, <2>7
<1>2. ASSUME NEW x \in s.order, NEW y \in s.order, x.node = m, y.node = n, Below(x, y),
             y.level - x.level = k
      PROVE  \E w \in WalksOf(T, k) : w[0] = m /\ w[k] = n
  BY <1>2, WalkUp
<1>3. (\E w \in WalksOf(T, k) : w[0] = m /\ w[k] = n) <=> k \in Distances(T, m, n)
  BY DistancesIs DEF PrePostOK
<1> QED
  BY <1>1, <1>2, <1>3

LEMMA PrePostConnectedAgrees ==
    ASSUME NEW s, NEW T \in SUBSET (Nodes \X Nodes), PrePostOK(s, T),
           NEW m \in Nodes, NEW n \in Nodes, NEW min \in Nat \ {0}, NEW max \in Nat
    PROVE  PrePostConnected(s, m, n, min, max) <=> \E k \in Distances(T, m, n) : k \in min..max
<1>1. ASSUME PrePostConnected(s, m, n, min, max) PROVE \E k \in Distances(T, m, n) : k \in min..max
  <2>1. PICK x \in s.order : \E y \in s.order :
           x.node = m /\ y.node = n /\ Below(x, y) /\ Abs(y.level - x.level) \in min..max
    BY <1>1 DEF PrePostConnected
  <2>2. PICK y \in s.order :
           x.node = m /\ y.node = n /\ Below(x, y) /\ Abs(y.level - x.level) \in min..max
    BY <2>1
  <2>3. y.level - x.level \in Nat
    BY <2>2, WalkUp
  <2>4. y.level - x.level \in min..max /\ y.level - x.level \in Nat \ {0}
    BY <2>2, <2>3, AbsIs
  <2> QED
    BY <2>2, <2>4, PrePostWalks
<1>2. ASSUME NEW k \in Distances(T, m, n), k \in min..max PROVE PrePostConnected(s, m, n, min, max)
  <2>1. k \in Nat \ {0}
    BY <1>2
  <2>2. \E x, y \in s.order : x.node = m /\ y.node = n /\ Below(x, y) /\ y.level - x.level = k
    BY <2>1, PrePostWalks
  <2> QED
    BY <1>2, <2>1, <2>2, AbsIs DEF PrePostConnected
<1> QED
  BY <1>1, <1>2

LEMMA PrePostFindAgrees ==
    ASSUME NEW s, NEW T \in SUBSET (Nodes \X Nodes), PrePostOK(s, T),
           NEW m \in Nodes, NEW min \in Nat \ {0}, NEW max \in 0..Far
    PROVE  /\ Range(PrePostFind(s, m, min, max)) = Reached(T, m, min, max)
           /\ IsInjective(PrePostFind(s, m, min, max)) /\ PrePostFind(s, m, min, max) \in Seq(Nodes)
<1> DEFINE S == {n \in Nodes : \E x, y \in s.order :
                    /\ x.node = m /\ y.node = n
                    /\ x.pre <= y.pre /\ y.pre <= x.post /\ y.post <= x.post
                    /\ Abs(y.level - x.level) \in min..max}
<1>1. max \in Lengths /\ max \in Nat
  BY DFSAssumption DEF Lengths
<1>2. \A n \in Nodes : n \in Reached(T, m, min, max) <=>
         \E k \in min..max : \E w \in WalksOf(T, k) : w[0] = m /\ w[k] = n
  BY <1>1, ReachedIs
<1>3. ASSUME NEW n \in S PROVE n \in Reached(T, m, min, max)
  <2>1. PICK x \in s.order : \E y \in s.order :
           /\ x.node = m /\ y.node = n
           /\ x.pre <= y.pre /\ y.pre <= x.post /\ y.post <= x.post
           /\ Abs(y.level - x.level) \in min..max
    OBVIOUS
  <2>2. PICK y \in s.order :
           /\ x.node = m /\ y.node = n
           /\ x.pre <= y.pre /\ y.pre <= x.post /\ y.post <= x.post
           /\ Abs(y.level - x.level) \in min..max
    BY <2>1
  <2>3. Below(x, y)
    BY <2>2 DEF Below
  <2>4. y.level - x.level \in Nat
    BY <2>3, WalkUp
  <2>5. y.level - x.level \in min..max /\ y.level - x.level \in Nat \ {0}
    BY <2>2, <2>4, AbsIs
  <2>6. \E w \in WalksOf(T, y.level - x.level) : w[0] = m /\ w[y.level - x.level] = n
    BY <2>2, <2>3, WalkUp
  <2> QED
    BY <1>2, <2>5, <2>6
<1>4. ASSUME NEW n \in Nodes, n \in Reached(T, m, min, max) PROVE n \in S
  <2>1. PICK k \in min..max : \E w \in WalksOf(T, k) : w[0] = m /\ w[k] = n
    BY <1>2, <1>4
  <2>2. k \in Nat \ {0}
    OBVIOUS
  <2>3. PICK x \in s.order : \E y \in s.order :
           x.node = m /\ y.node = n /\ Below(x, y) /\ y.level - x.level = k
    BY <2>1, <2>2, PrePostWalks
  <2>4. PICK y \in s.order : x.node = m /\ y.node = n /\ Below(x, y) /\ y.level - x.level = k
    BY <2>3
  <2>5. EntryOK(x) /\ EntryOK(y)
    BY DEF PrePostOK
  <2>6. x.pre <= y.pre /\ y.pre <= x.post /\ y.post <= x.post
    BY <2>4, <2>5 DEF EntryOK, Below
  <2>7. Abs(y.level - x.level) \in min..max
    BY <2>2, <2>4, AbsIs
  <2> QED
    BY <2>4, <2>6, <2>7
<1>5. Reached(T, m, min, max) \subseteq Nodes
  BY DEF Reached
<1>6. PrePostFind(s, m, min, max) = SetToSeq(S)
  BY DEF PrePostFind
<1>7. S = Reached(T, m, min, max) /\ S \subseteq Nodes
  BY <1>3, <1>4, <1>5
<1> HIDE DEF S
<1>8. IsFiniteSet(S)
  BY <1>7, FS_Subset, StoragesAssumption
<1>9. Seq(S) \subseteq Seq(Nodes)
  BY <1>7
<1> QED
  BY <1>6, <1>7, <1>8, <1>9, SetToSeqIs

LEMMA PrePostDistanceAgrees ==
    ASSUME NEW s, NEW T \in SUBSET (Nodes \X Nodes), PrePostOK(s, T),
           NEW m \in Nodes, NEW n \in Nodes
    PROVE  IF PrePostDistance(s, m, n) = -1 THEN Distances(T, m, n) = {}
           ELSE PrePostDistance(s, m, n) \in Distances(T, m, n)
<1> DEFINE pairs   == {p \in s.order \X s.order : /\ p[1].node = m /\ p[2].node = n
                                               /\ Below(p[1], p[2])
                                               /\ p[2].level >= p[1].level}
           between == {p[2].level - p[1].level : p \in pairs}
<1>1. CASE m = n
  <2>1. PrePostDistance(s, m, n) = 0
    BY <1>1 DEF PrePostDistance
  <2>2. 0 \in Distances(T, m, n)
    BY <1>1, AloneIs, DistancesIs
  <2> QED
    BY <2>1, <2>2
<1>2. CASE m # n
  <2>1. PrePostDistance(s, m, n) = IF between = {} THEN -1 ELSE Min(between)
    BY <1>2 DEF PrePostDistance
  <2>2. ASSUME NEW p \in pairs
        PROVE  p[2].level - p[1].level \in Distances(T, m, n) /\ p[2].level - p[1].level \in Nat
    <3>1. p[1] \in s.order /\ p[2] \in s.order /\ p[1].node = m /\ p[2].node = n /\ Below(p[1], p[2])
      OBVIOUS
    <3> DEFINE k == p[2].level - p[1].level
    <3>2. k \in Nat /\ \E w \in WalksOf(T, k) : w[0] = m /\ w[k] = n
      BY <3>1, WalkUp
    <3> HIDE DEF k
    <3>3. k # 0
      BY <1>2, <3>2
    <3>4. k \in Distances(T, m, n)
      BY <3>2, <3>3, PrePostWalks
    <3> QED
      BY <3>2, <3>4 DEF k
  <2>3. between \subseteq Distances(T, m, n) /\ between \subseteq Nat
    <3> HIDE DEF pairs
    <3> QED
      BY <2>2
  <2>4. ASSUME NEW k \in Distances(T, m, n) PROVE between # {}
    <3>1. k \in Nat
      BY DistancesIs
    <3>2. k # 0
      <4>1. \E w \in WalksOf(T, k) : Simple(w, k) /\ w[0] = m /\ w[k] = n
        BY DistancesIs
      <4>2. PICK w \in WalksOf(T, k) : Simple(w, k) /\ w[0] = m /\ w[k] = n
        BY <4>1
      <4> QED
        BY <1>2, <4>2
    <3>3. PICK x \in s.order : \E y \in s.order :
             x.node = m /\ y.node = n /\ Below(x, y) /\ y.level - x.level = k
      BY <3>1, <3>2, PrePostWalks
    <3>4. PICK y \in s.order : x.node = m /\ y.node = n /\ Below(x, y) /\ y.level - x.level = k
      BY <3>3
    <3>5. x.level \in Nat /\ y.level \in Nat
      BY DEF PrePostOK, EntryOK
    <3>6. y.level >= x.level
      BY <3>1, <3>4, <3>5
    <3>7. <<x, y>> \in pairs
      BY <3>4, <3>6
    <3> HIDE DEF pairs
    <3> QED
      BY <3>7
  <2> HIDE DEF between
  <2>5. CASE between = {}
    BY <2>1, <2>4, <2>5
  <2>6. CASE between # {}
    <3>1. Min(between) \in between
      BY <2>3, <2>6, MinIs
    <3>2. Min(between) \in Nat
      BY <2>3, <3>1
    <3>3. Min(between) # -1
      BY <3>2
    <3> QED
      BY <2>1, <2>3, <2>6, <3>1, <3>3
  <2> QED
    BY <2>5, <2>6
<1> QED
  BY <1>1, <1>2

LEMMA PrePostShows ==
    ASSUME NEW s, NEW T \in SUBSET (Nodes \X Nodes), PrePostOK(s, T), 1 <= Far
    PROVE  Shown(OutgoingOf(s), T) /\ EdgesOf(s) = T
<1>1. ASSUME NEW n \in Nodes
      PROVE  /\ OutgoingOf(s)[n] \in Seq(Nodes) /\ Range(OutgoingOf(s)[n]) = Targets(T, n)
             /\ IsInjective(OutgoingOf(s)[n])
  <2>1. OutgoingOf(s)[n] = PrePostFind(s, n, 1, 1)
    BY DEF OutgoingOf, getOutgoingEdges, PrePostOK
  <2>2. 1 \in Nat \ {0} /\ 1 \in 0..Far
    BY DFSAssumption
  <2> QED
    BY <2>1, <2>2, PrePostFindAgrees, OneStep
<1>2. OutgoingOf(s) \in Graphs
  <2>1. OutgoingOf(s) = [n \in Nodes |-> OutgoingOf(s)[n]]
    BY DEF OutgoingOf
  <2> QED
    BY <1>1, <2>1 DEF Graphs
<1>3. Shown(OutgoingOf(s), T)
  BY <1>1, <1>2 DEF Shown
<1> QED
  BY <1>3, EdgesShown

----------------------------------------------------------------------------
(* Copying into a storage in pre- and post-order. An open node is on the     *)
(* stack of the copy; its entry is made when it is exited.                   *)
IsParent(E, z, y) == y.level = z.level + 1 /\ <<z.node, y.node>> \in Traversed(E)
Open == 1..Len(nodeStack)

EntriesOK(E) ==
    /\ currentOrder \in Nat /\ nodeStack \in Seq([node : Nodes, pre : Nat, level : Nat])
    /\ \A x \in copied.order : EntryOK(x) /\ x.post < currentOrder
    /\ \A i \in Open : /\ nodeStack[i].pre < currentOrder /\ nodeStack[i].level = i - 1
                       /\ Led(E, nodeStack[i].node)
    /\ \A i, j \in Open : i < j => nodeStack[i].pre < nodeStack[j].pre
    /\ \A i, j \in Open : j = i + 1 => <<nodeStack[i].node, nodeStack[j].node>> \in E

ParentsOK(E) ==
    /\ \A x, y \in copied.order : Below(x, y) /\ x # y =>
          \E z \in copied.order : Below(x, z) /\ IsParent(E, z, y)
    /\ \A i \in Open : \A y \in copied.order : nodeStack[i].pre <= y.pre =>
          \/ \E z \in copied.order : nodeStack[i].pre <= z.pre /\ IsParent(E, z, y)
          \/ \E k \in Open : i <= k /\ IsParent(E, nodeStack[k], y)

\* A child of the i-th open node waits on the stack of the traversal.
Awaits(i, n) ==
    \E h \in 1..Len(traversalStack) :
        traversalStack[h] = <<n, i>> \/ (i = 1 /\ traversalStack[h] = <<startNode, 0>>)

ChildrenOK(E) ==
    /\ \A x \in copied.order : \A n \in Nodes : <<x.node, n>> \in E =>
          \E y \in copied.order : Below(x, y) /\ y.node = n /\ y.level = x.level + 1
    /\ \A i \in Open : \A n \in Nodes : <<nodeStack[i].node, n>> \in E =>
          \/ \E y \in copied.order : nodeStack[i].pre <= y.pre /\ y.node = n /\ y.level = i
          \/ i + 1 \in Open /\ nodeStack[i + 1].node = n
          \/ Awaits(i, n)

\* The entry of an open node that is exited now, with all above it.
Closing(i) ==
    [node |-> nodeStack[i].node, pre |-> nodeStack[i].pre, level |-> nodeStack[i].level,
     post |-> currentOrder + Len(nodeStack) - i]
With(size) == copied.order \cup {Closing(i) : i \in (size + 1)..Len(nodeStack)}

LEMMA ClosingIs ==
    ASSUME NEW E, EntriesOK(E), NEW i \in Open
    PROVE  /\ EntryOK(Closing(i)) /\ Closing(i).node = nodeStack[i].node
           /\ Closing(i).pre = nodeStack[i].pre /\ Closing(i).level = i - 1 /\ i \in Nat \ {0}
           /\ nodeStack[i].level = i - 1 /\ nodeStack[i].node \in Nodes /\ nodeStack[i].pre \in Nat
           /\ Closing(i).post = currentOrder + Len(nodeStack) - i /\ Closing(i).post >= currentOrder
           /\ Closing(i).post < currentOrder + Len(nodeStack)
           /\ nodeStack[i].pre < currentOrder
<1>1. /\ Len(nodeStack) \in Nat /\ nodeStack[i] \in [node : Nodes, pre : Nat, level : Nat]
      /\ i \in Nat \ {0} /\ i <= Len(nodeStack) /\ currentOrder \in Nat
  <2>1. nodeStack \in Seq([node : Nodes, pre : Nat, level : Nat]) /\ currentOrder \in Nat
    BY DEF EntriesOK
  <2>2. Len(nodeStack) \in Nat /\ i \in 1..Len(nodeStack)
    BY <2>1 DEF Open
  <2>3. nodeStack[i] \in [node : Nodes, pre : Nat, level : Nat]
    BY <2>1, <2>2, ElementOfSeq
  <2> QED
    BY <2>1, <2>2, <2>3
<1>2. nodeStack[i].pre < currentOrder /\ nodeStack[i].level = i - 1
  BY DEF EntriesOK
<1>3. /\ Closing(i).node = nodeStack[i].node /\ Closing(i).pre = nodeStack[i].pre
      /\ Closing(i).level = nodeStack[i].level
      /\ Closing(i).post = currentOrder + Len(nodeStack) - i
  BY DEF Closing
<1>4. nodeStack[i].node \in Nodes /\ nodeStack[i].pre \in Nat
  BY <1>1
<1>5. currentOrder + Len(nodeStack) - i >= currentOrder /\ currentOrder + Len(nodeStack) - i \in Nat
      /\ i - 1 \in Nat /\ currentOrder + Len(nodeStack) - i < currentOrder + Len(nodeStack)
  BY <1>1
<1> QED
  BY <1>1, <1>2, <1>3, <1>4, <1>5 DEF EntryOK

LEMMA WithIs ==
    ASSUME NEW size \in Nat, NEW x
    PROVE  x \in With(size) <=> x \in copied.order \/ \E i \in Open : size < i /\ x = Closing(i)
BY DEF With, Open

LEMMA ClosingParents ==
    ASSUME NEW E \in SUBSET (Nodes \X Nodes), EntriesOK(E), ParentsOK(E), NEW size \in Nat
    PROVE  \A x, y \in With(size) : Below(x, y) /\ x # y =>
              \E z \in With(size) : Below(x, z) /\ IsParent(E, z, y)
<1> SUFFICES ASSUME NEW x \in With(size), NEW y \in With(size), Below(x, y), x # y
             PROVE  \E z \in With(size) : Below(x, z) /\ IsParent(E, z, y)
  OBVIOUS
<1>0. Len(nodeStack) \in Nat /\ currentOrder \in Nat
  BY DEF EntriesOK
<1>1. CASE x \in copied.order
  <2>1. x.post < currentOrder /\ x.post \in Nat
    BY <1>1 DEF EntriesOK, EntryOK
  <2>2. y \in copied.order
    <3> SUFFICES ASSUME NEW i \in Open, y = Closing(i) PROVE FALSE
      BY WithIs
    <3> QED
      BY <1>0, <2>1, ClosingIs DEF Below
  <2>3. PICK z \in copied.order : Below(x, z) /\ IsParent(E, z, y)
    BY <1>1, <2>2 DEF ParentsOK
  <2> QED
    BY <2>3, WithIs
<1>2. ASSUME NEW i \in Open, size < i, x = Closing(i)
      PROVE  \E z \in With(size) : Below(x, z) /\ IsParent(E, z, y)
  <2>0. x.pre = nodeStack[i].pre /\ x.post >= currentOrder /\ x.pre \in Nat /\ x.post \in Nat
        /\ x.post = currentOrder + Len(nodeStack) - i /\ i \in Nat \ {0}
    BY <1>0, <1>2, ClosingIs DEF EntryOK
  <2>a. ASSUME NEW k \in Open, i <= k
        PROVE  Closing(k) \in With(size) /\ Below(x, Closing(k))
    <3>1. k \in Nat \ {0} /\ size < k
      BY <1>2, <2>0, <2>a, ClosingIs
    <3>2. nodeStack[i].pre <= nodeStack[k].pre
      <4>1. CASE i = k
        BY <4>1, <2>0
      <4>2. CASE i < k
        <5>1. nodeStack[i].pre < nodeStack[k].pre
          BY <4>2 DEF EntriesOK
        <5> QED
          BY <5>1, <2>0, ClosingIs
      <4> QED
        BY <2>a, <2>0, <3>1, <4>1, <4>2
    <3>3. Closing(k).pre = nodeStack[k].pre /\ Closing(k).post = currentOrder + Len(nodeStack) - k
      BY ClosingIs
    <3>4. Closing(k).post <= x.post
      BY <1>0, <2>0, <2>a, <3>1, <3>3
    <3> QED
      BY <2>0, <3>1, <3>2, <3>3, <3>4, WithIs DEF Below
  <2>1. CASE y \in copied.order
    <3>1. nodeStack[i].pre <= y.pre
      BY <2>0 DEF Below
    <3>2. CASE \E z \in copied.order : nodeStack[i].pre <= z.pre /\ IsParent(E, z, y)
      <4>1. PICK z \in copied.order : nodeStack[i].pre <= z.pre /\ IsParent(E, z, y)
        BY <3>2
      <4>2. z.post < currentOrder /\ z.post \in Nat
        BY DEF EntriesOK, EntryOK
      <4>3. z.post <= x.post
        BY <1>0, <2>0, <4>2
      <4>4. Below(x, z)
        BY <2>0, <4>1, <4>3 DEF Below
      <4> QED
        BY <4>1, <4>4, WithIs
    <3>3. CASE \E k \in Open : i <= k /\ IsParent(E, nodeStack[k], y)
      <4>1. PICK k \in Open : i <= k /\ IsParent(E, nodeStack[k], y)
        BY <3>3
      <4>2. IsParent(E, Closing(k), y)
        BY <4>1, ClosingIs DEF IsParent
      <4> QED
        BY <2>a, <4>1, <4>2
    <3> QED
      BY <2>1, <3>1, <3>2, <3>3 DEF ParentsOK
  <2>2. ASSUME NEW j \in Open, y = Closing(j)
        PROVE  \E z \in With(size) : Below(x, z) /\ IsParent(E, z, y)
    <3>1. j \in Nat \ {0} /\ y.pre = nodeStack[j].pre /\ y.pre \in Nat
      BY <2>2, ClosingIs
    <3>2. i < j
      <4>1. i # j
        BY <1>2, <2>2
      <4>2. ASSUME j < i PROVE FALSE
        <5>1. nodeStack[j].pre < nodeStack[i].pre
          BY <4>2 DEF EntriesOK
        <5> QED
          BY <2>0, <3>1, <5>1 DEF Below
      <4> QED
        BY <2>0, <3>1, <4>1, <4>2
    <3> DEFINE k == j - 1
    <3>3. k \in Open /\ i <= k /\ j = k + 1 /\ k \in Nat \ {0}
      BY <1>0, <2>0, <3>1, <3>2 DEF Open
    <3> HIDE DEF k
    <3>4. <<nodeStack[k].node, nodeStack[j].node>> \in E /\ Led(E, nodeStack[k].node)
      BY <3>3 DEF EntriesOK
    <3>5. IsParent(E, Closing(k), y)
      <4>1. y.level = j - 1 /\ y.node = nodeStack[j].node /\ Closing(k).level = k - 1
            /\ Closing(k).node = nodeStack[k].node
        BY <2>2, <3>3, ClosingIs
      <4>2. y.level = Closing(k).level + 1
        BY <3>3, <4>1
      <4> QED
        BY <3>4, <4>1, <4>2 DEF IsParent, Traversed
    <3> QED
      BY <2>a, <3>3, <3>5
  <2> QED
    BY <2>1, <2>2, WithIs
<1> QED
  BY <1>1, <1>2, WithIs

LEMMA ClosingChildren ==
    ASSUME NEW E \in SUBSET (Nodes \X Nodes), EntriesOK(E), ChildrenOK(E), NEW size \in Nat,
           \A i \in Open : \A n \in Nodes : size < i => ~Awaits(i, n)
    PROVE  \A x \in With(size) : \A n \in Nodes : <<x.node, n>> \in E =>
              \E y \in With(size) : Below(x, y) /\ y.node = n /\ y.level = x.level + 1
<1> SUFFICES ASSUME NEW x \in With(size), NEW n \in Nodes, <<x.node, n>> \in E
             PROVE  \E y \in With(size) : Below(x, y) /\ y.node = n /\ y.level = x.level + 1
  OBVIOUS
<1>0. Len(nodeStack) \in Nat /\ currentOrder \in Nat
  BY DEF EntriesOK
<1>1. CASE x \in copied.order
  BY <1>1, WithIs DEF ChildrenOK
<1>2. ASSUME NEW i \in Open, size < i, x = Closing(i)
      PROVE  \E y \in With(size) : Below(x, y) /\ y.node = n /\ y.level = x.level + 1
  <2>1. /\ x.pre = nodeStack[i].pre /\ x.post >= currentOrder /\ x.post \in Nat /\ x.pre \in Nat
        /\ x.post = currentOrder + Len(nodeStack) - i /\ i \in Nat \ {0} /\ x.level = i - 1
        /\ x.node = nodeStack[i].node
    BY <1>0, <1>2, ClosingIs DEF EntryOK
  <2>2. x.level + 1 = i
    BY <2>1
  <2>3. CASE \E y \in copied.order : nodeStack[i].pre <= y.pre /\ y.node = n /\ y.level = i
    <3>1. PICK y \in copied.order : nodeStack[i].pre <= y.pre /\ y.node = n /\ y.level = i
      BY <2>3
    <3>2. y.post < currentOrder /\ y.post \in Nat
      BY DEF EntriesOK, EntryOK
    <3>3. y.post <= x.post
      BY <1>0, <2>1, <3>2
    <3> QED
      BY <2>1, <2>2, <3>1, <3>3, WithIs DEF Below
  <2>4. CASE i + 1 \in Open /\ nodeStack[i + 1].node = n
    <3> DEFINE j == i + 1
    <3>1. j \in Open /\ nodeStack[j].node = n /\ i < j /\ j \in Nat /\ size < j /\ j - 1 = i
      BY <1>2, <2>1, <2>4
    <3>2. /\ Closing(j).pre = nodeStack[j].pre /\ Closing(j).level = j - 1 /\ Closing(j).node = n
          /\ Closing(j).post = currentOrder + Len(nodeStack) - j /\ nodeStack[j].pre \in Nat
      BY <3>1, ClosingIs
    <3>3. nodeStack[i].pre < nodeStack[j].pre
      BY <3>1 DEF EntriesOK
    <3>4. Closing(j) \in With(size)
      BY <3>1, WithIs
    <3> HIDE DEF j
    <3>5. Closing(j).post <= x.post /\ x.pre <= Closing(j).pre
      BY <1>0, <2>1, <3>1, <3>2, <3>3
    <3> QED
      BY <2>2, <3>1, <3>2, <3>4, <3>5 DEF Below
  <2> QED
    BY <1>2, <2>1, <2>3, <2>4 DEF ChildrenOK
<1> QED
  BY <1>1, <1>2, WithIs

RootsCopied(E) ==
    \A r \in RootsOf(E) \ roots :
        (\E x \in copied.order : x.node = r) \/ (\E i \in Open : nodeStack[i].node = r)

\* The walks that have been entered: there are two numbers for each.
Visited(E, D) ==
    /\ D \in SUBSET RootWalks(E) /\ IsFiniteSet(D)
    /\ currentOrder + Len(nodeStack) = 2 * Cardinality(D)
    /\ \A x \in D : x[2][0] \notin roots /\ (x[1] = 0 \/ ~Waits(x[2], x[1]))
Counted(E) == \E D \in SUBSET RootWalks(E) : Visited(E, D)

Roomy(E) ==
    /\ copied.impl.order \in Nat /\ copied.impl.level \in Nat
    /\ IsFiniteSet(RootWalks(E)) /\ 2 * Cardinality(RootWalks(E)) <= copied.impl.order
    /\ \A x \in RootWalks(E) : x[1] <= copied.impl.level

LEMMA RoomLeft ==
    ASSUME NEW E, EntriesOK(E), Roomy(E), NEW D, Visited(E, D)
    PROVE  /\ currentOrder + Len(nodeStack) <= copied.impl.order
           /\ \A x \in RootWalks(E) \ D :
                 /\ currentOrder + Len(nodeStack) + 2 <= copied.impl.order
                 /\ IsFiniteSet(D \cup {x}) /\ Cardinality(D) \in Nat
                 /\ Cardinality(D \cup {x}) = Cardinality(D) + 1
<1>1. Cardinality(RootWalks(E)) \in Nat /\ Cardinality(D) \in Nat
  BY FS_CardinalityType DEF Roomy, Visited
<1>2. Cardinality(D) <= Cardinality(RootWalks(E))
  BY FS_Subset DEF Roomy, Visited
<1>3. /\ Len(nodeStack) \in Nat /\ currentOrder \in Nat /\ copied.impl.order \in Nat
      /\ 2 * Cardinality(RootWalks(E)) <= copied.impl.order
      /\ currentOrder + Len(nodeStack) = 2 * Cardinality(D)
  BY DEF EntriesOK, Roomy, Visited
<1>4. currentOrder + Len(nodeStack) <= copied.impl.order
  BY <1>1, <1>2, <1>3
<1>5. ASSUME NEW x \in RootWalks(E) \ D
      PROVE  /\ currentOrder + Len(nodeStack) + 2 <= copied.impl.order
             /\ IsFiniteSet(D \cup {x}) /\ Cardinality(D \cup {x}) = Cardinality(D) + 1
  <2>1. IsFiniteSet(D \cup {x}) /\ Cardinality(D \cup {x}) = Cardinality(D) + 1
    BY FS_AddElement DEF Visited
  <2>2. Cardinality(D \cup {x}) <= Cardinality(RootWalks(E))
    <3>1. D \cup {x} \subseteq RootWalks(E)
      BY DEF Visited
    <3> QED
      BY <3>1, FS_Subset DEF Roomy
  <2> QED
    BY <1>1, <1>3, <2>1, <2>2
<1> QED
  BY <1>1, <1>4, <1>5

LEMMA ExitedIs ==
    ASSUME NEW E, EntriesOK(E), copied.impl.order \in Nat,
           currentOrder + Len(nodeStack) <= copied.impl.order, NEW size \in Nat
    PROVE  copied.order \cup Exited(size) = With(size)
<1>1. ASSUME NEW i \in (size + 1)..Len(nodeStack)
      PROVE  [node  |-> nodeStack[i].node, pre |-> nodeStack[i].pre, level |-> nodeStack[i].level,
              post  |-> Unsigned(currentOrder + Len(nodeStack) - i, copied.impl.order)] = Closing(i)
  <2>1. Len(nodeStack) \in Nat /\ currentOrder \in Nat
    BY DEF EntriesOK
  <2>2. /\ currentOrder + Len(nodeStack) - i \in Nat
        /\ currentOrder + Len(nodeStack) - i <= copied.impl.order
    BY <2>1
  <2>3. Unsigned(currentOrder + Len(nodeStack) - i, copied.impl.order)
           = currentOrder + Len(nodeStack) - i
    <3> DEFINE a == currentOrder + Len(nodeStack) - i
    <3>1. a \in Nat /\ a <= copied.impl.order
      BY <2>2
    <3> HIDE DEF a
    <3>2. Unsigned(a, copied.impl.order) = a
      BY <3>1, NoWrap
    <3> QED
      BY <3>2 DEF a
  <2> QED
    BY <2>3 DEF Closing
<1>2. Exited(size) = {Closing(i) : i \in (size + 1)..Len(nodeStack)}
  BY <1>1 DEF Exited
<1> QED
  BY <1>2 DEF With

\* The node n is opened at distance d.
Opened(n, d) == [node |-> n, pre |-> currentOrder + Len(nodeStack) - d, level |-> d]

\* What Order does when no number is too large.
Ordered(n, d) ==
    /\ DOMAIN copied' = Fields /\ copied'.impl = copied.impl /\ copied'.order = With(d)
    /\ nodeStack' \in Seq([node : Nodes, pre : Nat, level : Nat])
    /\ Len(nodeStack') = d + 1
    /\ \A i \in 1..d : nodeStack'[i] = nodeStack[i] /\ i \in Open
    /\ nodeStack'[d + 1] = Opened(n, d)
    /\ currentOrder' = currentOrder + Len(nodeStack) - d + 1
    /\ currentOrder' \in Nat /\ currentOrder' + Len(nodeStack') = currentOrder + Len(nodeStack) + 2

LEMMA OrderIs ==
    ASSUME NEW E, EntriesOK(E), DOMAIN copied = Fields,
           copied.impl.order \in Nat, copied.impl.level \in Nat,
           currentOrder + Len(nodeStack) + 2 <= copied.impl.order,
           NEW d \in Nat, d <= Len(nodeStack), d <= copied.impl.level, NEW n \in Nodes,
           Order(n, d)
    PROVE  Ordered(n, d)
<1> DEFINE L == Len(nodeStack)
           S == [node : Nodes, pre : Nat, level : Nat]
           size == IF L < d THEN L ELSE d
           next == currentOrder + L - size
<1>1. L \in Nat /\ currentOrder \in Nat /\ nodeStack \in Seq(S)
  BY DEF EntriesOK
<1>2. size = d
  BY <1>1
<1>3. next = currentOrder + L - d /\ next \in Nat /\ next + 1 \in Nat /\ next + 1 <= copied.impl.order
      /\ next <= copied.impl.order
  <2>1. next = currentOrder + L - d
    BY <1>2
  <2> HIDE DEF next
  <2>2. copied.impl.order \in Nat
    OBVIOUS
  <2> QED
    BY <1>1, <2>1, <2>2
<1>4. Unsigned(next, copied.impl.order) = next /\ Unsigned(next + 1, copied.impl.order) = next + 1
  <2> HIDE DEF next
  <2> QED
    BY <1>3, NoWrap
<1>5. Signed(d, copied.impl.level) = d
  BY NoSignedWrap
<1> DEFINE top == [node |-> n, pre |-> Unsigned(next, copied.impl.order),
                   level |-> Signed(d, copied.impl.level)]
<1>6. /\ copied' = [copied EXCEPT !.order = @ \cup Exited(size)]
      /\ nodeStack' = SubSeq(nodeStack, 1, size) \o <<top>>
      /\ currentOrder' = Unsigned(next + 1, copied.impl.order)
  BY DEF Order
<1>7. top = Opened(n, d) /\ top \in S
  <2>1. top = [node |-> n, pre |-> next, level |-> d]
    BY <1>4, <1>5
  <2>2. [node |-> n, pre |-> next, level |-> d] = Opened(n, d)
    BY <1>3 DEF Opened
  <2>3. [node |-> n, pre |-> next, level |-> d] \in S
    BY <1>3
  <2> QED
    BY <2>1, <2>2, <2>3
<1>8. copied'.order = With(d) /\ DOMAIN copied' = Fields /\ copied'.impl = copied.impl
  <2>1. currentOrder + Len(nodeStack) <= copied.impl.order
    BY <1>1
  <2>2. copied.order \cup Exited(d) = With(d)
    BY <2>1, ExitedIs
  <2>3. copied' = [copied EXCEPT !.order = @ \cup Exited(d)]
    BY <1>2, <1>6
  <2> QED
    BY <2>2, <2>3 DEF Fields
<1> DEFINE b == SubSeq(nodeStack, 1, d)
<1>9. b \in Seq(S) /\ Len(b) = d /\ \A i \in 1..d : b[i] = nodeStack[i] /\ i \in Open
  <2> HIDE DEF S
  <2>1. 1 \in 1..(L + 1) /\ d \in 0..L
    BY <1>1
  <2>2. \A i \in 1..d : i \in 1..L
    BY <1>1
  <2>3. b \in Seq(S) /\ Len(b) = IF 1 <= d THEN d - 1 + 1 ELSE 0
    BY <1>1, <2>1, SubSeqProperties
  <2>4. Len(b) = d
    BY <2>3
  <2>5. \A i \in 1..d : b[i] = nodeStack[i]
    BY <1>1, <2>2, <2>3
  <2> QED
    BY <2>2, <2>3, <2>4, <2>5 DEF Open
<1>10. nodeStack' = b \o <<top>>
  BY <1>2, <1>6
<1> HIDE DEF b, top, next, size
<1>11. /\ nodeStack' \in Seq(S) /\ Len(nodeStack') = d + 1 /\ nodeStack'[d + 1] = top
       /\ \A i \in 1..d : nodeStack'[i] = b[i]
  <2> HIDE DEF S
  <2>1. <<top>> \in Seq(S) /\ Len(<<top>>) = 1
    BY <1>7
  <2>2. b \o <<top>> \in Seq(S) /\ Len(b \o <<top>>) = d + 1
    BY <1>9, <2>1
  <2>3. (b \o <<top>>)[d + 1] = top
    BY <1>9, <2>1
  <2>4. \A i \in 1..d : (b \o <<top>>)[i] = b[i]
    BY <1>9, <2>1
  <2> QED
    BY <1>10, <2>2, <2>3, <2>4
<1>12. currentOrder' = currentOrder + L - d + 1 /\ currentOrder' \in Nat
       /\ currentOrder' + Len(nodeStack') = currentOrder + L + 2
  <2>1. currentOrder' = next + 1
    BY <1>4, <1>6
  <2> QED
    BY <1>1, <1>3, <1>11, <2>1
<1> QED
  BY <1>7, <1>8, <1>9, <1>11, <1>12 DEF Ordered

LEMMA NewOpen ==
    ASSUME NEW E, EntriesOK(E), NEW n \in Nodes, NEW d \in Nat, d <= Len(nodeStack), Ordered(n, d)
    PROVE  /\ Open' = 1..(d + 1)
           /\ \A i \in Open' : i \in Nat \ {0} /\ (i \in 1..d \/ i = d + 1)
           /\ \A i \in 1..d : i \in Open /\ i \in Open' /\ nodeStack'[i] = nodeStack[i]
           /\ d + 1 \in Open' /\ nodeStack'[d + 1].node = n /\ nodeStack'[d + 1].level = d
           /\ nodeStack'[d + 1].pre = currentOrder + Len(nodeStack) - d
           /\ currentOrder + Len(nodeStack) - d >= currentOrder
           /\ nodeStack'[d + 1].pre < currentOrder' /\ currentOrder <= currentOrder'
           /\ \A x \in With(d) : EntryOK(x) /\ x.post < nodeStack'[d + 1].pre
<1>1. Len(nodeStack) \in Nat /\ currentOrder \in Nat
  BY DEF EntriesOK
<1>2. Open' = 1..(d + 1)
  BY DEF Open, Ordered
<1>3. nodeStack'[d + 1] = Opened(n, d)
  BY DEF Ordered
<1>4. /\ nodeStack'[d + 1].node = n /\ nodeStack'[d + 1].level = d
      /\ nodeStack'[d + 1].pre = currentOrder + Len(nodeStack) - d
  BY <1>3 DEF Opened
<1>5. currentOrder' = currentOrder + Len(nodeStack) - d + 1
  BY DEF Ordered
<1>6. ASSUME NEW x \in With(d) PROVE EntryOK(x) /\ x.post < nodeStack'[d + 1].pre
  <2>1. CASE x \in copied.order
    <3>1. EntryOK(x) /\ x.post < currentOrder /\ x.post \in Nat
      BY <2>1 DEF EntriesOK, EntryOK
    <3> QED
      BY <1>1, <1>4, <3>1
  <2>2. ASSUME NEW i \in Open, d < i, x = Closing(i) PROVE EntryOK(x) /\ x.post < nodeStack'[d + 1].pre
    <3>1. EntryOK(x) /\ x.post = currentOrder + Len(nodeStack) - i /\ i \in Nat
      BY <2>2, ClosingIs
    <3> QED
      BY <1>1, <1>4, <2>2, <3>1
  <2> QED
    BY <2>1, <2>2, WithIs
<1>7. \A i \in 1..d : i \in Open /\ i \in 1..(d + 1) /\ nodeStack'[i] = nodeStack[i]
  BY DEF Ordered
<1>8. \A i \in 1..(d + 1) : i \in Nat \ {0} /\ (i \in 1..d \/ i = d + 1)
  OBVIOUS
<1>9. /\ currentOrder + Len(nodeStack) - d >= currentOrder
      /\ nodeStack'[d + 1].pre < currentOrder' /\ currentOrder <= currentOrder'
  BY <1>1, <1>4, <1>5
<1>10. d + 1 \in 1..(d + 1)
  OBVIOUS
<1> QED
  BY <1>2, <1>4, <1>6, <1>7, <1>8, <1>9, <1>10

LEMMA OrderEntries ==
    ASSUME NEW E, EntriesOK(E), NEW n \in Nodes, NEW d \in Nat, d <= Len(nodeStack), Ordered(n, d),
           Led(E, n), d > 0 => <<nodeStack[d].node, n>> \in E
    PROVE  EntriesOK(E)'
<1>a. /\ Open' = 1..(d + 1)
      /\ \A i \in Open' : i \in Nat \ {0} /\ (i \in 1..d \/ i = d + 1)
      /\ \A i \in 1..d : i \in Open /\ i \in Open' /\ nodeStack'[i] = nodeStack[i]
      /\ d + 1 \in Open' /\ nodeStack'[d + 1].node = n /\ nodeStack'[d + 1].level = d
      /\ nodeStack'[d + 1].pre = currentOrder + Len(nodeStack) - d
      /\ currentOrder + Len(nodeStack) - d >= currentOrder
      /\ nodeStack'[d + 1].pre < currentOrder' /\ currentOrder <= currentOrder'
      /\ \A x \in With(d) : EntryOK(x) /\ x.post < nodeStack'[d + 1].pre
  BY NewOpen
<1> USE <1>a
<1>0. Len(nodeStack) \in Nat /\ currentOrder \in Nat
  BY DEF EntriesOK
<1>1. currentOrder' \in Nat /\ nodeStack' \in Seq([node : Nodes, pre : Nat, level : Nat])
  BY DEF Ordered
<1>2. \A x \in copied'.order : EntryOK(x) /\ x.post < currentOrder'
  <2> SUFFICES ASSUME NEW x \in With(d) PROVE EntryOK(x) /\ x.post < currentOrder'
    BY DEF Ordered
  <2>1. EntryOK(x) /\ x.post < nodeStack'[d + 1].pre /\ nodeStack'[d + 1].pre < currentOrder'
        /\ nodeStack'[d + 1].pre = currentOrder + Len(nodeStack) - d
    OBVIOUS
  <2>2. x.post \in Nat
    BY <2>1 DEF EntryOK
  <2> QED
    BY <1>0, <1>1, <2>1, <2>2
<1>3. \A i \in 1..d : /\ nodeStack[i].pre < currentOrder /\ nodeStack[i].level = i - 1
                      /\ Led(E, nodeStack[i].node) /\ nodeStack[i].pre \in Nat
  BY ClosingIs DEF EntriesOK
<1>4. \A i \in Open' : /\ nodeStack'[i].pre < currentOrder' /\ nodeStack'[i].level = i - 1
                       /\ Led(E, nodeStack'[i].node)
  <2> SUFFICES ASSUME NEW i \in Open'
               PROVE  /\ nodeStack'[i].pre < currentOrder' /\ nodeStack'[i].level = i - 1
                      /\ Led(E, nodeStack'[i].node)
    OBVIOUS
  <2>1. CASE i \in 1..d
    <3>1. nodeStack'[i] = nodeStack[i] /\ currentOrder <= currentOrder'
      BY <2>1
    <3>2. /\ nodeStack[i].pre < currentOrder /\ nodeStack[i].level = i - 1
          /\ Led(E, nodeStack[i].node) /\ nodeStack[i].pre \in Nat
      BY <1>3, <2>1
    <3>3. nodeStack[i].pre < currentOrder'
      BY <1>0, <1>1, <3>1, <3>2
    <3> QED
      BY <3>1, <3>2, <3>3
  <2>2. CASE i = d + 1
    <3>1. nodeStack'[i].node = n /\ nodeStack'[i].level = d /\ nodeStack'[i].pre < currentOrder'
      BY <2>2
    <3> QED
      BY <2>2, <3>1
  <2> QED
    BY <2>1, <2>2
<1>5. \A i, j \in Open' : i < j => nodeStack'[i].pre < nodeStack'[j].pre
  <2> SUFFICES ASSUME NEW i \in Open', NEW j \in Open', i < j
               PROVE  nodeStack'[i].pre < nodeStack'[j].pre
    OBVIOUS
  <2>0. i \in Nat /\ j \in Nat /\ (i \in 1..d \/ i = d + 1) /\ (j \in 1..d \/ j = d + 1)
    OBVIOUS
  <2>1. i \in 1..d
    BY <2>0
  <2>2. CASE j \in 1..d
    <3>1. nodeStack[i].pre < nodeStack[j].pre
      BY <2>1, <2>2 DEF EntriesOK
    <3> QED
      BY <2>1, <2>2, <3>1
  <2>3. CASE j = d + 1
    <3>1. nodeStack'[j].pre >= currentOrder /\ nodeStack'[j].pre = currentOrder + Len(nodeStack) - d
      BY <2>3
    <3>2. nodeStack'[i].pre < currentOrder /\ nodeStack'[i].pre \in Nat
      BY <1>3, <2>1
    <3> QED
      BY <1>0, <3>1, <3>2
  <2> QED
    BY <2>0, <2>2, <2>3
<1>6. \A i, j \in Open' : j = i + 1 => <<nodeStack'[i].node, nodeStack'[j].node>> \in E
  <2> SUFFICES ASSUME NEW i \in Open', NEW j \in Open', j = i + 1
               PROVE  <<nodeStack'[i].node, nodeStack'[j].node>> \in E
    OBVIOUS
  <2>0. i \in Nat \ {0} /\ j \in Nat /\ (i \in 1..d \/ i = d + 1) /\ (j \in 1..d \/ j = d + 1)
    OBVIOUS
  <2>1. i \in 1..d
    BY <2>0
  <2>2. CASE j \in 1..d
    <3>1. <<nodeStack[i].node, nodeStack[j].node>> \in E
      BY <2>1, <2>2 DEF EntriesOK
    <3> QED
      BY <2>1, <2>2, <3>1
  <2>3. CASE j = d + 1
    <3>1. i = d /\ d > 0
      BY <2>0, <2>3
    <3>2. nodeStack'[i] = nodeStack[d] /\ nodeStack'[j].node = n
      BY <2>1, <2>3, <3>1
    <3> QED
      BY <3>1, <3>2
  <2> QED
    BY <2>0, <2>2, <2>3
<1> QED
  BY <1>1, <1>2, <1>4, <1>5, <1>6 DEF EntriesOK

LEMMA OrderParents ==
    ASSUME NEW E \in SUBSET (Nodes \X Nodes), EntriesOK(E), ParentsOK(E), NEW n \in Nodes,
           NEW d \in Nat, d <= Len(nodeStack), Ordered(n, d),
           Led(E, n), d > 0 => <<nodeStack[d].node, n>> \in E
    PROVE  ParentsOK(E)'
<1>a. /\ Open' = 1..(d + 1)
      /\ \A i \in Open' : i \in Nat \ {0} /\ (i \in 1..d \/ i = d + 1)
      /\ \A i \in 1..d : i \in Open /\ i \in Open' /\ nodeStack'[i] = nodeStack[i]
      /\ d + 1 \in Open' /\ nodeStack'[d + 1].node = n /\ nodeStack'[d + 1].level = d
      /\ nodeStack'[d + 1].pre = currentOrder + Len(nodeStack) - d
      /\ currentOrder + Len(nodeStack) - d >= currentOrder
      /\ nodeStack'[d + 1].pre < currentOrder' /\ currentOrder <= currentOrder'
      /\ \A x \in With(d) : EntryOK(x) /\ x.post < nodeStack'[d + 1].pre
  BY NewOpen
<1> USE <1>a
<1>0. Len(nodeStack) \in Nat /\ currentOrder \in Nat /\ copied'.order = With(d)
  BY DEF EntriesOK, Ordered
<1>1. \A x, y \in With(d) : Below(x, y) /\ x # y =>
          \E z \in With(d) : Below(x, z) /\ IsParent(E, z, y)
  BY ClosingParents
<1>2. ASSUME NEW i \in Open', NEW y \in With(d), nodeStack'[i].pre <= y.pre
      PROVE  \/ \E z \in With(d) : nodeStack'[i].pre <= z.pre /\ IsParent(E, z, y)
             \/ \E k \in Open' : i <= k /\ IsParent(E, nodeStack'[k], y)
  <2>1. CASE i = d + 1
    <3>1. y.pre <= y.post /\ y.pre \in Nat /\ y.post \in Nat /\ y.post < nodeStack'[i].pre
      BY <2>1 DEF EntryOK
    <3>2. nodeStack'[i].pre = currentOrder + Len(nodeStack) - d
      BY <2>1
    <3> QED
      BY <1>0, <1>2, <3>1, <3>2
  <2>2. CASE i \in 1..d
    <3>0. nodeStack'[i] = nodeStack[i] /\ i \in Open
      BY <2>2
    <3>a. ASSUME NEW k \in Open, i <= k, IsParent(E, nodeStack[k], y)
          PROVE  \/ \E z \in With(d) : nodeStack'[i].pre <= z.pre /\ IsParent(E, z, y)
                 \/ \E j \in Open' : i <= j /\ IsParent(E, nodeStack'[j], y)
      <4>0. k \in Nat \ {0} /\ i \in Nat \ {0}
        BY <3>0, ClosingIs
      <4>1. CASE k <= d
        <5>1. k \in 1..d
          BY <4>0, <4>1
        <5>2. k \in Open' /\ nodeStack'[k] = nodeStack[k]
          BY <5>1
        <5> QED
          BY <3>a, <5>2
      <4>2. CASE d < k
        <5>1. Closing(k) \in With(d)
          BY <4>2, WithIs
        <5>2. IsParent(E, Closing(k), y) /\ Closing(k).pre = nodeStack[k].pre
          BY <3>a, ClosingIs DEF IsParent
        <5>3. i < k
          BY <2>2, <4>0, <4>2
        <5>4. nodeStack[i].pre < nodeStack[k].pre
          BY <3>0, <5>3 DEF EntriesOK
        <5>5. nodeStack[i].pre <= Closing(k).pre
          <6>1. nodeStack[i].pre \in Nat /\ nodeStack[k].pre \in Nat
            BY <3>0, ClosingIs
          <6> QED
            BY <5>2, <5>4, <6>1
        <5> QED
          BY <3>0, <5>1, <5>2, <5>5
      <4> QED
        BY <4>0, <4>1, <4>2
    <3>1. CASE y \in copied.order
      <4>1. \/ \E z \in copied.order : nodeStack[i].pre <= z.pre /\ IsParent(E, z, y)
            \/ \E k \in Open : i <= k /\ IsParent(E, nodeStack[k], y)
        BY <1>2, <3>0, <3>1 DEF ParentsOK
      <4> QED
        BY <3>0, <3>a, <4>1, WithIs
    <3>2. ASSUME NEW j \in Open, d < j, y = Closing(j)
          PROVE  \/ \E z \in With(d) : nodeStack'[i].pre <= z.pre /\ IsParent(E, z, y)
                 \/ \E k \in Open' : i <= k /\ IsParent(E, nodeStack'[k], y)
      <4> DEFINE k == j - 1
      <4>0. j \in Nat \ {0} /\ j <= Len(nodeStack)
        BY <1>0, ClosingIs DEF Open
      <4>1. k \in Open /\ i <= k /\ j = k + 1
        BY <1>0, <2>2, <3>2, <4>0 DEF Open
      <4> HIDE DEF k
      <4>2. <<nodeStack[k].node, nodeStack[j].node>> \in E /\ Led(E, nodeStack[k].node)
        BY <4>1 DEF EntriesOK
      <4>3. y.level = j - 1 /\ y.node = nodeStack[j].node /\ nodeStack[k].level = k - 1
            /\ k \in Nat \ {0}
        BY <3>2, <4>1, ClosingIs
      <4>4. y.level = nodeStack[k].level + 1
        BY <4>1, <4>3
      <4>5. IsParent(E, nodeStack[k], y)
        BY <4>2, <4>3, <4>4 DEF IsParent, Traversed
      <4> QED
        BY <3>a, <4>1, <4>5
    <3> QED
      BY <3>1, <3>2, WithIs
  <2> QED
    BY <2>1, <2>2
<1>3. \A i \in Open' : \A y \in With(d) : nodeStack'[i].pre <= y.pre =>
             \/ \E z \in With(d) : nodeStack'[i].pre <= z.pre /\ IsParent(E, z, y)
             \/ \E k \in Open' : i <= k /\ IsParent(E, nodeStack'[k], y)
  BY <1>2
<1>4. ParentsOK(E)' <=>
        /\ \A x, y \in copied'.order : Below(x, y) /\ x # y =>
              \E z \in copied'.order : Below(x, z) /\ IsParent(E, z, y)
        /\ \A i \in Open' : \A y \in copied'.order : nodeStack'[i].pre <= y.pre =>
              \/ \E z \in copied'.order : nodeStack'[i].pre <= z.pre /\ IsParent(E, z, y)
              \/ \E k \in Open' : i <= k /\ IsParent(E, nodeStack'[k], y)
  BY DEF ParentsOK
<1> QED
  BY <1>0, <1>1, <1>3, <1>4

LEMMA OrderChildren ==
    ASSUME NEW E \in SUBSET (Nodes \X Nodes), EntriesOK(E), ChildrenOK(E), NEW n \in Nodes,
           NEW d \in Nat, d <= Len(nodeStack), Ordered(n, d),
           \A i \in Open : \A m \in Nodes : d < i => ~Awaits(i, m),
           \A i \in 1..d : \A m \in Nodes : Awaits(i, m) => Awaits(i, m)' \/ (i = d /\ m = n),
           \A m \in Nodes : <<n, m>> \in E => Awaits(d + 1, m)'
    PROVE  ChildrenOK(E)'
<1>a. /\ Open' = 1..(d + 1)
      /\ \A i \in Open' : i \in Nat \ {0} /\ (i \in 1..d \/ i = d + 1)
      /\ \A i \in 1..d : i \in Open /\ i \in Open' /\ nodeStack'[i] = nodeStack[i]
      /\ d + 1 \in Open' /\ nodeStack'[d + 1].node = n
  BY NewOpen
<1>0. copied'.order = With(d) /\ Len(nodeStack) \in Nat
  BY DEF Ordered, EntriesOK
<1>1. \A x \in With(d) : \A m \in Nodes : <<x.node, m>> \in E =>
          \E y \in With(d) : Below(x, y) /\ y.node = m /\ y.level = x.level + 1
  BY ClosingChildren
<1>2. ASSUME NEW i \in Open', NEW m \in Nodes, <<nodeStack'[i].node, m>> \in E
      PROVE  \/ \E y \in With(d) : nodeStack'[i].pre <= y.pre /\ y.node = m /\ y.level = i
             \/ i + 1 \in Open' /\ nodeStack'[i + 1].node = m
             \/ Awaits(i, m)'
  <2>1. CASE i = d + 1
    BY <1>a, <1>2, <2>1
  <2>2. CASE i \in 1..d
    <3>0. i \in Open /\ nodeStack'[i] = nodeStack[i] /\ i \in Nat \ {0}
      BY <1>a, <2>2
    <3>1. CASE \E y \in copied.order : nodeStack[i].pre <= y.pre /\ y.node = m /\ y.level = i
      BY <3>0, <3>1, WithIs
    <3>2. CASE i + 1 \in Open /\ nodeStack[i + 1].node = m
      <4>1. CASE i < d
        <5>1. i + 1 \in 1..d
          BY <2>2, <4>1
        <5>2. i + 1 \in Open' /\ nodeStack'[i + 1] = nodeStack[i + 1]
          BY <1>a, <5>1
        <5> QED
          BY <3>2, <5>2
      <4>2. CASE i = d
        <5> DEFINE j == i + 1
        <5>1. j \in Open /\ nodeStack[j].node = m /\ d < j /\ i < j /\ j - 1 = i
          BY <2>2, <3>2, <4>2
        <5>2. Closing(j) \in With(d) /\ Closing(j).node = m /\ Closing(j).level = j - 1
              /\ Closing(j).pre = nodeStack[j].pre /\ nodeStack[j].pre \in Nat
              /\ nodeStack[i].pre \in Nat
          BY <3>0, <5>1, ClosingIs, WithIs
        <5>3. nodeStack[i].pre < nodeStack[j].pre
          BY <3>0, <5>1 DEF EntriesOK
        <5> HIDE DEF j
        <5>4. nodeStack[i].pre <= Closing(j).pre /\ Closing(j).level = i
          BY <5>1, <5>2, <5>3
        <5> QED
          BY <3>0, <5>2, <5>4
      <4> QED
        BY <2>2, <4>1, <4>2
    <3>3. CASE Awaits(i, m)
      <4>1. Awaits(i, m)' \/ (i = d /\ m = n)
        BY <2>2, <3>3
      <4> QED
        BY <1>a, <4>1
    <3> QED
      BY <1>2, <3>0, <3>1, <3>2, <3>3 DEF ChildrenOK
  <2> QED
    BY <1>a, <2>1, <2>2
<1>3. \A i \in Open' : \A m \in Nodes : <<nodeStack'[i].node, m>> \in E =>
             \/ \E y \in With(d) : nodeStack'[i].pre <= y.pre /\ y.node = m /\ y.level = i
             \/ i + 1 \in Open' /\ nodeStack'[i + 1].node = m
             \/ Awaits(i, m)'
  BY <1>2
<1>4. ChildrenOK(E)' <=>
        /\ \A x \in copied'.order : \A m \in Nodes : <<x.node, m>> \in E =>
             \E y \in copied'.order : Below(x, y) /\ y.node = m /\ y.level = x.level + 1
        /\ \A i \in Open' : \A m \in Nodes : <<nodeStack'[i].node, m>> \in E =>
             \/ \E y \in copied'.order : nodeStack'[i].pre <= y.pre /\ y.node = m /\ y.level = i
             \/ i + 1 \in Open' /\ nodeStack'[i + 1].node = m
             \/ Awaits(i, m)'
  BY DEF ChildrenOK
<1> QED
  BY <1>0, <1>1, <1>3, <1>4

\* Every node that has an entry, open or closed, keeps one.
LEMMA OrderNodes ==
    ASSUME NEW E, EntriesOK(E), NEW n \in Nodes, NEW d \in Nat, d <= Len(nodeStack), Ordered(n, d),
           NEW r, (\E x \in copied.order : x.node = r) \/ (\E i \in Open : nodeStack[i].node = r)
                  \/ r = n
    PROVE  (\E x \in copied'.order : x.node = r) \/ (\E i \in Open' : nodeStack'[i].node = r)
<1>a. /\ \A i \in 1..d : i \in Open' /\ nodeStack'[i] = nodeStack[i]
      /\ d + 1 \in Open' /\ nodeStack'[d + 1].node = n
  BY NewOpen
<1>0. copied'.order = With(d) /\ Len(nodeStack) \in Nat
  BY DEF Ordered, EntriesOK
<1>1. CASE \E x \in copied.order : x.node = r
  BY <1>0, <1>1, WithIs
<1>2. ASSUME NEW i \in Open, nodeStack[i].node = r
      PROVE  (\E x \in copied'.order : x.node = r) \/ (\E j \in Open' : nodeStack'[j].node = r)
  <2>0. i \in Nat \ {0}
    BY ClosingIs
  <2>1. CASE i <= d
    <3>1. i \in 1..d
      BY <2>0, <2>1
    <3> QED
      BY <1>a, <1>2, <3>1
  <2>2. CASE d < i
    <3>1. Closing(i) \in With(d) /\ Closing(i).node = r
      BY <1>2, <2>2, WithIs, ClosingIs
    <3> QED
      BY <1>0, <3>1
  <2> QED
    BY <2>0, <2>1, <2>2
<1> QED
  BY <1>a, <1>1, <1>2

\* The open nodes are the path of the traversal.
OnPath ==
    /\ Len(nodeStack) = lastDistance + 1
    /\ \A i \in Open : <<i - 1, nodeStack[i].node>> \in distanceToNode
    /\ \A h \in 1..Len(traversalStack) : traversalStack[h][2] = 0 => Len(nodeStack) = 1

PrePostCopy(E) ==
    /\ DOMAIN copied = Fields /\ copied.impl.kind = "prepost" /\ roots \subseteq RootsOf(E)
    /\ EntriesOK(E) /\ ParentsOK(E) /\ ChildrenOK(E) /\ RootsCopied(E) /\ Counted(E)
    /\ ~Exhausted => Traversing(E) /\ OnPath

LEMMA PrePostFinished ==
    ASSUME NEW E \in SUBSET (Nodes \X Nodes), AllSimple(E), Roomy(E), PrePostCopy(E),
           Exhausted, roots = {},
           NEW s, s = [copied EXCEPT !.order = @ \cup Exited(0)]
    PROVE  PrePostOK(s, Traversed(E)) /\ s.impl = copied.impl
<1>1. EntriesOK(E) /\ ParentsOK(E) /\ ChildrenOK(E) /\ RootsCopied(E)
  BY DEF PrePostCopy
<1>2. PICK D \in SUBSET RootWalks(E) : Visited(E, D)
  BY DEF PrePostCopy, Counted
<1>3. currentOrder + Len(nodeStack) <= copied.impl.order /\ copied.impl.order \in Nat
  BY <1>1, <1>2, RoomLeft DEF Roomy
<1>4. copied.order \cup Exited(0) = With(0)
  BY <1>1, <1>3, ExitedIs
<1>5. s.order = With(0) /\ s.impl = copied.impl /\ s.impl.kind = "prepost"
  BY <1>4 DEF PrePostCopy, Fields
<1>6. \A x, y \in With(0) : Below(x, y) /\ x # y =>
          \E z \in With(0) : Below(x, z) /\ IsParent(E, z, y)
  BY <1>1, ClosingParents
<1>7. \A x \in With(0) : \A n \in Nodes : <<x.node, n>> \in E =>
          \E y \in With(0) : Below(x, y) /\ y.node = n /\ y.level = x.level + 1
  <2>1. Len(traversalStack) = 0
    BY DEF Exhausted
  <2>2. \A i, n : ~Awaits(i, n)
    BY <2>1 DEF Awaits
  <2> QED
    BY <1>1, <2>2, ClosingChildren
<1>8. \A x \in With(0) : EntryOK(x)
  <2> SUFFICES ASSUME NEW x \in With(0) PROVE EntryOK(x)
    OBVIOUS
  <2>1. CASE x \in copied.order
    BY <1>1, <2>1 DEF EntriesOK
  <2>2. ASSUME NEW i \in Open, x = Closing(i) PROVE EntryOK(x)
    BY <1>1, <2>2, ClosingIs
  <2> QED
    BY <2>1, <2>2, WithIs
<1>9. \A r \in RootsOf(E) : \E x \in With(0) : x.node = r
  <2> SUFFICES ASSUME NEW r \in RootsOf(E) PROVE \E x \in With(0) : x.node = r
    OBVIOUS
  <2>1. CASE \E x \in copied.order : x.node = r
    BY <2>1, WithIs
  <2>2. ASSUME NEW i \in Open, nodeStack[i].node = r PROVE \E x \in With(0) : x.node = r
    <3>1. Closing(i).node = r /\ 0 < i
      BY <1>1, <2>2, ClosingIs
    <3> QED
      BY <3>1, WithIs
  <2> QED
    BY <1>1, <2>1, <2>2 DEF RootsCopied
<1>10. \A e \in Traversed(E) : \E x \in With(0) : x.node = e[1]
  <2> SUFFICES ASSUME NEW e \in Traversed(E) PROVE \E x \in With(0) : x.node = e[1]
    OBVIOUS
  <2>1. PICK k \in Nat : \E w \in WalksOf(E, k) : w[0] \in RootsOf(E) /\ w[k] = e[1]
    BY LedIs DEF Traversed
  <2>2. PICK w \in WalksOf(E, k) : w[0] \in RootsOf(E) /\ w[k] = e[1]
    BY <2>1
  <2> DEFINE S == {i \in 0..k : \E x \in With(0) : x.node = w[i]}
  <2>3. 0 \in S
    BY <1>9, <2>2
  <2>4. \A i \in 0..(k - 1) : i \in S => i + 1 \in S
    <3> SUFFICES ASSUME NEW i \in 0..(k - 1), i \in S PROVE i + 1 \in S
      OBVIOUS
    <3>1. PICK x \in With(0) : x.node = w[i]
      OBVIOUS
    <3>2. i + 1 \in 0..k
      OBVIOUS
    <3>3. <<w[i], w[i + 1]>> \in E /\ w[i + 1] \in Nodes
      BY <3>2, WalkIs
    <3> QED
      BY <1>7, <3>1, <3>2, <3>3
  <2> HIDE DEF S
  <2>5. k \in S
    <3>1. 0..k \subseteq S
      BY <2>3, <2>4, UpTo
    <3> QED
      BY <3>1
  <2> QED
    BY <2>2, <2>5 DEF S
<1>11. \A k \in Nat : \A w \in WalksOf(Traversed(E), k) : Simple(w, k)
  <2> SUFFICES ASSUME NEW k \in Nat, NEW w \in WalksOf(Traversed(E), k) PROVE Simple(w, k)
    OBVIOUS
  <2>1. w \in WalksOf(E, k)
    BY TraversedRoots, MoreEdges
  <2>2. CASE k = 0
    BY <2>2 DEF Simple
  <2>3. CASE k # 0
    <3>1. <<w[0], w[0 + 1]>> \in Traversed(E)
      <4>1. 0 \in 0..(k - 1)
        BY <2>3
      <4> QED
        BY <4>1, WalkIs
    <3>2. Led(E, w[0])
      BY <3>1, TraversedRoots
    <3> QED
      BY <2>1, <3>2, LedIsSimple DEF AllSimple
  <2> QED
    BY <2>2, <2>3
<1>12. \A x \in s.order : ChildrenBelow(s, Traversed(E), x)
  BY <1>5, <1>7, TraversedRoots DEF ChildrenBelow
<1>13. \A x, y \in s.order : Below(x, y) /\ x # y => ParentBelow(s, Traversed(E), x, y)
  BY <1>5, <1>6 DEF ParentBelow, IsParent
<1> QED
  BY <1>5, <1>8, <1>10, <1>11, <1>12, <1>13 DEF PrePostOK

LEMMA PrePostRoot ==
    ASSUME NEW E \in SUBSET (Nodes \X Nodes), AllSimple(E), Roomy(E), PrePostCopy(E), Exhausted,
           NEW g, Shown(g, E), NEW r \in roots, roots' = roots \ {r}, Order(r, 0),
           Construct(g, TRUE, r, 1, Far)
    PROVE  PrePostCopy(E)'
<1>1. /\ EntriesOK(E) /\ ParentsOK(E) /\ ChildrenOK(E) /\ RootsCopied(E) /\ DOMAIN copied = Fields
      /\ roots \subseteq RootsOf(E) /\ r \in RootsOf(E) /\ r \in Nodes
      /\ copied.impl.order \in Nat /\ copied.impl.level \in Nat
  BY RootsAre DEF PrePostCopy, Roomy
<1>2. PICK D \in SUBSET RootWalks(E) : Visited(E, D)
  BY DEF PrePostCopy, Counted
<1>3. Led(E, r) /\ <<0, Alone(r)>> \in RootWalks(E) /\ Alone(r)[0] = r
  BY <1>1, RootIsLed, AloneIs
<1> DEFINE new == <<0, Alone(r)>>
<1>4. new \in RootWalks(E) \ D
  <2>1. new \in D => new[2][0] \notin roots
    BY <1>2 DEF Visited
  <2>2. new[2][0] = r
    BY <1>3
  <2> HIDE DEF new
  <2> QED
    BY <1>3, <2>1, <2>2 DEF new
<1>5. /\ currentOrder + Len(nodeStack) + 2 <= copied.impl.order
      /\ IsFiniteSet(D \cup {new}) /\ Cardinality(D \cup {new}) = Cardinality(D) + 1
      /\ Cardinality(D) \in Nat
  BY <1>1, <1>2, <1>4, RoomLeft
<1>6. Ordered(r, 0) /\ 0 \in Nat /\ 0 <= Len(nodeStack)
  <2>1. Len(nodeStack) \in Nat /\ 0 \in Nat /\ 0 <= copied.impl.level /\ 0 <= Len(nodeStack)
    BY <1>1 DEF EntriesOK
  <2> QED
    BY <1>1, <1>5, <2>1, OrderIs
<1>7. /\ traversalStack' = <<<<r, 0>>>> /\ startNode' = r /\ lastDistance' = 0
      /\ distanceToNode' = {<<0, r>>} /\ Traversing(E)'
  BY <1>1, CopyBegins DEF Construct
<1>8. EntriesOK(E)'
  <2>1. 0 > 0 => <<nodeStack[0].node, r>> \in E
    OBVIOUS
  <2> QED
    BY <1>1, <1>3, <1>6, <2>1, OrderEntries
<1>9. ParentsOK(E)'
  <2>1. 0 > 0 => <<nodeStack[0].node, r>> \in E
    OBVIOUS
  <2> QED
    BY <1>1, <1>3, <1>6, <2>1, OrderParents
<1>10. ChildrenOK(E)'
  <2>1. \A i, n : ~Awaits(i, n)
    BY DEF Awaits, Exhausted
  <2>2. \A m \in Nodes : Awaits(0 + 1, m)'
    <3>1. Len(traversalStack') = 1 /\ traversalStack'[1] = <<startNode', 0>>
      BY <1>7
    <3> QED
      BY <3>1 DEF Awaits
  <2>3. \A i \in 1..0 : \A m \in Nodes : Awaits(i, m) => Awaits(i, m)' \/ (i = 0 /\ m = r)
    BY <2>1
  <2> QED
    BY <1>1, <1>6, <2>1, <2>2, <2>3, OrderChildren
<1>11. RootsCopied(E)'
  <2> SUFFICES ASSUME NEW q \in RootsOf(E) \ roots'
               PROVE  (\E x \in copied'.order : x.node = q) \/ (\E i \in Open' : nodeStack'[i].node = q)
    BY DEF RootsCopied
  <2>1. q = r \/ q \in RootsOf(E) \ roots
    OBVIOUS
  <2>2. (\E x \in copied.order : x.node = q) \/ (\E i \in Open : nodeStack[i].node = q) \/ q = r
    BY <1>1, <2>1 DEF RootsCopied
  <2> QED
    BY <1>1, <1>6, <2>2, OrderNodes
<1>12. Visited(E, D \cup {new})'
  <2>1. D \cup {new} \in SUBSET RootWalks(E)
    BY <1>4
  <2>2. currentOrder' + Len(nodeStack') = 2 * Cardinality(D \cup {new})
    <3>1. currentOrder' + Len(nodeStack') = currentOrder + Len(nodeStack) + 2
      BY <1>6 DEF Ordered
    <3>2. currentOrder + Len(nodeStack) = 2 * Cardinality(D)
      BY <1>2 DEF Visited
    <3> QED
      BY <1>5, <3>1, <3>2
  <2>3. ASSUME NEW x \in D \cup {new} PROVE x[2][0] \notin roots' /\ (x[1] = 0 \/ ~Waits(x[2], x[1])')
    <3>1. CASE x = new
      BY <1>3, <3>1
    <3>2. CASE x \in D
      <4>1. x[2][0] \notin roots
        BY <1>2, <3>2 DEF Visited
      <4>2. x[2][0] # r
        BY <4>1
      <4>3. ASSUME NEW k, NEW w, w[0] # r PROVE ~Waits(w, k)'
        <5>1. Len(traversalStack') = 1 /\ traversalStack'[1][1] = r /\ traversalStack'[1][2] = 0
          BY <1>7
        <5> QED
          BY <4>3, <5>1 DEF Waits, WaitsAt
      <4> QED
        BY <4>1, <4>2, <4>3
    <3> QED
      BY <3>1, <3>2
  <2> HIDE DEF new
  <2> QED
    BY <1>5, <2>1, <2>2, <2>3 DEF Visited
<1>13. Counted(E)'
  BY <1>4, <1>12 DEF Counted
<1>14. OnPath'
  <2>1. Open' = 1..(0 + 1) /\ nodeStack'[0 + 1].node = r /\ Len(nodeStack') = 0 + 1
    BY <1>1, <1>6, NewOpen DEF Ordered
  <2>2. Len(nodeStack') = 1 /\ \A i \in Open' : i = 1
    BY <2>1
  <2> QED
    BY <1>7, <2>1, <2>2 DEF OnPath
<1>15. DOMAIN copied' = Fields /\ copied'.impl = copied.impl
  BY <1>6 DEF Ordered
<1> QED
  BY <1>1, <1>7, <1>8, <1>9, <1>10, <1>11, <1>13, <1>14, <1>15 DEF PrePostCopy

\* What is on the stack after a node is entered.
LEMMA StackNext ==
    ASSUME NEW E, IInv, EnterSafely, Shown(gs, E), distance < maxDistance
    PROVE  /\ \A h \in 1..(Len(traversalStack) - 1) :
                 \E g \in 1..Len(traversalStack') : traversalStack'[g] = traversalStack[h]
           /\ \A m \in Nodes : <<node, m>> \in E =>
                 \E g \in 1..Len(traversalStack') : traversalStack'[g] = <<m, distance + 1>>
           /\ \A g \in 1..Len(traversalStack') :
                 \/ \E h \in 1..(Len(traversalStack) - 1) : traversalStack'[g] = traversalStack[h]
                 \/ traversalStack'[g][2] = distance + 1
<1>1. ~Exhausted /\ DFSTypeOK
  BY DEF EnterSafely, IInv
<1>2. /\ node \in Nodes /\ distance \in Nat /\ Len(traversalStack) \in Nat \ {0}
      /\ Len(Pop) = Len(traversalStack) - 1
  BY <1>1, Top
<1> DEFINE P == Len(Pop)
<1>0. PICK T : T = traversalStack'
  OBVIOUS
<1>3. T = Pop \o Children
  BY <1>0 DEF EnterSafely
<1>4. /\ Len(Pop \o Children) = Len(Pop) + Len(Children) /\ Len(Children) \in Nat
      /\ \A j \in 1..Len(Pop) : (Pop \o Children)[j] = traversalStack[j]
      /\ \A h \in (Len(Pop) + 1)..Len(Pop \o Children) :
            /\ h - Len(Pop) \in 1..Len(gs[node])
            /\ (Pop \o Children)[h] = <<gs[node][h - Len(Pop)], distance + 1>>
  BY <1>1, ChildrenAre
<1>5. /\ Len(T) = P + Len(Children) /\ P \in Nat /\ P = Len(traversalStack) - 1
      /\ \A j \in 1..P : T[j] = traversalStack[j]
      /\ \A h \in (P + 1)..Len(T) : /\ h - P \in 1..Len(gs[node])
                                    /\ T[h] = <<gs[node][h - P], distance + 1>>
  <2>1. P \in Nat /\ P = Len(traversalStack) - 1
    BY <1>2
  <2>2. /\ Len(T) = Len(Pop) + Len(Children)
        /\ \A j \in 1..Len(Pop) : T[j] = traversalStack[j]
        /\ \A h \in (Len(Pop) + 1)..Len(T) :
            /\ h - Len(Pop) \in 1..Len(gs[node])
            /\ T[h] = <<gs[node][h - Len(Pop)], distance + 1>>
    BY <1>3, <1>4
  <2> QED
    BY <2>1, <2>2
<1>6. Len(Children) = Len(gs[node]) /\ Len(gs[node]) \in Nat
  <2>1. gs[node] \in Seq(Nodes)
    BY <1>2 DEF Shown, Graphs
  <2> QED
    BY <2>1 DEF Children
<1>7. \A h \in 1..(Len(traversalStack) - 1) : \E g \in 1..Len(T) : T[g] = traversalStack[h]
  <2> HIDE DEF P
  <2>1. \A h \in 1..P : h \in 1..Len(T)
    BY <1>4, <1>5
  <2> QED
    BY <1>5, <2>1
<1>8. \A m \in Nodes : <<node, m>> \in E => \E g \in 1..Len(T) : T[g] = <<m, distance + 1>>
  <2> SUFFICES ASSUME NEW m \in Nodes, <<node, m>> \in E
               PROVE  \E g \in 1..Len(T) : T[g] = <<m, distance + 1>>
    OBVIOUS
  <2>1. PICK i \in 1..Len(gs[node]) : gs[node][i] = m
    BY <1>2, ShownChild DEF Child
  <2> HIDE DEF P
  <2> DEFINE g == P + i
  <2>2. g \in (P + 1)..Len(T) /\ g - P = i /\ g \in 1..Len(T)
    BY <1>5, <1>6
  <2> HIDE DEF g
  <2>3. T[g] = <<gs[node][g - P], distance + 1>>
    BY <1>5, <2>2
  <2> QED
    BY <2>1, <2>2, <2>3
<1>9. \A g \in 1..Len(T) : \/ \E h \in 1..(Len(traversalStack) - 1) : T[g] = traversalStack[h]
                           \/ T[g][2] = distance + 1
  <2> HIDE DEF P
  <2>1. \A g \in 1..Len(T) : g \in 1..P \/ g \in (P + 1)..Len(T)
    BY <1>4, <1>5
  <2> QED
    BY <1>5, <2>1
<1> QED
  BY <1>0, <1>7, <1>8, <1>9

\* The open nodes after a step of the traversal: those above the entered one.
LEMMA PathMoves ==
    ASSUME NEW E \in SUBSET (Nodes \X Nodes), AllSimple(E), Traversing(E), OnPath, EnterSafely,
           nodeStack \in Seq([node : Nodes, pre : Nat, level : Nat])
    PROVE  /\ distance \in Nat /\ node \in Nodes
           /\ distance = 0 => Len(nodeStack) = 1 /\ node = startNode
           /\ nodeStack[1].node = startNode /\ Len(nodeStack) \in Nat \ {0}
           /\ distance > 0 => /\ distance \in Open
                              /\ <<nodeStack[distance].node, node>> \in E
           /\ lastDistance' = distance
           /\ \A i \in Open : i <= distance => <<i - 1, nodeStack[i].node>> \in distanceToNode'
           /\ <<distance, node>> \in distanceToNode'
           /\ \A h \in 1..(Len(traversalStack) - 1) : traversalStack[h][2] # 0
<1>1. IInv /\ cycleSafe /\ ~Exhausted /\ DFSTypeOK /\ Path /\ Shown(gs, E) /\ NoTwins
  BY DEF Traversing, IInv, EnterSafely
<1>2. /\ node \in Nodes /\ distance \in Nat /\ Len(traversalStack) \in Nat \ {0}
      /\ traversalStack[Len(traversalStack)] = <<node, distance>>
  BY <1>1, Top
<1>3. Len(traversalStack) \in 1..Len(traversalStack)
  BY <1>2
<1>4. Len(nodeStack) = lastDistance + 1 /\ lastDistance \in Nat /\ Len(nodeStack) \in Nat \ {0}
      /\ 1 \in Open
  BY <1>1 DEF OnPath, DFSTypeOK, Open
<1>5. <<0, nodeStack[1].node>> \in distanceToNode
  <2>1. <<1 - 1, nodeStack[1].node>> \in distanceToNode
    BY <1>4 DEF OnPath
  <2> QED
    BY <2>1
<1>6. nodeStack[1].node = startNode
  <2>1. <<0, nodeStack[1].node>>[1] = 0
    OBVIOUS
  <2>2. <<0, nodeStack[1].node>>[2] = startNode
    BY <1>1, <1>5, <2>1 DEF Path, Parents
  <2> QED
    BY <2>2
<1>7. \A i \in 1..Len(traversalStack) :
         IF traversalStack[i][2] = 0 THEN traversalStack[i][1] = startNode
         ELSE ParentOf(gs, distanceToNode, traversalStack[i][2], traversalStack[i][1])
  BY <1>1 DEF Path, Waiting
<1>8. distance = 0 => Len(nodeStack) = 1 /\ node = startNode
  BY <1>2, <1>3, <1>7 DEF OnPath
<1>9. ASSUME distance > 0
      PROVE  distance \in Open /\ <<nodeStack[distance].node, node>> \in E
  <2>1. ParentOf(gs, distanceToNode, distance, node)
    BY <1>2, <1>3, <1>7, <1>9
  <2>2. PICK q \in distanceToNode : q[1] = distance - 1 /\ Child(gs, q[2], node)
    BY <2>1 DEF ParentOf
  <2>3. q \in Nat \X Nodes /\ q[1] <= lastDistance
    BY <1>1 DEF Path, UpToLast, DFSTypeOK
  <2>4. distance \in Open
    BY <1>2, <1>4, <1>9, <2>2, <2>3 DEF Open
  <2>5. <<distance - 1, nodeStack[distance].node>> \in distanceToNode
    BY <2>4 DEF OnPath
  <2>6. q[2] = nodeStack[distance].node
    <3>1. <<distance - 1, nodeStack[distance].node>>[1] = q[1]
      BY <2>2
    <3>2. <<distance - 1, nodeStack[distance].node>>[2] = q[2]
      BY <1>1, <2>5, <3>1 DEF Path, Injective
    <3> QED
      BY <3>2
  <2>7. <<q[2], node>> \in E
    BY <1>1, <2>2, <2>3, ShownChild
  <2> QED
    BY <2>4, <2>6, <2>7
<1>10. lastDistance' = distance /\ distanceToNode' = Kept \cup {<<distance, node>>}
  BY DEF EnterSafely, Kept
<1>11. Kept = {p \in distanceToNode : p[1] < distance}
  BY <1>1, KeptIsAbove
<1>12. ASSUME NEW i \in Open, i <= distance PROVE <<i - 1, nodeStack[i].node>> \in distanceToNode'
  <2>1. <<i - 1, nodeStack[i].node>> \in distanceToNode
    BY DEF OnPath
  <2>2. i - 1 < distance /\ <<i - 1, nodeStack[i].node>>[1] = i - 1
    BY <1>2, <1>4, <1>12 DEF Open
  <2>3. <<i - 1, nodeStack[i].node>> \in Kept
    BY <1>11, <2>1, <2>2
  <2> QED
    BY <1>10, <2>3
<1>13. ASSUME NEW h \in 1..(Len(traversalStack) - 1), traversalStack[h][2] = 0 PROVE FALSE
  <2>1. h \in 1..Len(traversalStack)
    BY <1>2
  <2>2. traversalStack[h][1] = startNode
    BY <1>7, <1>13, <2>1
  <2>3. <<traversalStack[h][2], traversalStack[h][1]>> \notin distanceToNode
    BY <1>1 DEF NoTwins
  <2> QED
    BY <1>5, <1>6, <1>13, <2>2, <2>3
<1> QED
  BY <1>2, <1>4, <1>6, <1>8, <1>9, <1>10, <1>12, <1>13

LEMMA PrePostStep ==
    ASSUME NEW E \in SUBSET (Nodes \X Nodes), AllSimple(E), Roomy(E), PrePostCopy(E),
           Traverse, UNCHANGED roots,
           IF distance = 0 THEN UNCHANGED <<copied, currentOrder, nodeStack>> ELSE Order(node, distance)
    PROVE  PrePostCopy(E)'
<1>1. /\ EntriesOK(E) /\ ParentsOK(E) /\ ChildrenOK(E) /\ RootsCopied(E) /\ DOMAIN copied = Fields
      /\ roots \subseteq RootsOf(E) /\ copied.impl.order \in Nat /\ copied.impl.level \in Nat
      /\ copied.impl.kind = "prepost"
  BY DEF PrePostCopy, Roomy
<1>2. ~Exhausted
  BY DEF Traverse, Enter, EnterSafely, EnterAlways, RejectCycle
<1>3. Traversing(E) /\ OnPath
  BY <1>2 DEF PrePostCopy
<1>4. /\ EnterSafely /\ Traversing(E)' /\ gs' = gs /\ startNode' = startNode
  BY <1>3, CopyEnters
<1>5. nodeStack \in Seq([node : Nodes, pre : Nat, level : Nat])
  BY <1>1 DEF EntriesOK
<1>6. PICK d \in Nat : d = distance
  BY <1>3, <1>4, <1>5, PathMoves
<1>7. PICK n \in Nodes : n = node
  BY <1>3, <1>4, <1>5, PathMoves
<1>8. /\ d = 0 => Len(nodeStack) = 1 /\ n = startNode
      /\ nodeStack[1].node = startNode /\ Len(nodeStack) \in Nat \ {0}
      /\ d > 0 => d \in Open /\ <<nodeStack[d].node, n>> \in E
      /\ lastDistance' = d
      /\ \A i \in Open : i <= d => <<i - 1, nodeStack[i].node>> \in distanceToNode'
      /\ <<d, n>> \in distanceToNode'
      /\ \A h \in 1..(Len(traversalStack) - 1) : traversalStack[h][2] # 0
  BY <1>3, <1>4, <1>5, <1>6, <1>7, PathMoves
<1>9. IInv /\ cycleSafe /\ NoTwins /\ Shown(gs, E) /\ startNode \in RootsOf(E) /\ startNode \notin roots
      /\ DFSTypeOK /\ maxDistance = Far
  BY <1>3 DEF Traversing, IInv
<1>10. d < maxDistance
  BY <1>2, <1>3, <1>6, <1>9, NothingRejected
<1>11. /\ \A h \in 1..(Len(traversalStack) - 1) :
                 \E g \in 1..Len(traversalStack') : traversalStack'[g] = traversalStack[h]
       /\ \A m \in Nodes : <<n, m>> \in E =>
                 \E g \in 1..Len(traversalStack') : traversalStack'[g] = <<m, d + 1>>
       /\ \A g \in 1..Len(traversalStack') :
                 \/ \E h \in 1..(Len(traversalStack) - 1) : traversalStack'[g] = traversalStack[h]
                 \/ traversalStack'[g][2] = d + 1
  BY <1>4, <1>6, <1>7, <1>9, <1>10, StackNext
<1>12. /\ Len(traversalStack) \in Nat \ {0} /\ traversalStack[Len(traversalStack)] = <<n, d>>
       /\ \A h \in 1..Len(traversalStack) : /\ traversalStack[h][2] <= d
                                            /\ traversalStack[h] \in Nodes \X Nat
  BY <1>2, <1>6, <1>7, <1>9, Top, StackRises
<1>13. \A h \in 1..Len(traversalStack') : traversalStack'[h][2] # 0
  <2> SUFFICES ASSUME NEW h \in 1..Len(traversalStack') PROVE traversalStack'[h][2] # 0
    OBVIOUS
  <2>1. d + 1 # 0
    OBVIOUS
  <2>2. CASE \E g \in 1..(Len(traversalStack) - 1) : traversalStack'[h] = traversalStack[g]
    BY <1>8, <2>2
  <2>3. CASE traversalStack'[h][2] = d + 1
    BY <2>1, <2>3
  <2> QED
    BY <1>11, <2>2, <2>3
<1>14. \A w : \A k \in Nat : Waits(w, k)' => Waits(w, k)
  BY <1>4, <1>9, WaitedBefore
<1>15. PICK D \in SUBSET RootWalks(E) : Visited(E, D)
  BY DEF PrePostCopy, Counted
<1>16. ASSUME NEW x \in D PROVE x[2][0] \notin roots' /\ (x[1] = 0 \/ ~Waits(x[2], x[1])')
  <2>1. x[2][0] \notin roots /\ (x[1] = 0 \/ ~Waits(x[2], x[1])) /\ x[1] \in Nat
    BY <1>15, RootWalkParts DEF Visited
  <2>2. ASSUME NEW k \in Nat, NEW w, ~Waits(w, k) PROVE ~Waits(w, k)'
    BY <1>14, <2>2
  <2> QED
    BY <2>1, <2>2
<1>17. CASE d = 0
  <2>1. UNCHANGED <<copied, currentOrder, nodeStack>>
    BY <1>6, <1>17
  <2>2. EntriesOK(E)'
    BY <1>1, <2>1 DEF EntriesOK, Open
  <2>3. ParentsOK(E)'
    BY <1>1, <2>1 DEF ParentsOK, Open
  <2>4. RootsCopied(E)'
    BY <1>1, <2>1 DEF RootsCopied, Open
  <2>5. Counted(E)'
    <3>1. Visited(E, D)'
      BY <1>15, <1>16, <2>1 DEF Visited
    <3> QED
      BY <1>15, <3>1 DEF Counted
  <2>6. ASSUME NEW i \in Open, NEW m \in Nodes, <<nodeStack[i].node, m>> \in E, Awaits(i, m)
        PROVE  Awaits(i, m)'
    <3>1. i = 1
      <4>1. Open = 1..1
        BY <1>8, <1>17 DEF Open
      <4> QED
        BY <4>1
    <3>2. PICK h \in 1..Len(traversalStack) :
             traversalStack[h] = <<m, i>> \/ (i = 1 /\ traversalStack[h] = <<startNode, 0>>)
      BY <2>6 DEF Awaits
    <3>3. traversalStack[h][2] = 0
      BY <1>12, <1>17
    <3>4. <<n, m>> \in E
      BY <1>8, <1>17, <2>6, <3>1
    <3>5. PICK g \in 1..Len(traversalStack') : traversalStack'[g] = <<m, d + 1>>
      BY <1>11, <3>4
    <3>6. traversalStack'[g] = <<m, i>>
      BY <1>17, <3>1, <3>5
    <3> QED
      BY <3>6 DEF Awaits
  <2>7. ChildrenOK(E)'
    <3>1. ASSUME NEW i \in Open, NEW m \in Nodes, <<nodeStack[i].node, m>> \in E
          PROVE  \/ \E y \in copied.order : nodeStack[i].pre <= y.pre /\ y.node = m /\ y.level = i
                 \/ i + 1 \in Open /\ nodeStack[i + 1].node = m
                 \/ Awaits(i, m)'
      BY <1>1, <2>6, <3>1 DEF ChildrenOK
    <3>2. Open' = Open /\ nodeStack' = nodeStack /\ copied' = copied
      BY <2>1 DEF Open
    <3>3. \A i \in Open' : \A m \in Nodes : <<nodeStack'[i].node, m>> \in E =>
             \/ \E y \in copied'.order : nodeStack'[i].pre <= y.pre /\ y.node = m /\ y.level = i
             \/ i + 1 \in Open' /\ nodeStack'[i + 1].node = m
             \/ Awaits(i, m)'
      BY <3>1, <3>2
    <3>4. \A x \in copied'.order : \A m \in Nodes : <<x.node, m>> \in E =>
             \E y \in copied'.order : Below(x, y) /\ y.node = m /\ y.level = x.level + 1
      BY <1>1, <3>2 DEF ChildrenOK
    <3> QED
      BY <3>3, <3>4 DEF ChildrenOK
  <2>8. OnPath'
    <3>1. Open' = Open /\ nodeStack' = nodeStack /\ Len(nodeStack) = 1 /\ Open = 1..1
      BY <1>8, <1>17, <2>1 DEF Open
    <3>2. <<1 - 1, nodeStack[1].node>> \in distanceToNode'
      <4>1. <<1 - 1, nodeStack[1].node>> = <<d, n>>
        BY <1>8, <1>17
      <4> QED
        BY <1>8, <4>1
    <3>3. \A i \in Open : i = 1
      BY <3>1
    <3> QED
      BY <1>8, <1>13, <1>17, <3>1, <3>2, <3>3 DEF OnPath
  <2>9. DOMAIN copied' = Fields /\ copied'.impl.kind = "prepost" /\ roots' \subseteq RootsOf(E)
    BY <1>1, <2>1
  <2> QED
    BY <1>4, <2>2, <2>3, <2>4, <2>5, <2>7, <2>8, <2>9 DEF PrePostCopy
<1>18. CASE d > 0
  <2>1. Order(n, d)
    BY <1>6, <1>7, <1>18
  <2>2. PICK v \in WalksOf(E, d) : v[0] = startNode /\ v[d] = n /\ Waits(v, d) /\ On(Kept, v, d)
    BY <1>4, <1>6, <1>7, <1>9, EnterVisits
  <2> DEFINE new == <<d, v>>
  <2>3. new \in RootWalks(E) /\ new[1] = d /\ new[2] = v /\ Led(E, n)
    BY <1>9, <2>2, RootWalkIs, LedIs
  <2>4. new \notin D
    <3>1. new \in D => new[1] = 0 \/ ~Waits(new[2], new[1])
      BY <1>15 DEF Visited
    <3> HIDE DEF new
    <3> QED
      BY <1>18, <2>2, <2>3, <3>1
  <2> HIDE DEF new
  <2>5. /\ currentOrder + Len(nodeStack) + 2 <= copied.impl.order
        /\ IsFiniteSet(D \cup {new}) /\ Cardinality(D \cup {new}) = Cardinality(D) + 1
        /\ Cardinality(D) \in Nat
    BY <1>1, <1>15, <2>3, <2>4, RoomLeft
  <2>6. d <= Len(nodeStack) /\ d <= copied.impl.level
    <3>1. d <= Len(nodeStack)
      BY <1>8, <1>18 DEF Open
    <3> QED
      BY <2>3, <3>1 DEF Roomy
  <2>7. Ordered(n, d)
    BY <1>1, <2>1, <2>5, <2>6, OrderIs
  <2>8. d > 0 => <<nodeStack[d].node, n>> \in E
    BY <1>8
  <2>9. EntriesOK(E)'
    BY <1>1, <2>3, <2>6, <2>7, <2>8, OrderEntries
  <2>10. ParentsOK(E)'
    BY <1>1, <2>3, <2>6, <2>7, <2>8, OrderParents
  <2>11. ChildrenOK(E)'
    <3>1. ASSUME NEW i \in Open, NEW m \in Nodes, d < i, Awaits(i, m) PROVE FALSE
      <4>1. PICK h \in 1..Len(traversalStack) :
               traversalStack[h] = <<m, i>> \/ (i = 1 /\ traversalStack[h] = <<startNode, 0>>)
        BY <3>1 DEF Awaits
      <4>2. i \in Nat /\ traversalStack[h][2] <= d
        BY <1>8, <1>12 DEF Open
      <4> QED
        BY <1>18, <3>1, <4>1, <4>2
    <3>2. ASSUME NEW i \in 1..d, NEW m \in Nodes, Awaits(i, m)
          PROVE  Awaits(i, m)' \/ (i = d /\ m = n)
      <4>1. PICK h \in 1..Len(traversalStack) :
               traversalStack[h] = <<m, i>> \/ (i = 1 /\ traversalStack[h] = <<startNode, 0>>)
        BY <3>2 DEF Awaits
      <4>2. CASE h = Len(traversalStack)
        <5>1. traversalStack[h] = <<n, d>>
          BY <1>12, <4>2
        <5> QED
          BY <1>18, <4>1, <5>1
      <4>3. CASE h \in 1..(Len(traversalStack) - 1)
        <5>1. PICK g \in 1..Len(traversalStack') : traversalStack'[g] = traversalStack[h]
          BY <1>11, <4>3
        <5>2. startNode' = startNode
          BY <1>4
        <5> QED
          BY <4>1, <5>1, <5>2 DEF Awaits
      <4>4. h = Len(traversalStack) \/ h \in 1..(Len(traversalStack) - 1)
        BY <1>12
      <4> QED
        BY <4>2, <4>3, <4>4
    <3>3. ASSUME NEW m \in Nodes, <<n, m>> \in E PROVE Awaits(d + 1, m)'
      <4>1. PICK g \in 1..Len(traversalStack') : traversalStack'[g] = <<m, d + 1>>
        BY <1>11, <3>3
      <4> QED
        BY <4>1 DEF Awaits
    <3>4. \A i \in Open : \A m \in Nodes : d < i => ~Awaits(i, m)
      BY <3>1
    <3>5. \A i \in 1..d : \A m \in Nodes : Awaits(i, m) => Awaits(i, m)' \/ (i = d /\ m = n)
      BY <3>2
    <3>6. \A m \in Nodes : <<n, m>> \in E => Awaits(d + 1, m)'
      BY <3>3
    <3> QED
      BY <1>1, <2>6, <2>7, <3>4, <3>5, <3>6, OrderChildren
  <2>12. RootsCopied(E)'
    <3> SUFFICES ASSUME NEW q \in RootsOf(E) \ roots'
                 PROVE  (\E x \in copied'.order : x.node = q) \/ (\E i \in Open' : nodeStack'[i].node = q)
      BY DEF RootsCopied
    <3>1. (\E x \in copied.order : x.node = q) \/ (\E i \in Open : nodeStack[i].node = q) \/ q = n
      BY <1>1 DEF RootsCopied
    <3> QED
      BY <1>1, <2>6, <2>7, <3>1, OrderNodes
  <2>13. Visited(E, D \cup {new})'
    <3>1. D \cup {new} \in SUBSET RootWalks(E)
      BY <2>3
    <3>2. currentOrder' + Len(nodeStack') = 2 * Cardinality(D \cup {new})
      <4>1. currentOrder' + Len(nodeStack') = currentOrder + Len(nodeStack) + 2
        BY <2>7 DEF Ordered
      <4>2. currentOrder + Len(nodeStack) = 2 * Cardinality(D)
        BY <1>15 DEF Visited
      <4> QED
        BY <2>5, <4>1, <4>2
    <3>3. new[2][0] \notin roots' /\ ~Waits(new[2], new[1])'
      <4>1. \A w : \A k : k = distance /\ w[k] = node /\ On(Kept, w, k) => ~Waits(w, k)'
        BY <1>4, <1>9, EnterNoTwins
      <4>2. ~Waits(v, d)'
        BY <1>6, <1>7, <2>2, <4>1
      <4>3. ASSUME NEW k, NEW w, k = d, w = v PROVE ~Waits(w, k)'
        BY <4>2, <4>3
      <4> QED
        BY <1>9, <2>2, <2>3, <4>3
    <3>4. \A x \in D \cup {new} : x[2][0] \notin roots' /\ (x[1] = 0 \/ ~Waits(x[2], x[1])')
      BY <1>16, <3>3
    <3> QED
      BY <2>5, <3>1, <3>2, <3>4 DEF Visited
  <2>14. Counted(E)'
    BY <2>3, <2>13 DEF Counted
  <2>15. OnPath'
    <3>1. /\ Open' = 1..(d + 1) /\ Len(nodeStack') = d + 1
          /\ \A i \in 1..d : i \in Open /\ nodeStack'[i] = nodeStack[i]
          /\ nodeStack'[d + 1].node = n
      BY <1>1, <2>6, <2>7, NewOpen DEF Ordered
    <3>2. ASSUME NEW i \in Open' PROVE <<i - 1, nodeStack'[i].node>> \in distanceToNode'
      <4>1. CASE i \in 1..d
        <5>1. i \in Open /\ i <= d /\ nodeStack'[i] = nodeStack[i]
          BY <3>1, <4>1
        <5> QED
          BY <1>8, <5>1
      <4>2. CASE i = d + 1
        <5>1. <<i - 1, nodeStack'[i].node>> = <<d, n>>
          BY <3>1, <4>2
        <5> QED
          BY <1>8, <5>1
      <4> QED
        BY <3>1, <4>1, <4>2
    <3> QED
      BY <1>8, <1>13, <3>1, <3>2 DEF OnPath
  <2>16. DOMAIN copied' = Fields /\ copied'.impl.kind = "prepost" /\ roots' \subseteq RootsOf(E)
    BY <1>1, <2>7 DEF Ordered
  <2> QED
    BY <1>4, <2>9, <2>10, <2>11, <2>12, <2>14, <2>15, <2>16 DEF PrePostCopy
<1> QED
  BY <1>17, <1>18

----------------------------------------------------------------------------
(* The statistics of an adjacency list of the edges E.                      *)
Statistics ==
    [valid : BOOLEAN, cyclic : BOOLEAN, rootedTree : BOOLEAN,
     nodes : Nat, maxFanOut : Nat, maxDepth : Nat, visits : Nat]

\* Every walk from a root has been visited, or waits, or its root has still its turn.
Seen(E, D) ==
    /\ D \in SUBSET RootWalks(E) /\ IsFiniteSet(D) /\ Cardinality(D) <= visits
    /\ \A x \in D : Simple(x[2], x[1]) /\ x[1] <= stat.maxDepth
    /\ \A x \in RootWalks(E) : x[1] <= Far => x \in D \/ x[2][0] \in roots \/ Waits(x[2], x[1])

Measuring(E) ==
    /\ IInv /\ cycleSafe /\ Shown(gs, E) /\ maxDistance = Far /\ startNode \in RootsOf(E)

MeasureOK(E) ==
    /\ stat \in Statistics /\ ~stat.valid /\ visits \in Nat /\ roots \subseteq RootsOf(E)
    /\ stat.rootedTree => OneParent(E)
    /\ \A n \in Nodes : Cardinality(Targets(E, n)) <= stat.maxFanOut
    /\ Cardinality(EndsOf(E)) <= stat.nodes /\ stat.nodes <= Cardinality(Nodes)
    /\ ~Exhausted => Measuring(E)
    /\ ~stat.cyclic => \E D \in SUBSET RootWalks(E) : Seen(E, D)

LEMMA FiniteParts ==
    ASSUME NEW E \in SUBSET (Nodes \X Nodes)
    PROVE  IsFiniteSet(EndsOf(E)) /\ Cardinality(EndsOf(E)) \in Nat
           /\ Cardinality(EndsOf(E)) <= Cardinality(Nodes)
<1>1. EndsOf(E) \subseteq Nodes
  BY DEF EndsOf
<1> QED
  BY <1>1, StoragesAssumption, FS_Subset, FS_CardinalityType

LEMMA MeasureBegins ==
    ASSUME NEW E \in SUBSET (Nodes \X Nodes), storage.impl = Adjacency, storage.edges = E,
           BeginStatistics, Exhausted
    PROVE  MeasureOK(E)'
<1> DEFINE lens == {Len(getOutgoingEdges(storage, n)) : n \in Nodes}
<1>1. ASSUME NEW n \in Nodes
      PROVE  Len(getOutgoingEdges(storage, n)) = Cardinality(Targets(E, n))
             /\ Cardinality(Targets(E, n)) \in Nat
  <2>1. {e[2] : e \in {f \in storage.edges : f[1] = n}} = Targets(E, n)
    BY DEF Targets
  <2>2. getOutgoingEdges(storage, n) = Ascending(Targets(E, n))
    BY <2>1 DEF getOutgoingEdges, Adjacency
  <2> QED
    BY <2>2, TargetsFinite, AscendingIs, FS_CardinalityType
<1>2. {0} \cup lens \in SUBSET Nat /\ IsFiniteSet({0} \cup lens)
  <2>1. IsFiniteSet(lens)
    <3> DEFINE f == [n \in Nodes |-> Len(getOutgoingEdges(storage, n))]
    <3>1. f \in [Nodes -> lens]
      OBVIOUS
    <3>2. \A x \in lens : \E n \in Nodes : f[n] = x
      OBVIOUS
    <3>3. f \in Surjection(Nodes, lens)
      BY <3>1, <3>2 DEF Surjection
    <3> QED
      BY <3>3, StoragesAssumption, FS_Surjection
  <2>2. IsFiniteSet({0} \cup lens)
    BY <2>1, FS_Singleton, FS_Union
  <2> QED
    BY <1>1, <2>2
<1>3. Max({0} \cup lens) \in Nat /\ \A n \in lens : n <= Max({0} \cup lens)
  <2> HIDE DEF lens
  <2> QED
    BY <1>2, MaxIs
<1> DEFINE tree == \A e, f \in E : e[2] = f[2] => e = f
           cyc  == RootsOf(E) = {} /\ E # {}
<1>4. /\ stat' = [valid |-> FALSE, cyclic |-> cyc, rootedTree |-> tree,
                  nodes |-> Cardinality(EndsOf(E)), maxFanOut |-> Max({0} \cup lens),
                  maxDepth |-> 1, visits |-> 0]
      /\ roots' = RootsOf(E) /\ visits' = 0 /\ UNCHANGED dfsVars
  BY DEF BeginStatistics, NoStatistics, EndsOf
<1>5. tree \in BOOLEAN /\ cyc \in BOOLEAN
  OBVIOUS
<1>6. \A n \in Nodes : Cardinality(Targets(E, n)) <= Max({0} \cup lens)
  <2> SUFFICES ASSUME NEW n \in Nodes PROVE Cardinality(Targets(E, n)) <= Max({0} \cup lens)
    OBVIOUS
  <2>1. Cardinality(Targets(E, n)) \in lens
    BY <1>1
  <2> HIDE DEF lens
  <2> QED
    BY <1>3, <2>1
<1> HIDE DEF lens
<1>7. /\ stat' \in Statistics /\ stat'.valid = FALSE /\ stat'.cyclic = cyc /\ stat'.rootedTree = tree
      /\ stat'.nodes = Cardinality(EndsOf(E)) /\ stat'.maxFanOut = Max({0} \cup lens)
      /\ stat'.maxDepth = 1
  BY <1>3, <1>4, <1>5, FiniteParts DEF Statistics
<1>8. Exhausted'
  BY <1>4 DEF Exhausted, dfsVars, progress
<1>9. Seen(E, {})'
  <2>1. \A x \in RootWalks(E) : x[2][0] \in RootsOf(E)
    BY RootWalkParts
  <2>2. IsFiniteSet({}) /\ Cardinality({}) = 0
    BY FS_EmptySet
  <2> QED
    BY <1>4, <2>1, <2>2 DEF Seen
<1> QED
  <2>1. stat'.rootedTree => OneParent(E)
    BY <1>7 DEF OneParent
  <2> HIDE DEF tree, cyc
  <2>2. Cardinality(EndsOf(E)) <= stat'.nodes /\ stat'.nodes <= Cardinality(Nodes)
    BY <1>7, FiniteParts
  <2>3. \E D \in SUBSET RootWalks(E) : Seen(E, D)'
    BY <1>9
  <2>4. (\E D \in SUBSET RootWalks(E) : Seen(E, D))'
    BY <2>3
  <2> QED
    BY <1>4, <1>6, <1>7, <1>8, <2>1, <2>2, <2>4 DEF MeasureOK

LEMMA MeasureRootHolds ==
    ASSUME NEW E \in SUBSET (Nodes \X Nodes), storage.impl = Adjacency, storage.edges = E,
           MeasureOK(E), MeasureRoot
    PROVE  MeasureOK(E)'
<1> DEFINE r == Min(roots)
<1>1. r \in roots /\ r \in RootsOf(E) /\ r \in Nodes
  <2>1. roots \in SUBSET Nat /\ roots # {}
    BY RootsAre, StoragesAssumption DEF MeasureOK, MeasureRoot, NextRoot
  <2> QED
    BY <2>1, MinIs, RootsAre DEF MeasureOK
<1>2. /\ roots' = roots \ {r} /\ Construct(OutgoingOf(storage), TRUE, r, 0, Far)
      /\ stat' = stat /\ visits' = visits /\ Exhausted
  BY DEF MeasureRoot, NextRoot
<1> HIDE DEF r
<1>3. Shown(OutgoingOf(storage), E) /\ OutgoingOf(storage) \in Graphs
  BY AdjacencyShows DEF Shown
<1>4. IInv' /\ \A k \in Nat : \A w : w[0] = r => Waits(w, k)'
  BY <1>1, <1>2, <1>3, ConstructIs, DFSAssumption
<1>5. Measuring(E)'
  BY <1>1, <1>2, <1>3, <1>4 DEF Measuring, Construct
<1>6. ASSUME ~stat.cyclic PROVE (\E D \in SUBSET RootWalks(E) : Seen(E, D))'
  <2>1. PICK D \in SUBSET RootWalks(E) : Seen(E, D)
    BY <1>6 DEF MeasureOK
  <2>2. ASSUME NEW x \in RootWalks(E), x[1] <= Far
        PROVE  x \in D \/ x[2][0] \in roots' \/ Waits(x[2], x[1])'
    <3>1. x \in D \/ x[2][0] \in roots \/ Waits(x[2], x[1])
      BY <2>1, <2>2 DEF Seen
    <3>2. ~Waits(x[2], x[1])
      BY <1>2 DEF Waits, Exhausted
    <3>3. CASE x[2][0] = r
      <4>1. x[1] \in Nat
        BY RootWalkParts
      <4> QED
        BY <1>4, <3>3, <4>1
    <3> QED
      BY <1>2, <3>1, <3>2, <3>3
  <2>3. Seen(E, D)'
    BY <1>2, <2>1, <2>2 DEF Seen
  <2> QED
    BY <2>3
<1> QED
  BY <1>2, <1>5, <1>6 DEF MeasureOK

LEMMA MeasureHolds ==
    ASSUME NEW E \in SUBSET (Nodes \X Nodes), MeasureOK(E), Measure
    PROVE  MeasureOK(E)'
<1>1. ~Exhausted /\ Enter
  BY DEF Measure, Enter, EnterSafely, EnterAlways
<1>2. Measuring(E)
  BY <1>1 DEF MeasureOK
<1>3. EnterSafely
  BY <1>1, <1>2 DEF Enter, EnterAlways, Measuring
<1>4. UNCHANGED parameters /\ UNCHANGED roots
  BY <1>3 DEF EnterSafely, Measure
<1>5. IInv'
  <2>1. IInv /\ [DFSNext]_dfsVars
    BY <1>2, <1>3 DEF Measuring, DFSNext, Traverse, Enter
  <2> QED
    BY <2>1, InvariantHolds
<1>6. Measuring(E)'
  BY <1>2, <1>4, <1>5 DEF Measuring, parameters
<1>7. PICK d \in Nat : d = distance
  BY <1>1, <1>2, Top DEF Measuring, IInv
<1>8. stat \in Statistics
  BY DEF MeasureOK
<1> DEFINE deep == Max({stat.maxDepth, d})
<1>9. deep \in Nat /\ stat.maxDepth <= deep /\ d <= deep
  <2>1. {stat.maxDepth, d} \in SUBSET Nat /\ IsFiniteSet({stat.maxDepth, d})
    <3>1. stat.maxDepth \in Nat
      BY <1>8 DEF Statistics
    <3>2. IsFiniteSet({stat.maxDepth} \cup {d})
      BY FS_Singleton, FS_Union
    <3>3. {stat.maxDepth} \cup {d} = {stat.maxDepth, d}
      OBVIOUS
    <3> QED
      BY <3>1, <3>2, <3>3
  <2> QED
    BY <2>1, MaxIs
<1>10. stat' = [stat EXCEPT !.maxDepth = deep] /\ visits' = visits + 1
  BY <1>7 DEF Measure
<1> HIDE DEF deep
<1>11. /\ stat' \in Statistics /\ stat'.maxDepth = deep /\ stat'.cyclic = stat.cyclic
       /\ stat'.rootedTree = stat.rootedTree /\ stat'.nodes = stat.nodes
       /\ stat'.maxFanOut = stat.maxFanOut /\ stat'.valid = stat.valid
  BY <1>8, <1>9, <1>10 DEF Statistics
<1>12. ASSUME ~stat.cyclic PROVE (\E D \in SUBSET RootWalks(E) : Seen(E, D))'
  <2>1. PICK D \in SUBSET RootWalks(E) : Seen(E, D)
    BY <1>12 DEF MeasureOK
  <2>2. PICK v \in WalksOf(E, d) :
              /\ v[0] = startNode /\ Simple(v, d)
              /\ \A k \in 0..maxDistance : \A w \in WalksOf(E, k) :
                    Waits(w, k) => Waits(w, k)' \/ (k = d /\ w = v)
    BY <1>2, <1>3, <1>7, EnterVisits DEF Measuring
  <2> DEFINE new == <<d, v>>
  <2>3. new \in RootWalks(E) /\ new[1] = d /\ new[2] = v
    BY <1>2, <2>2, RootWalkIs DEF Measuring
  <2> HIDE DEF new
  <2>4. /\ IsFiniteSet(D \cup {new}) /\ Cardinality(D \cup {new}) <= visits + 1
        /\ Cardinality(D \cup {new}) \in Nat
    <3>1. IsFiniteSet(D) /\ Cardinality(D) <= visits /\ visits \in Nat /\ Cardinality(D) \in Nat
      BY <2>1, FS_CardinalityType DEF Seen, MeasureOK
    <3>2. /\ IsFiniteSet(D \cup {new})
          /\ Cardinality(D \cup {new}) = IF new \in D THEN Cardinality(D) ELSE Cardinality(D) + 1
      BY <3>1, FS_AddElement
    <3> QED
      BY <3>1, <3>2
  <2>5. ASSUME NEW x \in D \cup {new} PROVE Simple(x[2], x[1]) /\ x[1] <= deep
    <3>1. CASE x \in D
      <4>1. Simple(x[2], x[1]) /\ x[1] <= stat.maxDepth /\ x[1] \in Nat
        BY <2>1, <3>1, RootWalkParts DEF Seen
      <4>2. stat.maxDepth \in Nat
        BY <1>8 DEF Statistics
      <4> QED
        BY <1>9, <4>1, <4>2
    <3> QED
      BY <1>9, <2>2, <2>3, <3>1
  <2>6. ASSUME NEW x \in RootWalks(E), x[1] <= Far
        PROVE  x \in D \cup {new} \/ x[2][0] \in roots' \/ Waits(x[2], x[1])'
    <3>1. x = <<x[1], x[2]>> /\ x[1] \in 0..maxDistance /\ x[2] \in WalksOf(E, x[1])
      BY <1>2, <2>6, RootWalkParts, DFSAssumption DEF Measuring
    <3>2. x \in D \/ x[2][0] \in roots \/ Waits(x[2], x[1])
      BY <2>1, <2>6 DEF Seen
    <3>3. Waits(x[2], x[1]) => Waits(x[2], x[1])' \/ x = new
      <4>1. Waits(x[2], x[1]) => Waits(x[2], x[1])' \/ (x[1] = d /\ x[2] = v)
        BY <2>2, <3>1
      <4> QED
        BY <3>1, <4>1 DEF new
    <3> QED
      BY <1>4, <3>2, <3>3
  <2>7. Seen(E, D \cup {new})'
    BY <1>10, <1>11, <2>3, <2>4, <2>5, <2>6 DEF Seen
  <2> QED
    BY <2>3, <2>7
<1>13. visits' \in Nat
  BY <1>10 DEF MeasureOK
<1> QED
  BY <1>4, <1>6, <1>11, <1>12, <1>13 DEF MeasureOK

LEMMA MeasureCycleHolds ==
    ASSUME NEW E \in SUBSET (Nodes \X Nodes), MeasureOK(E), MeasureCycle
    PROVE  MeasureOK(E)'
<1>1. RejectCycle /\ ~Exhausted
  BY DEF MeasureCycle, RejectCycle
<1>2. Measuring(E) /\ stat \in Statistics
  BY <1>1 DEF MeasureOK
<1>3. stat' = [stat EXCEPT !.cyclic = TRUE] /\ UNCHANGED <<visits, roots>>
  BY DEF MeasureCycle, copying
<1>4. /\ stat' \in Statistics /\ stat'.cyclic = TRUE /\ stat'.rootedTree = stat.rootedTree
      /\ stat'.nodes = stat.nodes /\ stat'.maxFanOut = stat.maxFanOut /\ stat'.valid = stat.valid
  BY <1>2, <1>3 DEF Statistics
<1>5. Measuring(E)'
  <2>1. UNCHANGED parameters
    BY <1>1 DEF RejectCycle
  <2>2. IInv /\ [DFSNext]_dfsVars
    BY <1>1, <1>2 DEF Measuring, DFSNext, Traverse
  <2>3. IInv'
    BY <2>2, InvariantHolds
  <2> QED
    BY <1>2, <2>1, <2>3 DEF Measuring, parameters
<1> QED
  BY <1>3, <1>4, <1>5 DEF MeasureOK

LEMMA MeasureEnds ==
    ASSUME NEW E \in SUBSET (Nodes \X Nodes), MeasureOK(E), EndStatistics
    PROVE  /\ stat' \in Statistics /\ Measured(E)' /\ stat'.valid
           /\ stat'.cyclic => ~stat'.rootedTree
           /\ stat'.nodes <= Cardinality(Nodes)
<1>1. stat \in Statistics /\ Exhausted /\ roots = {} /\ visits \in Nat
  BY DEF MeasureOK, EndStatistics
<1>2. stat' = [stat EXCEPT !.valid = TRUE, !.rootedTree = @ /\ ~stat.cyclic,
                           !.maxDepth = IF stat.cyclic THEN 0 ELSE @,
                           !.visits = IF stat.cyclic THEN 0 ELSE visits]
  BY DEF EndStatistics
<1>3. /\ stat' \in Statistics /\ stat'.valid = TRUE /\ stat'.cyclic = stat.cyclic
      /\ stat'.rootedTree = (stat.rootedTree /\ ~stat.cyclic)
      /\ stat'.nodes = stat.nodes /\ stat'.maxFanOut = stat.maxFanOut
      /\ stat'.maxDepth = IF stat.cyclic THEN 0 ELSE stat.maxDepth
      /\ stat'.visits = IF stat.cyclic THEN 0 ELSE visits
  BY <1>1, <1>2 DEF Statistics
<1>4. ASSUME ~stat.cyclic PROVE Bounded(E, stat.maxDepth, visits)
  <2>1. PICK D \in SUBSET RootWalks(E) : Seen(E, D)
    BY <1>4 DEF MeasureOK
  <2>2. ASSUME NEW x \in RootWalks(E), x[1] <= Far PROVE x \in D
    BY <1>1, <2>1, <2>2 DEF Seen, Waits, Exhausted
  <2>3. ASSUME NEW x \in RootWalks(E), x[1] > Far PROVE FALSE
    <3>1. x[1] \in Nat /\ x[2] \in WalksOf(E, x[1]) /\ x[2][0] \in RootsOf(E) /\ Far \in 0..x[1]
      BY <2>3, RootWalkParts, DFSAssumption
    <3> DEFINE b == Begin(x[2], Far)
    <3>2. b \in WalksOf(E, Far) /\ b[0] = x[2][0]
      <4>1. 0 \in 0..Far /\ Far \in Nat
        BY DFSAssumption
      <4> QED
        BY <3>1, <4>1, BeginIs
    <3> HIDE DEF b
    <3>3. <<Far, b>> \in RootWalks(E)
      BY <3>1, <3>2, RootWalkIs, DFSAssumption
    <3>4. <<Far, b>> \in D /\ <<Far, b>>[1] = Far /\ <<Far, b>>[2] = b
      BY <2>2, <3>3, DFSAssumption
    <3>5. Simple(<<Far, b>>[2], <<Far, b>>[1])
      BY <2>1, <3>4 DEF Seen
    <3>6. Far < Cardinality(Nodes)
      BY <3>2, <3>4, <3>5, PathsAreShort, DFSAssumption
    <3>7. Cardinality(Nodes) \in Nat /\ Cardinality(Nodes) <= Far
      BY StoragesAssumption, WidthsAssumption, FS_CardinalityType
    <3> QED
      BY <3>6, <3>7, DFSAssumption
  <2>4. RootWalks(E) = D
    <3>1. ASSUME NEW x \in RootWalks(E) PROVE x \in D
      <4>1. x[1] \in Nat
        BY RootWalkParts
      <4> QED
        BY <2>2, <2>3, <4>1, DFSAssumption
    <3> QED
      BY <3>1
  <2> QED
    BY <2>1, <2>4 DEF Seen, Bounded
<1>5. Measured(E)'
  <2>1. stat'.rootedTree => OneParent(E)
    BY <1>3 DEF MeasureOK
  <2>2. /\ \A n \in Nodes : Cardinality(Targets(E, n)) <= stat'.maxFanOut
        /\ Cardinality(EndsOf(E)) <= stat'.nodes
    BY <1>3 DEF MeasureOK
  <2>3. ~stat'.cyclic => Bounded(E, stat'.maxDepth, stat'.visits)
    BY <1>3, <1>4
  <2> QED
    BY <2>1, <2>2, <2>3 DEF Measured
<1>6. stat'.nodes <= Cardinality(Nodes)
  BY <1>3 DEF MeasureOK
<1> QED
  BY <1>3, <1>5, <1>6

----------------------------------------------------------------------------
(* Questions.                                                               *)
AnswerOK(E, q, a) ==
    CASE q.kind = "findConnected" ->
            Range(a) = Reached(E, q.source, q.min, q.max) /\ IsInjective(a)
      [] q.kind = "isConnected" ->
            a = \E k \in Distances(E, q.source, q.target) : k \in q.min..q.max
      [] q.kind = "distance" /\ (q.source # q.target \/ HasEdges(E, q.source)) ->
            IF a = -1 THEN Distances(E, q.source, q.target) = {}
            ELSE a \in Distances(E, q.source, q.target)
      [] OTHER -> TRUE

QuestionOK(q) ==
    /\ q.kind \in {"findConnected", "isConnected", "distance"}
    /\ q.source \in Nodes /\ (q.kind # "findConnected" => q.target \in Nodes)
    /\ IF q.kind = "distance" THEN q.min = 0 /\ q.max = Far ELSE q.min \in 1..Far /\ q.max \in 0..Far

\* The search for a path to a node.
TargetWaits(E) ==
    \A k \in question.min..question.max : \A w \in WalksOf(E, k) :
        Simple(w, k) /\ w[0] = question.source /\ w[k] = question.target => Waits(w, k)

SafeSearch(E) ==
    /\ IInv /\ cycleSafe /\ Shown(gs, E) /\ startNode = question.source
    /\ minDistance = question.min /\ maxDistance = question.max
    /\ TargetWaits(E)

\* The search for all nodes that a walk leads to.
StackIsReached(E) ==
    \A i \in 1..Len(traversalStack) : \E w \in WalksOf(E, traversalStack[i][2]) :
        w[0] = startNode /\ w[traversalStack[i][2]] = traversalStack[i][1]

GoesOn(w, k) ==
    \E i \in 1..Len(traversalStack) :
        traversalStack[i][2] <= k /\ w[traversalStack[i][2]] = traversalStack[i][1]

UniqueSearch(E) ==
    /\ DFSTypeOK /\ ~cycleSafe /\ Shown(gs, E) /\ startNode = question.source
    /\ minDistance = question.min /\ maxDistance = question.max
    /\ answer \in Seq(Nodes) /\ Range(answer) = outputted /\ IsInjective(answer)
    /\ outputted \subseteq Reached(E, startNode, minDistance, maxDistance)
    /\ StackIsReached(E)
    /\ \A k \in minDistance..maxDistance : \A w \in WalksOf(E, k) :
          w[0] = startNode => w[k] \in outputted \/ GoesOn(w, k)

SearchOK(E) ==
    /\ QuestionOK(question)
    /\ IF question.kind = "findConnected" THEN UniqueSearch(E) ELSE SafeSearch(E)

LEMMA AnswerIsFind ==
    ASSUME NEW E, NEW q, NEW a, q.kind = "findConnected",
           Range(a) = Reached(E, q.source, q.min, q.max), IsInjective(a)
    PROVE  AnswerOK(E, q, a)
BY DEF AnswerOK

LEMMA AnswerIsConnected ==
    ASSUME NEW E, NEW q, NEW a \in BOOLEAN, q.kind = "isConnected",
           a <=> \E k \in Distances(E, q.source, q.target) : k \in q.min..q.max
    PROVE  AnswerOK(E, q, a)
<1>1. a = \E k \in Distances(E, q.source, q.target) : k \in q.min..q.max
  OBVIOUS
<1> QED
  BY <1>1 DEF AnswerOK

LEMMA AnswerIsDistance ==
    ASSUME NEW E, NEW q, NEW a, q.kind = "distance",
           (q.source # q.target \/ HasEdges(E, q.source)) =>
              IF a = -1 THEN Distances(E, q.source, q.target) = {}
              ELSE a \in Distances(E, q.source, q.target)
    PROVE  AnswerOK(E, q, a)
<1>1. CASE q.source # q.target \/ HasEdges(E, q.source)
  BY <1>1 DEF AnswerOK
<1>2. CASE ~(q.source # q.target \/ HasEdges(E, q.source))
  BY <1>2 DEF AnswerOK
<1> QED
  BY <1>1, <1>2

LEMMA QuestionParts ==
    ASSUME NEW q, QuestionOK(q)
    PROVE  /\ q.min \in Nat /\ q.max \in Nat /\ q.max <= Far /\ q.max \in Lengths /\ q.source \in Nodes
           /\ q.kind # "distance" => q.min \in Nat \ {0}
           /\ q.kind = "distance" => q.min = 0 /\ q.max = Far
BY DFSAssumption DEF QuestionOK, Lengths

LEMMA SearchBegins ==
    ASSUME NEW E \in SUBSET (Nodes \X Nodes), storage.impl = Adjacency, storage.edges = E,
           NEW q, QuestionOK(q), question' = q,
           Construct(OutgoingOf(storage), q.kind # "findConnected", q.source, q.min, q.max),
           answer' = <<>>
    PROVE  SearchOK(E)'
<1>1. Shown(OutgoingOf(storage), E) /\ OutgoingOf(storage) \in Graphs
  BY AdjacencyShows DEF Shown
<1>2. (q.kind # "findConnected") \in BOOLEAN
  OBVIOUS
<1>3. /\ IInv' /\ traversalStack' = <<<<q.source, 0>>>>
      /\ \A k \in Nat : \A w : w[0] = q.source => Waits(w, k)'
  BY <1>1, <1>2, QuestionParts, ConstructIs
<1>4. /\ gs' = OutgoingOf(storage) /\ cycleSafe' = (q.kind # "findConnected")
      /\ startNode' = q.source /\ minDistance' = q.min /\ maxDistance' = q.max /\ outputted' = {}
  BY DEF Construct
<1>5. CASE q.kind # "findConnected"
  <2>1. TargetWaits(E)'
    <3>1. ASSUME NEW k \in q.min..q.max, NEW w, w[0] = q.source PROVE Waits(w, k)'
      <4>1. k \in Nat
        BY QuestionParts
      <4> QED
        BY <1>3, <3>1, <4>1
    <3> QED
      BY <3>1 DEF TargetWaits
  <2> QED
    BY <1>1, <1>3, <1>4, <1>5, <2>1 DEF SearchOK, SafeSearch
<1>6. CASE q.kind = "findConnected"
  <2>1. answer' \in Seq(Nodes) /\ Range(answer') = {} /\ IsInjective(answer')
    BY DEF Range, IsInjective
  <2>2. Len(traversalStack') = 1 /\ traversalStack'[1][1] = q.source /\ traversalStack'[1][2] = 0
    BY <1>3
  <2>3. StackIsReached(E)'
    <3>1. Alone(q.source) \in WalksOf(E, 0) /\ Alone(q.source)[0] = q.source
      BY AloneIs, QuestionParts
    <3> QED
      BY <1>4, <2>2, <3>1 DEF StackIsReached
  <2>4. ASSUME NEW k \in q.min..q.max, NEW w, w[0] = q.source PROVE GoesOn(w, k)'
    <3>1. 0 <= k
      BY QuestionParts
    <3> QED
      BY <2>2, <2>4, <3>1 DEF GoesOn
  <2>5. \A k \in minDistance'..maxDistance' : \A w \in WalksOf(E, k) :
          w[0] = startNode' => w[k] \in outputted' \/ GoesOn(w, k)'
    BY <1>4, <2>4
  <2>6. DFSTypeOK' /\ Shown(gs', E) /\ ~cycleSafe'
    BY <1>1, <1>3, <1>4, <1>6 DEF IInv
  <2>7. UniqueSearch(E)'
    BY <1>4, <2>1, <2>3, <2>5, <2>6 DEF UniqueSearch
  <2> QED
    BY <1>6, <2>7 DEF SearchOK
<1> QED
  BY <1>5, <1>6

LEMMA SafeSearchGoesOn ==
    ASSUME NEW E \in SUBSET (Nodes \X Nodes), QuestionOK(question), SafeSearch(E), EnterSafely,
           UNCHANGED question, ~Found \/ node # question.target
    PROVE  SafeSearch(E)'
<1>1. IInv /\ cycleSafe /\ Shown(gs, E) /\ ~Exhausted
  BY DEF SafeSearch, EnterSafely
<1>2. UNCHANGED parameters
  BY DEF EnterSafely
<1>3. IInv'
  <2>1. [DFSNext]_dfsVars
    BY DEF DFSNext, Traverse, Enter
  <2> QED
    BY <1>1, <2>1, InvariantHolds
<1>4. PICK d \in Nat : d = distance
  BY <1>1, Top DEF IInv
<1>5. PICK v \in WalksOf(E, d) :
         /\ v[d] = node
         /\ \A k \in 0..maxDistance : \A w \in WalksOf(E, k) :
               Waits(w, k) => Waits(w, k)' \/ (k = d /\ w = v)
  BY <1>1, <1>4, EnterVisits
<1>6. ASSUME NEW k \in question.min..question.max, NEW w \in WalksOf(E, k), Simple(w, k),
             w[0] = question.source, w[k] = question.target
      PROVE  Waits(w, k)'
  <2>1. Waits(w, k)
    BY <1>6 DEF SafeSearch, TargetWaits
  <2>2. minDistance = question.min /\ maxDistance = question.max /\ question.min \in Nat
        /\ question.max \in Nat
    BY QuestionParts DEF SafeSearch
  <2>3. k \in 0..maxDistance /\ minDistance <= k /\ k <= maxDistance
    BY <2>2
  <2>4. Waits(w, k)' \/ (k = d /\ w = v)
    BY <1>5, <2>1, <2>3
  <2>5. ASSUME k = d, w = v PROVE FALSE
    <3>1. Found
      BY <1>1, <1>4, <2>3, <2>5 DEF Found, InWindow
    <3> QED
      BY <1>5, <1>6, <2>5, <3>1
  <2> QED
    BY <2>4, <2>5
<1>7. TargetWaits(E)'
  BY <1>6 DEF TargetWaits
<1> QED
  BY <1>1, <1>2, <1>3, <1>7 DEF SafeSearch, parameters

\* A node that is found is at the end of a path of this length.
LEMMA SafeSearchFinds ==
    ASSUME NEW E \in SUBSET (Nodes \X Nodes), QuestionOK(question), SafeSearch(E), EnterSafely,
           Found, node = question.target
    PROVE  /\ distance \in question.min..question.max /\ distance \in Nat
           /\ distance \in Distances(E, question.source, question.target)
<1>1. IInv /\ cycleSafe /\ Shown(gs, E) /\ ~Exhausted
  BY DEF SafeSearch, EnterSafely
<1>2. distance \in Nat /\ node \in Nodes
  BY <1>1, Top DEF IInv
<1>3. PICK v \in WalksOf(E, distance) :
         v[0] = startNode /\ v[distance] = node /\ Simple(v, distance)
  BY <1>1, EnterVisits
<1>4. question.source \in Nodes /\ startNode = question.source
      /\ minDistance = question.min /\ maxDistance = question.max
      /\ question.min \in Nat /\ question.max \in Nat
  BY QuestionParts DEF SafeSearch
<1>5. distance \in question.min..question.max
  BY <1>2, <1>4 DEF Found, InWindow
<1> QED
  BY <1>2, <1>3, <1>4, <1>5, DistancesIs

LEMMA SafeSearchRejects ==
    ASSUME NEW E \in SUBSET (Nodes \X Nodes), QuestionOK(question), SafeSearch(E), RejectCycle,
           UNCHANGED question
    PROVE  SafeSearch(E)'
<1>1. IInv /\ cycleSafe /\ Shown(gs, E)
  BY DEF SafeSearch
<1>2. UNCHANGED parameters
  BY DEF RejectCycle
<1>3. IInv'
  <2>1. [DFSNext]_dfsVars
    BY DEF DFSNext, Traverse
  <2> QED
    BY <1>1, <2>1, InvariantHolds
<1>4. ASSUME NEW k \in question.min..question.max, NEW w \in WalksOf(E, k), Simple(w, k),
             w[0] = question.source, w[k] = question.target
      PROVE  Waits(w, k)'
  <2>1. Waits(w, k)
    BY <1>4 DEF SafeSearch, TargetWaits
  <2>2. k \in Nat
    BY QuestionParts
  <2> QED
    BY <1>1, <1>4, <2>1, <2>2, RejectMoves
<1>5. TargetWaits(E)'
  BY <1>4 DEF TargetWaits
<1> QED
  BY <1>1, <1>2, <1>3, <1>5 DEF SafeSearch, parameters

\* When nothing waits any more, there is no path.
LEMMA SafeSearchEnds ==
    ASSUME NEW E \in SUBSET (Nodes \X Nodes), QuestionOK(question), SafeSearch(E), Exhausted,
           question.target \in Nodes
    PROVE  ~\E k \in Distances(E, question.source, question.target) :
              k \in question.min..question.max
<1> SUFFICES ASSUME NEW k \in Distances(E, question.source, question.target),
                    k \in question.min..question.max
             PROVE  FALSE
  OBVIOUS
<1>1. k \in Nat /\ \E w \in WalksOf(E, k) :
         Simple(w, k) /\ w[0] = question.source /\ w[k] = question.target
  BY QuestionParts, DistancesIs
<1>2. PICK w \in WalksOf(E, k) : Simple(w, k) /\ w[0] = question.source /\ w[k] = question.target
  BY <1>1
<1>3. Waits(w, k)
  BY <1>2 DEF SafeSearch, TargetWaits
<1> QED
  BY <1>3 DEF Waits, Exhausted

LEMMA AppendedIs ==
    ASSUME NEW S, NEW s \in Seq(S), NEW n \in S, IsInjective(s), n \notin Range(s)
    PROVE  Append(s, n) \in Seq(S) /\ Range(Append(s, n)) = Range(s) \cup {n}
           /\ IsInjective(Append(s, n))
<1>1. /\ Append(s, n) \in Seq(S) /\ Len(Append(s, n)) = Len(s) + 1 /\ Len(s) \in Nat
      /\ \A i \in 1..Len(s) : Append(s, n)[i] = s[i]
      /\ Append(s, n)[Len(s) + 1] = n
  OBVIOUS
<1>2. DOMAIN s = 1..Len(s) /\ DOMAIN Append(s, n) = 1..(Len(s) + 1)
  BY <1>1
<1>3. PICK t : t = Append(s, n)
  OBVIOUS
<1>4. \A i \in 1..(Len(s) + 1) : i \in 1..Len(s) \/ i = Len(s) + 1
  BY <1>1
<1>5. \A i \in 1..Len(s) : i \in 1..(Len(s) + 1) /\ t[i] = s[i]
  BY <1>1, <1>3
<1>6. Range(t) = Range(s) \cup {n}
  <2>1. Len(s) + 1 \in 1..(Len(s) + 1) /\ t[Len(s) + 1] = n
    BY <1>1, <1>3
  <2> QED
    BY <1>2, <1>3, <1>4, <1>5, <2>1 DEF Range
<1>7. IsInjective(t)
  <2> SUFFICES ASSUME NEW i \in 1..(Len(s) + 1), NEW j \in 1..(Len(s) + 1), t[i] = t[j] PROVE i = j
    BY <1>2, <1>3 DEF IsInjective
  <2>1. \A k \in 1..Len(s) : t[k] \in Range(s)
    BY <1>2, <1>5 DEF Range
  <2>2. t[Len(s) + 1] = n
    BY <1>1, <1>3
  <2>3. CASE i \in 1..Len(s) /\ j \in 1..Len(s)
    BY <1>2, <1>5, <2>3 DEF IsInjective
  <2> QED
    BY <1>4, <2>1, <2>2, <2>3
<1> QED
  BY <1>1, <1>3, <1>6, <1>7

LEMMA UniqueSearchGoesOn ==
    ASSUME NEW E \in SUBSET (Nodes \X Nodes), QuestionOK(question), UniqueSearch(E), EnterAlways,
           UNCHANGED question, answer' = IF Found THEN Append(answer, node) ELSE answer
    PROVE  UniqueSearch(E)'
<1>1. DFSTypeOK /\ ~cycleSafe /\ Shown(gs, E) /\ ~Exhausted
  BY DEF UniqueSearch, EnterAlways
<1>2. UNCHANGED parameters /\ traversalStack' = Pop \o Children
  BY DEF EnterAlways
<1>3. DFSTypeOK'
  <2>1. [DFSNext]_dfsVars
    BY DEF DFSNext, Traverse, Enter
  <2> QED
    BY <1>1, <2>1, TypeStep
<1>4. PICK d \in Nat : d = distance
  BY <1>1, Top
<1>5. PICK n \in Nodes : n = node
  BY <1>1, Top
<1>6. /\ Len(traversalStack) \in Nat \ {0} /\ Len(traversalStack) \in 1..Len(traversalStack)
      /\ traversalStack[Len(traversalStack)] = <<n, d>> /\ Len(Pop) = Len(traversalStack) - 1
  BY <1>1, <1>4, <1>5, Top
<1> DEFINE P == Len(Pop)
<1>0. PICK T : T = traversalStack'
  OBVIOUS
<1>7. /\ Len(T) = P + Len(Children) /\ P \in Nat /\ P = Len(traversalStack) - 1 /\ Len(Children) \in Nat
      /\ \A j \in 1..P : T[j] = traversalStack[j]
      /\ \A h \in (P + 1)..Len(T) : /\ h - P \in 1..Len(gs[n])
                                    /\ T[h] = <<gs[n][h - P], d + 1>>
  <2>1. /\ Len(Pop \o Children) = Len(Pop) + Len(Children) /\ Len(Children) \in Nat
        /\ \A j \in 1..Len(Pop) : (Pop \o Children)[j] = traversalStack[j]
        /\ \A h \in (Len(Pop) + 1)..Len(Pop \o Children) :
              /\ h - Len(Pop) \in 1..Len(gs[n])
              /\ (Pop \o Children)[h] = <<gs[n][h - Len(Pop)], d + 1>>
    BY <1>1, <1>4, <1>5, ChildrenAre
  <2>2. T = Pop \o Children
    BY <1>0, <1>2
  <2>3. P \in Nat /\ P = Len(traversalStack) - 1
    BY <1>6
  <2>4. /\ Len(T) = Len(Pop) + Len(Children)
        /\ \A j \in 1..Len(Pop) : T[j] = traversalStack[j]
        /\ \A h \in (Len(Pop) + 1)..Len(T) :
              /\ h - Len(Pop) \in 1..Len(gs[n])
              /\ T[h] = <<gs[n][h - Len(Pop)], d + 1>>
    BY <2>1, <2>2
  <2> QED
    BY <2>1, <2>3, <2>4
<1>8. gs[n] \in Seq(Nodes) /\ Len(gs[n]) \in Nat
  BY <1>1 DEF DFSTypeOK, Graphs
<1>9. d < maxDistance => Len(Children) = Len(gs[n])
  BY <1>4, <1>5, <1>8 DEF Children
<1> HIDE DEF P
<1>10. /\ question.min \in Nat /\ question.max \in Nat /\ question.max \in Lengths
       /\ question.source \in Nodes
  BY QuestionParts
<1>11. startNode = question.source /\ minDistance = question.min /\ maxDistance = question.max
  BY DEF UniqueSearch
<1>12. PICK v \in WalksOf(E, d) : v[0] = startNode /\ v[d] = n
  BY <1>6 DEF UniqueSearch, StackIsReached
<1>13. InWindow => n \in Reached(E, startNode, minDistance, maxDistance)
  <2> SUFFICES ASSUME InWindow PROVE n \in Reached(E, startNode, minDistance, maxDistance)
    OBVIOUS
  <2>1. d \in minDistance..maxDistance
    BY <1>4, <1>10, <1>11 DEF InWindow
  <2> QED
    BY <1>10, <1>11, <1>12, <2>1, ReachedIs
<1>14. outputted' = IF InWindow THEN outputted \cup {n} ELSE outputted
  BY <1>5 DEF EnterAlways
<1>15. Found <=> InWindow /\ n \notin outputted
  BY <1>1, <1>5 DEF Found
<1>16. answer' \in Seq(Nodes) /\ Range(answer') = outputted' /\ IsInjective(answer')
  <2>1. answer \in Seq(Nodes) /\ Range(answer) = outputted /\ IsInjective(answer)
    BY DEF UniqueSearch
  <2>2. CASE Found
    <3>1. answer' = Append(answer, n) /\ n \notin Range(answer)
      BY <1>5, <1>15, <2>1, <2>2
    <3>2. outputted' = outputted \cup {n}
      BY <1>14, <1>15, <2>2
    <3> QED
      BY <2>1, <3>1, <3>2, AppendedIs
  <2>3. CASE ~Found
    <3>1. answer' = answer /\ outputted' = outputted
      BY <1>14, <1>15, <2>3
    <3> QED
      BY <2>1, <3>1
  <2> QED
    BY <2>2, <2>3
<1>17. outputted' \subseteq Reached(E, startNode, minDistance, maxDistance)
  BY <1>13, <1>14 DEF UniqueSearch
<1>18. ASSUME NEW i \in 1..Len(T)
       PROVE  \E w \in WalksOf(E, T[i][2]) : w[0] = startNode /\ w[T[i][2]] = T[i][1]
  <2>1. CASE i \in 1..P
    <3>1. T[i] = traversalStack[i] /\ i \in 1..Len(traversalStack)
      BY <1>7, <2>1
    <3> QED
      BY <3>1 DEF UniqueSearch, StackIsReached
  <2>2. CASE i \in (P + 1)..Len(T)
    <3>1. i - P \in 1..Len(gs[n]) /\ T[i] = <<gs[n][i - P], d + 1>>
      BY <1>7, <2>2
    <3> DEFINE m == gs[n][i - P]
    <3>2. m \in Nodes /\ <<n, m>> \in E /\ T[i][1] = m /\ T[i][2] = d + 1
      BY <1>1, <3>1, ShownChild DEF Child
    <3> HIDE DEF m
    <3>3. /\ Further(v, d, m) \in WalksOf(E, d + 1) /\ Further(v, d, m)[d + 1] = m
          /\ Further(v, d, m)[0] = startNode
      <4>1. 0 \in 0..d
        OBVIOUS
      <4> QED
        BY <1>12, <3>2, <4>1, FurtherIs
    <3> QED
      BY <3>2, <3>3
  <2>3. i \in 1..P \/ i \in (P + 1)..Len(T)
    BY <1>7
  <2> QED
    BY <2>1, <2>2, <2>3
<1>19. StackIsReached(E)'
  <2>1. startNode' = startNode
    BY <1>2 DEF parameters
  <2> QED
    BY <1>0, <1>18, <2>1 DEF StackIsReached
<1>20. ASSUME NEW k \in minDistance..maxDistance, NEW w \in WalksOf(E, k), w[0] = startNode
       PROVE  w[k] \in outputted' \/ GoesOn(w, k)'
  <2>0. k \in Nat /\ minDistance <= k /\ k <= maxDistance
    BY <1>10, <1>11
  <2>1. CASE w[k] \in outputted
    BY <1>14, <2>1
  <2>2. CASE w[k] \notin outputted
    <3>1. PICK i \in 1..Len(traversalStack) :
             traversalStack[i][2] <= k /\ w[traversalStack[i][2]] = traversalStack[i][1]
      BY <1>20, <2>2 DEF UniqueSearch, GoesOn
    <3>2. CASE i \in 1..P
      <4>0. P <= Len(T) /\ P \in Nat /\ Len(T) \in Nat
        BY <1>7
      <4>1. T[i] = traversalStack[i] /\ i \in 1..Len(T)
        <5>1. i \in 1..Len(T)
          BY <3>2, <4>0
        <5> QED
          BY <1>7, <3>2, <5>1
      <4> QED
        BY <1>0, <3>1, <4>1 DEF GoesOn
    <3>3. CASE i = Len(traversalStack)
      <4>1. d <= k /\ w[d] = n
        BY <1>6, <3>1, <3>3
      <4>2. CASE d = k
        <5>1. InWindow
          BY <1>4, <2>0, <4>2 DEF InWindow
        <5> QED
          BY <1>14, <4>1, <4>2, <5>1
      <4>3. CASE d # k
        <5>1. d < k /\ d < maxDistance /\ d \in 0..(k - 1) /\ d + 1 <= k /\ d + 1 \in 0..k
          BY <1>10, <1>11, <2>0, <4>1, <4>3
        <5>2. <<w[d], w[d + 1]>> \in E /\ w[d + 1] \in Nodes
          BY <2>0, <5>1, WalkIs
        <5>3. PICK j \in 1..Len(gs[n]) : gs[n][j] = w[d + 1]
          BY <1>1, <4>1, <5>2, ShownChild DEF Child
        <5> DEFINE h == P + j
        <5>4. h \in (P + 1)..Len(T) /\ h - P = j /\ h \in 1..Len(T)
          BY <1>7, <1>8, <1>9, <5>1
        <5> HIDE DEF h
        <5>5. T[h] = <<gs[n][h - P], d + 1>>
          BY <1>7, <5>4
        <5>6. T[h][2] = d + 1 /\ T[h][1] = w[d + 1]
          BY <5>3, <5>4, <5>5
        <5>7. T[h][2] <= k /\ w[T[h][2]] = T[h][1]
          BY <5>1, <5>6
        <5> QED
          BY <1>0, <5>4, <5>7 DEF GoesOn
      <4> QED
        BY <4>2, <4>3
    <3>4. i \in 1..P \/ i = Len(traversalStack)
      BY <1>6, <1>7
    <3> QED
      BY <3>2, <3>3, <3>4
  <2> QED
    BY <2>1, <2>2
<1>21. /\ startNode' = startNode /\ minDistance' = minDistance /\ maxDistance' = maxDistance
       /\ gs' = gs /\ cycleSafe' = cycleSafe
  BY <1>2 DEF parameters
<1>22. \A k \in minDistance'..maxDistance' : \A w \in WalksOf(E, k) :
          w[0] = startNode' => w[k] \in outputted' \/ GoesOn(w, k)'
  BY <1>20, <1>21
<1> QED
  BY <1>1, <1>3, <1>11, <1>16, <1>17, <1>19, <1>21, <1>22 DEF UniqueSearch

LEMMA UniqueSearchEnds ==
    ASSUME NEW E \in SUBSET (Nodes \X Nodes), QuestionOK(question), question.kind = "findConnected",
           UniqueSearch(E), Exhausted
    PROVE  AnswerOK(E, question, answer)
<1>1. /\ question.min \in Nat /\ question.max \in Nat /\ question.max \in Lengths
      /\ question.source \in Nodes
  BY QuestionParts
<1>2. /\ startNode = question.source /\ minDistance = question.min /\ maxDistance = question.max
      /\ Range(answer) = outputted /\ IsInjective(answer)
      /\ outputted \subseteq Reached(E, startNode, minDistance, maxDistance)
  BY DEF UniqueSearch
<1>3. ASSUME NEW n \in Reached(E, startNode, minDistance, maxDistance) PROVE n \in outputted
  <2>1. n \in Nodes
    BY DEF Reached
  <2>2. \E k \in minDistance..maxDistance : \E w \in WalksOf(E, k) : w[0] = startNode /\ w[k] = n
    <3>1. startNode \in Nodes /\ minDistance \in Nat /\ maxDistance \in Lengths
      BY <1>1, <1>2
    <3>2. n \in Reached(E, startNode, minDistance, maxDistance)
      OBVIOUS
    <3> QED
      BY <2>1, <3>1, <3>2, ReachedIs
  <2>3. PICK k \in minDistance..maxDistance :
           \E w \in WalksOf(E, k) : w[0] = startNode /\ w[k] = n
    BY <2>2
  <2>4. PICK w \in WalksOf(E, k) : w[0] = startNode /\ w[k] = n
    BY <2>3
  <2>5. w[k] \in outputted \/ GoesOn(w, k)
    BY <2>4 DEF UniqueSearch
  <2> QED
    BY <2>4, <2>5 DEF GoesOn, Exhausted
<1>4. Range(answer) = Reached(E, question.source, question.min, question.max)
  BY <1>2, <1>3
<1> QED
  BY <1>2, <1>4, AnswerIsFind

LEMMA SearchHolds ==
    ASSUME NEW E \in SUBSET (Nodes \X Nodes), SearchOK(E), Search
    PROVE  \/ phase' = "search" /\ SearchOK(E)'
           \/ phase' = "answered" /\ AnswerOK(E, question', answer')
<1>1. QuestionOK(question) /\ question' = question /\ Enter /\ phase = "search"
  BY DEF SearchOK, Search
<1>2. CASE question.kind = "findConnected"
  <2>1. UniqueSearch(E)
    BY <1>2 DEF SearchOK
  <2>2. EnterAlways
    BY <1>1, <2>1 DEF Enter, EnterSafely, UniqueSearch
  <2>3. phase' = phase /\ answer' = IF Found THEN Append(answer, node) ELSE answer
    BY <1>2 DEF Search
  <2>4. UniqueSearch(E)'
    BY <1>1, <2>1, <2>2, <2>3, UniqueSearchGoesOn
  <2> QED
    BY <1>1, <1>2, <2>3, <2>4 DEF SearchOK
<1>3. CASE question.kind # "findConnected"
  <2>1. SafeSearch(E)
    BY <1>3 DEF SearchOK
  <2>2. EnterSafely
    BY <1>1, <2>1 DEF Enter, EnterAlways, SafeSearch
  <2>3. CASE ~Found \/ node # question.target
    <3>1. phase' = phase
      BY <1>3, <2>3 DEF Search
    <3>2. SafeSearch(E)'
      BY <1>1, <2>1, <2>2, <2>3, SafeSearchGoesOn
    <3> QED
      BY <1>1, <1>3, <3>1, <3>2 DEF SearchOK
  <2>4. CASE Found /\ node = question.target
    <3>1. phase' = "answered" /\ answer' = IF question.kind = "distance" THEN distance ELSE TRUE
      BY <1>3, <2>4 DEF Search, Answer
    <3>2. /\ distance \in question.min..question.max /\ distance \in Nat
          /\ distance \in Distances(E, question.source, question.target)
      BY <1>1, <2>1, <2>2, <2>4, SafeSearchFinds
    <3>3. CASE question.kind = "distance"
      <4>1. answer' = distance /\ distance # -1
        BY <3>1, <3>2, <3>3
      <4>2. AnswerOK(E, question, distance)
        BY <3>2, <3>3, <4>1, AnswerIsDistance
      <4> QED
        BY <1>1, <3>1, <4>1, <4>2
    <3>4. CASE question.kind = "isConnected"
      <4>1. answer' = TRUE
        BY <3>1, <3>4
      <4>2. AnswerOK(E, question, TRUE)
        BY <3>2, <3>4, AnswerIsConnected
      <4> QED
        BY <1>1, <3>1, <4>1, <4>2
    <3> QED
      BY <1>1, <1>3, <3>3, <3>4 DEF QuestionOK
  <2> QED
    BY <2>3, <2>4
<1> QED
  BY <1>2, <1>3

LEMMA SearchCycleHolds ==
    ASSUME NEW E \in SUBSET (Nodes \X Nodes), SearchOK(E), SearchCycle
    PROVE  phase' = "search" /\ SearchOK(E)'
<1>1. QuestionOK(question) /\ UNCHANGED question /\ RejectCycle /\ phase' = "search"
  BY DEF SearchOK, SearchCycle, asking
<1>2. question.kind # "findConnected" /\ SafeSearch(E)
  BY <1>1 DEF SearchOK, UniqueSearch, RejectCycle
<1>3. SafeSearch(E)'
  BY <1>1, <1>2, SafeSearchRejects
<1> QED
  BY <1>1, <1>2, <1>3 DEF SearchOK

LEMMA EndSearchHolds ==
    ASSUME NEW E \in SUBSET (Nodes \X Nodes), SearchOK(E), EndSearch
    PROVE  phase' = "answered" /\ AnswerOK(E, question', answer')
<1>1. QuestionOK(question) /\ question' = question /\ Exhausted /\ phase' = "answered"
  BY DEF SearchOK, EndSearch, Answer
<1>2. CASE question.kind = "findConnected"
  <2>1. answer' = answer
    BY <1>2 DEF EndSearch, Answer
  <2> QED
    BY <1>1, <1>2, <2>1, UniqueSearchEnds DEF SearchOK
<1>3. CASE question.kind = "isConnected"
  <2>1. answer' = FALSE /\ SafeSearch(E) /\ question.target \in Nodes
    BY <1>1, <1>3 DEF EndSearch, Answer, SearchOK, QuestionOK
  <2>2. ~\E k \in Distances(E, question.source, question.target) :
            k \in question.min..question.max
    BY <1>1, <2>1, SafeSearchEnds
  <2>3. AnswerOK(E, question, FALSE)
    BY <1>3, <2>2, AnswerIsConnected
  <2> QED
    BY <1>1, <2>1, <2>3
<1>4. CASE question.kind = "distance"
  <2>1. answer' = -1 /\ SafeSearch(E) /\ question.target \in Nodes
        /\ question.min = 0 /\ question.max = Far /\ question.source \in Nodes
    BY <1>1, <1>4 DEF EndSearch, Answer, SearchOK, QuestionOK
  <2>2. ~\E k \in Distances(E, question.source, question.target) :
            k \in question.min..question.max
    BY <1>1, <2>1, SafeSearchEnds
  <2>3. ASSUME NEW k \in Distances(E, question.source, question.target) PROVE FALSE
    <3>1. k \in Lengths
      BY DEF Distances
    <3> QED
      BY <2>1, <2>2, <3>1 DEF Lengths
  <2>4. Distances(E, question.source, question.target) = {}
    BY <2>3
  <2>5. AnswerOK(E, question, -1)
    BY <1>4, <2>4, AnswerIsDistance
  <2> QED
    BY <1>1, <2>1, <2>5
<1> QED
  BY <1>1, <1>2, <1>3, <1>4 DEF QuestionOK

LEMMA DistanceWalk ==
    ASSUME NEW E \in SUBSET (Nodes \X Nodes), NEW m \in Nodes, NEW n \in Nodes,
           NEW k \in Distances(E, m, n)
    PROVE  k \in Nat /\ \E w \in WalksOf(E, k) : Simple(w, k) /\ w[0] = m /\ w[k] = n
<1>1. k \in Nat
  BY DistancesIs
<1>2. \E w \in WalksOf(E, k) : Simple(w, k) /\ w[0] = m /\ w[k] = n
  BY <1>1, DistancesIs
<1> QED
  BY <1>1, <1>2

\* An edge is a path between two nodes, as no edge leads to where it begins.
LEMMA EdgeIsPath ==
    ASSUME NEW E \in SUBSET (Nodes \X Nodes), \A e \in E : e[1] # e[2],
           NEW m \in Nodes, NEW n \in Nodes
    PROVE  <<m, n>> \in E <=> \E k \in Distances(E, m, n) : k \in 1..1
<1>1. ASSUME <<m, n>> \in E PROVE \E k \in Distances(E, m, n) : k \in 1..1
  <2> DEFINE w == Further(Alone(m), 0, n)
  <2>0. Alone(m) \in WalksOf(E, 0) /\ Alone(m)[0] = m
    BY AloneIs
  <2>1. w \in WalksOf(E, 0 + 1) /\ w[0 + 1] = n /\ w[0] = m
    <3>1. 0 \in Nat /\ 0 \in 0..0 /\ <<Alone(m)[0], n>> \in E
      BY <1>1, <2>0
    <3> QED
      BY <2>0, <3>1, FurtherIs
  <2> HIDE DEF w
  <2>2. m # n
    <3>1. <<m, n>>[1] # <<m, n>>[2]
      BY <1>1
    <3> QED
      BY <3>1
  <2>3. Simple(w, 1)
    <3>1. \A i \in 0..1 : i = 0 \/ i = 1
      OBVIOUS
    <3> QED
      BY <2>1, <2>2, <3>1 DEF Simple
  <2>4. 1 \in Distances(E, m, n)
    BY <2>1, <2>3, DistancesIs
  <2> QED
    BY <2>4
<1>2. ASSUME NEW k \in Distances(E, m, n), k \in 1..1 PROVE <<m, n>> \in E
  <2>0. k = 1
    BY <1>2
  <2>1. k \in Nat /\ \E w \in WalksOf(E, k) : Simple(w, k) /\ w[0] = m /\ w[k] = n
    BY DistanceWalk
  <2>2. PICK w \in WalksOf(E, k) : Simple(w, k) /\ w[0] = m /\ w[k] = n
    BY <2>1
  <2>3. <<w[0], w[0 + 1]>> \in E
    <3>1. 0 \in 0..(k - 1) /\ k \in Nat
      BY <2>0
    <3> QED
      BY <3>1, WalkIs
  <2> QED
    BY <2>0, <2>2, <2>3
<1> QED
  BY <1>1, <1>2

\* What the storages that look an answer up have in common.
StorageOK(s, T) == LinearOK(s, T) \/ PrePostOK(s, T)

LEMMA LookupAgrees ==
    ASSUME NEW E \in SUBSET (Nodes \X Nodes), StorageOK(storage, E), NEW q, QuestionOK(q)
    PROVE  AnswerOK(E, q, Lookup(q))
<1>1. /\ q.min \in Nat /\ q.max \in Nat /\ q.max \in 0..Far /\ q.source \in Nodes
      /\ q.kind # "distance" => q.min \in Nat \ {0}
  BY QuestionParts DEF Lengths
<1>2. CASE LinearOK(storage, E)
  <2>0. storage.impl.kind = "linear"
    BY <1>2 DEF LinearOK
  <2>1. CASE q.kind = "findConnected"
    <3>1. Lookup(q) = LinearFind(storage, q.source, q.min, q.max)
      BY <2>0, <2>1 DEF Lookup
    <3> QED
      BY <1>1, <1>2, <2>1, <3>1, LinearFindAgrees, AnswerIsFind
  <2>2. CASE q.kind = "isConnected"
    <3>1. Lookup(q) = LinearConnected(storage, q.source, q.target, q.min, q.max)
          /\ q.target \in Nodes
      BY <2>0, <2>2 DEF Lookup, QuestionOK
    <3>2. LinearConnected(storage, q.source, q.target, q.min, q.max) \in BOOLEAN
      BY DEF LinearConnected
    <3> QED
      BY <1>1, <1>2, <2>2, <3>1, <3>2, LinearConnectedAgrees, AnswerIsConnected
  <2>3. CASE q.kind = "distance"
    <3>1. Lookup(q) = LinearDistance(storage, q.source, q.target) /\ q.target \in Nodes
      BY <2>0, <2>3 DEF Lookup, QuestionOK
    <3> QED
      BY <1>1, <1>2, <2>3, <3>1, LinearDistanceAgrees, AnswerIsDistance
  <2> QED
    BY <2>1, <2>2, <2>3 DEF QuestionOK
<1>3. CASE PrePostOK(storage, E)
  <2>0. storage.impl.kind = "prepost"
    BY <1>3 DEF PrePostOK
  <2>1. CASE q.kind = "findConnected"
    <3>1. Lookup(q) = PrePostFind(storage, q.source, q.min, q.max)
      BY <2>0, <2>1 DEF Lookup
    <3> QED
      BY <1>1, <1>3, <2>1, <3>1, PrePostFindAgrees, AnswerIsFind
  <2>2. CASE q.kind = "isConnected"
    <3>1. Lookup(q) = PrePostConnected(storage, q.source, q.target, q.min, q.max)
          /\ q.target \in Nodes
      BY <2>0, <2>2 DEF Lookup, QuestionOK
    <3>2. PrePostConnected(storage, q.source, q.target, q.min, q.max) \in BOOLEAN
      BY DEF PrePostConnected
    <3> QED
      BY <1>1, <1>3, <2>2, <3>1, <3>2, PrePostConnectedAgrees, AnswerIsConnected
  <2>3. CASE q.kind = "distance"
    <3>1. Lookup(q) = PrePostDistance(storage, q.source, q.target) /\ q.target \in Nodes
      BY <2>0, <2>3 DEF Lookup, QuestionOK
    <3> QED
      BY <1>1, <1>3, <2>3, <3>1, PrePostDistanceAgrees, AnswerIsDistance
  <2> QED
    BY <2>1, <2>2, <2>3 DEF QuestionOK
<1> QED
  BY <1>2, <1>3 DEF StorageOK

LEMMA AskHolds ==
    ASSUME NEW E \in SUBSET (Nodes \X Nodes), \A e \in E : e[1] # e[2],
           \/ storage.impl = Adjacency /\ storage.edges = E
           \/ storage.impl # Adjacency /\ StorageOK(storage, E),
           NEW q, QuestionOK(q), Ask(q)
    PROVE  \/ storage.impl = Adjacency /\ phase' = "search" /\ SearchOK(E)'
           \/ phase' = "answered" /\ AnswerOK(E, question', answer')
<1>1. question' = q
  BY DEF Ask
<1>2. CASE storage.impl # Adjacency
  <2>1. answer' = Lookup(q) /\ phase' = "answered"
    BY <1>2 DEF Ask, Answer
  <2> QED
    BY <1>1, <1>2, <2>1, LookupAgrees
<1>3. CASE storage.impl = Adjacency /\ IsEdgeQuestion(q)
  <2>1. answer' = (<<q.source, q.target>> \in E) /\ phase' = "answered"
    BY <1>3 DEF Ask, Answer
  <2>2. q.kind = "isConnected" /\ q.min = 1 /\ q.max = 1 /\ q.source \in Nodes /\ q.target \in Nodes
    BY <1>3 DEF IsEdgeQuestion, QuestionOK
  <2> DEFINE a == <<q.source, q.target>> \in E
  <2>3. a <=> \E k \in Distances(E, q.source, q.target) : k \in q.min..q.max
    BY <2>2, EdgeIsPath
  <2>4. a \in BOOLEAN
    OBVIOUS
  <2> HIDE DEF a
  <2>5. AnswerOK(E, q, a)
    BY <2>2, <2>3, <2>4, AnswerIsConnected
  <2> QED
    BY <1>1, <2>1, <2>5 DEF a
<1>4. CASE storage.impl = Adjacency /\ ~IsEdgeQuestion(q)
  <2>1. /\ Construct(OutgoingOf(storage), q.kind # "findConnected", q.source, q.min, q.max)
        /\ answer' = <<>> /\ phase' = "search" /\ storage.edges = E
    BY <1>4 DEF Ask
  <2> QED
    BY <1>1, <1>4, <2>1, SearchBegins
<1> QED
  BY <1>2, <1>3, <1>4

----------------------------------------------------------------------------
(* The implementation that is chosen is wide enough for what was measured.  *)
LinearFits(E, impl) ==
    /\ impl.kind = "linear" /\ impl.pos \in Nat /\ OneParent(E) /\ OneChild(E)
    /\ \A x \in RootWalks(E) : x[1] <= impl.pos

PrePostFits(E, impl) ==
    /\ impl.kind = "prepost" /\ impl.order \in Nat /\ impl.level \in Nat
    /\ IsFiniteSet(RootWalks(E)) /\ 2 * Cardinality(RootWalks(E)) <= impl.order
    /\ \A x \in RootWalks(E) : x[1] <= impl.level

LEMMA WidestIsEnough ==
    /\ Cardinality(Nodes) \in Nat /\ 2 * Cardinality(Nodes) <= Uint32Max
    /\ Cardinality(Nodes) <= Int32Max /\ Cardinality(Nodes) <= Far
    /\ \A v, n \in Nat : v * 100 <= VisitRatio * n /\ n <= Cardinality(Nodes) => 2 * v <= Uint32Max
<1> DEFINE C == Cardinality(Nodes)
<1>1. C \in Nat
  BY StoragesAssumption, FS_CardinalityType
<1>2. /\ VisitRatio \in Nat /\ VisitRatio >= 100 /\ 2 * VisitRatio * C <= 100 * Uint32Max
      /\ Uint32Max \in Nat /\ C <= Int32Max /\ C <= Far
  BY WidthsAssumption
<1> HIDE DEF C
<1>3. \A n \in Nat : n <= C => VisitRatio * n <= VisitRatio * C
  BY <1>1, <1>2
<1>4. 100 * C <= VisitRatio * C
  BY <1>1, <1>2
<1>5. VisitRatio * C \in Nat /\ 2 * VisitRatio * C = 2 * (VisitRatio * C)
  BY <1>1, <1>2
<1>6. 2 * C <= Uint32Max
  <2> DEFINE p == VisitRatio * C
  <2>1. p \in Nat /\ 2 * p <= 100 * Uint32Max /\ 100 * C <= p
    BY <1>2, <1>4, <1>5
  <2> HIDE DEF p
  <2> QED
    BY <1>1, <1>2, <2>1
<1>7. ASSUME NEW v \in Nat, NEW n \in Nat, v * 100 <= VisitRatio * n, n <= C PROVE 2 * v <= Uint32Max
  <2> DEFINE p == VisitRatio * C
             q == VisitRatio * n
  <2>1. p \in Nat /\ 2 * p <= 100 * Uint32Max /\ q <= p /\ q \in Nat /\ v * 100 <= q
    BY <1>2, <1>3, <1>5, <1>7
  <2> HIDE DEF p, q
  <2> QED
    BY <1>2, <2>1
<1> QED
  BY <1>1, <1>2, <1>6, <1>7 DEF C

LEMMA BoundedWalks ==
    ASSUME NEW E \in SUBSET (Nodes \X Nodes), stat \in Statistics,
           Bounded(E, stat.maxDepth, stat.visits)
    PROVE  /\ AllSimple(E) /\ IsFiniteSet(RootWalks(E)) /\ Cardinality(RootWalks(E)) \in Nat
           /\ Cardinality(RootWalks(E)) <= stat.visits
           /\ \A x \in RootWalks(E) : /\ x[1] \in Nat /\ x[1] <= stat.maxDepth
                                      /\ x[1] < Cardinality(Nodes)
<1>1. /\ IsFiniteSet(RootWalks(E)) /\ Cardinality(RootWalks(E)) <= stat.visits
      /\ \A x \in RootWalks(E) : Simple(x[2], x[1]) /\ x[1] <= stat.maxDepth
  BY DEF Bounded
<1>2. ASSUME NEW x \in RootWalks(E) PROVE x[1] \in Nat /\ x[1] < Cardinality(Nodes)
  BY <1>1, RootWalkParts, PathsAreShort
<1> QED
  BY <1>1, <1>2, FS_CardinalityType DEF AllSimple

LEMMA LinearIsWide ==
    ASSUME NEW E \in SUBSET (Nodes \X Nodes), stat \in Statistics,
           Bounded(E, stat.maxDepth, stat.visits),
           OneParent(E), \A n \in Nodes : Cardinality(Targets(E, n)) <= stat.maxFanOut,
           stat.maxFanOut <= 1
    PROVE  LinearFits(E, LinearBySize)
<1>1. \A n \in Nodes : Cardinality(Targets(E, n)) <= 1
  <2> SUFFICES ASSUME NEW n \in Nodes PROVE Cardinality(Targets(E, n)) <= 1
    OBVIOUS
  <2>1. Cardinality(Targets(E, n)) \in Nat /\ stat.maxFanOut \in Nat
    BY TargetsFinite, FS_CardinalityType DEF Statistics
  <2>2. Cardinality(Targets(E, n)) <= stat.maxFanOut
    OBVIOUS
  <2> QED
    BY <2>1, <2>2
<1>2. OneChild(E)
  BY <1>1, FewTargets
<1>3. PICK depth \in Nat : depth = stat.maxDepth
  BY DEF Statistics
<1>4. \A x \in RootWalks(E) : x[1] \in Nat /\ x[1] <= depth /\ x[1] < Cardinality(Nodes)
  BY <1>3, BoundedWalks
<1>5. Uint8Max \in Nat /\ Uint16Max \in Nat /\ Uint32Max \in Nat
  BY WidthsAssumption
<1>6. LinearBySize.kind = "linear"
  BY DEF LinearBySize, Linear
<1>7. CASE depth < Uint8Max
  <2>1. LinearBySize.pos = Uint8Max
    BY <1>3, <1>5, <1>7 DEF LinearBySize, Linear
  <2>2. \A x \in RootWalks(E) : x[1] <= Uint8Max
    BY <1>4, <1>5, <1>7
  <2> QED
    BY <1>2, <1>5, <1>6, <2>1, <2>2 DEF LinearFits
<1>8. CASE depth >= Uint8Max /\ depth < Uint16Max
  <2>1. LinearBySize.pos = Uint16Max
    BY <1>3, <1>5, <1>8 DEF LinearBySize, Linear
  <2>2. \A x \in RootWalks(E) : x[1] <= Uint16Max
    BY <1>4, <1>5, <1>8
  <2> QED
    BY <1>2, <1>5, <1>6, <2>1, <2>2 DEF LinearFits
<1>9. CASE depth >= Uint8Max /\ ~(depth < Uint16Max)
  <2>1. LinearBySize.pos = Uint32Max
    BY <1>3, <1>5, <1>9 DEF LinearBySize, Linear
  <2>2. \A x \in RootWalks(E) : x[1] <= Uint32Max
    BY <1>4, <1>5, WidestIsEnough
  <2> QED
    BY <1>2, <1>5, <1>6, <2>1, <2>2 DEF LinearFits
<1> QED
  BY <1>5, <1>7, <1>8, <1>9

LEMMA PrePostIsWide ==
    ASSUME NEW E \in SUBSET (Nodes \X Nodes), stat \in Statistics, stat.nodes <= Cardinality(Nodes),
           Bounded(E, stat.maxDepth, stat.visits), Cardinality(EndsOf(E)) <= stat.nodes,
           NEW isTree \in BOOLEAN,
           IF isTree THEN OneParent(E) ELSE stat.visits * 100 <= VisitRatio * stat.nodes
    PROVE  PrePostFits(E, getPrePostOrderBySize(isTree))
<1> DEFINE few  == stat.nodes < Uint16Max \div 2
           flat == stat.maxDepth < Int8Max
           impl == getPrePostOrderBySize(isTree)
           count == Cardinality(RootWalks(E))
<1>1. /\ impl.kind = "prepost"
      /\ impl.order = IF isTree /\ few /\ (flat \/ stat.maxDepth < Int32Max) THEN Uint16Max ELSE Uint32Max
      /\ impl.level = IF flat /\ (isTree => stat.nodes < Uint32Max \div 2) THEN Int8Max ELSE Int32Max
  BY DEF getPrePostOrderBySize, PrePost
<1>2. /\ Uint16Max \in Nat /\ Uint32Max \in Nat /\ Int8Max \in Nat /\ Int32Max \in Nat
  BY WidthsAssumption
<1>3. stat.nodes \in Nat /\ stat.maxDepth \in Nat /\ stat.visits \in Nat
  BY DEF Statistics
<1>4. /\ IsFiniteSet(RootWalks(E)) /\ count \in Nat /\ count <= stat.visits
      /\ \A x \in RootWalks(E) : x[1] \in Nat /\ x[1] <= stat.maxDepth /\ x[1] < Cardinality(Nodes)
  BY BoundedWalks
<1>5. impl.order \in Nat /\ impl.level \in Nat
  BY <1>1, <1>2
<1>6. isTree => count <= stat.nodes
  <2> SUFFICES ASSUME isTree PROVE count <= stat.nodes
    OBVIOUS
  <2>1. count <= Cardinality(EndsOf(E)) /\ Cardinality(EndsOf(E)) \in Nat
    BY TreeCount
  <2> QED
    BY <1>3, <1>4, <2>1
<1>7. 2 * count <= impl.order
  <2>1. CASE isTree /\ few /\ (flat \/ stat.maxDepth < Int32Max)
    <3> DEFINE half == Uint16Max \div 2
    <3>1. impl.order = Uint16Max /\ count <= stat.nodes /\ stat.nodes < half
      BY <1>1, <1>6, <2>1
    <3>2. 2 * half <= Uint16Max /\ half \in Nat
      BY <1>2
    <3> HIDE DEF count, half, few, flat, impl
    <3> QED
      BY <1>2, <1>3, <1>4, <3>1, <3>2
  <2>2. CASE ~(isTree /\ few /\ (flat \/ stat.maxDepth < Int32Max))
    <3>1. impl.order = Uint32Max
      BY <1>1, <2>2
    <3>2. CASE isTree
      <4>1. count <= stat.nodes /\ stat.nodes <= Cardinality(Nodes)
            /\ 2 * Cardinality(Nodes) <= Uint32Max /\ Cardinality(Nodes) \in Nat
        BY <1>6, <3>2, WidestIsEnough
      <4> HIDE DEF count
      <4> QED
        BY <1>2, <1>3, <1>4, <3>1, <4>1
    <3>3. CASE ~isTree
      <4>1. 2 * stat.visits <= Uint32Max
        BY <1>3, <3>3, WidestIsEnough
      <4> HIDE DEF count
      <4> QED
        BY <1>2, <1>3, <1>4, <3>1, <4>1
    <3> QED
      BY <3>2, <3>3
  <2> QED
    BY <2>1, <2>2
<1>8. \A x \in RootWalks(E) : x[1] <= impl.level
  <2> SUFFICES ASSUME NEW x \in RootWalks(E) PROVE x[1] <= impl.level
    OBVIOUS
  <2>0. x[1] \in Nat /\ x[1] <= stat.maxDepth /\ x[1] < Cardinality(Nodes)
    BY <1>4
  <2>1. CASE flat /\ (isTree => stat.nodes < Uint32Max \div 2)
    <3>1. impl.level = Int8Max /\ stat.maxDepth < Int8Max
      BY <1>1, <2>1
    <3> QED
      BY <1>2, <1>3, <2>0, <3>1
  <2>2. CASE ~(flat /\ (isTree => stat.nodes < Uint32Max \div 2))
    <3>1. impl.level = Int32Max /\ Cardinality(Nodes) <= Int32Max /\ Cardinality(Nodes) \in Nat
      BY <1>1, <2>2, WidestIsEnough
    <3> QED
      BY <1>2, <2>0, <3>1
  <2> QED
    BY <2>1, <2>2
<1> HIDE DEF impl, count
<1> QED
  BY <1>1, <1>4, <1>5, <1>7, <1>8 DEF PrePostFits, impl, count

LEMMA ChosenFits ==
    ASSUME NEW E \in SUBSET (Nodes \X Nodes), stat \in Statistics, stat.nodes <= Cardinality(Nodes),
           Measured(E), stat.cyclic => ~stat.rootedTree,
           getImplByHeuristics # Adjacency
    PROVE  /\ AllSimple(E)
           /\ LinearFits(E, getImplByHeuristics) \/ PrePostFits(E, getImplByHeuristics)
<1>1. ~stat.cyclic
  BY DEF getImplByHeuristics, AlmostTree, Statistics
<1>2. Bounded(E, stat.maxDepth, stat.visits)
  BY <1>1 DEF Measured
<1>3. /\ stat.rootedTree => OneParent(E)
      /\ \A n \in Nodes : Cardinality(Targets(E, n)) <= stat.maxFanOut
      /\ Cardinality(EndsOf(E)) <= stat.nodes
  BY DEF Measured
<1>4. CASE stat.rootedTree /\ stat.maxFanOut <= 1
  <2>1. getImplByHeuristics = LinearBySize
    BY <1>4 DEF getImplByHeuristics
  <2> QED
    BY <1>2, <1>3, <1>4, <2>1, LinearIsWide, BoundedWalks
<1>5. CASE stat.rootedTree /\ ~(stat.maxFanOut <= 1)
  <2>1. getImplByHeuristics = getPrePostOrderBySize(TRUE)
    BY <1>5 DEF getImplByHeuristics
  <2>2. PrePostFits(E, getPrePostOrderBySize(TRUE))
    <3>1. TRUE \in BOOLEAN /\ IF TRUE THEN OneParent(E) ELSE stat.visits * 100 <= VisitRatio * stat.nodes
      BY <1>3, <1>5
    <3> QED
      BY <1>2, <1>3, <3>1, PrePostIsWide
  <2> QED
    BY <1>2, <2>1, <2>2, BoundedWalks
<1>6. CASE ~stat.rootedTree
  <2>1. getImplByHeuristics = getPrePostOrderBySize(FALSE) /\ AlmostTree
    BY <1>6 DEF getImplByHeuristics
  <2>2. stat.visits * 100 <= VisitRatio * stat.nodes
    BY <2>1 DEF AlmostTree
  <2>3. PrePostFits(E, getPrePostOrderBySize(FALSE))
    <3>1. FALSE \in BOOLEAN /\ IF FALSE THEN OneParent(E) ELSE stat.visits * 100 <= VisitRatio * stat.nodes
      BY <2>2
    <3> QED
      BY <1>2, <1>3, <3>1, PrePostIsWide
  <2> QED
    BY <1>2, <2>1, <2>3, BoundedWalks
<1> QED
  BY <1>4, <1>5, <1>6

\* A storage shows the edges that it was made of.
LEMMA StorageShows ==
    ASSUME NEW s, NEW T \in SUBSET (Nodes \X Nodes), StorageOK(s, T)
    PROVE  EdgesOf(s) = T
<1>1. CASE Nodes = {}
  <2>1. T = {} /\ EdgesOf(s) = {}
    BY <1>1 DEF EdgesOf
  <2> QED
    BY <2>1
<1>2. CASE Nodes # {}
  <2>1. Cardinality(Nodes) # 0 /\ Cardinality(Nodes) \in Nat
    BY <1>2, StoragesAssumption, FS_EmptySet, FS_CardinalityType
  <2>2. 1 <= Far
    BY <2>1, WidestIsEnough, DFSAssumption
  <2> QED
    BY <2>2, LinearShows, PrePostShows DEF StorageOK
<1> QED
  BY <1>1, <1>2

----------------------------------------------------------------------------
(* The invariant. What is known of the storage, of the statistics and of     *)
(* the work under way is known while the statistics describe the component.  *)
StorageInv(E) ==
    /\ EdgesOf(storage) = E /\ DOMAIN storage = Fields /\ \A e \in E : e[1] # e[2]
    /\ storage.impl = Adjacency => storage.edges = E
    /\ storage.impl # Adjacency =>
          stat.valid /\ storage.impl = getImplByHeuristics /\ StorageOK(storage, E)

StatInv(E) ==
    /\ stat \in Statistics /\ stat.nodes <= Cardinality(Nodes)
    /\ stat.valid => /\ stat.cyclic => ~stat.rootedTree
                     /\ \E M \in SUBSET (Nodes \X Nodes) :
                           measured.edges = M /\ Measured(M) /\ Descends(E, M)

CopyOK(E) ==
    IF copied.impl = Adjacency
    THEN copied = [Empty(Adjacency) EXCEPT !.edges = E] /\ roots = {} /\ Exhausted
    ELSE /\ storage.impl = Adjacency /\ copied.impl = getImplByHeuristics
         /\ LinearCopy(E) \/ PrePostCopy(E)

PhaseInv(E) ==
    /\ phase \in {"ready", "measure", "choose"} => Exhausted
    /\ phase # "copy" => nodeStack = <<>>
    /\ phase \in {"choose", "copy"} => stat.valid
    /\ phase = "statistics" => MeasureOK(E) /\ measured.edges = E
    /\ phase = "copy" => CopyOK(E)
    /\ phase = "search" => storage.impl = Adjacency /\ SearchOK(E)
    /\ phase = "answered" => AnswerOK(E, question, answer)

Sound(E) == StorageInv(E) /\ StatInv(E) /\ PhaseInv(E)

\* What is known even when the statistics missed something.
Counters ==
    /\ phase \in {"ready", "measure", "statistics", "choose", "copy", "search", "answered"}
    /\ deletes \in Nat /\ measured.deletes \in Nat /\ measured.deletes <= deletes
    /\ ~stat.valid /\ phase # "statistics" => measured.edges = {}
    /\ phase = "statistics" => measured.deletes = deletes
    /\ phase \in {"measure", "statistics"} => ~stat.valid

StoragesInv == Counters /\ (Informed => \E E \in SUBSET (Nodes \X Nodes) : Sound(E))

LEMMA NothingIsRooted == Rooted({})
BY DEF Rooted

LEMMA SameChoice ==
    ASSUME stat' = stat
    PROVE  getImplByHeuristics' = getImplByHeuristics /\ \A E : Measured(E)' <=> Measured(E)
BY DEF getImplByHeuristics, AlmostTree, LinearBySize, getPrePostOrderBySize, Measured

LEMMA SameStorage ==
    ASSUME NEW E, StorageInv(E), UNCHANGED <<storage, stat>>
    PROVE  StorageInv(E)'
BY SameChoice DEF StorageInv

LEMMA SameStat ==
    ASSUME NEW E, StatInv(E), UNCHANGED <<stat, measured>>
    PROVE  StatInv(E)'
BY SameChoice DEF StatInv

\* What has been measured holds of what is left, and of what is copied.
LEMMA StillMeasured ==
    ASSUME NEW E \in SUBSET (Nodes \X Nodes), StatInv(E), stat.valid
    PROVE  Measured(E)
<1>1. PICK M \in SUBSET (Nodes \X Nodes) : Measured(M) /\ Descends(E, M)
  BY DEF StatInv
<1>2. StatisticsOK
  BY DEF StatInv, Statistics, StatisticsOK
<1> QED
  BY <1>1, <1>2, MeasuredDescends

LEMMA StillFits ==
    ASSUME NEW E \in SUBSET (Nodes \X Nodes), StatInv(E), stat.valid,
           getImplByHeuristics # Adjacency
    PROVE  /\ AllSimple(E)
           /\ LinearFits(E, getImplByHeuristics) \/ PrePostFits(E, getImplByHeuristics)
<1>1. Measured(E)
  BY StillMeasured
<1>2. stat \in Statistics /\ stat.nodes <= Cardinality(Nodes) /\ (stat.cyclic => ~stat.rootedTree)
  BY DEF StatInv
<1> QED
  BY <1>1, <1>2, ChosenFits

\* Informed is lost, never found.
LEMMA SameInformed ==
    ASSUME UNCHANGED <<deletes, measured>>
    PROVE  Informed' <=> Informed
BY DEF Informed

----------------------------------------------------------------------------
(* Init and the operations.                                                 *)
LEMMA InitSound == Init => StoragesInv
<1> SUFFICES ASSUME Init PROVE StoragesInv
  OBVIOUS
<1>1. PICK E \in Components : storage = [Empty(Adjacency) EXCEPT !.edges = E]
  BY DEF Init
<1>2. E \in SUBSET (Nodes \X Nodes) /\ \A e \in E : e[1] # e[2]
  BY StoragesAssumption
<1>3. storage.impl = Adjacency /\ storage.edges = E /\ DOMAIN storage = Fields
  BY <1>1 DEF Empty, Fields
<1>4. EdgesOf(storage) = E
  BY <1>2, <1>3, AdjacencyShows
<1>5. stat = NoStatistics /\ phase = "ready" /\ nodeStack = <<>> /\ Exhausted
      /\ deletes = 0 /\ measured = [edges |-> {}, deletes |-> 0]
  BY DEF Init, Exhausted
<1>6. stat \in Statistics /\ stat.valid = FALSE /\ stat.nodes = 0
  BY <1>5 DEF NoStatistics, Statistics
<1>7. Cardinality(Nodes) \in Nat
  BY WidestIsEnough
<1>8. StorageInv(E)
  BY <1>2, <1>3, <1>4 DEF StorageInv
<1>9. StatInv(E)
  BY <1>6, <1>7 DEF StatInv
<1>10. PhaseInv(E)
  BY <1>5 DEF PhaseInv
<1>11. Counters
  BY <1>5, <1>6 DEF Counters
<1> QED
  BY <1>2, <1>8, <1>9, <1>10, <1>11 DEF StoragesInv, Sound

LEMMA deleteEdgeSound ==
    ASSUME StoragesInv, deleteEdge
    PROVE  StoragesInv'
<1>1. Counters'
  BY DEF StoragesInv, Counters, deleteEdge
<1>2. ASSUME Informed' PROVE \E E \in SUBSET (Nodes \X Nodes) : Sound(E)'
  <2>1. Rooted(measured.edges) /\ Informed
    <3>1. deletes' = deletes + 1 /\ measured' = measured /\ deletes \in Nat
          /\ measured.deletes \in Nat /\ measured.deletes <= deletes
      BY DEF StoragesInv, Counters, deleteEdge
    <3>2. deletes' # measured'.deletes
      BY <3>1
    <3> QED
      BY <1>2, <3>1, <3>2 DEF Informed
  <2>2. PICK E \in SUBSET (Nodes \X Nodes) : Sound(E)
    BY <2>1 DEF StoragesInv
  <2>3. storage.impl = Adjacency /\ storage.edges = E /\ DOMAIN storage = Fields
        /\ \A e \in E : e[1] # e[2]
    BY <2>2 DEF Sound, StorageInv, deleteEdge
  <2>4. PICK e \in E : storage' = [storage EXCEPT !.edges = @ \ {e}]
    BY <2>3 DEF deleteEdge
  <2> DEFINE F == E \ {e}
  <2>5. storage'.impl = Adjacency /\ storage'.edges = F /\ DOMAIN storage' = Fields
    BY <2>3, <2>4 DEF Fields
  <2>6. F \in SUBSET (Nodes \X Nodes) /\ \A f \in F : f[1] # f[2]
    BY <2>3
  <2>7. EdgesOf(storage') = F
    BY <2>5, <2>6, AdjacencyShows
  <2>8. StorageInv(F)'
    BY <2>5, <2>6, <2>7 DEF StorageInv
  <2>9. StatInv(F)'
    <3>0. stat' = stat /\ measured' = measured
      BY DEF deleteEdge
    <3>1. stat \in Statistics /\ stat.nodes <= Cardinality(Nodes)
          /\ (stat.valid /\ stat.cyclic => ~stat.rootedTree)
      BY <2>2 DEF Sound, StatInv
    <3>2. ASSUME stat.valid
          PROVE  \E M \in SUBSET (Nodes \X Nodes) :
                    measured.edges = M /\ Measured(M) /\ Descends(F, M)
      <4>1. PICK M \in SUBSET (Nodes \X Nodes) :
               measured.edges = M /\ Measured(M) /\ Descends(E, M)
        BY <2>2, <3>2 DEF Sound, StatInv
      <4>2. F \in SUBSET M /\ Rooted(M)
        BY <2>1, <4>1 DEF Descends
      <4>3. Descends(F, M)
        BY <4>2, RootedDescends
      <4> QED
        BY <4>1, <4>3
    <3>3. \A M : Measured(M)' <=> Measured(M)
      BY <3>0, SameChoice
    <3> QED
      BY <3>0, <3>1, <3>2, <3>3 DEF StatInv
  <2>10. PhaseInv(F)'
    <3>1. phase = "ready" /\ phase' = "ready" /\ UNCHANGED <<dfsVars, nodeStack>>
      BY DEF deleteEdge, copying
    <3>2. Exhausted /\ nodeStack = <<>>
      BY <2>2, <3>1 DEF Sound, PhaseInv
    <3>3. Exhausted'
      BY <3>1, <3>2 DEF Exhausted, dfsVars, progress
    <3> QED
      BY <3>1, <3>2, <3>3 DEF PhaseInv
  <2> HIDE DEF F
  <2> QED
    BY <2>6, <2>8, <2>9, <2>10 DEF Sound
<1> QED
  BY <1>1, <1>2 DEF StoragesInv

\* A step that changes neither the storage nor the statistics, in sound states.
LEMMA PhaseOnly ==
    ASSUME StoragesInv, Counters', UNCHANGED <<storage, stat, deletes, measured>>,
           \A E \in SUBSET (Nodes \X Nodes) : Sound(E) => PhaseInv(E)'
    PROVE  StoragesInv'
<1>1. ASSUME Informed' PROVE \E E \in SUBSET (Nodes \X Nodes) : Sound(E)'
  <2>1. PICK E \in SUBSET (Nodes \X Nodes) : Sound(E)
    BY <1>1, SameInformed DEF StoragesInv
  <2>2. StorageInv(E)' /\ StatInv(E)'
    BY <2>1, SameStorage, SameStat DEF Sound
  <2> QED
    BY <2>1, <2>2 DEF Sound
<1> QED
  BY <1>1 DEF StoragesInv

LEMMA convertComponentSound ==
    ASSUME StoragesInv, NEW impl, convertComponent(impl)
    PROVE  StoragesInv'
<1>1. /\ UNCHANGED <<storage, stat, deletes, measured, dfsVars, nodeStack>>
      /\ phase = "ready" /\ phase' = IF stat.valid THEN "choose" ELSE "measure"
  BY DEF convertComponent, copying
<1>2. Counters'
  BY <1>1 DEF StoragesInv, Counters
<1>3. ASSUME NEW E \in SUBSET (Nodes \X Nodes), Sound(E) PROVE PhaseInv(E)'
  <2>1. Exhausted /\ nodeStack = <<>>
    BY <1>1, <1>3 DEF Sound, PhaseInv
  <2>2. Exhausted'
    BY <1>1, <2>1 DEF Exhausted, dfsVars, progress
  <2> QED
    BY <1>1, <2>1, <2>2 DEF PhaseInv
<1> QED
  BY <1>1, <1>2, <1>3, PhaseOnly

LEMMA KeepStorageSound ==
    ASSUME StoragesInv, KeepStorage
    PROVE  StoragesInv'
<1>1. /\ UNCHANGED <<storage, stat, deletes, measured, dfsVars, nodeStack>>
      /\ phase = "choose" /\ phase' = "ready"
  BY DEF KeepStorage, copying, budget
<1>2. Counters'
  BY <1>1 DEF StoragesInv, Counters
<1>3. ASSUME NEW E \in SUBSET (Nodes \X Nodes), Sound(E) PROVE PhaseInv(E)'
  <2>1. Exhausted /\ nodeStack = <<>>
    BY <1>1, <1>3 DEF Sound, PhaseInv
  <2>2. Exhausted'
    BY <1>1, <2>1 DEF Exhausted, dfsVars, progress
  <2> QED
    BY <1>1, <2>1, <2>2 DEF PhaseInv
<1> QED
  BY <1>1, <1>2, <1>3, PhaseOnly

\* While the statistics are taken, they describe the component as it is.
LEMMA MeasuringInformed ==
    ASSUME StoragesInv, phase \in {"measure", "statistics"}
    PROVE  \E E \in SUBSET (Nodes \X Nodes) :
              Sound(E) /\ storage.impl = Adjacency /\ storage.edges = E
<1>1. Counters
  BY DEF StoragesInv
<1>2. ~stat.valid
  BY <1>1 DEF Counters
<1>3. Informed
  <2>1. CASE phase = "measure"
    <3>1. measured.edges = {}
      BY <1>1, <1>2, <2>1 DEF Counters
    <3>2. Rooted(measured.edges)
      BY <3>1, NothingIsRooted
    <3> QED
      BY <3>2 DEF Informed
  <2>2. CASE phase = "statistics"
    BY <1>1, <2>2 DEF Counters, Informed
  <2> QED
    BY <2>1, <2>2
<1>4. PICK E \in SUBSET (Nodes \X Nodes) : Sound(E)
  BY <1>3 DEF StoragesInv
<1>5. storage.impl = Adjacency /\ storage.edges = E
  BY <1>2, <1>4 DEF Sound, StorageInv
<1> QED
  BY <1>4, <1>5

\* A step that leaves the component being measured.
LEMMA MeasuringSound ==
    ASSUME Counters, NEW E \in SUBSET (Nodes \X Nodes), StorageInv(E), storage.impl = Adjacency,
           nodeStack = <<>>,
           UNCHANGED <<storage, nodeStack, deletes>>, phase' = "statistics", MeasureOK(E)',
           measured'.edges = E, measured'.deletes = deletes
    PROVE  StoragesInv'
<1>1. stat' \in Statistics /\ stat'.valid = FALSE /\ stat'.nodes <= Cardinality(Nodes)
  BY DEF MeasureOK, Statistics
<1>2. Counters'
  BY <1>1 DEF Counters
<1>3. StorageInv(E)'
  BY DEF StorageInv
<1>4. StatInv(E)'
  BY <1>1 DEF StatInv
<1>5. PhaseInv(E)'
  BY DEF PhaseInv
<1> QED
  BY <1>2, <1>3, <1>4, <1>5 DEF StoragesInv, Sound

LEMMA BeginStatisticsSound ==
    ASSUME StoragesInv, BeginStatistics
    PROVE  StoragesInv'
<1>1. /\ UNCHANGED <<storage, nodeStack, deletes>> /\ phase = "measure" /\ phase' = "statistics"
      /\ measured'.edges = storage.edges /\ measured'.deletes = deletes
  BY DEF BeginStatistics
<1>2. PICK E \in SUBSET (Nodes \X Nodes) :
          Sound(E) /\ storage.impl = Adjacency /\ storage.edges = E
  BY <1>1, MeasuringInformed
<1>3. Exhausted /\ nodeStack = <<>>
  BY <1>1, <1>2 DEF Sound, PhaseInv
<1>4. MeasureOK(E)'
  BY <1>2, <1>3, MeasureBegins
<1> QED
  BY <1>1, <1>2, <1>3, <1>4, MeasuringSound DEF StoragesInv, Sound

LEMMA MeasuringGoesOn ==
    ASSUME StoragesInv, phase = "statistics",
           UNCHANGED <<storage, nodeStack, deletes, measured, phase>>,
           \A E \in SUBSET (Nodes \X Nodes) :
               storage.impl = Adjacency /\ storage.edges = E /\ MeasureOK(E) => MeasureOK(E)'
    PROVE  StoragesInv'
<1>1. PICK E \in SUBSET (Nodes \X Nodes) :
          Sound(E) /\ storage.impl = Adjacency /\ storage.edges = E
  BY MeasuringInformed
<1>2. MeasureOK(E) /\ nodeStack = <<>> /\ measured.edges = E
  BY <1>1 DEF Sound, PhaseInv
<1>3. MeasureOK(E)'
  BY <1>1, <1>2
<1>4. Counters /\ measured.deletes = deletes /\ StorageInv(E)
  BY <1>1 DEF StoragesInv, Counters, Sound
<1> QED
  BY <1>1, <1>2, <1>3, <1>4, MeasuringSound

LEMMA MeasureRootSound ==
    ASSUME StoragesInv, MeasureRoot
    PROVE  StoragesInv'
<1>1. phase = "statistics" /\ UNCHANGED <<storage, nodeStack, deletes, measured, phase>>
  BY DEF MeasureRoot, budget
<1>2. ASSUME NEW E \in SUBSET (Nodes \X Nodes),
             storage.impl = Adjacency, storage.edges = E, MeasureOK(E)
      PROVE  MeasureOK(E)'
  BY <1>2, MeasureRootHolds
<1> QED
  BY <1>1, <1>2, MeasuringGoesOn

LEMMA MeasureSound ==
    ASSUME StoragesInv, Measure
    PROVE  StoragesInv'
<1>1. phase = "statistics" /\ UNCHANGED <<storage, nodeStack, deletes, measured, phase>>
  BY DEF Measure, budget
<1>2. ASSUME NEW E \in SUBSET (Nodes \X Nodes),
             storage.impl = Adjacency, storage.edges = E, MeasureOK(E)
      PROVE  MeasureOK(E)'
  BY <1>2, MeasureHolds
<1> QED
  BY <1>1, <1>2, MeasuringGoesOn

LEMMA MeasureCycleSound ==
    ASSUME StoragesInv, MeasureCycle
    PROVE  StoragesInv'
<1>1. phase = "statistics" /\ UNCHANGED <<storage, nodeStack, deletes, measured, phase>>
  BY DEF MeasureCycle, budget, copying
<1>2. ASSUME NEW E \in SUBSET (Nodes \X Nodes),
             storage.impl = Adjacency, storage.edges = E, MeasureOK(E)
      PROVE  MeasureOK(E)'
  BY <1>2, MeasureCycleHolds
<1> QED
  BY <1>1, <1>2, MeasuringGoesOn

LEMMA EndStatisticsSound ==
    ASSUME StoragesInv, EndStatistics
    PROVE  StoragesInv'
<1>1. /\ UNCHANGED <<storage, nodeStack, deletes, measured, dfsVars>>
      /\ phase = "statistics" /\ phase' = "choose" /\ Exhausted
  BY DEF EndStatistics, budget, copying
<1>2. PICK E \in SUBSET (Nodes \X Nodes) :
          Sound(E) /\ storage.impl = Adjacency /\ storage.edges = E
  BY <1>1, MeasuringInformed
<1>3. MeasureOK(E) /\ nodeStack = <<>> /\ measured.edges = E
  BY <1>1, <1>2 DEF Sound, PhaseInv
<1>4. /\ stat' \in Statistics /\ Measured(E)' /\ stat'.valid
      /\ stat'.cyclic => ~stat'.rootedTree
      /\ stat'.nodes <= Cardinality(Nodes)
  BY <1>3, MeasureEnds
<1>5. Exhausted'
  BY <1>1 DEF Exhausted, dfsVars, progress
<1>6. Counters'
  BY <1>1, <1>4 DEF StoragesInv, Counters
<1>7. StorageInv(E)'
  BY <1>1, <1>2 DEF Sound, StorageInv
<1>8. StatInv(E)'
  <2>1. Descends(E, E)
    BY DescendsItself
  <2>2. measured'.edges = E /\ Measured(E)' /\ Descends(E, E)
    BY <1>1, <1>3, <1>4, <2>1
  <2>3. \E M \in SUBSET (Nodes \X Nodes) : measured'.edges = M /\ Measured(M)' /\ Descends(E, M)
    BY <2>2
  <2> QED
    BY <1>4, <2>3 DEF StatInv
<1>9. PhaseInv(E)'
  BY <1>1, <1>3, <1>4, <1>5 DEF PhaseInv
<1> QED
  BY <1>6, <1>7, <1>8, <1>9 DEF StoragesInv, Sound

\* What is chosen, in terms of what is copied.
LEMMA CopyFits ==
    ASSUME NEW E \in SUBSET (Nodes \X Nodes), StatInv(E), stat.valid,
           copied.impl # Adjacency, copied.impl = getImplByHeuristics
    PROVE  /\ AllSimple(E)
           /\ LinearCopy(E) => copied.impl.kind = "linear" /\ Wide(E) /\ OneParent(E) /\ OneChild(E)
           /\ PrePostCopy(E) => copied.impl.kind = "prepost" /\ Roomy(E)
<1>1. AllSimple(E) /\ (LinearFits(E, copied.impl) \/ PrePostFits(E, copied.impl))
  BY StillFits
<1>2. ASSUME LinearCopy(E) PROVE copied.impl.kind = "linear" /\ Wide(E) /\ OneParent(E) /\ OneChild(E)
  <2>1. copied.impl.kind = "linear"
    BY <1>2 DEF LinearCopy
  <2>2. LinearFits(E, copied.impl)
    BY <1>1, <2>1 DEF PrePostFits
  <2> QED
    BY <2>1, <2>2 DEF LinearFits, Wide
<1>3. ASSUME PrePostCopy(E) PROVE copied.impl.kind = "prepost" /\ Roomy(E)
  <2>1. copied.impl.kind = "prepost"
    BY <1>3 DEF PrePostCopy
  <2>2. PrePostFits(E, copied.impl)
    BY <1>1, <2>1 DEF LinearFits
  <2> QED
    BY <2>1, <2>2 DEF PrePostFits, Roomy
<1> QED
  BY <1>1, <1>2, <1>3

\* What has been copied before the first root.
LEMMA LinearBegins ==
    ASSUME NEW E \in SUBSET (Nodes \X Nodes), NEW impl, impl.kind = "linear", impl.pos \in Nat,
           copied' = [Empty(impl) EXCEPT !.edges = {}], roots' = RootsOf(E), Exhausted'
    PROVE  LinearCopy(E)'
<1>1. /\ DOMAIN copied' = Fields /\ copied'.impl = impl
      /\ copied'.nodeChains = <<>> /\ copied'.node2pos = <<>>
  BY DEF Empty, Fields
<1>2. DOMAIN copied'.nodeChains = {} /\ DOMAIN copied'.node2pos = {}
  BY <1>1
<1> QED
  BY <1>1, <1>2 DEF LinearCopy

LEMMA PrePostBegins ==
    ASSUME NEW E \in SUBSET (Nodes \X Nodes), NEW impl, impl.kind = "prepost",
           copied' = [Empty(impl) EXCEPT !.edges = {}], roots' = RootsOf(E), Exhausted',
           nodeStack' = <<>>, currentOrder' = 0
    PROVE  PrePostCopy(E)'
<1>1. DOMAIN copied' = Fields /\ copied'.impl = impl /\ copied'.order = {}
  BY DEF Empty, Fields
<1>2. Open' = {} /\ Len(nodeStack') = 0
  BY DEF Open
<1>3. nodeStack' \in Seq([node : Nodes, pre : Nat, level : Nat])
  OBVIOUS
<1>4. EntriesOK(E)'
  BY <1>1, <1>2, <1>3 DEF EntriesOK
<1>5. ParentsOK(E)'
  BY <1>1, <1>2 DEF ParentsOK
<1>6. ChildrenOK(E)'
  BY <1>1, <1>2 DEF ChildrenOK
<1>7. RootsCopied(E)'
  BY DEF RootsCopied
<1>8. Counted(E)'
  <2>1. IsFiniteSet({}) /\ Cardinality({}) = 0
    BY FS_EmptySet
  <2>2. Visited(E, {})'
    BY <1>2, <2>1 DEF Visited
  <2> QED
    BY <2>2 DEF Counted
<1> QED
  BY <1>1, <1>4, <1>5, <1>6, <1>7, <1>8 DEF PrePostCopy

LEMMA BeginCopySound ==
    ASSUME StoragesInv, BeginCopy
    PROVE  StoragesInv'
<1>1. /\ UNCHANGED <<storage, stat, deletes, measured, dfsVars, nodeStack>>
      /\ phase = "choose" /\ phase' = "copy" /\ Chosen # storage.impl /\ currentOrder' = 0
      /\ copied' = [Empty(Chosen) EXCEPT !.edges =
                        IF Chosen = Adjacency THEN EdgesOf(storage) ELSE {}]
      /\ roots' = IF Chosen = Adjacency THEN {} ELSE RootsOf(EdgesOf(storage))
  BY DEF BeginCopy, budget
<1>2. Counters'
  BY <1>1 DEF StoragesInv, Counters
<1>3. ASSUME NEW E \in SUBSET (Nodes \X Nodes), Sound(E) PROVE PhaseInv(E)'
  <2>1. Exhausted /\ nodeStack = <<>> /\ stat.valid
    BY <1>1, <1>3 DEF Sound, PhaseInv
  <2>2. Exhausted' /\ nodeStack' = <<>> /\ stat'.valid
    BY <1>1, <2>1 DEF Exhausted, dfsVars, progress
  <2>3. EdgesOf(storage) = E
    BY <1>3 DEF Sound, StorageInv
  <2>4. CASE Chosen = Adjacency
    <3>1. copied' = [Empty(Adjacency) EXCEPT !.edges = E] /\ roots' = {}
      BY <1>1, <2>3, <2>4
    <3>2. copied'.impl = Adjacency
      BY <3>1 DEF Empty
    <3>3. CopyOK(E)'
      BY <2>2, <3>1, <3>2 DEF CopyOK
    <3> QED
      BY <1>1, <2>2, <3>3 DEF PhaseInv
  <2>5. CASE Chosen # Adjacency
    <3>1. Chosen = getImplByHeuristics
      BY <2>5 DEF Chosen
    <3>2. storage.impl = Adjacency
      BY <1>1, <1>3, <3>1 DEF Sound, StorageInv
    <3>3. LinearFits(E, Chosen) \/ PrePostFits(E, Chosen)
      BY <1>3, <2>1, <2>5, <3>1, StillFits DEF Sound
    <3>4. copied' = [Empty(Chosen) EXCEPT !.edges = {}] /\ roots' = RootsOf(E)
      BY <1>1, <2>3, <2>5
    <3>5. copied'.impl = Chosen
      BY <3>4 DEF Empty
    <3>6. getImplByHeuristics' = getImplByHeuristics
      BY <1>1, SameChoice
    <3>7. LinearCopy(E)' \/ PrePostCopy(E)'
      <4>1. PICK impl : impl = Chosen
        OBVIOUS
      <4>2. CASE LinearFits(E, impl)
        BY <2>2, <3>4, <4>1, <4>2, LinearBegins DEF LinearFits
      <4>3. CASE PrePostFits(E, impl)
        BY <1>1, <2>2, <3>4, <4>1, <4>3, PrePostBegins DEF PrePostFits
      <4> QED
        BY <3>3, <4>1, <4>2, <4>3
    <3>8. CopyOK(E)'
      BY <1>1, <2>5, <3>1, <3>2, <3>5, <3>6, <3>7 DEF CopyOK
    <3> QED
      BY <1>1, <2>2, <3>8 DEF PhaseInv
  <2> QED
    BY <2>4, <2>5
<1> QED
  BY <1>1, <1>2, <1>3, PhaseOnly

\* A step of the copy of an adjacency list.
LEMMA CopyingSound ==
    ASSUME StoragesInv, phase = "copy",
           UNCHANGED <<storage, stat, deletes, measured, phase>>,
           \A E \in SUBSET (Nodes \X Nodes) : Sound(E) /\ CopyOK(E) =>
               /\ copied.impl # Adjacency /\ copied'.impl = copied.impl
               /\ LinearCopy(E)' \/ PrePostCopy(E)'
    PROVE  StoragesInv'
<1>1. Counters'
  BY DEF StoragesInv, Counters
<1>2. ASSUME NEW E \in SUBSET (Nodes \X Nodes), Sound(E) PROVE PhaseInv(E)'
  <2>1. CopyOK(E) /\ stat.valid
    BY <1>2 DEF Sound, PhaseInv
  <2>2. /\ copied.impl # Adjacency /\ copied'.impl = copied.impl
        /\ LinearCopy(E)' \/ PrePostCopy(E)'
    BY <1>2, <2>1
  <2>3. getImplByHeuristics' = getImplByHeuristics
    BY SameChoice
  <2>4. CopyOK(E)'
    BY <2>1, <2>2, <2>3 DEF CopyOK
  <2> QED
    BY <2>1, <2>4 DEF PhaseInv
<1> QED
  BY <1>1, <1>2, PhaseOnly

\* A step of the copy leaves what is filled a storage of its kind.
LEMMA CopiedImpl ==
    ASSUME DOMAIN copied = Fields
    PROVE  /\ \A n, d : Order(n, d) => copied'.impl = copied.impl
           /\ \A n, r, b : Chain(n, r, b) => copied'.impl = copied.impl
<1>1. "impl" \in DOMAIN copied
  BY DEF Fields
<1>2. ASSUME NEW n, NEW d, Order(n, d) PROVE copied'.impl = copied.impl
  <2>1. \E S : copied' = [copied EXCEPT !.order = S]
    BY <1>2 DEF Order
  <2> QED
    BY <1>1, <2>1
<1>3. ASSUME NEW n, NEW r, NEW b, Chain(n, r, b) PROVE copied'.impl = copied.impl
  <2>1. \E S, T : copied' = [copied EXCEPT !.nodeChains = S, !.node2pos = T]
    BY <1>3 DEF Chain
  <2> QED
    BY <1>1, <2>1
<1> QED
  BY <1>2, <1>3

\* What is known while an adjacency list is copied.
LEMMA CopyingParts ==
    ASSUME NEW E \in SUBSET (Nodes \X Nodes), Sound(E), phase = "copy", copied.impl # Adjacency
    PROVE  /\ storage.impl = Adjacency /\ storage.edges = E /\ DOMAIN copied = Fields
           /\ AllSimple(E)
           /\ \/ /\ LinearCopy(E) /\ copied.impl.kind = "linear"
                 /\ Wide(E) /\ OneParent(E) /\ OneChild(E)
              \/ PrePostCopy(E) /\ copied.impl.kind = "prepost" /\ Roomy(E)
<1>1. stat.valid /\ CopyOK(E) /\ StatInv(E)
  BY DEF Sound, PhaseInv
<1>2. /\ storage.impl = Adjacency /\ copied.impl = getImplByHeuristics
      /\ LinearCopy(E) \/ PrePostCopy(E)
  BY <1>1 DEF CopyOK
<1>3. storage.edges = E
  BY <1>2 DEF Sound, StorageInv
<1>4. DOMAIN copied = Fields
  BY <1>2 DEF LinearCopy, PrePostCopy
<1> QED
  BY <1>1, <1>2, <1>3, <1>4, CopyFits

LEMMA CopyRootSound ==
    ASSUME StoragesInv, CopyRoot
    PROVE  StoragesInv'
<1>1. /\ UNCHANGED <<storage, stat, deletes, measured, phase>>
      /\ phase = "copy" /\ Exhausted /\ roots # {}
  BY DEF CopyRoot, budget, NextRoot
<1>2. PICK r : r = Min(roots)
  OBVIOUS
<1>3. /\ roots' = roots \ {r}
      /\ IF copied.impl.kind = "prepost" THEN Order(r, 0) ELSE Chain(r, r, <<>>)
      /\ Construct(OutgoingOf(storage), TRUE, r, 1, Far)
  BY <1>2 DEF CopyRoot
<1>4. ASSUME NEW E \in SUBSET (Nodes \X Nodes), Sound(E), CopyOK(E)
      PROVE  /\ copied.impl # Adjacency /\ copied'.impl = copied.impl
             /\ LinearCopy(E)' \/ PrePostCopy(E)'
  <2>1. copied.impl # Adjacency
    BY <1>1, <1>4 DEF CopyOK
  <2>2. /\ storage.impl = Adjacency /\ storage.edges = E /\ DOMAIN copied = Fields
        /\ AllSimple(E)
        /\ \/ /\ LinearCopy(E) /\ copied.impl.kind = "linear"
              /\ Wide(E) /\ OneParent(E) /\ OneChild(E)
           \/ PrePostCopy(E) /\ copied.impl.kind = "prepost" /\ Roomy(E)
    BY <1>1, <1>4, <2>1, CopyingParts
  <2>3. Shown(OutgoingOf(storage), E)
    BY <2>2, AdjacencyShows
  <2>4. roots \subseteq RootsOf(E)
    BY <2>2 DEF LinearCopy, PrePostCopy
  <2>5. RootsOf(E) \subseteq Nodes
    BY RootsAre
  <2>6. roots \in SUBSET Nat
    BY <2>4, <2>5, StoragesAssumption
  <2>7. r \in roots
    BY <1>1, <1>2, <2>6, MinIs
  <2>8. copied'.impl = copied.impl
    BY <1>3, <2>2, CopiedImpl
  <2>9. PICK g : g = OutgoingOf(storage)
    OBVIOUS
  <2>10. Shown(g, E) /\ Construct(g, TRUE, r, 1, Far)
    BY <1>3, <2>3, <2>9
  <2>11. CASE LinearCopy(E) /\ copied.impl.kind = "linear" /\ Wide(E)
    <3>1. Chain(r, r, <<>>)
      BY <1>3, <2>11
    <3>2. LinearCopy(E)'
      BY <1>1, <1>3, <2>2, <2>7, <2>10, <2>11, <3>1, LinearRoot
    <3> QED
      BY <2>1, <2>8, <3>2
  <2>12. CASE PrePostCopy(E) /\ copied.impl.kind = "prepost" /\ Roomy(E)
    <3>1. Order(r, 0)
      BY <1>3, <2>12
    <3>2. PrePostCopy(E)'
      BY <1>1, <1>3, <2>2, <2>7, <2>10, <2>12, <3>1, PrePostRoot
    <3> QED
      BY <2>1, <2>8, <3>2
  <2> QED
    BY <2>2, <2>11, <2>12
<1> QED
  BY <1>1, <1>4, CopyingSound

LEMMA CopySound ==
    ASSUME StoragesInv, Copy
    PROVE  StoragesInv'
<1>1. /\ UNCHANGED <<storage, stat, deletes, measured, phase, roots>>
      /\ phase = "copy" /\ Traverse
      /\ IF ~Found \/ node \in PathLeft THEN UNCHANGED <<copied, currentOrder, nodeStack>>
         ELSE IF copied.impl.kind = "prepost" THEN Order(node, distance)
         ELSE Chain(node, startNode, copied.nodeChains[startNode])
  BY DEF Copy, budget
<1>2. ~Exhausted
  BY <1>1 DEF Traverse, Enter, EnterSafely, EnterAlways, RejectCycle
<1>3. ASSUME NEW E \in SUBSET (Nodes \X Nodes), Sound(E), CopyOK(E)
      PROVE  /\ copied.impl # Adjacency /\ copied'.impl = copied.impl
             /\ LinearCopy(E)' \/ PrePostCopy(E)'
  <2>1. copied.impl # Adjacency
    BY <1>2, <1>3 DEF CopyOK
  <2>2. /\ storage.impl = Adjacency /\ storage.edges = E /\ DOMAIN copied = Fields
        /\ AllSimple(E)
        /\ \/ /\ LinearCopy(E) /\ copied.impl.kind = "linear"
              /\ Wide(E) /\ OneParent(E) /\ OneChild(E)
           \/ PrePostCopy(E) /\ copied.impl.kind = "prepost" /\ Roomy(E)
    BY <1>1, <1>3, <2>1, CopyingParts
  <2>3. Traversing(E)
    BY <1>2, <2>2 DEF LinearCopy, PrePostCopy
  <2>4. node \notin PathLeft /\ (Found <=> distance # 0)
    BY <1>2, <2>2, <2>3, NothingRejected
  <2>5. IF distance = 0 THEN UNCHANGED <<copied, currentOrder, nodeStack>>
        ELSE IF copied.impl.kind = "prepost" THEN Order(node, distance)
        ELSE Chain(node, startNode, copied.nodeChains[startNode])
    BY <1>1, <2>4
  <2>6. copied'.impl = copied.impl
    <3>1. CASE distance = 0
      BY <2>5, <3>1
    <3>2. CASE distance # 0 /\ Order(node, distance)
      BY <2>2, <3>2, CopiedImpl
    <3>3. CASE distance # 0 /\ Chain(node, startNode, copied.nodeChains[startNode])
      BY <2>2, <3>3, CopiedImpl
    <3> QED
      BY <2>5, <3>1, <3>2, <3>3
  <2>7. CASE LinearCopy(E) /\ copied.impl.kind = "linear" /\ Wide(E) /\ OneParent(E) /\ OneChild(E)
    <3>1. IF distance = 0 THEN UNCHANGED copied
          ELSE Chain(node, startNode, copied.nodeChains[startNode])
      BY <2>5, <2>7
    <3>2. LinearCopy(E)'
      BY <1>1, <2>2, <2>7, <3>1, LinearStep
    <3> QED
      BY <2>1, <2>6, <3>2
  <2>8. CASE PrePostCopy(E) /\ copied.impl.kind = "prepost" /\ Roomy(E)
    <3>1. IF distance = 0 THEN UNCHANGED <<copied, currentOrder, nodeStack>> ELSE Order(node, distance)
      BY <2>5, <2>8
    <3>2. PrePostCopy(E)'
      BY <1>1, <2>2, <2>8, <3>1, PrePostStep
    <3> QED
      BY <2>1, <2>6, <3>2
  <2> QED
    BY <2>2, <2>7, <2>8
<1> QED
  BY <1>1, <1>3, CopyingSound

\* A copy that is finished has the edges that were copied.
LEMMA CopyFinished ==
    ASSUME NEW E \in SUBSET (Nodes \X Nodes), Sound(E), EndCopy
    PROVE  /\ DOMAIN storage' = Fields /\ storage'.impl = copied.impl
           /\ copied.impl = Adjacency => storage'.edges = E /\ EdgesOf(storage') = E
           /\ copied.impl # Adjacency =>
                 /\ storage.impl = Adjacency /\ copied.impl = getImplByHeuristics
                 /\ StorageOK(storage', Traversed(E)) /\ EdgesOf(storage') = Traversed(E)
                 /\ Traversed(E) \in SUBSET (Nodes \X Nodes)
<1>1. /\ phase = "copy" /\ Exhausted /\ roots = {}
      /\ storage' = IF copied.impl.kind = "prepost"
                    THEN [copied EXCEPT !.order = @ \cup Exited(0)] ELSE copied
  BY DEF EndCopy
<1>2. CopyOK(E)
  BY <1>1 DEF Sound, PhaseInv
<1>3. CASE copied.impl = Adjacency
  <2>1. copied = [Empty(Adjacency) EXCEPT !.edges = E]
    BY <1>2, <1>3 DEF CopyOK
  <2>2. storage' = copied
    BY <1>1, <1>3 DEF Adjacency
  <2>3. DOMAIN storage' = Fields /\ storage'.impl = Adjacency /\ storage'.edges = E
    BY <2>1, <2>2 DEF Empty, Fields
  <2>4. PICK s : s = storage'
    OBVIOUS
  <2>5. EdgesOf(s) = E
    BY <2>3, <2>4, AdjacencyShows
  <2> QED
    BY <1>3, <2>3, <2>4, <2>5
<1>4. CASE copied.impl # Adjacency
  <2>1. storage.impl = Adjacency /\ copied.impl = getImplByHeuristics
    BY <1>2, <1>4 DEF CopyOK
  <2>2. /\ DOMAIN copied = Fields /\ AllSimple(E)
        /\ \/ /\ LinearCopy(E) /\ copied.impl.kind = "linear"
              /\ Wide(E) /\ OneParent(E) /\ OneChild(E)
           \/ PrePostCopy(E) /\ copied.impl.kind = "prepost" /\ Roomy(E)
    BY <1>1, <1>4, CopyingParts
  <2>3. Traversed(E) \in SUBSET (Nodes \X Nodes)
    BY TraversedRoots
  <2>4. PICK s : s = storage'
    OBVIOUS
  <2>5. s.impl = copied.impl /\ DOMAIN s = Fields /\ StorageOK(s, Traversed(E))
    <3>1. CASE LinearCopy(E) /\ copied.impl.kind = "linear" /\ Wide(E) /\ OneChild(E)
      <4>1. s = copied
        BY <1>1, <2>4, <3>1
      <4>2. LinearOK(copied, Traversed(E))
        BY <1>1, <2>2, <3>1, LinearFinished
      <4> QED
        BY <2>2, <4>1, <4>2 DEF StorageOK
    <3>2. CASE PrePostCopy(E) /\ copied.impl.kind = "prepost" /\ Roomy(E)
      <4>1. s = [copied EXCEPT !.order = @ \cup Exited(0)]
        BY <1>1, <2>4, <3>2
      <4>2. PrePostOK(s, Traversed(E)) /\ s.impl = copied.impl
        BY <1>1, <2>2, <3>2, <4>1, PrePostFinished
      <4>3. DOMAIN s = Fields
        BY <2>2, <4>1
      <4> QED
        BY <4>2, <4>3 DEF StorageOK
    <3> QED
      BY <2>2, <3>1, <3>2
  <2>6. EdgesOf(s) = Traversed(E)
    BY <2>3, <2>5, StorageShows
  <2> QED
    BY <1>4, <2>1, <2>3, <2>4, <2>5, <2>6
<1> QED
  BY <1>3, <1>4

LEMMA EndCopySound ==
    ASSUME StoragesInv, EndCopy
    PROVE  StoragesInv'
<1>1. /\ UNCHANGED <<stat, deletes, measured, dfsVars>>
      /\ phase = "copy" /\ phase' = "ready" /\ nodeStack' = <<>> /\ Exhausted
  BY DEF EndCopy, budget
<1>2. Counters'
  BY <1>1 DEF StoragesInv, Counters
<1>3. ASSUME Informed' PROVE \E E \in SUBSET (Nodes \X Nodes) : Sound(E)'
  <2>1. PICK E \in SUBSET (Nodes \X Nodes) : Sound(E)
    BY <1>1, <1>3, SameInformed DEF StoragesInv
  <2>2. Exhausted'
    BY <1>1 DEF Exhausted, dfsVars, progress
  <2>3. \A F : PhaseInv(F)'
    BY <1>1, <2>2 DEF PhaseInv
  <2>4. \A e \in E : e[1] # e[2]
    BY <2>1 DEF Sound, StorageInv
  <2>5. CASE copied.impl = Adjacency
    <3>1. /\ DOMAIN storage' = Fields /\ storage'.impl = Adjacency
          /\ storage'.edges = E /\ EdgesOf(storage') = E
      BY <2>1, <2>5, CopyFinished
    <3>2. StorageInv(E)'
      BY <2>4, <3>1 DEF StorageInv
    <3>3. StatInv(E)'
      BY <1>1, <2>1, SameStat DEF Sound
    <3> QED
      BY <2>3, <3>2, <3>3 DEF Sound
  <2>6. CASE copied.impl # Adjacency
    <3>1. PICK T : T = Traversed(E)
      OBVIOUS
    <3>2. /\ DOMAIN storage' = Fields /\ storage'.impl = getImplByHeuristics
          /\ storage'.impl # Adjacency
          /\ StorageOK(storage', T) /\ EdgesOf(storage') = T /\ T \in SUBSET (Nodes \X Nodes)
      BY <2>1, <2>6, <3>1, CopyFinished
    <3>3. stat.valid
      BY <1>1, <2>1 DEF Sound, PhaseInv
    <3>4. getImplByHeuristics' = getImplByHeuristics /\ \A M : Measured(M)' <=> Measured(M)
      BY <1>1, SameChoice
    <3>5. T \subseteq E
      BY <3>1, TraversedRoots
    <3>6. StorageInv(T)'
      BY <1>1, <2>4, <3>2, <3>3, <3>4, <3>5 DEF StorageInv
    <3>7. StatInv(T)'
      <4>1. /\ stat \in Statistics /\ stat.nodes <= Cardinality(Nodes)
            /\ stat.cyclic => ~stat.rootedTree
        BY <2>1, <3>3 DEF Sound, StatInv
      <4>2. PICK M \in SUBSET (Nodes \X Nodes) :
               measured.edges = M /\ Measured(M) /\ Descends(E, M)
        BY <2>1, <3>3 DEF Sound, StatInv
      <4>3. Descends(T, M)
        BY <3>1, <4>2, TraversedDescends
      <4> QED
        BY <1>1, <3>4, <4>1, <4>2, <4>3 DEF StatInv
    <3> QED
      BY <2>3, <3>2, <3>6, <3>7 DEF Sound
  <2> QED
    BY <2>5, <2>6
<1> QED
  BY <1>2, <1>3 DEF StoragesInv

\* A question, and a step of the search for its answer.
LEMMA AnsweringSound ==
    ASSUME StoragesInv, phase \notin {"measure", "statistics", "copy"},
           UNCHANGED <<storage, stat, deletes, measured, nodeStack>>,
           phase' \in {"search", "answered"},
           \A E \in SUBSET (Nodes \X Nodes) : Sound(E) =>
               \/ storage.impl = Adjacency /\ phase' = "search" /\ SearchOK(E)'
               \/ phase' = "answered" /\ AnswerOK(E, question', answer')
    PROVE  StoragesInv'
<1>1. Counters'
  BY DEF StoragesInv, Counters
<1>2. ASSUME NEW E \in SUBSET (Nodes \X Nodes), Sound(E) PROVE PhaseInv(E)'
  <2>1. nodeStack' = <<>>
    BY <1>2 DEF Sound, PhaseInv
  <2>2. CASE storage.impl = Adjacency /\ phase' = "search" /\ SearchOK(E)'
    BY <2>1, <2>2 DEF PhaseInv
  <2>3. CASE phase' = "answered" /\ AnswerOK(E, question', answer')
    BY <2>1, <2>3 DEF PhaseInv
  <2> QED
    BY <1>2, <2>2, <2>3
<1> QED
  BY <1>1, <1>2, PhaseOnly

LEMMA AskSound ==
    ASSUME StoragesInv, phase = "ready", NEW q, QuestionOK(q), Ask(q)
    PROVE  StoragesInv'
<1>1. UNCHANGED <<storage, stat, deletes, measured, nodeStack>>
  BY DEF Ask, copying, budget
<1>2. phase' \in {"search", "answered"}
  BY DEF Ask, Answer
<1>3. ASSUME NEW E \in SUBSET (Nodes \X Nodes), Sound(E)
      PROVE  \/ storage.impl = Adjacency /\ phase' = "search" /\ SearchOK(E)'
             \/ phase' = "answered" /\ AnswerOK(E, question', answer')
  <2>1. /\ \A e \in E : e[1] # e[2]
        /\ \/ storage.impl = Adjacency /\ storage.edges = E
           \/ storage.impl # Adjacency /\ StorageOK(storage, E)
    BY <1>3 DEF Sound, StorageInv
  <2> QED
    BY <2>1, AskHolds
<1> QED
  BY <1>1, <1>2, <1>3, AnsweringSound

LEMMA QuestionsSound ==
    ASSUME StoragesInv, findConnected \/ isConnected \/ distanceOf
    PROVE  StoragesInv'
<1>1. \A w \in Windows : w[1] \in 1..Far /\ w[2] \in 0..Far
  BY StoragesAssumption
<1>2. CASE findConnected
  <2>1. PICK n \in Nodes, w \in Windows :
           Ask([kind |-> "findConnected", source |-> n, min |-> w[1], max |-> w[2]])
    BY <1>2 DEF findConnected
  <2>2. QuestionOK([kind |-> "findConnected", source |-> n, min |-> w[1], max |-> w[2]])
    BY <1>1 DEF QuestionOK
  <2> QED
    BY <1>2, <2>1, <2>2, AskSound DEF findConnected
<1>3. CASE isConnected
  <2>1. PICK m \in Nodes, n \in Nodes, w \in Windows :
           Ask([kind |-> "isConnected", source |-> m, target |-> n, min |-> w[1], max |-> w[2]])
    BY <1>3 DEF isConnected
  <2>2. QuestionOK([kind |-> "isConnected", source |-> m, target |-> n, min |-> w[1], max |-> w[2]])
    BY <1>1 DEF QuestionOK
  <2> QED
    BY <1>3, <2>1, <2>2, AskSound DEF isConnected
<1>4. CASE distanceOf
  <2>1. PICK m \in Nodes, n \in Nodes :
           Ask([kind |-> "distance", source |-> m, target |-> n, min |-> 0, max |-> Far])
    BY <1>4 DEF distanceOf
  <2>2. QuestionOK([kind |-> "distance", source |-> m, target |-> n, min |-> 0, max |-> Far])
    BY DEF QuestionOK
  <2> QED
    BY <1>4, <2>1, <2>2, AskSound DEF distanceOf
<1> QED
  BY <1>2, <1>3, <1>4

LEMMA SearchingSound ==
    ASSUME StoragesInv, Search \/ SearchCycle \/ EndSearch
    PROVE  StoragesInv'
<1>1. phase = "search" /\ UNCHANGED <<storage, stat, deletes, measured, nodeStack>>
  BY DEF Search, SearchCycle, EndSearch, copying, budget
<1>2. phase' \in {"search", "answered"}
  BY <1>1 DEF Search, SearchCycle, EndSearch, Answer
<1>3. ASSUME NEW E \in SUBSET (Nodes \X Nodes), Sound(E)
      PROVE  \/ storage.impl = Adjacency /\ phase' = "search" /\ SearchOK(E)'
             \/ phase' = "answered" /\ AnswerOK(E, question', answer')
  <2>1. storage.impl = Adjacency /\ SearchOK(E)
    BY <1>1, <1>3 DEF Sound, PhaseInv
  <2>2. CASE Search
    BY <2>1, <2>2, SearchHolds
  <2>3. CASE SearchCycle
    BY <2>1, <2>3, SearchCycleHolds
  <2>4. CASE EndSearch
    BY <2>1, <2>4, EndSearchHolds
  <2> QED
    BY <2>2, <2>3, <2>4
<1> QED
  BY <1>1, <1>2, <1>3, AnsweringSound

----------------------------------------------------------------------------
(* The component: always sound, its answers and its conversions right.      *)
LEMMA StutterSound ==
    ASSUME StoragesInv, UNCHANGED vars
    PROVE  StoragesInv'
<1>1. /\ UNCHANGED <<storage, stat, deletes, measured, phase, copied, roots, visits,
                     currentOrder, nodeStack, question, answer>>
      /\ UNCHANGED <<gs, cycleSafe, startNode, minDistance, maxDistance, traversalStack,
                     lastDistance, nodesInCurrentPath, distanceToNode, cycleDetected, outputted>>
  BY DEF vars, copying, asking, budget, dfsVars, parameters, progress
<1>2. Counters'
  BY <1>1 DEF StoragesInv, Counters
<1>3. ASSUME NEW E \in SUBSET (Nodes \X Nodes), Sound(E) PROVE PhaseInv(E)'
  <2>1. PhaseInv(E)
    BY <1>3 DEF Sound
  <2>2. (Exhausted' <=> Exhausted) /\ (MeasureOK(E)' <=> MeasureOK(E)) /\ (CopyOK(E)' <=> CopyOK(E))
        /\ (SearchOK(E)' <=> SearchOK(E))
    <3>1. \A w, k : Waits(w, k)' <=> Waits(w, k)
      BY <1>1 DEF Waits, WaitsAt
    <3>2. (IInv' <=> IInv) /\ (Exhausted' <=> Exhausted) /\ (NoTwins' <=> NoTwins)
      BY <1>1 DEF IInv, DFSTypeOK, Path, Injective, SameNodes, Parents, NoGaps, UpToLast, Waiting,
                  Rising, Exhausted, NoTwins
    <3>3. MeasureOK(E)' <=> MeasureOK(E)
      <4>1. \A D : Seen(E, D)' <=> Seen(E, D)
        BY <1>1, <3>1 DEF Seen
      <4> QED
        BY <1>1, <3>2, <4>1 DEF MeasureOK, Measuring
    <3>4. CopyOK(E)' <=> CopyOK(E)
      <4>1. Traversing(E)' <=> Traversing(E)
        BY <1>1, <3>2 DEF Traversing
      <4>2. LinearCopy(E)' <=> LinearCopy(E)
        BY <1>1, <3>2, <4>1 DEF LinearCopy, CopiedChain, PositionOK, Going
      <4>3. PrePostCopy(E)' <=> PrePostCopy(E)
        <5>1. \A D : Visited(E, D)' <=> Visited(E, D)
          BY <1>1, <3>1 DEF Visited
        <5>2. EntriesOK(E)' <=> EntriesOK(E)
          BY <1>1 DEF EntriesOK, Open
        <5>3. ParentsOK(E)' <=> ParentsOK(E)
          BY <1>1 DEF ParentsOK, Open
        <5>4. ChildrenOK(E)' <=> ChildrenOK(E)
          BY <1>1 DEF ChildrenOK, Open, Awaits
        <5>5. RootsCopied(E)' <=> RootsCopied(E)
          BY <1>1 DEF RootsCopied, Open
        <5>6. OnPath' <=> OnPath
          BY <1>1 DEF OnPath, Open
        <5> QED
          BY <1>1, <3>2, <4>1, <5>1, <5>2, <5>3, <5>4, <5>5, <5>6 DEF PrePostCopy, Counted
      <4>4. getImplByHeuristics' = getImplByHeuristics
        BY <1>1, SameChoice
      <4> QED
        BY <1>1, <3>2, <4>2, <4>3, <4>4 DEF CopyOK
    <3>5. SearchOK(E)' <=> SearchOK(E)
      <4>1. TargetWaits(E)' <=> TargetWaits(E)
        BY <1>1, <3>1 DEF TargetWaits
      <4>2. UniqueSearch(E)' <=> UniqueSearch(E)
        BY <1>1 DEF UniqueSearch, DFSTypeOK, StackIsReached, GoesOn
      <4>3. SafeSearch(E)' <=> SafeSearch(E)
        BY <1>1, <3>2, <4>1 DEF SafeSearch
      <4> QED
        BY <1>1, <4>2, <4>3 DEF SearchOK
    <3> QED
      BY <3>2, <3>3, <3>4, <3>5
  <2> QED
    BY <1>1, <2>1, <2>2 DEF PhaseInv
<1> QED
  BY <1>1, <1>2, <1>3, PhaseOnly

LEMMA StepSound == StoragesInv /\ [Next]_vars => StoragesInv'
<1> SUFFICES ASSUME StoragesInv, [Next]_vars PROVE StoragesInv'
  OBVIOUS
<1>1. CASE deleteEdge
  BY <1>1, deleteEdgeSound
<1>2. CASE \E impl \in {"none", "adjacency"} : convertComponent(impl)
  BY <1>2, convertComponentSound
<1>3. CASE findConnected \/ isConnected \/ distanceOf
  BY <1>3, QuestionsSound
<1>4. CASE Work
  <2>1. CASE BeginStatistics
    BY <2>1, BeginStatisticsSound
  <2>2. CASE MeasureRoot
    BY <2>2, MeasureRootSound
  <2>3. CASE Measure
    BY <2>3, MeasureSound
  <2>4. CASE MeasureCycle
    BY <2>4, MeasureCycleSound
  <2>5. CASE EndStatistics
    BY <2>5, EndStatisticsSound
  <2>6. CASE KeepStorage
    BY <2>6, KeepStorageSound
  <2>7. CASE BeginCopy
    BY <2>7, BeginCopySound
  <2>8. CASE CopyRoot
    BY <2>8, CopyRootSound
  <2>9. CASE Copy
    BY <2>9, CopySound
  <2>10. CASE EndCopy
    BY <2>10, EndCopySound
  <2>11. CASE Search \/ SearchCycle \/ EndSearch
    BY <2>11, SearchingSound
  <2> QED
    BY <1>4, <2>1, <2>2, <2>3, <2>4, <2>5, <2>6, <2>7, <2>8, <2>9, <2>10, <2>11 DEF Work
<1>5. CASE UNCHANGED vars
  BY <1>5, StutterSound
<1> QED
  BY <1>1, <1>2, <1>3, <1>4, <1>5 DEF Next

\* Whatever the component and however often it is converted, what is known of it
\* stays true through every step of the measuring, the copying and the searching.
THEOREM AlwaysSound == Spec => []StoragesInv
<1>1. Init => StoragesInv
  BY InitSound
<1>2. StoragesInv /\ [Next]_vars => StoragesInv'
  BY StepSound
<1> QED
  BY <1>1, <1>2, PTL DEF Spec

LEMMA AnswersFollow == StoragesInv => AnswersAgree
<1> SUFFICES ASSUME StoragesInv, phase = "answered", Informed
             PROVE  AnswerOK(EdgesOf(storage), question, answer)
  BY DEF AnswersAgree, AnswerOK
<1>1. PICK E \in SUBSET (Nodes \X Nodes) : Sound(E)
  BY DEF StoragesInv
<1>2. EdgesOf(storage) = E
  BY <1>1 DEF Sound, StorageInv
<1>3. AnswerOK(E, question, answer)
  BY <1>1 DEF Sound, PhaseInv
<1> QED
  BY <1>2, <1>3

\* Every implementation of a graph storage, of every component, gives the answers
\* that the edges give, whether it searches for them or looks them up in what a
\* copy has computed, as long as the statistics describe the component.
THEOREM StoragesAnswerAlike == Spec => []AnswersAgree
<1>1. StoragesInv => AnswersAgree
  BY AnswersFollow
<1> QED
  BY <1>1, AlwaysSound, PTL

LEMMA OnlyCopiesConvert ==
    ASSUME StoragesInv, [Next]_vars, storage'.impl # storage.impl, Informed
    PROVE  EndCopy
<1>1. storage' # storage
  OBVIOUS
<1>2. ~deleteEdge
  <2> SUFFICES ASSUME deleteEdge PROVE FALSE
    OBVIOUS
  <2>1. DOMAIN storage = Fields
    BY DEF StoragesInv, Sound, StorageInv
  <2>2. \E S : storage' = [storage EXCEPT !.edges = S]
    BY DEF deleteEdge
  <2>3. storage'.impl = storage.impl
    BY <2>1, <2>2 DEF Fields
  <2> QED
    BY <2>3
<1>3. /\ ~(\E impl \in {"none", "adjacency"} : convertComponent(impl))
      /\ ~findConnected /\ ~isConnected /\ ~distanceOf
  BY <1>1 DEF convertComponent, findConnected, isConnected, distanceOf, Ask
<1>4. ~(UNCHANGED vars)
  BY <1>1 DEF vars
<1>5. Work
  BY <1>2, <1>3, <1>4 DEF Next
<1> QED
  BY <1>1, <1>5 DEF Work, BeginStatistics, MeasureRoot, Measure, MeasureCycle, EndStatistics,
                    KeepStorage, BeginCopy, CopyRoot, Copy, Search, SearchCycle, EndSearch

LEMMA ConversionStep ==
    StoragesInv /\ [Next]_vars =>
        [storage'.impl # storage.impl /\ Informed /\ Rooted(EdgesOf(storage)) =>
             EdgesOf(storage') = EdgesOf(storage)]_vars
<1> SUFFICES ASSUME StoragesInv, [Next]_vars, storage'.impl # storage.impl, Informed,
                    Rooted(EdgesOf(storage))
             PROVE  EdgesOf(storage') = EdgesOf(storage)
  OBVIOUS
<1>1. EndCopy
  BY OnlyCopiesConvert
<1>2. PICK E \in SUBSET (Nodes \X Nodes) : Sound(E)
  BY DEF StoragesInv
<1>3. EdgesOf(storage) = E
  BY <1>2 DEF Sound, StorageInv
<1>4. EdgesOf(storage') = E \/ EdgesOf(storage') = Traversed(E)
  BY <1>1, <1>2, CopyFinished
<1>5. Traversed(E) = E
  BY <1>3, RootedIsTraversed
<1> QED
  BY <1>3, <1>4, <1>5

\* A component whose edges its roots all lead to keeps every edge in every
\* conversion, to the implementation that is chosen for it and back.
THEOREM ConversionsKeepEdges == Spec => ConversionKeepsEdges
<1>1. StoragesInv /\ [Next]_vars =>
        [storage'.impl # storage.impl /\ Informed /\ Rooted(EdgesOf(storage)) =>
             EdgesOf(storage') = EdgesOf(storage)]_vars
  BY ConversionStep
<1> QED
  BY <1>1, AlwaysSound, PTL DEF Spec, ConversionKeepsEdges

----------------------------------------------------------------------------
(* The traversals of GraphStorages, also while the statistics are wrong.    *)

\* What every storage has, whatever it was copied with.
ShapeOK(s) ==
    /\ DOMAIN s = Fields /\ s.impl.kind \in {"adjacency", "linear", "prepost"}
    /\ s.impl.kind = "adjacency" => s.impl = Adjacency /\ s.edges \in SUBSET (Nodes \X Nodes)
    /\ s.impl.kind = "linear" =>
          /\ s.impl.pos \in Nat
          /\ \A r \in DOMAIN s.nodeChains : s.nodeChains[r] \in Seq(Nodes)
          /\ \A n \in DOMAIN s.node2pos :
                s.node2pos[n].root \in DOMAIN s.nodeChains /\ s.node2pos[n].pos \in Nat

NotBegun == Exhausted /\ nodesInCurrentPath = {} /\ distanceToNode = {}

CopyShape ==
    /\ ShapeOK(copied)
    /\ copied.impl.kind = "adjacency" => Exhausted /\ roots = {}
    /\ copied.impl.kind = "linear" /\ ~Exhausted => startNode \in DOMAIN copied.nodeChains

TravInv ==
    /\ IInv \/ NotBegun
    /\ CyclesAreReal
    /\ ShapeOK(storage)
    /\ phase \in {"ready", "measure", "choose"} => Exhausted
    /\ phase \in {"statistics", "copy"} => roots \subseteq Nodes
    /\ phase = "copy" => CopyShape

LEMMA ShapeShows ==
    ASSUME NEW s, ShapeOK(s)
    PROVE  OutgoingOf(s) \in Graphs /\ EdgesOf(s) \in SUBSET (Nodes \X Nodes)
<1>1. OutgoingOf(s) \in Graphs
  <2>1. CASE s.impl.kind = "adjacency"
    <3>1. s.impl = Adjacency /\ s.edges \in SUBSET (Nodes \X Nodes)
      BY <2>1 DEF ShapeOK
    <3> QED
      BY <3>1, AdjacencyShows DEF Shown
  <2>2. CASE s.impl.kind = "linear"
    <3> SUFFICES ASSUME NEW m \in Nodes PROVE LinearFind(s, m, 1, 1) \in Seq(Nodes)
      BY <2>2 DEF OutgoingOf, Graphs, getOutgoingEdges
    <3>1. CASE ~Positioned(s, m)
      BY <3>1 DEF LinearFind
    <3>2. CASE Positioned(s, m)
      <4> DEFINE at == s.node2pos[m].pos
                 chain == s.nodeChains[s.node2pos[m].root]
                 end == IF 1 = Far THEN s.impl.pos ELSE at + 1
                 lo == at + 1 + 1
                 hi == IF end < Len(chain) THEN end + 1 ELSE Len(chain)
      <4>1. at \in Nat /\ chain \in Seq(Nodes) /\ s.impl.pos \in Nat
        BY <2>2, <3>2 DEF ShapeOK, Positioned
      <4>2. Len(chain) \in Nat /\ \A i \in 1..Len(chain) : chain[i] \in Nodes
        BY <4>1, LenProperties, ElementOfSeq
      <4>3. LinearFind(s, m, 1, 1) = SubSeq(chain, lo, hi)
        BY <3>2 DEF LinearFind
      <4>4. end \in Nat
        BY <4>1
      <4> HIDE DEF at, chain, end
      <4>5. hi \in Int /\ hi <= Len(chain) /\ lo \in Int /\ lo >= 1
        BY <4>1, <4>2, <4>4
      <4> HIDE DEF hi, lo
      <4>6. \A i \in lo..hi : chain[i] \in Nodes
        BY <4>1, <4>2, <4>5
      <4> QED
        <5>1. SubSeq(chain, lo, hi) \in Seq(Nodes)
          BY <4>5, <4>6, SubSeqProperties
        <5> QED
          BY <4>3, <5>1
    <3> QED
      BY <3>1, <3>2
  <2>3. CASE s.impl.kind = "prepost"
    <3> SUFFICES ASSUME NEW m \in Nodes PROVE PrePostFind(s, m, 1, 1) \in Seq(Nodes)
      BY <2>3 DEF OutgoingOf, Graphs, getOutgoingEdges
    <3> DEFINE S == {n \in Nodes : \E x, y \in s.order :
                        /\ x.node = m /\ y.node = n
                        /\ x.pre <= y.pre /\ y.pre <= x.post /\ y.post <= x.post
                        /\ Abs(y.level - x.level) \in 1..1}
    <3>1. S \subseteq Nodes /\ IsFiniteSet(S)
      BY StoragesAssumption, FS_Subset
    <3>2. PrePostFind(s, m, 1, 1) = SetToSeq(S)
      BY DEF PrePostFind
    <3> HIDE DEF S
    <3>3. SetToSeq(S) \in Seq(S)
      BY <3>1, SetToSeqIs
    <3> QED
      BY <3>1, <3>2, <3>3
  <2> QED
    BY <2>1, <2>2, <2>3 DEF ShapeOK
<1>2. \A n \in Nodes : getOutgoingEdges(s, n) \in Seq(Nodes)
  BY <1>1 DEF OutgoingOf, Graphs
<1>3. \A n \in Nodes : Range(getOutgoingEdges(s, n)) \subseteq Nodes
  <2> SUFFICES ASSUME NEW n \in Nodes, NEW f \in Seq(Nodes) PROVE Range(f) \subseteq Nodes
    BY <1>2
  <2>1. \A i \in DOMAIN f : f[i] \in Nodes
    BY LenProperties, ElementOfSeq
  <2> QED
    BY <2>1 DEF Range
<1> QED
  BY <1>1, <1>3 DEF EdgesOf

LEMMA ChosenShape ==
    /\ Chosen.kind \in {"adjacency", "linear", "prepost"}
    /\ Chosen.kind = "adjacency" => Chosen = Adjacency
    /\ Chosen.kind = "linear" => Chosen.pos \in Nat
<1>1. LinearBySize.kind = "linear" /\ LinearBySize.pos \in Nat
  BY WidthsAssumption DEF LinearBySize, Linear
<1>2. \A t : getPrePostOrderBySize(t).kind = "prepost"
  BY DEF getPrePostOrderBySize, PrePost
<1>3. Adjacency.kind = "adjacency"
  BY DEF Adjacency
<1>4. Chosen \in {Adjacency, LinearBySize, getPrePostOrderBySize(TRUE), getPrePostOrderBySize(FALSE)}
  BY DEF Chosen, getImplByHeuristics
<1> QED
  BY <1>1, <1>2, <1>3, <1>4

\* A new traversal of what a storage shows, and a step of a traversal.
LEMMA TraversalBegins ==
    ASSUME NEW s, ShapeOK(s), NEW n \in Nodes, NEW min \in Nat, NEW max \in Nat,
           NEW safe \in BOOLEAN, Construct(OutgoingOf(s), safe, n, min, max)
    PROVE  (IInv \/ NotBegun)' /\ CyclesAreReal' /\ startNode' = n
<1>1. PICK g \in Graphs : g = OutgoingOf(s)
  BY ShapeShows
<1>2. IInv'
  BY <1>1, ConstructIs
<1>3. cycleDetected' = FALSE /\ startNode' = n
  BY DEF Construct
<1> QED
  BY <1>2, <1>3 DEF CyclesAreReal

LEMMA TraversalGoesOn ==
    ASSUME IInv \/ NotBegun, CyclesAreReal, Traverse
    PROVE  (IInv \/ NotBegun)' /\ CyclesAreReal' /\ startNode' = startNode
           /\ ~Exhausted /\ node \in Nodes
<1>1. ~Exhausted
  BY DEF Traverse, Enter, EnterSafely, EnterAlways, RejectCycle
<1>2. IInv
  BY <1>1 DEF NotBegun
<1>3. IInv' /\ CyclesAreReal'
  BY <1>2, InvariantHolds, CycleStep DEF DFSNext
<1>4. startNode' = startNode
  BY DEF Traverse, Enter, EnterSafely, EnterAlways, RejectCycle, parameters
<1>5. node \in Nodes
  BY <1>1, <1>2, Top DEF IInv
<1> QED
  BY <1>1, <1>3, <1>4, <1>5

LEMMA TraversalStays ==
    ASSUME IInv \/ NotBegun, CyclesAreReal, UNCHANGED dfsVars
    PROVE  (IInv \/ NotBegun)' /\ CyclesAreReal' /\ startNode' = startNode
           /\ (Exhausted' <=> Exhausted)
<1>1. UNCHANGED <<traversalStack, nodesInCurrentPath, distanceToNode, startNode>>
  BY DEF dfsVars, parameters, progress
<1>2. (Exhausted' <=> Exhausted) /\ (NotBegun' <=> NotBegun)
  BY <1>1 DEF NotBegun, Exhausted
<1>3. IInv => IInv'
  BY InvariantHolds
<1>4. CyclesAreReal'
  BY DEF CyclesAreReal, ClosedWalk, HasEdge, dfsVars, parameters, progress
<1> QED
  BY <1>1, <1>2, <1>3, <1>4

LEMMA TravInit == Init => TravInv
<1> SUFFICES ASSUME Init PROVE TravInv
  OBVIOUS
<1>1. PICK E \in Components : storage = [Empty(Adjacency) EXCEPT !.edges = E]
  BY DEF Init
<1>2. E \in SUBSET (Nodes \X Nodes)
  BY StoragesAssumption
<1>3. storage.impl = Adjacency /\ storage.edges = E /\ DOMAIN storage = Fields
  BY <1>1 DEF Empty, Fields
<1>4. ShapeOK(storage)
  BY <1>2, <1>3 DEF ShapeOK, Adjacency
<1>5. NotBegun /\ Exhausted /\ CyclesAreReal /\ phase = "ready"
  BY DEF Init, NotBegun, Exhausted, CyclesAreReal
<1> QED
  BY <1>4, <1>5 DEF TravInv

\* A storage that is copied keeps its shape.
LEMMA OrderShape ==
    ASSUME NEW n, NEW d, ShapeOK(copied), copied.impl.kind = "prepost", Order(n, d)
    PROVE  ShapeOK(copied') /\ copied'.impl = copied.impl
<1>1. PICK S : copied' = [copied EXCEPT !.order = S]
  BY DEF Order
<1>2. DOMAIN copied = Fields
  BY DEF ShapeOK
<1>3. DOMAIN copied' = Fields /\ copied'.impl = copied.impl
  BY <1>1, <1>2 DEF Fields
<1> QED
  BY <1>3 DEF ShapeOK

LEMMA ChainShape ==
    ASSUME NEW n \in Nodes, NEW r, NEW before \in Seq(Nodes), ShapeOK(copied),
           copied.impl.kind = "linear", Chain(n, r, before)
    PROVE  ShapeOK(copied') /\ copied'.impl = copied.impl
           /\ DOMAIN copied'.nodeChains = DOMAIN copied.nodeChains \cup {r}
<1> DEFINE chain == Append(before, n)
           C == [q \in DOMAIN copied.nodeChains \cup {r} |->
                    IF q = r THEN chain ELSE copied.nodeChains[q]]
           P == [m \in DOMAIN copied.node2pos \cup {n} |->
                    IF m = n THEN [root |-> r, pos |-> PositionIn(chain)]
                    ELSE copied.node2pos[m]]
<1>1. copied' = [copied EXCEPT !.nodeChains = C, !.node2pos = P]
  BY DEF Chain
<1>2. DOMAIN copied = Fields
  BY DEF ShapeOK
<1>3. /\ DOMAIN copied' = Fields /\ copied'.impl = copied.impl
      /\ copied'.nodeChains = C /\ copied'.node2pos = P
  <2> HIDE DEF C, P
  <2> QED
    BY <1>1, <1>2 DEF Fields
<1>4. chain \in Seq(Nodes) /\ Len(chain) \in Nat \ {0}
  BY AppendProperties, LenProperties
<1>5. copied.impl.pos \in Nat
  BY DEF ShapeOK
<1>6. PositionIn(chain) \in Nat
  <2> HIDE DEF chain
  <2> QED
    BY <1>4, <1>5 DEF PositionIn, Unsigned
<1> HIDE DEF chain
<1>7. \A q \in DOMAIN C : C[q] \in Seq(Nodes)
  BY <1>4 DEF ShapeOK
<1>8. \A m \in DOMAIN P : P[m].root \in DOMAIN C /\ P[m].pos \in Nat
  BY <1>6 DEF ShapeOK
<1>9. DOMAIN C = DOMAIN copied.nodeChains \cup {r}
  OBVIOUS
<1> HIDE DEF C, P
<1> QED
  BY <1>3, <1>5, <1>7, <1>8, <1>9 DEF ShapeOK

LEMMA StillStep ==
    ASSUME StoragesInv, TravInv, UNCHANGED dfsVars,
           deleteEdge \/ (\E impl : convertComponent(impl)) \/ BeginStatistics \/ EndStatistics
             \/ KeepStorage \/ BeginCopy \/ EndCopy \/ EndSearch
    PROVE  TravInv'
<1>1. (IInv \/ NotBegun)' /\ CyclesAreReal' /\ startNode' = startNode /\ (Exhausted' <=> Exhausted)
  BY TraversalStays DEF TravInv
<1>2. CASE deleteEdge
  <2>1. /\ phase = "ready" /\ phase' = "ready" /\ storage.impl = Adjacency
        /\ \E S \in SUBSET storage.edges : storage' = [storage EXCEPT !.edges = S]
    BY <1>2 DEF deleteEdge
  <2>2. DOMAIN storage = Fields /\ storage.edges \in SUBSET (Nodes \X Nodes)
    BY <2>1 DEF TravInv, ShapeOK, Adjacency
  <2>3. DOMAIN storage' = Fields /\ storage'.impl = Adjacency /\ storage'.edges \subseteq storage.edges
    BY <2>1, <2>2 DEF Fields
  <2>4. ShapeOK(storage')
    BY <2>2, <2>3 DEF ShapeOK, Adjacency
  <2> QED
    BY <1>1, <2>1, <2>4 DEF TravInv
<1>3. CASE (\E impl : convertComponent(impl)) \/ KeepStorage
  <2>1. /\ UNCHANGED storage /\ phase \in {"ready", "choose"} /\ phase' \in {"ready", "measure", "choose"}
    BY <1>3 DEF convertComponent, KeepStorage
  <2> QED
    BY <1>1, <2>1 DEF TravInv
<1>4. CASE BeginStatistics
  <2>1. UNCHANGED storage /\ phase' = "statistics" /\ roots' = RootsOf(storage.edges)
        /\ phase = "measure"
    BY <1>4 DEF BeginStatistics
  <2>2. storage.impl = Adjacency
    BY <2>1, MeasuringInformed
  <2>3. storage.edges \in SUBSET (Nodes \X Nodes)
    BY <2>2 DEF TravInv, ShapeOK, Adjacency
  <2>4. RootsOf(storage.edges) \subseteq Nodes
    BY <2>3, RootsAre
  <2> QED
    BY <1>1, <2>1, <2>4 DEF TravInv
<1>5. CASE EndStatistics
  <2>1. UNCHANGED storage /\ phase' = "choose" /\ Exhausted
    BY <1>5 DEF EndStatistics
  <2> QED
    BY <1>1, <2>1 DEF TravInv
<1>6. CASE BeginCopy
  <2>1. /\ UNCHANGED storage /\ phase = "choose" /\ phase' = "copy"
        /\ copied' = [Empty(Chosen) EXCEPT !.edges =
                          IF Chosen = Adjacency THEN EdgesOf(storage) ELSE {}]
        /\ roots' = IF Chosen = Adjacency THEN {} ELSE RootsOf(EdgesOf(storage))
    BY <1>6 DEF BeginCopy
  <2>2. EdgesOf(storage) \in SUBSET (Nodes \X Nodes)
    BY ShapeShows DEF TravInv
  <2>3. RootsOf(EdgesOf(storage)) \subseteq Nodes
    BY <2>2, RootsAre
  <2>4. PICK impl : impl = Chosen
    OBVIOUS
  <2>5. PICK S \in SUBSET (Nodes \X Nodes) : copied' = [Empty(impl) EXCEPT !.edges = S]
    BY <2>1, <2>2, <2>4
  <2>6. /\ DOMAIN copied' = Fields /\ copied'.impl = impl /\ copied'.edges = S
        /\ copied'.nodeChains = <<>> /\ copied'.node2pos = <<>>
    BY <2>5 DEF Empty, Fields
  <2>7. DOMAIN copied'.nodeChains = {} /\ DOMAIN copied'.node2pos = {}
    BY <2>6
  <2>8. /\ impl.kind \in {"adjacency", "linear", "prepost"}
        /\ impl.kind = "adjacency" => impl = Adjacency
        /\ impl.kind = "linear" => impl.pos \in Nat
    BY <2>4, ChosenShape
  <2>9. ShapeOK(copied')
    BY <2>6, <2>7, <2>8 DEF ShapeOK
  <2>10. Exhausted' /\ (impl.kind = "adjacency" => roots' = {}) /\ roots' \subseteq Nodes
    BY <1>1, <2>1, <2>3, <2>4, <2>8 DEF TravInv
  <2>11. CopyShape'
    BY <2>6, <2>9, <2>10 DEF CopyShape
  <2> QED
    BY <1>1, <2>1, <2>10, <2>11 DEF TravInv
<1>7. CASE EndCopy
  <2>1. /\ phase = "copy" /\ phase' = "ready" /\ Exhausted
        /\ storage' = IF copied.impl.kind = "prepost"
                      THEN [copied EXCEPT !.order = @ \cup Exited(0)] ELSE copied
    BY <1>7 DEF EndCopy
  <2>2. ShapeOK(copied)
    BY <2>1 DEF TravInv, CopyShape
  <2>3. ShapeOK(storage')
    <3>1. CASE copied.impl.kind = "prepost"
      <4>1. PICK S : storage' = [copied EXCEPT !.order = S]
        BY <2>1, <3>1
      <4>2. DOMAIN storage' = Fields /\ storage'.impl = copied.impl
        BY <2>2, <4>1 DEF ShapeOK, Fields
      <4> QED
        BY <3>1, <4>2 DEF ShapeOK
    <3>2. CASE copied.impl.kind # "prepost"
      BY <2>1, <2>2, <3>2
    <3> QED
      BY <3>1, <3>2
  <2> QED
    BY <1>1, <2>1, <2>3 DEF TravInv
<1>8. CASE EndSearch
  <2>1. UNCHANGED storage /\ phase' = "answered"
    BY <1>8 DEF EndSearch, Answer
  <2> QED
    BY <1>1, <2>1 DEF TravInv
<1> QED
  BY <1>2, <1>3, <1>4, <1>5, <1>6, <1>7, <1>8

LEMMA BeginStep ==
    ASSUME TravInv, MeasureRoot \/ CopyRoot
    PROVE  TravInv'
<1>1. /\ phase \in {"statistics", "copy"} /\ phase' = phase /\ UNCHANGED storage
      /\ roots # {} /\ Exhausted
  BY DEF MeasureRoot, CopyRoot, NextRoot
<1>2. PICK r : r = Min(roots)
  OBVIOUS
<1>3. roots' = roots \ {r} /\ \E min \in {0, 1} : Construct(OutgoingOf(storage), TRUE, r, min, Far)
  BY <1>2 DEF MeasureRoot, CopyRoot
<1>4. roots \in SUBSET Nat /\ roots \subseteq Nodes /\ ShapeOK(storage)
  BY <1>1, StoragesAssumption DEF TravInv
<1>5. r \in roots
  BY <1>1, <1>2, <1>4, MinIs
<1>6. PICK min \in {0, 1} : Construct(OutgoingOf(storage), TRUE, r, min, Far)
  BY <1>3
<1>7. min \in Nat /\ Far \in Nat /\ r \in Nodes
  BY <1>4, <1>5, DFSAssumption
<1>8. (IInv \/ NotBegun)' /\ CyclesAreReal' /\ startNode' = r
  BY <1>4, <1>6, <1>7, TraversalBegins
<1>9. phase = "copy" => CopyShape'
  <2> SUFFICES ASSUME phase = "copy" PROVE CopyShape'
    OBVIOUS
  <2>1. CopyShape /\ IF copied.impl.kind = "prepost" THEN Order(r, 0) ELSE Chain(r, r, <<>>)
    BY <1>2 DEF TravInv, CopyRoot, MeasureRoot
  <2>2. copied.impl.kind \in {"linear", "prepost"} /\ ShapeOK(copied)
    BY <1>1, <2>1 DEF CopyShape, ShapeOK
  <2>3. CASE copied.impl.kind = "prepost"
    BY <2>1, <2>2, <2>3, OrderShape DEF CopyShape
  <2>4. CASE copied.impl.kind = "linear"
    <3>1. Chain(r, r, <<>>) /\ <<>> \in Seq(Nodes)
      BY <2>1, <2>4
    <3>2. ShapeOK(copied') /\ copied'.impl = copied.impl
          /\ DOMAIN copied'.nodeChains = DOMAIN copied.nodeChains \cup {r}
      BY <1>7, <2>2, <2>4, <3>1, ChainShape
    <3> QED
      BY <1>8, <2>4, <3>2 DEF CopyShape
  <2> QED
    BY <2>2, <2>3, <2>4
<1> QED
  BY <1>1, <1>3, <1>4, <1>8, <1>9 DEF TravInv

LEMMA AskStep ==
    ASSUME TravInv, findConnected \/ isConnected \/ distanceOf
    PROVE  TravInv'
<1>1. \A w \in Windows : w[1] \in Nat /\ w[2] \in Nat
  BY StoragesAssumption, DFSAssumption
<1>2. PICK q : Ask(q) /\ q.source \in Nodes /\ q.min \in Nat /\ q.max \in Nat
  <2>1. CASE findConnected
    <3>1. PICK n \in Nodes, w \in Windows :
             Ask([kind |-> "findConnected", source |-> n, min |-> w[1], max |-> w[2]])
      BY <2>1 DEF findConnected
    <3>2. PICK r : r = [kind |-> "findConnected", source |-> n, min |-> w[1], max |-> w[2]]
      OBVIOUS
    <3>3. r.source \in Nodes /\ r.min \in Nat /\ r.max \in Nat
      BY <1>1, <3>2
    <3> QED
      BY <3>1, <3>2, <3>3
  <2>2. CASE isConnected
    <3>1. PICK m \in Nodes, n \in Nodes, w \in Windows :
             Ask([kind |-> "isConnected", source |-> m, target |-> n, min |-> w[1], max |-> w[2]])
      BY <2>2 DEF isConnected
    <3>2. PICK r : r = [kind |-> "isConnected", source |-> m, target |-> n,
                        min |-> w[1], max |-> w[2]]
      OBVIOUS
    <3>3. r.source \in Nodes /\ r.min \in Nat /\ r.max \in Nat
      BY <1>1, <3>2
    <3> QED
      BY <3>1, <3>2, <3>3
  <2>3. CASE distanceOf
    <3>1. PICK m \in Nodes, n \in Nodes :
             Ask([kind |-> "distance", source |-> m, target |-> n, min |-> 0, max |-> Far])
      BY <2>3 DEF distanceOf
    <3>2. PICK r : r = [kind |-> "distance", source |-> m, target |-> n, min |-> 0, max |-> Far]
      OBVIOUS
    <3>3. r.source \in Nodes /\ r.min \in Nat /\ r.max \in Nat
      BY <3>2, DFSAssumption
    <3> QED
      BY <3>1, <3>2, <3>3
  <2> QED
    BY <2>1, <2>2, <2>3
<1>3. UNCHANGED storage /\ phase' \in {"search", "answered"}
  BY <1>2 DEF Ask, Answer
<1>4. CASE UNCHANGED dfsVars
  BY <1>3, <1>4, TraversalStays DEF TravInv
<1>5. CASE Construct(OutgoingOf(storage), q.kind # "findConnected", q.source, q.min, q.max)
  <2>1. PICK safe \in BOOLEAN : Construct(OutgoingOf(storage), safe, q.source, q.min, q.max)
    BY <1>5
  <2>2. (IInv \/ NotBegun)' /\ CyclesAreReal'
    BY <1>2, <2>1, TraversalBegins DEF TravInv
  <2> QED
    BY <1>3, <2>2 DEF TravInv
<1> QED
  BY <1>2, <1>4, <1>5 DEF Ask

LEMMA TraverseStep ==
    ASSUME TravInv, Measure \/ MeasureCycle \/ Copy \/ Search \/ SearchCycle
    PROVE  TravInv'
<1>1. /\ Traverse /\ UNCHANGED <<storage, roots>> /\ phase \in {"statistics", "copy", "search"}
      /\ phase' = phase \/ phase' = "answered"
  BY DEF Measure, MeasureCycle, Copy, Search, SearchCycle, Traverse, copying, Answer
<1>2. (IInv \/ NotBegun)' /\ CyclesAreReal' /\ startNode' = startNode /\ ~Exhausted /\ node \in Nodes
  BY <1>1, TraversalGoesOn DEF TravInv
<1>3. phase = "copy" => CopyShape'
  <2> SUFFICES ASSUME phase = "copy" PROVE CopyShape'
    OBVIOUS
  <2>1. /\ CopyShape
        /\ \/ UNCHANGED copied
           \/ copied.impl.kind = "prepost" /\ Order(node, distance)
           \/ copied.impl.kind # "prepost" /\ Chain(node, startNode, copied.nodeChains[startNode])
    BY DEF TravInv, Copy, Measure, MeasureCycle, Search, SearchCycle
  <2>2. copied.impl.kind \in {"linear", "prepost"} /\ ShapeOK(copied)
    BY <1>2, <2>1 DEF CopyShape, ShapeOK
  <2>3. PICK n, d : n = node /\ d = distance /\ n \in Nodes
    BY <1>2
  <2>4. CASE UNCHANGED copied
    BY <1>2, <2>1, <2>2, <2>4 DEF CopyShape
  <2>5. CASE copied.impl.kind = "prepost" /\ Order(n, d)
    BY <2>2, <2>5, OrderShape DEF CopyShape
  <2>6. CASE copied.impl.kind = "linear" /\ Chain(n, startNode, copied.nodeChains[startNode])
    <3>1. startNode \in DOMAIN copied.nodeChains
      BY <1>2, <2>1, <2>6 DEF CopyShape
    <3>2. copied.nodeChains[startNode] \in Seq(Nodes)
      BY <2>2, <2>6, <3>1 DEF ShapeOK
    <3>3. PICK r, b : r = startNode /\ b = copied.nodeChains[startNode] /\ b \in Seq(Nodes)
                      /\ Chain(n, r, b)
      BY <2>6, <3>2
    <3>4. ShapeOK(copied') /\ copied'.impl = copied.impl
          /\ DOMAIN copied'.nodeChains = DOMAIN copied.nodeChains \cup {r}
      BY <2>2, <2>3, <2>6, <3>3, ChainShape
    <3> QED
      BY <1>2, <2>6, <3>1, <3>4 DEF CopyShape
  <2> QED
    BY <2>1, <2>2, <2>3, <2>4, <2>5, <2>6
<1> QED
  BY <1>1, <1>2, <1>3 DEF TravInv

LEMMA RestStep ==
    ASSUME TravInv, UNCHANGED vars
    PROVE  TravInv'
<1>1. UNCHANGED <<storage, phase, copied, roots>> /\ UNCHANGED dfsVars
  BY DEF vars, copying
<1>2. (IInv \/ NotBegun)' /\ CyclesAreReal' /\ startNode' = startNode /\ (Exhausted' <=> Exhausted)
  BY <1>1, TraversalStays DEF TravInv
<1>3. (ShapeOK(storage)' <=> ShapeOK(storage)) /\ (ShapeOK(copied)' <=> ShapeOK(copied))
  BY <1>1 DEF ShapeOK
<1>4. CopyShape => CopyShape'
  BY <1>1, <1>2, <1>3 DEF CopyShape
<1> QED
  BY <1>1, <1>2, <1>3, <1>4 DEF TravInv

LEMMA TravStep == StoragesInv /\ TravInv /\ [Next]_vars => TravInv'
<1> SUFFICES ASSUME StoragesInv, TravInv, [Next]_vars PROVE TravInv'
  OBVIOUS
<1>1. CASE deleteEdge \/ \E impl \in {"none", "adjacency"} : convertComponent(impl)
  <2>1. UNCHANGED dfsVars
    BY <1>1 DEF deleteEdge, convertComponent
  <2> QED
    BY <1>1, <2>1, StillStep
<1>2. CASE findConnected \/ isConnected \/ distanceOf
  BY <1>2, AskStep
<1>3. CASE MeasureRoot \/ CopyRoot
  BY <1>3, BeginStep
<1>4. CASE Measure \/ MeasureCycle \/ Copy \/ Search \/ SearchCycle
  BY <1>4, TraverseStep
<1>5. CASE BeginStatistics \/ EndStatistics \/ KeepStorage \/ BeginCopy \/ EndCopy \/ EndSearch
  <2>1. UNCHANGED dfsVars
    BY <1>5 DEF BeginStatistics, EndStatistics, KeepStorage, BeginCopy, EndCopy, EndSearch
  <2> QED
    BY <1>5, <2>1, StillStep
<1>6. CASE UNCHANGED vars
  BY <1>6, RestStep
<1> QED
  BY <1>1, <1>2, <1>3, <1>4, <1>5, <1>6 DEF Next, Work

LEMMA SimpleFollows == IInv \/ NotBegun => PathIsSimple
<1>1. CASE IInv
  BY <1>1, PathIsSimpleFollows
<1>2. CASE NotBegun
  BY <1>2 DEF NotBegun, PathIsSimple
<1> QED
  BY <1>1, <1>2

\* The same of the traversals that measure, copy and search a storage, one after
\* the other over changing edges, also while the statistics of it are wrong: each
\* begins with its own path, and what it looks through is always a simple one.
THEOREM TraversalsStaySimple == Spec => []PathIsSimple
<1>1. Init => TravInv
  BY TravInit
<1>2. StoragesInv /\ TravInv /\ [Next]_vars => TravInv'
  BY TravStep
<1>3. TravInv => PathIsSimple
  BY SimpleFollows DEF TravInv
<1> QED
  BY <1>1, <1>2, <1>3, AlwaysSound, PTL DEF Spec

\* Neither the statistics nor a copy nor a search reports a cycle, which would refuse
\* a component every compact implementation, unless a walk of what it traverses is
\* closed.
THEOREM StoragesReportRealCycles == Spec => []CyclesAreReal
<1>1. Init => TravInv
  BY TravInit
<1>2. StoragesInv /\ TravInv /\ [Next]_vars => TravInv'
  BY TravStep
<1>3. TravInv => CyclesAreReal
  BY DEF TravInv
<1> QED
  BY <1>1, <1>2, <1>3, AlwaysSound, PTL DEF Spec
============================================================================
