-------------------------- MODULE QueryPlanProofs --------------------------
(****************************************************************************)
(* For every query, corpus and configuration: the positions in the plan     *)
(* under construction are those of the tuples it returns, and at most one   *)
(* of its joins runs in the background, with the configured tasks.  The     *)
(* plan of a tame query returns each of its answers once and nothing else,  *)
(* and find shows the page of these that its caller asked for.              *)
(****************************************************************************)
EXTENDS QueryPlan, FiniteSetTheorems, SequenceTheorems, TLAPS

\* The matches that a search, and that the searches of a query can return.
Wrapped(hits) == hits \cup {<<h[1], ConstAnno>> : h \in hits}
Matches(searches) == UNION {Wrapped(searches[i].hits) : i \in DOMAIN searches}

\* An injective numbering of S from 1 on.
Numbering(pos, S) ==
    /\ DOMAIN pos = S
    /\ \A n \in S : pos[n] \in 1..Cardinality(S)
    /\ \A n, k \in S : pos[n] = pos[k] => n = k

\* An execution node for the query nodes S: positions, tuples and, of a node
\* that an index join may replace, its search.
Fits(exec, S, M) ==
    /\ Numbering(exec.nodePos, S)
    /\ \A t \in exec.tuples : t \in Seq(M) /\ Len(t) = Cardinality(S)
    /\ exec.type = "base" => Wrapped(exec.search.hits) \subseteq M /\ Cardinality(S) = 1

Own(components, c) == {n \in DOMAIN components : components[n] = c}

Parsed ==
    /\ call \in Calls
    /\ IsFiniteSet(DOMAIN nodes)
    /\ phase \in {"create", "tasks"} => 1 \in DOMAIN nodes
    /\ \A o \in DOMAIN operators : operators[o].lhs \in DOMAIN nodes /\ operators[o].rhs \in DOMAIN nodes

Maps ==
    /\ DOMAIN node2component = DOMAIN nodes
    /\ DOMAIN component2exec = DOMAIN nodes
    /\ \A n \in DOMAIN nodes : node2component[n] \in DOMAIN nodes

Fit ==
    \A n \in DOMAIN nodes :
        LET c == node2component[n]
        IN  component2exec[c].componentNr = c /\ Fits(component2exec[c], Own(node2component, c), Matches(nodes))

PlanInv == Parsed /\ Maps /\ Fit

----------------------------------------------------------------------------
(* Merging two numberings.                                                  *)

LEMMA MergedNumbers ==
    ASSUME NEW A, NEW B, IsFiniteSet(A), IsFiniteSet(B), A \cap B = {},
           NEW f, NEW g, Numbering(f, A), Numbering(g, B)
    PROVE  /\ Numbering(MergedPos(f, g), A \cup B)
           /\ Cardinality(A \cup B) = Cardinality(A) + Cardinality(B)
<1> DEFINE h == MergedPos(f, g)
<1>1. Cardinality(A) \in Nat /\ Cardinality(B) \in Nat
  BY FS_CardinalityType
<1>2. Cardinality(A \cup B) = Cardinality(A) + Cardinality(B)
  BY <1>1, FS_Union, FS_EmptySet
<1>3. /\ DOMAIN h = A \cup B
      /\ \A n \in A : h[n] = f[n]
      /\ \A n \in B : h[n] = g[n] + Cardinality(A)
  BY DEF MergedPos, Numbering
<1>4. \A n \in A : h[n] \in 1..Cardinality(A)
  BY <1>3 DEF Numbering
<1>5. \A n \in B : h[n] \in (Cardinality(A) + 1)..(Cardinality(A) + Cardinality(B))
  BY <1>1, <1>3 DEF Numbering
<1>6. \A n \in A \cup B : h[n] \in 1..Cardinality(A \cup B)
  BY <1>1, <1>2, <1>4, <1>5
<1>7. ASSUME NEW n \in A \cup B, NEW k \in A \cup B, h[n] = h[k] PROVE n = k
  <2>1. CASE n \in A /\ k \in A
    BY <1>3, <1>7, <2>1 DEF Numbering
  <2>2. CASE n \in B /\ k \in B
    <3>1. g[n] \in Int /\ g[k] \in Int
      BY <1>1, <2>2 DEF Numbering
    <3>2. g[n] + Cardinality(A) = g[k] + Cardinality(A)
      BY <1>3, <1>7, <2>2
    <3> QED
      BY <1>1, <2>2, <3>1, <3>2 DEF Numbering
  <2>3. CASE n \in A /\ k \in B
    BY <1>1, <1>4, <1>5, <1>7, <2>3
  <2>4. CASE n \in B /\ k \in A
    BY <1>1, <1>4, <1>5, <1>7, <2>4
  <2> QED
    BY <2>1, <2>2, <2>3, <2>4
<1> HIDE DEF h
<1>8. Numbering(h, A \cup B)
  BY <1>3, <1>6, <1>7 DEF Numbering
<1> QED
  BY <1>2, <1>8 DEF h

\* A filter joins a component with itself: nothing moves.
LEMMA MergedWithItself ==
    ASSUME NEW A, NEW f, Numbering(f, A)
    PROVE  Numbering(MergedPos(f, f), A)
BY DEF MergedPos, Numbering

----------------------------------------------------------------------------
(* The joins.                                                               *)

LEMMA FoundMatches ==
    ASSUME NEW M, NEW search, Wrapped(search.hits) \subseteq M, NEW n
    PROVE  /\ MatchesOf(search, n) \subseteq M
           /\ createSearchFilter(search, n) \subseteq M
           /\ RegexMatches(search, n) \subseteq M
<1>1. MatchesOf(search, n) \subseteq Wrapped(search.hits)
  BY DEF MatchesOf, Wrapped
<1>2. createSearchFilter(search, n) \subseteq M
  BY <1>1 DEF createSearchFilter
<1>3. RegexMatches(search, n) \subseteq M
  BY <1>1 DEF RegexMatches, Wrapped
<1> QED
  BY <1>1, <1>2, <1>3

LEMMA BaseNodeFits ==
    ASSUME NEW M, NEW i, NEW search, Wrapped(search.hits) \subseteq M
    PROVE  /\ BaseNode(i, search).componentNr = i
           /\ Fits(BaseNode(i, search), {i}, M)
           /\ BaseNode(i, search).parallel = {}
<1> DEFINE exec == BaseNode(i, search)
<1>1. Cardinality({i}) = 1
  BY FS_Singleton
<1>2. Numbering(exec.nodePos, {i})
  BY <1>1 DEF BaseNode, Numbering
<1>3. Iterated(search) \subseteq M
  BY FoundMatches DEF Iterated
<1>4. ASSUME NEW t \in exec.tuples PROVE t \in Seq(M) /\ Len(t) = 1
  <2>1. PICK m \in Iterated(search) : t = <<m>>
    BY DEF BaseNode
  <2>2. m \in M
    BY <1>3
  <2> QED
    BY <2>1, <2>2
<1>5. exec.search = search /\ exec.componentNr = i /\ exec.parallel = {}
  BY DEF BaseNode
<1> QED
  BY <1>1, <1>2, <1>4, <1>5 DEF Fits

LEMMA IndexJoinFits ==
    ASSUME NEW M, NEW op, NEW lhs, NEW l, NEW search, NEW k \in Nat,
           Wrapped(search.hits) \subseteq M,
           \A t \in lhs.tuples : t \in Seq(M) /\ Len(t) = k
    PROVE  \A t \in IndexJoin(op, lhs, l, search) : t \in Seq(M) /\ Len(t) = k + 1
<1> SUFFICES ASSUME NEW t \in IndexJoin(op, lhs, l, search)
             PROVE  t \in Seq(M) /\ Len(t) = k + 1
  OBVIOUS
<1>1. PICK s \in lhs.tuples : \E n \in Nodes : \E m \in createSearchFilter(search, n) : t = Append(s, m)
  BY DEF IndexJoin
<1>2. PICK n \in Nodes : \E m \in createSearchFilter(search, n) : t = Append(s, m)
  BY <1>1
<1>3. PICK m \in createSearchFilter(search, n) : t = Append(s, m)
  BY <1>2
<1>4. m \in M
  BY FoundMatches
<1>5. s \in Seq(M) /\ Len(s) = k
  BY <1>1
<1> QED
  BY <1>3, <1>4, <1>5, AppendProperties

LEMMA NestedLoopJoinFits ==
    ASSUME NEW M, NEW op, NEW lhs, NEW l, NEW rhs, NEW r, NEW k \in Nat, NEW j \in Nat,
           \A t \in lhs.tuples : t \in Seq(M) /\ Len(t) = k,
           \A t \in rhs.tuples : t \in Seq(M) /\ Len(t) = j
    PROVE  \A t \in NestedLoopJoin(op, lhs, l, rhs, r) : t \in Seq(M) /\ Len(t) = k + j
<1> SUFFICES ASSUME NEW t \in NestedLoopJoin(op, lhs, l, rhs, r)
             PROVE  t \in Seq(M) /\ Len(t) = k + j
  OBVIOUS
<1>1. PICK x \in lhs.tuples, y \in rhs.tuples : t = x \o y
  BY DEF NestedLoopJoin
<1>2. x \in Seq(M) /\ Len(x) = k /\ y \in Seq(M) /\ Len(y) = j
  BY <1>1
<1> QED
  BY <1>1, <1>2, ConcatProperties
----------------------------------------------------------------------------
LEMMA ExecutionNodeFields ==
    ASSUME NEW type, NEW idx, NEW lhs, NEW rhs, NEW tuples, NEW tasks
    PROVE  LET exec == ExecutionNode(type, idx, lhs, rhs, tuples, tasks)
           IN  /\ exec.type = type
               /\ exec.nodePos = MergedPos(lhs.nodePos, rhs.nodePos)
               /\ exec.componentNr = lhs.componentNr
               /\ exec.tuples = tuples
               /\ exec.parallel \subseteq lhs.parallel \cup rhs.parallel
                                        \cup (IF tasks > 0 THEN {<<idx, tasks>>} ELSE {})
BY DEF ExecutionNode

\* Joining two components: the positions and the tuples stay in step.
LEMMA JoinedFits ==
    ASSUME NEW M, NEW A, NEW B, IsFiniteSet(A), IsFiniteSet(B), A \cap B = {},
           NEW lhs, NEW rhs, Numbering(lhs.nodePos, A), Numbering(rhs.nodePos, B),
           NEW type, type # "base", NEW idx, NEW tasks, NEW tuples,
           \A t \in tuples : t \in Seq(M) /\ Len(t) = Cardinality(A) + Cardinality(B)
    PROVE  Fits(ExecutionNode(type, idx, lhs, rhs, tuples, tasks), A \cup B, M)
<1> DEFINE exec == ExecutionNode(type, idx, lhs, rhs, tuples, tasks)
<1>1. /\ exec.type = type /\ exec.tuples = tuples
      /\ exec.nodePos = MergedPos(lhs.nodePos, rhs.nodePos)
  BY ExecutionNodeFields
<1> HIDE DEF exec
<1>2. /\ Numbering(exec.nodePos, A \cup B)
      /\ Cardinality(A \cup B) = Cardinality(A) + Cardinality(B)
  BY <1>1, MergedNumbers
<1>3. Fits(exec, A \cup B, M)
  BY <1>1, <1>2 DEF Fits
<1> QED
  BY <1>3 DEF exec

\* An index join, with the search of its right hand side.
LEMMA IndexedFits ==
    ASSUME NEW M, NEW A, NEW B, IsFiniteSet(A), IsFiniteSet(B), A \cap B = {},
           NEW lhs, NEW rhs, Fits(lhs, A, M), Fits(rhs, B, M), rhs.type = "base",
           NEW op, NEW l, NEW r, NEW idx, NEW tasks
    PROVE  LET exec == Indexed(op, l, r, idx, lhs, rhs, tasks)
           IN  /\ Fits(exec, A \cup B, M)
               /\ exec.componentNr = lhs.componentNr
               /\ exec.parallel \subseteq lhs.parallel \cup rhs.parallel
                                        \cup (IF tasks > 0 THEN {<<idx, tasks>>} ELSE {})
<1> DEFINE found == IndexJoin(op, lhs, lhs.nodePos[l], rhs.search)
<1>1. Cardinality(A) \in Nat /\ Cardinality(B) = 1 /\ Wrapped(rhs.search.hits) \subseteq M
  BY FS_CardinalityType DEF Fits
<1>2. Numbering(lhs.nodePos, A) /\ Numbering(rhs.nodePos, B)
  BY DEF Fits
<1>3. \A t \in found : t \in Seq(M) /\ Len(t) = Cardinality(A) + Cardinality(B)
  BY <1>1, IndexJoinFits DEF Fits
<1>4. CASE rhs.search.returnsNothing
  <2>1. Indexed(op, l, r, idx, lhs, rhs, tasks) = ExecutionNode("do_nothing", idx, lhs, rhs, {}, tasks)
    BY <1>4 DEF Indexed
  <2>2. Fits(ExecutionNode("do_nothing", idx, lhs, rhs, {}, tasks), A \cup B, M)
    BY <1>2, JoinedFits
  <2> QED
    BY <2>1, <2>2, ExecutionNodeFields
<1>5. CASE ~rhs.search.returnsNothing
  <2>1. Indexed(op, l, r, idx, lhs, rhs, tasks) = ExecutionNode("index_join", idx, lhs, rhs, found, tasks)
    BY <1>5 DEF Indexed
  <2> HIDE DEF found
  <2>2. Fits(ExecutionNode("index_join", idx, lhs, rhs, found, tasks), A \cup B, M)
    BY <1>2, <1>3, JoinedFits
  <2> QED
    BY <2>1, <2>2, ExecutionNodeFields
<1> QED
  BY <1>4, <1>5

\* What Plan::join makes of two different components.
LEMMA PlanJoinFits ==
    ASSUME NEW M, NEW A, NEW B, IsFiniteSet(A), IsFiniteSet(B), A \cap B = {},
           NEW lhs, NEW rhs, Fits(lhs, A, M), Fits(rhs, B, M), lhs.componentNr # rhs.componentNr,
           NEW op, NEW idx, NEW tasks
    PROVE  LET exec == PlanJoin(op, idx, lhs, rhs, tasks)
           IN  /\ Fits(exec, A \cup B, M)
               /\ exec.componentNr \in {lhs.componentNr, rhs.componentNr}
               /\ exec.parallel \subseteq lhs.parallel \cup rhs.parallel
                                        \cup (IF tasks > 0 THEN {<<idx, tasks>>} ELSE {})
<1> DEFINE found == NestedLoopJoin(op, lhs, lhs.nodePos[op.lhs], rhs, rhs.nodePos[op.rhs])
<1>1. CASE rhs.type = "base" /\ ~op.force
  <2>1. PlanJoin(op, idx, lhs, rhs, tasks) = Indexed(op, op.lhs, op.rhs, idx, lhs, rhs, tasks)
    BY <1>1 DEF PlanJoin
  <2>2. /\ Fits(Indexed(op, op.lhs, op.rhs, idx, lhs, rhs, tasks), A \cup B, M)
        /\ Indexed(op, op.lhs, op.rhs, idx, lhs, rhs, tasks).componentNr = lhs.componentNr
        /\ Indexed(op, op.lhs, op.rhs, idx, lhs, rhs, tasks).parallel
              \subseteq lhs.parallel \cup rhs.parallel \cup (IF tasks > 0 THEN {<<idx, tasks>>} ELSE {})
    BY <1>1, IndexedFits
  <2> QED
    BY <2>1, <2>2
<1>2. CASE ~(rhs.type = "base" /\ ~op.force) /\ lhs.type = "base" /\ ~op.force /\ op.commutative
  <2>1. PlanJoin(op, idx, lhs, rhs, tasks) = Indexed(op, op.rhs, op.lhs, idx, rhs, lhs, tasks)
    BY <1>2 DEF PlanJoin
  <2>2. A \cup B = B \cup A /\ B \cap A = {}
    OBVIOUS
  <2>3. /\ Fits(Indexed(op, op.rhs, op.lhs, idx, rhs, lhs, tasks), B \cup A, M)
        /\ Indexed(op, op.rhs, op.lhs, idx, rhs, lhs, tasks).componentNr = rhs.componentNr
        /\ Indexed(op, op.rhs, op.lhs, idx, rhs, lhs, tasks).parallel
              \subseteq rhs.parallel \cup lhs.parallel \cup (IF tasks > 0 THEN {<<idx, tasks>>} ELSE {})
    BY <1>2, <2>2, IndexedFits
  <2> QED
    BY <2>1, <2>2, <2>3
<1>3. CASE /\ ~(rhs.type = "base" /\ ~op.force)
           /\ ~(lhs.type = "base" /\ ~op.force /\ op.commutative)
  <2>1. PlanJoin(op, idx, lhs, rhs, tasks) = ExecutionNode("nested_loop", idx, lhs, rhs, found, tasks)
    BY <1>3 DEF PlanJoin
  <2>2. Cardinality(A) \in Nat /\ Cardinality(B) \in Nat
    BY FS_CardinalityType
  <2>3. \A t \in found : t \in Seq(M) /\ Len(t) = Cardinality(A) + Cardinality(B)
    BY <2>2, NestedLoopJoinFits DEF Fits
  <2>4. Numbering(lhs.nodePos, A) /\ Numbering(rhs.nodePos, B)
    BY DEF Fits
  <2> HIDE DEF found
  <2>5. Fits(ExecutionNode("nested_loop", idx, lhs, rhs, found, tasks), A \cup B, M)
    BY <2>3, <2>4, JoinedFits
  <2> QED
    BY <2>1, <2>5, ExecutionNodeFields
<1> QED
  BY <1>1, <1>2, <1>3

\* And of a component with itself.
LEMMA FilterFits ==
    ASSUME NEW M, NEW A, NEW exec0, Fits(exec0, A, M), NEW op, NEW idx, NEW tasks
    PROVE  LET exec == PlanJoin(op, idx, exec0, exec0, tasks)
           IN  /\ Fits(exec, A, M)
               /\ exec.componentNr = exec0.componentNr
               /\ exec.parallel \subseteq exec0.parallel \cup (IF tasks > 0 THEN {<<idx, tasks>>} ELSE {})
<1> DEFINE left == BinaryFilter(op, exec0, exec0.nodePos[op.lhs], exec0.nodePos[op.rhs])
           exec == ExecutionNode("filter", idx, exec0, exec0, left, tasks)
<1>1. PlanJoin(op, idx, exec0, exec0, tasks) = exec
  BY DEF PlanJoin
<1>2. left \subseteq exec0.tuples
  BY DEF BinaryFilter
<1> HIDE DEF left
<1>3. /\ exec.type = "filter" /\ exec.tuples = left
      /\ exec.nodePos = MergedPos(exec0.nodePos, exec0.nodePos)
      /\ exec.componentNr = exec0.componentNr
      /\ exec.parallel \subseteq exec0.parallel \cup (IF tasks > 0 THEN {<<idx, tasks>>} ELSE {})
  BY ExecutionNodeFields
<1> HIDE DEF exec
<1>4. Numbering(exec.nodePos, A)
  BY <1>3, MergedWithItself DEF Fits
<1>5. Fits(exec, A, M)
  BY <1>2, <1>3, <1>4 DEF Fits
<1> QED
  BY <1>1, <1>3, <1>5

----------------------------------------------------------------------------
(* createPlan                                                               *)

LEMMA StartFits ==
    ASSUME StartPlan(nodes')
    PROVE  Maps' /\ Fit' /\ \A n \in DOMAIN nodes' : component2exec'[n].parallel = {}
<1>1. /\ node2component' = [n \in DOMAIN nodes' |-> n]
      /\ component2exec' = [n \in DOMAIN nodes' |-> BaseNode(n, nodes'[n])]
  BY DEF StartPlan
<1>2. Maps'
  BY <1>1 DEF Maps
<1>3. ASSUME NEW n \in DOMAIN nodes'
      PROVE  /\ component2exec'[n].componentNr = n
             /\ Fits(component2exec'[n], {n}, Matches(nodes'))
             /\ component2exec'[n].parallel = {}
  <2>1. Wrapped(nodes'[n].hits) \subseteq Matches(nodes')
    BY DEF Matches
  <2>2. component2exec'[n] = BaseNode(n, nodes'[n])
    BY <1>1
  <2>3. /\ BaseNode(n, nodes'[n]).componentNr = n
        /\ Fits(BaseNode(n, nodes'[n]), {n}, Matches(nodes'))
        /\ BaseNode(n, nodes'[n]).parallel = {}
    BY <2>1, BaseNodeFits
  <2> QED
    BY <2>2, <2>3
<1>4. \A n \in DOMAIN nodes' : node2component'[n] = n /\ Own(node2component', n) = {n}
  BY <1>1 DEF Own
<1>5. Fit'
  BY <1>3, <1>4 DEF Fit
<1> QED
  BY <1>2, <1>3, <1>5

\* The components and the execution node of one turn of createPlan's loop.
componentLeft  == node2component[operators[operatorIdx].lhs]
componentRight == node2component[operators[operatorIdx].rhs]
joined == PlanJoin(operators[operatorIdx], operatorIdx, component2exec[componentLeft],
                   component2exec[componentRight], TasksOf(operatorIdx))

LEMMA JoinOperatorIs ==
    JoinOperator =>
        /\ operatorIdx \in DOMAIN operators /\ phase = "create"
        /\ node2component' = [n \in DOMAIN node2component |->
              IF node2component[n] \in {componentLeft, componentRight}
                THEN joined.componentNr ELSE node2component[n]]
        /\ component2exec' = [component2exec EXCEPT ![joined.componentNr] = joined]
        /\ UNCHANGED <<phase, call, finding, asking, parsed, bestPlan, tasking, history>>
BY DEF JoinOperator, joined, componentLeft, componentRight

LEMMA JoinedIs ==
    ASSUME PlanInv, operatorIdx \in DOMAIN operators
    PROVE  /\ componentLeft \in DOMAIN nodes /\ componentRight \in DOMAIN nodes
           /\ joined.componentNr \in {componentLeft, componentRight}
           /\ Fits(joined, Own(node2component, componentLeft) \cup Own(node2component, componentRight), Matches(nodes))
           /\ joined.parallel \subseteq component2exec[componentLeft].parallel
                   \cup component2exec[componentRight].parallel
                   \cup (IF TasksOf(operatorIdx) > 0 THEN {<<operatorIdx, TasksOf(operatorIdx)>>} ELSE {})
<1> DEFINE l == operators[operatorIdx].lhs
           r == operators[operatorIdx].rhs
           A == Own(node2component, componentLeft)
           B == Own(node2component, componentRight)
           lhs == component2exec[componentLeft]
           rhs == component2exec[componentRight]
<1>1. l \in DOMAIN nodes /\ r \in DOMAIN nodes
  BY DEF PlanInv, Parsed
<1>2. componentLeft \in DOMAIN nodes /\ componentRight \in DOMAIN nodes
  BY <1>1 DEF PlanInv, Maps, componentLeft, componentRight
<1>3. /\ lhs.componentNr = componentLeft /\ Fits(lhs, A, Matches(nodes))
      /\ rhs.componentNr = componentRight /\ Fits(rhs, B, Matches(nodes))
  BY <1>1 DEF PlanInv, Fit, componentLeft, componentRight
<1>4. IsFiniteSet(A) /\ IsFiniteSet(B)
  BY FS_Subset DEF PlanInv, Parsed, Maps, Own
<1>5. CASE componentLeft = componentRight
  <2>1. joined = PlanJoin(operators[operatorIdx], operatorIdx, lhs, lhs, TasksOf(operatorIdx))
    BY <1>5 DEF joined
  <2>2. A \cup B = A /\ lhs = rhs
    BY <1>5
  <2> HIDE DEF A, B, lhs, rhs
  <2>3. /\ Fits(joined, A, Matches(nodes))
        /\ joined.componentNr = lhs.componentNr
        /\ joined.parallel \subseteq lhs.parallel
                \cup (IF TasksOf(operatorIdx) > 0 THEN {<<operatorIdx, TasksOf(operatorIdx)>>} ELSE {})
    BY <1>3, <2>1, FilterFits
  <2> QED
    BY <1>2, <1>3, <2>2, <2>3 DEF A, B, lhs, rhs
<1>6. CASE componentLeft # componentRight
  <2>1. A \cap B = {}
    BY <1>6 DEF Own
  <2> HIDE DEF A, B, lhs, rhs
  <2>2. /\ Fits(PlanJoin(operators[operatorIdx], operatorIdx, lhs, rhs, TasksOf(operatorIdx)),
                A \cup B, Matches(nodes))
        /\ PlanJoin(operators[operatorIdx], operatorIdx, lhs, rhs, TasksOf(operatorIdx)).componentNr
                \in {lhs.componentNr, rhs.componentNr}
        /\ PlanJoin(operators[operatorIdx], operatorIdx, lhs, rhs, TasksOf(operatorIdx)).parallel
                \subseteq lhs.parallel \cup rhs.parallel
                   \cup (IF TasksOf(operatorIdx) > 0 THEN {<<operatorIdx, TasksOf(operatorIdx)>>} ELSE {})
    BY <1>3, <1>4, <1>6, <2>1, PlanJoinFits
  <2> QED
    BY <1>2, <1>3, <2>2 DEF joined, A, B, lhs, rhs
<1> QED
  BY <1>5, <1>6

LEMMA JoinStep == PlanInv /\ JoinOperator => PlanInv'
<1> SUFFICES ASSUME PlanInv, JoinOperator PROVE PlanInv'
  OBVIOUS
<1> DEFINE L == componentLeft
           R == componentRight
           C == joined.componentNr
<1>1. /\ L \in DOMAIN nodes /\ R \in DOMAIN nodes /\ C \in {L, R}
      /\ Fits(joined, Own(node2component, L) \cup Own(node2component, R), Matches(nodes))
  BY JoinOperatorIs, JoinedIs
<1>2. /\ DOMAIN node2component' = DOMAIN nodes /\ DOMAIN component2exec' = DOMAIN nodes
      /\ \A n \in DOMAIN nodes : node2component'[n] =
             IF node2component[n] \in {L, R} THEN C ELSE node2component[n]
      /\ \A c \in DOMAIN nodes : component2exec'[c] = IF c = C THEN joined ELSE component2exec[c]
  BY JoinOperatorIs DEF PlanInv, Maps
<1>3. nodes' = nodes /\ operators' = operators /\ call' = call /\ phase' = phase
  BY JoinOperatorIs DEF parsed
<1>4. Parsed'
  BY <1>3 DEF PlanInv, Parsed
<1>5. Maps'
  BY <1>1, <1>2, <1>3 DEF PlanInv, Maps
<1> HIDE DEF L, R, C
<1>6. Own(node2component', C) = Own(node2component, L) \cup Own(node2component, R)
  BY <1>1, <1>2, <1>3 DEF Own, PlanInv, Maps
<1>7. \A c \in DOMAIN nodes \ {L, R} : Own(node2component', c) = Own(node2component, c)
  BY <1>1, <1>2, <1>3 DEF Own, PlanInv, Maps
<1>8. joined.componentNr = C
  BY DEF C
<1>9. ASSUME NEW n \in DOMAIN nodes
      PROVE  /\ component2exec'[node2component'[n]].componentNr = node2component'[n]
             /\ Fits(component2exec'[node2component'[n]], Own(node2component', node2component'[n]), Matches(nodes))
  <2>1. CASE node2component[n] \in {L, R}
    BY <1>1, <1>2, <1>6, <1>8, <2>1
  <2>2. CASE node2component[n] \notin {L, R}
    <3> DEFINE c == node2component[n]
    <3>1. c \in DOMAIN nodes \ {L, R} /\ node2component'[n] = c
      BY <1>2, <2>2 DEF PlanInv, Maps
    <3>2. component2exec'[c] = component2exec[c] /\ Own(node2component', c) = Own(node2component, c)
      BY <1>1, <1>2, <1>7, <3>1
    <3>3. component2exec[c].componentNr = c /\ Fits(component2exec[c], Own(node2component, c), Matches(nodes))
      BY DEF PlanInv, Fit
    <3> QED
      BY <3>1, <3>2, <3>3
  <2> QED
    BY <2>1, <2>2
<1>10. Fit'
  BY <1>3, <1>9 DEF Fit
<1> QED
  BY <1>4, <1>5, <1>10 DEF PlanInv

----------------------------------------------------------------------------
(* The other steps.                                                         *)

LEMMA ReleasedFits == Released => Maps' /\ Fit' /\ IsFiniteSet(DOMAIN nodes') /\ DOMAIN operators' = {}
<1> SUFFICES ASSUME Released PROVE Maps' /\ Fit' /\ IsFiniteSet(DOMAIN nodes') /\ DOMAIN operators' = {}
  OBVIOUS
<1>1. /\ nodes' = <<>> /\ operators' = <<>>
      /\ node2component' = <<>> /\ component2exec' = <<>>
  BY DEF Released
<1>2. /\ DOMAIN nodes' = {} /\ DOMAIN operators' = {}
      /\ DOMAIN node2component' = {} /\ DOMAIN component2exec' = {}
  BY <1>1
<1>3. IsFiniteSet(DOMAIN nodes')
  BY <1>2, FS_EmptySet
<1> QED
  BY <1>2, <1>3 DEF Maps, Fit

LEMMA PlanInit == Init => PlanInv
<1> SUFFICES ASSUME Init PROVE PlanInv
  OBVIOUS
<1>1. /\ call \in Calls /\ phase = "corpus"
      /\ DOMAIN nodes = {} /\ DOMAIN operators = {}
      /\ DOMAIN node2component = {} /\ DOMAIN component2exec = {}
  BY DEF Init
<1>2. IsFiniteSet(DOMAIN nodes)
  BY <1>1, FS_EmptySet
<1> QED
  BY <1>1, <1>2 DEF PlanInv, Parsed, Maps, Fit

LEMMA InternalInitStep == PlanInv /\ InternalInit => PlanInv'
<1> SUFFICES ASSUME PlanInv, InternalInit PROVE PlanInv'
  OBVIOUS
<1> DEFINE alt == Query[alternative]
           optimize == call.config.optimize
<1>1. alternative \in DOMAIN call.query /\ call \in Calls
  BY DEF InternalInit, Query, PlanInv, Parsed
<1>2. /\ IsFiniteSet(DOMAIN alt.searches) /\ 1 \in DOMAIN alt.searches
      /\ \A o \in DOMAIN alt.ops : /\ alt.ops[o].lhs \in DOMAIN alt.searches
                                  /\ alt.ops[o].rhs \in DOMAIN alt.searches
  BY <1>1, CallsAssumption DEF Query
<1>3. PICK c \in Contents(alt), order \in Orders(DOMAIN alt.ops, optimize),
           switched \in Switches(alt.ops, optimize), R \in EdgeSearches(alt.ops, optimize) :
              /\ nodes' = Searches(alt, c, R, optimize)
              /\ operators' = [k \in DOMAIN alt.ops |->
                    Operator(alt.ops[order[k]], c.rel[order[k]], order[k] \in switched)]
              /\ StartPlan(nodes')
  BY DEF InternalInit
<1>4. DOMAIN nodes' = DOMAIN alt.searches
  BY <1>3 DEF Searches
<1>5. \A k \in DOMAIN alt.ops : order[k] \in DOMAIN alt.ops
  BY <1>3 DEF Orders
<1>6. \A k \in DOMAIN operators' : operators'[k].lhs \in DOMAIN nodes' /\ operators'[k].rhs \in DOMAIN nodes'
  <2> SUFFICES ASSUME NEW k \in DOMAIN operators'
               PROVE  operators'[k].lhs \in DOMAIN nodes' /\ operators'[k].rhs \in DOMAIN nodes'
    OBVIOUS
  <2>1. k \in DOMAIN alt.ops
    BY <1>3
  <2>2. /\ operators'[k].lhs \in {alt.ops[order[k]].lhs, alt.ops[order[k]].rhs}
        /\ operators'[k].rhs \in {alt.ops[order[k]].lhs, alt.ops[order[k]].rhs}
    BY <1>3, <2>1 DEF Operator
  <2> QED
    BY <1>2, <1>4, <1>5, <2>1, <2>2
<1>7. call' = call
  BY DEF InternalInit
<1> QED
  BY <1>1, <1>2, <1>3, <1>4, <1>6, <1>7, StartFits DEF PlanInv, Parsed

LEMMA RecreateStep == PlanInv /\ RecreatePlan => PlanInv'
<1> SUFFICES ASSUME PlanInv, RecreatePlan PROVE PlanInv'
  OBVIOUS
<1>1. nodes' = nodes /\ operators' = operators /\ call' = call /\ phase = "tasks"
  BY DEF RecreatePlan, parsed
<1>2. StartPlan(nodes')
  BY <1>1 DEF RecreatePlan, StartPlan
<1> QED
  BY <1>1, <1>2, StartFits DEF PlanInv, Parsed

LEMMA ReleaseStep == PlanInv /\ Released /\ call' = call /\ phase' \notin {"create", "tasks"} => PlanInv'
BY ReleasedFits DEF PlanInv, Parsed

\* Nothing of the plan under construction changes.
LEMMA KeepStep ==
    ASSUME PlanInv, UNCHANGED <<call, parsed, node2component, component2exec>>,
           phase' \in {"create", "tasks"} => phase \in {"create", "tasks"}
    PROVE  PlanInv'
BY DEF PlanInv, Parsed, Maps, Fit, parsed

LEMMA PlanNext == PlanInv /\ [Next]_vars => PlanInv'
<1> SUFFICES ASSUME PlanInv, [Next]_vars PROVE PlanInv'
  OBVIOUS
<1>1. CASE OpenCorpus \/ CallNext \/ Finish
  BY <1>1, KeepStep DEF OpenCorpus, CallNext, Finish, creating
<1>2. CASE StopAtPage \/ QueryEnds \/ NextAlternative
  BY <1>2, ReleaseStep DEF StopAtPage, QueryEnds, NextAlternative, CloseCorpus
<1>3. CASE InternalInit
  BY <1>3, InternalInitStep
<1>4. CASE JoinOperator
  BY <1>4, JoinStep
<1>5. CASE PlanCreated
  BY <1>5, KeepStep DEF PlanCreated, creating
<1>6. CASE PlanFailed
  BY <1>6, KeepStep, ReleaseStep DEF PlanFailed, creating
<1>7. CASE AssignTasks
  BY <1>7, KeepStep DEF AssignTasks, creating
<1>8. CASE RecreatePlan
  BY <1>8, RecreateStep
<1>9. CASE Answer
  BY <1>9, KeepStep DEF Answer, creating
<1>10. CASE UNCHANGED vars
  BY <1>10, KeepStep DEF vars, creating
<1> QED
  BY <1>1, <1>2, <1>3, <1>4, <1>5, <1>6, <1>7, <1>8, <1>9, <1>10 DEF Next, Terminated

LEMMA NumberedFollows == PlanInv => PositionsNumberNodes
<1> SUFFICES ASSUME PlanInv, NEW m \in DOMAIN node2component
             PROVE  LET exec == component2exec[node2component[m]]
                        own  == Own(node2component, node2component[m])
                    IN  /\ exec.componentNr = node2component[m]
                        /\ DOMAIN exec.nodePos = own
                        /\ \A n \in own : exec.nodePos[n] \in 1..Cardinality(own)
                        /\ \A n, k \in own : exec.nodePos[n] = exec.nodePos[k] => n = k
                        /\ \A t \in exec.tuples : Len(t) = Cardinality(own)
  BY DEF PositionsNumberNodes, Own
<1> QED
  BY DEF PlanInv, Maps, Fit, Fits, Numbering

\* In every plan under construction, for every query, corpus and order of the
\* operators, the positions of a component number its query nodes, and each of
\* its tuples has a match at every position.
THEOREM PlansNumberTheirNodes == Spec => []PositionsNumberNodes
<1>1. Init => PlanInv
  BY PlanInit
<1>2. PlanInv /\ [Next]_vars => PlanInv'
  BY PlanNext
<1>3. PlanInv => PositionsNumberNodes
  BY NumberedFollows
<1> QED
  BY <1>1, <1>2, <1>3, PTL DEF Spec

----------------------------------------------------------------------------
(* Background tasks: while they are assigned, those of the one join and     *)
(* those still available are the configured ones, or, from an odd number    *)
(* on, available is odd and never 0.                                        *)

N == call.config.numOfBackgroundTasks
OneJoin == {<<largest, TasksOf(largest)>>}

Mapped ==
    /\ available \in Nat
    /\ \A k \in DOMAIN mapping : mapping[k] \in Nat /\ (k # largest => mapping[k] = 0)

Shared ==
    IF phase = "tasks"
      THEN TasksOf(largest) + available <= N \/ (largest # 0 /\ available % 2 = 1)
      ELSE TasksOf(largest) <= N

Background ==
    /\ phase = "create" => \A c \in DOMAIN nodes : component2exec[c].parallel \subseteq OneJoin
    /\ phase \in {"corpus", "find", "next"} /\ bestPlan # None => bestPlan.parallel \subseteq OneJoin

TaskInv == PlanInv /\ Mapped /\ Shared /\ Background

LEMMA Configured == PlanInv => N \in Nat /\ N <= SizeMax /\ SizeMax \in Nat /\ SizeMax % 2 = 1
BY CallsAssumption DEF PlanInv, Parsed, N

LEMMA TaskInit == Init => TaskInv
<1> SUFFICES ASSUME Init PROVE TaskInv
  OBVIOUS
<1>1. PlanInv
  BY PlanInit
<1>2. DOMAIN mapping = {} /\ available = 0 /\ phase = "corpus" /\ bestPlan = None
  BY DEF Init
<1> QED
  BY <1>1, <1>2, Configured DEF TaskInv, Mapped, Shared, Background, TasksOf

LEMMA TasksReleased ==
    ASSUME TaskInv, PlanInv', Released, call' = call, phase' \notin {"create", "tasks"}
    PROVE  TaskInv'
<1>1. DOMAIN mapping' = {} /\ available' = 0 /\ bestPlan' = None
  BY DEF Released
<1>2. TasksOf(largest)' = 0 /\ N' = N
  BY <1>1 DEF TasksOf, N
<1>3. Shared'
  BY <1>2, Configured DEF TaskInv, Shared
<1> QED
  BY <1>1, <1>3 DEF TaskInv, Mapped, Background

\* The tasks and the plan stay; a phase does not become one of assigning tasks.
LEMMA TasksKept ==
    ASSUME TaskInv, PlanInv', UNCHANGED <<call, tasking, bestPlan>>, phase # "tasks", phase' # "tasks",
           phase' # "create",
           phase' \in {"corpus", "find", "next"} => phase \in {"corpus", "find", "next"}
    PROVE  TaskInv'
<1>1. /\ largest' = largest /\ available' = available /\ mapping' = mapping
      /\ N' = N /\ TasksOf(largest)' = TasksOf(largest) /\ OneJoin' = OneJoin
  BY DEF tasking, N, TasksOf, OneJoin
<1>2. Mapped' /\ Shared'
  BY <1>1 DEF TaskInv, Mapped, Shared
<1>3. Background'
  BY <1>1 DEF TaskInv, Background
<1> QED
  BY <1>2, <1>3 DEF TaskInv

LEMMA TasksStart ==
    ASSUME TaskInv, PlanInv', UNCHANGED <<call, tasking>>, StartPlan(nodes'), phase' = "create",
           TasksOf(largest) <= N
    PROVE  TaskInv'
<1>1. /\ largest' = largest /\ available' = available /\ mapping' = mapping
      /\ N' = N /\ TasksOf(largest)' = TasksOf(largest)
  BY DEF tasking, N, TasksOf
<1>2. Mapped' /\ Shared'
  BY <1>1 DEF TaskInv, Mapped, Shared
<1>3. Background'
  BY StartFits DEF Background
<1> QED
  BY <1>2, <1>3 DEF TaskInv

LEMMA TasksJoined == ASSUME TaskInv, PlanInv', JoinOperator PROVE TaskInv'
<1>1. /\ phase = "create" /\ phase' = phase /\ call' = call /\ nodes' = nodes
      /\ largest' = largest /\ available' = available /\ mapping' = mapping
      /\ operatorIdx \in DOMAIN operators
      /\ component2exec' = [component2exec EXCEPT ![joined.componentNr] = joined]
  BY JoinOperatorIs DEF tasking, parsed
<1>2. N' = N /\ TasksOf(largest)' = TasksOf(largest) /\ OneJoin' = OneJoin
  BY <1>1 DEF N, TasksOf, OneJoin
<1>3. Mapped' /\ Shared'
  BY <1>1, <1>2 DEF TaskInv, Mapped, Shared
<1>4. /\ componentLeft \in DOMAIN nodes /\ componentRight \in DOMAIN nodes
      /\ joined.parallel \subseteq component2exec[componentLeft].parallel
             \cup component2exec[componentRight].parallel
             \cup (IF TasksOf(operatorIdx) > 0 THEN {<<operatorIdx, TasksOf(operatorIdx)>>} ELSE {})
  BY <1>1, JoinedIs DEF TaskInv
<1>5. TasksOf(operatorIdx) > 0 => operatorIdx = largest
  BY DEF TaskInv, Mapped, TasksOf
<1>6. joined.parallel \subseteq OneJoin
  BY <1>1, <1>4, <1>5 DEF TaskInv, Background, OneJoin
<1>7. DOMAIN component2exec = DOMAIN nodes
  BY DEF TaskInv, PlanInv, Maps
<1>8. \A c \in DOMAIN nodes : component2exec'[c].parallel \subseteq OneJoin
  BY <1>1, <1>6, <1>7 DEF TaskInv, Background
<1>9. Background'
  BY <1>1, <1>2, <1>8 DEF Background
<1> QED
  BY <1>3, <1>9 DEF TaskInv

LEMMA TasksPlanned == ASSUME TaskInv, PlanInv', PlanCreated PROVE TaskInv'
<1>1. phase = "create" /\ call' = call /\ nodes' = nodes /\ N' = N
      /\ bestPlan' = component2exec[node2component[1]]
  BY DEF PlanCreated, parsed, N
<1>2. node2component[1] \in DOMAIN nodes
  BY <1>1 DEF TaskInv, PlanInv, Parsed, Maps
<1>3. CASE phase' = "tasks"
  <2>1. available' = N /\ mapping' = [k \in DOMAIN operators |-> 0]
    BY <1>3 DEF PlanCreated, N
  <2>2. TasksOf(largest)' = 0
    BY <2>1 DEF TasksOf
  <2>3. Mapped'
    BY <2>1, Configured DEF TaskInv, Mapped
  <2>4. Shared'
    BY <1>1, <1>3, <2>1, <2>2, Configured DEF TaskInv, Shared
  <2> QED
    BY <1>3, <2>3, <2>4 DEF TaskInv, Background
<1>4. CASE phase' # "tasks"
  <2>1. phase' = "next" /\ UNCHANGED tasking
    BY <1>4 DEF PlanCreated
  <2>2. /\ largest' = largest /\ available' = available /\ mapping' = mapping
        /\ TasksOf(largest)' = TasksOf(largest) /\ OneJoin' = OneJoin
    BY <2>1 DEF tasking, TasksOf, OneJoin
  <2>3. bestPlan'.parallel \subseteq OneJoin
    BY <1>1, <1>2 DEF TaskInv, Background
  <2>4. Mapped' /\ Shared'
    BY <1>1, <2>1, <2>2 DEF TaskInv, Mapped, Shared
  <2> QED
    BY <2>1, <2>2, <2>3, <2>4 DEF TaskInv, Background
<1> QED
  BY <1>3, <1>4

\* x is the number of tasks of the join, a what is available.
LEMMA Turn ==
    ASSUME NEW x \in Nat, NEW a \in Nat, NEW n \in Nat, NEW S \in Nat, n <= S, S % 2 = 1, a > 0,
           NEW b, b = IF a >= 2 THEN a - 2 ELSE a - 2 + S + 1,
           x + a <= n \/ a % 2 = 1
    PROVE  /\ b \in Nat /\ (x + 2) % (S + 1) \in Nat
           /\ ((x + 2) % (S + 1)) + b <= n \/ b % 2 = 1
<1>1. (x + 2) % (S + 1) \in Nat
  OBVIOUS
<1>2. b \in Nat
  OBVIOUS
<1>3. CASE a % 2 = 1
  BY <1>3
<1>4. CASE a = 1
  BY <1>4
<1>5. CASE x + a <= n /\ a >= 2
  <2>1. (x + 2) % (S + 1) = x + 2
    BY <1>5
  <2> QED
    BY <1>5, <2>1
<1> QED
  BY <1>1, <1>2, <1>3, <1>4, <1>5

LEMMA TasksAssigned == ASSUME TaskInv, PlanInv', AssignTasks PROVE TaskInv'
<1> DEFINE x == TasksOf(largest)
<1>1. /\ phase = "tasks" /\ phase' = "tasks" /\ call' = call /\ largest' = largest
      /\ available > 0 /\ largest # 0 /\ available' = TwoLess
      /\ mapping' = [mapping EXCEPT ![largest] = (mapping[largest] + 2) % (SizeMax + 1)]
  BY DEF AssignTasks, Largest
<1>2. N' = N /\ N \in Nat /\ N <= SizeMax /\ SizeMax \in Nat /\ SizeMax % 2 = 1
  BY <1>1, Configured DEF TaskInv, N
<1>3. available \in Nat /\ x \in Nat /\ (x + available <= N \/ available % 2 = 1)
  BY <1>1 DEF TaskInv, Mapped, Shared, TasksOf
<1>4. TasksOf(largest)' = IF largest \in DOMAIN mapping THEN (x + 2) % (SizeMax + 1) ELSE 0
  BY <1>1 DEF TasksOf
<1> HIDE DEF x
<1>5. /\ available' \in Nat /\ (x + 2) % (SizeMax + 1) \in Nat
      /\ ((x + 2) % (SizeMax + 1)) + available' <= N \/ available' % 2 = 1
  BY <1>1, <1>2, <1>3, Turn DEF TwoLess
<1>6. Shared'
  BY <1>1, <1>2, <1>4, <1>5 DEF Shared
<1>7. Mapped'
  BY <1>1, <1>5 DEF TaskInv, Mapped, TasksOf, x
<1> QED
  BY <1>1, <1>6, <1>7 DEF TaskInv, Background

LEMMA TaskNext == TaskInv /\ [Next]_vars => TaskInv'
<1> SUFFICES ASSUME TaskInv, [Next]_vars PROVE TaskInv'
  OBVIOUS
<1>0. PlanInv'
  BY PlanNext DEF TaskInv
<1>1. CASE OpenCorpus \/ CallNext \/ Finish \/ Answer
  BY <1>0, <1>1, TasksKept DEF OpenCorpus, CallNext, Finish, Answer
<1>2. CASE StopAtPage \/ QueryEnds \/ NextAlternative
  BY <1>0, <1>2, TasksReleased DEF StopAtPage, QueryEnds, NextAlternative, CloseCorpus
<1>3. CASE InternalInit
  <2>1. TasksOf(largest) <= N
    BY <1>3 DEF InternalInit, TaskInv, Shared
  <2>2. StartPlan(nodes') /\ phase' = "create" /\ UNCHANGED <<call, tasking>>
    BY <1>3 DEF InternalInit
  <2> QED
    BY <1>0, <2>1, <2>2, TasksStart
<1>4. CASE JoinOperator
  BY <1>0, <1>4, TasksJoined
<1>5. CASE PlanCreated
  BY <1>0, <1>5, TasksPlanned
<1>6. CASE PlanFailed
  BY <1>0, <1>6, TasksKept, TasksReleased DEF PlanFailed
<1>7. CASE AssignTasks
  BY <1>0, <1>7, TasksAssigned
<1>8. CASE RecreatePlan
  <2>1. TasksOf(largest) <= N
    <3>1. TasksOf(largest) \in Nat /\ available \in Nat /\ N \in Nat
      BY Configured DEF TaskInv, Mapped, TasksOf
    <3>2. available = 0 \/ largest = 0
      BY <1>8 DEF RecreatePlan
    <3>3. TasksOf(largest) + available <= N
      BY <1>8, <3>1, <3>2 DEF RecreatePlan, TaskInv, Shared
    <3> QED
      BY <3>1, <3>3
  <2>2. nodes' = nodes /\ phase' = "create" /\ UNCHANGED <<call, tasking>>
    BY <1>8 DEF RecreatePlan, parsed
  <2>3. StartPlan(nodes')
    BY <1>8, <2>2 DEF RecreatePlan, StartPlan
  <2> QED
    BY <1>0, <2>1, <2>2, <2>3, TasksStart
<1>9. CASE UNCHANGED vars
  <2>1. /\ N' = N /\ TasksOf(largest)' = TasksOf(largest) /\ OneJoin' = OneJoin
    BY <1>9 DEF vars, tasking, N, TasksOf, OneJoin
  <2>2. Mapped' /\ Shared'
    BY <1>9, <2>1 DEF vars, tasking, TaskInv, Mapped, Shared
  <2>3. Background'
    BY <1>9, <2>1 DEF vars, creating, parsed, TaskInv, Background
  <2> QED
    BY <1>0, <2>2, <2>3 DEF TaskInv
<1> QED
  BY <1>1, <1>2, <1>3, <1>4, <1>5, <1>6, <1>7, <1>8, <1>9 DEF Next, Terminated

LEMMA OneJoinFollows == TaskInv => OneParallelJoin
<1> SUFFICES ASSUME TaskInv, phase = "next", bestPlan # None
             PROVE  /\ Cardinality(bestPlan.parallel) <= 1
                    /\ \A p \in bestPlan.parallel : p[2] <= N
  BY DEF OneParallelJoin, N
<1>1. bestPlan.parallel \subseteq OneJoin /\ TasksOf(largest) <= N
  BY DEF TaskInv, Background, Shared
<1>2. IsFiniteSet(OneJoin) /\ Cardinality(OneJoin) = 1
  BY FS_Singleton DEF OneJoin
<1>3. Cardinality(bestPlan.parallel) <= 1
  BY <1>1, <1>2, FS_Subset
<1> QED
  BY <1>1, <1>3 DEF OneJoin

\* In every executed plan, of any query and for any number of background tasks,
\* an even or an odd one, at most one join runs in the background, with at most
\* the configured tasks: no join's tasks wait for another join's on the pool.
THEOREM NoNestedBackgroundJoins == Spec => []OneParallelJoin
<1>1. Init => TaskInv
  BY TaskInit
<1>2. TaskInv /\ [Next]_vars => TaskInv'
  BY TaskNext
<1>3. TaskInv => OneParallelJoin
  BY OneJoinFollows
<1> QED
  BY <1>1, <1>2, <1>3, PTL DEF Spec

----------------------------------------------------------------------------
(****************************************************************************)
(* What the plans of a tame query answer.  A search finds the matches of its *)
(* query node, all of them or, where it was replaced by one of edges, those  *)
(* from which such an edge starts.                                          *)
(****************************************************************************)
Match(s, h) == <<h[1], IF s.wrap THEN ConstAnno ELSE h[2]>>

FoundBy(alt, c, i) ==
    {Match(alt.searches[i], h) : h \in {m \in c.hits[i] : alt.searches[i].token => m[1] \in c.tokens}}

\* A search is that of the query node s: its hits, and how it passes them on.
Reads(search, s, hits, tokens) ==
    /\ search.hits = hits
    /\ search.wrap <=> s.wrap
    /\ search.pass = IF s.token THEN tokens ELSE Nodes
    /\ search.returnsNothing => hits = {}
    /\ search.kind = "regex" /\ search.wrap => \A g, h \in hits : g[1] = h[1] => g = h
    /\ IsFiniteSet(hits) /\ \A h \in hits : h[1] \in Nodes /\ h = <<h[1], h[2]>>

\* Where it looks: everywhere, or where an edge of one of the operators starts.
Sourced(search, alt, c, i) ==
    \/ search.kind # "edge" /\ search.sources = Nodes
    \/ \E o \in DOMAIN alt.ops :
          /\ alt.ops[o].edge /\ alt.ops[o].lhs = i
          /\ search.sources = {e[1] : e \in c.rel[o]}

\* As the filter of an index join it finds what it has to.
Filtering(search) == search.kind = "edge" => search.pass = Nodes

Found(search) == UNION {createSearchFilter(search, n) : n \in Nodes}

LEMMA MatchesAre ==
    ASSUME NEW search, NEW s, NEW hits, NEW tokens, Reads(search, s, hits, tokens), NEW n, NEW m
    PROVE  m \in MatchesOf(search, n) <=> \E h \in hits : h[1] = n /\ m = Match(s, h)
<1> DEFINE own == {h \in search.hits : h[1] = n}
<1>1. \A h : h \in own <=> h \in hits /\ h[1] = n
  BY DEF Reads
<1>2. MatchesOf(search, n) = IF search.wrap /\ own # {} THEN {<<n, ConstAnno>>} ELSE own
  BY DEF MatchesOf
<1>3. (search.wrap <=> s.wrap) /\ \A h \in hits : h = <<h[1], h[2]>>
  BY DEF Reads
<1> HIDE DEF own
<1>4. CASE search.wrap
  <2>1. \A h \in hits : h[1] = n => Match(s, h) = <<n, ConstAnno>>
    BY <1>3, <1>4 DEF Match
  <2>2. m \in MatchesOf(search, n) <=> own # {} /\ m = <<n, ConstAnno>>
    BY <1>2, <1>4
  <2> QED
    BY <1>1, <2>1, <2>2
<1>5. CASE ~search.wrap
  <2>1. \A h \in hits : Match(s, h) = h
    BY <1>3, <1>5 DEF Match
  <2>2. m \in MatchesOf(search, n) <=> m \in own
    BY <1>2, <1>5
  <2> QED
    BY <1>1, <2>1, <2>2
<1> QED
  BY <1>4, <1>5

\* With one hit on a node at most, a regex search finds no further ones.
LEMMA RegexMatchesAre ==
    ASSUME NEW search, NEW s, NEW hits, NEW tokens, Reads(search, s, hits, tokens),
           search.kind = "regex", search.wrap, NEW n
    PROVE  RegexMatches(search, n) = MatchesOf(search, n)
<1> DEFINE own == {h \in search.hits : h[1] = n}
<1>1. \A g, h \in own : g = h
  BY DEF Reads
<1>2. RegexMatches(search, n) = MatchesOf(search, n) \cup {h \in own : h # CHOOSE g \in own : TRUE}
  BY DEF RegexMatches
<1> HIDE DEF own
<1>3. \A h \in own : h = CHOOSE g \in own : TRUE
  BY <1>1
<1> QED
  BY <1>2, <1>3

LEMMA IteratedAre ==
    ASSUME NEW search, NEW s, NEW hits, NEW tokens, Reads(search, s, hits, tokens), NEW m
    PROVE  m \in Iterated(search) <=>
              \E h \in hits : h[1] \in search.sources /\ (s.token => h[1] \in tokens) /\ m = Match(s, h)
<1>1. m \in Iterated(search) <=>
         \E n \in search.sources \cap search.pass : m \in MatchesOf(search, n)
  <2>1. \A n : (IF search.kind = "regex" /\ search.wrap THEN RegexMatches(search, n)
                ELSE MatchesOf(search, n)) = MatchesOf(search, n)
    BY RegexMatchesAre
  <2> QED
    BY <2>1 DEF Iterated
<1>2. \A n : m \in MatchesOf(search, n) <=> \E h \in hits : h[1] = n /\ m = Match(s, h)
  BY MatchesAre
<1>3. \A h \in hits : h[1] \in search.pass <=> (s.token => h[1] \in tokens)
  BY DEF Reads
<1> HIDE DEF Match
<1> QED
  BY <1>1, <1>2, <1>3

LEMMA FilteredAre ==
    ASSUME NEW search, NEW s, NEW hits, NEW tokens, Reads(search, s, hits, tokens),
           Filtering(search), NEW m
    PROVE  m \in Found(search) <=>
              \E h \in hits : (s.token => h[1] \in tokens) /\ m = Match(s, h)
<1>1. \A n \in Nodes : m \in createSearchFilter(search, n) <=>
         n \in search.pass /\ m \in MatchesOf(search, n)
  BY DEF createSearchFilter, Filtering
<1>2. m \in Found(search) <=> \E n \in Nodes : n \in search.pass /\ m \in MatchesOf(search, n)
  BY <1>1 DEF Found
<1>3. \A n : m \in MatchesOf(search, n) <=> \E h \in hits : h[1] = n /\ m = Match(s, h)
  BY MatchesAre
<1>4. \A h \in hits : h[1] \in Nodes /\ (h[1] \in search.pass <=> (s.token => h[1] \in tokens))
  BY DEF Reads
<1> HIDE DEF Match
<1> QED
  BY <1>2, <1>3, <1>4

----------------------------------------------------------------------------
(* The query a plan is made for, q: the alternative, what there is to find,  *)
(* the searches and the operators in their order.                           *)

\* An operator of the plan is the operator o of the query, switched perhaps.
Same(op, o, rel) ==
    /\ op.rel = rel
    /\ op.reflexive <=> o.reflexive
    /\ op.commutative <=> o.commutative
    /\ \/ op.lhs = o.lhs /\ op.rhs = o.rhs
       \/ o.commutative /\ op.lhs = o.rhs /\ op.rhs = o.lhs

Symmetric(rel) == \A m, n \in Nodes : <<m, n>> \in rel => <<n, m>> \in rel

Meant(q) ==
    /\ DOMAIN q.nodes = DOMAIN q.alt.searches
    /\ \A i \in DOMAIN q.nodes :
          /\ Reads(q.nodes[i], q.alt.searches[i], q.content.hits[i], q.content.tokens)
          /\ Sourced(q.nodes[i], q.alt, q.content, i)
    /\ \A k \in DOMAIN q.operators :
          /\ \E o \in DOMAIN q.alt.ops : Same(q.operators[k], q.alt.ops[o], q.content.rel[o])
          /\ q.operators[k].commutative => Symmetric(q.operators[k].rel)
          /\ q.operators[k].lhs \in DOMAIN q.nodes /\ q.operators[k].rhs \in DOMAIN q.nodes
          /\ \/ q.operators[k].lhs = q.operators[k].rhs
             \/ /\ Filtering(q.nodes[q.operators[k].rhs])
                /\ q.operators[k].commutative => Filtering(q.nodes[q.operators[k].lhs])
    /\ \A o \in DOMAIN q.alt.ops : \E k \in DOMAIN q.operators :
          Same(q.operators[k], q.alt.ops[o], q.content.rel[o])

\* The matches of a query node, and the answers.
Of(q, i) == FoundBy(q.alt, q.content, i)
Answers(q) == Wanted(q.alt, q.content)

LEMMA OfIs ==
    ASSUME NEW q, NEW i, NEW m
    PROVE  m \in Of(q, i) <=> \E h \in q.content.hits[i] :
              (q.alt.searches[i].token => h[1] \in q.content.tokens) /\ m = Match(q.alt.searches[i], h)
BY DEF Of, FoundBy

\* What the searches of the plan find.
LEMMA SearchesFind ==
    ASSUME NEW q, Meant(q), NEW i \in DOMAIN q.nodes
    PROVE  /\ Iterated(q.nodes[i]) \subseteq Of(q, i)
           /\ \A m \in Of(q, i) :
                 (\A o \in DOMAIN q.alt.ops : q.alt.ops[o].lhs = i => \E x : <<m[1], x>> \in q.content.rel[o])
                    => m \in Iterated(q.nodes[i])
           /\ Filtering(q.nodes[i]) => Found(q.nodes[i]) = Of(q, i)
           /\ q.nodes[i].returnsNothing => Of(q, i) = {}
           /\ IsFiniteSet(Of(q, i))
           /\ \A m \in Of(q, i) : m[1] \in Nodes
<1> DEFINE search == q.nodes[i]
           s == q.alt.searches[i]
           hits == q.content.hits[i]
           tokens == q.content.tokens
<1>1. Reads(search, s, hits, tokens) /\ Sourced(search, q.alt, q.content, i)
  BY DEF Meant
<1>2. \A m : m \in Of(q, i) <=> \E h \in hits : (s.token => h[1] \in tokens) /\ m = Match(s, h)
  BY OfIs
<1>3. \A m : m \in Iterated(search) <=>
         \E h \in hits : h[1] \in search.sources /\ (s.token => h[1] \in tokens) /\ m = Match(s, h)
  BY <1>1, IteratedAre
<1>4. \A h : Match(s, h)[1] = h[1]
  BY DEF Match
<1>5. \A h \in hits : h[1] \in Nodes
  BY <1>1 DEF Reads
<1> HIDE DEF search, s, hits, tokens
<1> HIDE DEF Match
<1>6. Iterated(search) \subseteq Of(q, i)
  BY <1>2, <1>3
<1>7. ASSUME NEW m \in Of(q, i),
             \A o \in DOMAIN q.alt.ops : q.alt.ops[o].lhs = i => \E x : <<m[1], x>> \in q.content.rel[o]
      PROVE  m \in Iterated(search)
  <2>1. PICK h \in hits : (s.token => h[1] \in tokens) /\ m = Match(s, h)
    BY <1>2
  <2>2. h[1] \in search.sources
    <3>1. CASE search.sources = Nodes
      BY <1>5, <3>1
    <3>2. ASSUME NEW o \in DOMAIN q.alt.ops, q.alt.ops[o].lhs = i,
                 search.sources = {e[1] : e \in q.content.rel[o]}
          PROVE  h[1] \in search.sources
      <4>1. PICK x : <<m[1], x>> \in q.content.rel[o]
        BY <1>7, <3>2
      <4>2. m[1] \in {e[1] : e \in q.content.rel[o]}
        BY <4>1
      <4> QED
        BY <1>4, <2>1, <3>2, <4>2
    <3> QED
      BY <1>1, <3>1, <3>2 DEF Sourced
  <2> QED
    BY <1>3, <2>1, <2>2
<1>8. Filtering(search) => Found(search) = Of(q, i)
  <2> SUFFICES ASSUME Filtering(search) PROVE \A m : m \in Found(search) <=> m \in Of(q, i)
    OBVIOUS
  <2> QED
    BY <1>1, <1>2, FilteredAre
<1>9. search.returnsNothing => Of(q, i) = {}
  BY <1>1, <1>2 DEF Reads
<1>10. IsFiniteSet(Of(q, i))
  <2> DEFINE T == {h \in hits : s.token => h[1] \in tokens}
             f == [h \in T |-> Match(s, h)]
  <2>1. IsFiniteSet(T)
    BY <1>1, FS_Subset DEF Reads
  <2>2. f \in Surjection(T, Of(q, i))
    BY <1>2 DEF Surjection
  <2> QED
    BY <2>1, <2>2, FS_Surjection
<1>11. \A m \in Of(q, i) : m[1] \in Nodes
  BY <1>2, <1>4, <1>5
<1> QED
  BY <1>6, <1>7, <1>8, <1>9, <1>10, <1>11 DEF search

\* An operator of the plan allows what the one of the query does.
Allowed(o, rel, l, r) == <<l[1], r[1]>> \in rel /\ (o.reflexive \/ l # r)

LEMMA SameAllows ==
    ASSUME NEW op, NEW o, NEW rel, Same(op, o, rel), op.commutative => Symmetric(rel),
           NEW a, a[o.lhs][1] \in Nodes, a[o.rhs][1] \in Nodes
    PROVE  /\ Holds(op, a[op.lhs], a[op.rhs]) <=> <<a[o.lhs][1], a[o.rhs][1]>> \in rel
           /\ Include(op, a[op.lhs], a[op.rhs]) <=> (o.reflexive \/ a[o.lhs] # a[o.rhs])
<1>1. CASE op.lhs = o.lhs /\ op.rhs = o.rhs
  BY <1>1 DEF Same, Holds, Include
<1>2. CASE o.commutative /\ op.lhs = o.rhs /\ op.rhs = o.lhs
  <2>1. Symmetric(rel) /\ op.rel = rel /\ (op.reflexive <=> o.reflexive)
    BY <1>2 DEF Same
  <2> QED
    BY <1>2, <2>1 DEF Holds, Include, Symmetric
<1> QED
  BY <1>1, <1>2 DEF Same

LEMMA AnswersAre ==
    ASSUME NEW q, NEW a
    PROVE  a \in Answers(q) <=>
              /\ a \in [DOMAIN q.alt.searches -> UNION {Of(q, i) : i \in DOMAIN q.alt.searches}]
              /\ \A i \in DOMAIN q.alt.searches : a[i] \in Of(q, i)
              /\ \A o \in DOMAIN q.alt.ops :
                    Allowed(q.alt.ops[o], q.content.rel[o], a[q.alt.ops[o].lhs], a[q.alt.ops[o].rhs])
BY DEF Answers, Wanted, Of, FoundBy, Match, Allowed

----------------------------------------------------------------------------
(* The tuples T of the query nodes S, at the positions pos, with the         *)
(* operators J joined: only matches that these allow, but for a match that   *)
(* an operator should not have on both sides, and a tuple of every answer.   *)

Sound(pos, T, S, J, q) ==
    /\ \A t \in T : \A n \in S : t[pos[n]] \in Of(q, n)
    /\ \A t \in T : \A k \in J : q.operators[k].lhs \in S =>
          Holds(q.operators[k], t[pos[q.operators[k].lhs]], t[pos[q.operators[k].rhs]])

Complete(pos, T, S, q) ==
    \A a \in Answers(q) : \E t \in T : \A n \in S : t[pos[n]] = a[n]

Distinct(pos, T, S, J, q) ==
    \A t \in T : \A k \in J : q.operators[k].lhs \in S =>
        Include(q.operators[k], t[pos[q.operators[k].lhs]], t[pos[q.operators[k].rhs]])

Closed(S, J, q) == \A k \in J : q.operators[k].lhs \in S <=> q.operators[k].rhs \in S

\* An answer is one by the operators of the plan, and is iterated over.
LEMMA AnswersAllowed ==
    ASSUME NEW q, Meant(q), NEW a \in Answers(q)
    PROVE  /\ \A n \in DOMAIN q.nodes : a[n] \in Of(q, n) /\ a[n] \in Iterated(q.nodes[n])
           /\ \A k \in DOMAIN q.operators :
                 /\ Holds(q.operators[k], a[q.operators[k].lhs], a[q.operators[k].rhs])
                 /\ Include(q.operators[k], a[q.operators[k].lhs], a[q.operators[k].rhs])
<1>1. /\ \A i \in DOMAIN q.nodes : a[i] \in Of(q, i)
      /\ \A o \in DOMAIN q.alt.ops :
            Allowed(q.alt.ops[o], q.content.rel[o], a[q.alt.ops[o].lhs], a[q.alt.ops[o].rhs])
  BY AnswersAre DEF Meant
<1>2. ASSUME NEW n \in DOMAIN q.nodes PROVE a[n] \in Iterated(q.nodes[n])
  <2>1. \A o \in DOMAIN q.alt.ops : q.alt.ops[o].lhs = n => \E x : <<a[n][1], x>> \in q.content.rel[o]
    BY <1>1 DEF Allowed
  <2> QED
    BY <1>1, <2>1, SearchesFind
<1>3. ASSUME NEW k \in DOMAIN q.operators
      PROVE  /\ Holds(q.operators[k], a[q.operators[k].lhs], a[q.operators[k].rhs])
             /\ Include(q.operators[k], a[q.operators[k].lhs], a[q.operators[k].rhs])
  <2> DEFINE op == q.operators[k]
  <2>1. PICK o \in DOMAIN q.alt.ops : Same(op, q.alt.ops[o], q.content.rel[o])
    BY DEF Meant
  <2>2. /\ op.commutative => Symmetric(op.rel)
        /\ op.lhs \in DOMAIN q.nodes /\ op.rhs \in DOMAIN q.nodes /\ op.rel = q.content.rel[o]
    BY <2>1 DEF Meant, Same
  <2>3. a[op.lhs][1] \in Nodes /\ a[op.rhs][1] \in Nodes
    BY <1>1, <2>2, SearchesFind
  <2>4. a[q.alt.ops[o].lhs][1] \in Nodes /\ a[q.alt.ops[o].rhs][1] \in Nodes
    BY <2>1, <2>3 DEF Same
  <2>5. Allowed(q.alt.ops[o], q.content.rel[o], a[q.alt.ops[o].lhs], a[q.alt.ops[o].rhs])
    BY <1>1
  <2> HIDE DEF op
  <2>6. Holds(op, a[op.lhs], a[op.rhs]) /\ Include(op, a[op.lhs], a[op.rhs])
    BY <2>1, <2>2, <2>4, <2>5, SameAllows DEF Allowed
  <2> QED
    BY <2>6 DEF op
<1> QED
  BY <1>1, <1>2, <1>3

Chain(x, y) == x \o y

\* The position h of a query node in a chain of tuples of X and Y, which have
\* it at f or g.
Chained(X, Y, A, B, f, g, h) ==
    \A x \in X, y \in Y : /\ \A n \in A : Chain(x, y)[h[n]] = x[f[n]]
                          /\ \A n \in B : Chain(x, y)[h[n]] = y[g[n]]

\* The chains that the operator allows.
Combines(T, X, Y, h, op) ==
    \A t : t \in T <=> \E x \in X, y \in Y :
        /\ t = Chain(x, y)
        /\ Holds(op, t[h[op.lhs]], t[h[op.rhs]])
        /\ Include(op, t[h[op.lhs]], t[h[op.rhs]])

LEMMA JoinedAt ==
    ASSUME NEW A, NEW B, IsFiniteSet(A), IsFiniteSet(B), A \cap B = {},
           NEW f, NEW g, Numbering(f, A), Numbering(g, B), NEW M, NEW X, NEW Y,
           \A x \in X : x \in Seq(M) /\ Len(x) = Cardinality(A),
           \A y \in Y : y \in Seq(M) /\ Len(y) = Cardinality(B)
    PROVE  Chained(X, Y, A, B, f, g, MergedPos(f, g))
<1> SUFFICES ASSUME NEW x \in X, NEW y \in Y
             PROVE  /\ \A n \in A : Chain(x, y)[MergedPos(f, g)[n]] = x[f[n]]
                    /\ \A n \in B : Chain(x, y)[MergedPos(f, g)[n]] = y[g[n]]
  BY DEF Chained
<1>0. x \in Seq(M) /\ Len(x) = Cardinality(A) /\ y \in Seq(M) /\ Len(y) = Cardinality(B)
  OBVIOUS
<1>1. Cardinality(A) \in Nat /\ Cardinality(B) \in Nat
  BY FS_CardinalityType
<1>2. \A i \in 1..(Len(x) + Len(y)) : Chain(x, y)[i] = IF i <= Len(x) THEN x[i] ELSE y[i - Len(x)]
  BY <1>0, ConcatProperties DEF Chain
<1>3. ASSUME NEW n \in A PROVE Chain(x, y)[MergedPos(f, g)[n]] = x[f[n]]
  <2>1. MergedPos(f, g)[n] = f[n] /\ f[n] \in 1..Cardinality(A)
    BY DEF MergedPos, Numbering
  <2> QED
    BY <1>0, <1>1, <1>2, <2>1
<1>4. ASSUME NEW n \in B PROVE Chain(x, y)[MergedPos(f, g)[n]] = y[g[n]]
  <2>1. MergedPos(f, g)[n] = g[n] + Cardinality(A) /\ g[n] \in 1..Cardinality(B)
    BY DEF MergedPos, Numbering
  <2>2. g[n] + Cardinality(A) \in 1..(Len(x) + Len(y)) /\ ~(g[n] + Cardinality(A) <= Len(x))
        /\ (g[n] + Cardinality(A)) - Len(x) = g[n]
    BY <1>0, <1>1, <2>1
  <2> QED
    BY <1>2, <2>1, <2>2
<1> QED
  BY <1>3, <1>4

\* The combinations of the tuples of two components that operator k allows.
LEMMA CombinedRight ==
    ASSUME NEW q, Meant(q), NEW k \in DOMAIN q.operators, NEW J,
           NEW A \in SUBSET DOMAIN q.nodes, NEW B \in SUBSET DOMAIN q.nodes,
           NEW f, NEW g, NEW h, NEW X, NEW Y, IsFiniteSet(X), IsFiniteSet(Y),
           Chained(X, Y, A, B, f, g, h),
           Sound(f, X, A, J, q), Complete(f, X, A, q), Closed(A, J, q),
           Sound(g, Y, B, J, q), Complete(g, Y, B, q), Closed(B, J, q),
           q.operators[k].lhs \in A \cup B, q.operators[k].rhs \in A \cup B,
           NEW T, Combines(T, X, Y, h, q.operators[k])
    PROVE  /\ IsFiniteSet(T)
           /\ Sound(h, T, A \cup B, J \cup {k}, q)
           /\ Complete(h, T, A \cup B, q)
           /\ Distinct(f, X, A, J, q) /\ Distinct(g, Y, B, J, q) =>
                 Distinct(h, T, A \cup B, J \cup {k}, q)
<1> DEFINE op == q.operators[k]
           OK(t) == Holds(op, t[h[op.lhs]], t[h[op.rhs]]) /\ Include(op, t[h[op.lhs]], t[h[op.rhs]])
<1>1. \A t : t \in T <=> \E x \in X, y \in Y : t = Chain(x, y) /\ OK(t)
  BY DEF Combines
<1>2. \A x \in X, y \in Y : /\ \A n \in A : Chain(x, y)[h[n]] = x[f[n]]
                            /\ \A n \in B : Chain(x, y)[h[n]] = y[g[n]]
  BY DEF Chained
<1>3. IsFiniteSet(T)
  <2> DEFINE P == {p \in X \X Y : OK(Chain(p[1], p[2]))}
             c == [p \in P |-> Chain(p[1], p[2])]
  <2>1. IsFiniteSet(P)
    BY FS_Product, FS_Subset
  <2>2. c \in Surjection(P, T)
    <3> HIDE DEF OK
    <3>1. ASSUME NEW p \in P PROVE c[p] \in T
      BY <1>1
    <3>2. ASSUME NEW t \in T PROVE \E p \in P : c[p] = t
      <4>1. PICK x \in X, y \in Y : t = Chain(x, y) /\ OK(t)
        BY <1>1
      <4>2. <<x, y>> \in P /\ c[<<x, y>>] = t
        BY <4>1
      <4> QED
        BY <4>2
    <3> QED
      BY <3>1, <3>2 DEF Surjection
  <2> HIDE DEF P, c
  <2> QED
    BY <2>1, <2>2, FS_Surjection
<1>4. Sound(h, T, A \cup B, J \cup {k}, q)
  <2>1. ASSUME NEW t \in T, NEW n \in A \cup B PROVE t[h[n]] \in Of(q, n)
    <3>1. PICK x \in X, y \in Y : t = Chain(x, y)
      BY <1>1
    <3> QED
      BY <1>2, <3>1 DEF Sound
  <2>2. ASSUME NEW t \in T, NEW j \in J \cup {k}, q.operators[j].lhs \in A \cup B
        PROVE  Holds(q.operators[j], t[h[q.operators[j].lhs]], t[h[q.operators[j].rhs]])
    <3>1. PICK x \in X, y \in Y : t = Chain(x, y) /\ OK(t)
      BY <1>1
    <3>2. CASE j = k
      BY <3>1, <3>2
    <3>3. CASE j \in J /\ q.operators[j].lhs \in A
      <4>1. q.operators[j].rhs \in A
        BY <3>3 DEF Closed
      <4>2. Holds(q.operators[j], x[f[q.operators[j].lhs]], x[f[q.operators[j].rhs]])
        BY <3>1, <3>3 DEF Sound
      <4>3. t[h[q.operators[j].lhs]] = x[f[q.operators[j].lhs]] /\ t[h[q.operators[j].rhs]] = x[f[q.operators[j].rhs]]
        BY <1>2, <3>1, <3>3, <4>1
      <4> QED
        BY <4>2, <4>3
    <3>4. CASE j \in J /\ q.operators[j].lhs \in B
      <4>1. q.operators[j].rhs \in B
        BY <3>4 DEF Closed
      <4>2. Holds(q.operators[j], y[g[q.operators[j].lhs]], y[g[q.operators[j].rhs]])
        BY <3>1, <3>4 DEF Sound
      <4>3. t[h[q.operators[j].lhs]] = y[g[q.operators[j].lhs]] /\ t[h[q.operators[j].rhs]] = y[g[q.operators[j].rhs]]
        BY <1>2, <3>1, <3>4, <4>1
      <4> QED
        BY <4>2, <4>3
    <3> QED
      BY <2>2, <3>2, <3>3, <3>4
  <2> QED
    BY <2>1, <2>2 DEF Sound
<1>5. Complete(h, T, A \cup B, q)
  <2> SUFFICES ASSUME NEW a \in Answers(q) PROVE \E t \in T : \A n \in A \cup B : t[h[n]] = a[n]
    BY DEF Complete
  <2>1. PICK x \in X : \A n \in A : x[f[n]] = a[n]
    BY DEF Complete
  <2>2. PICK y \in Y : \A n \in B : y[g[n]] = a[n]
    BY DEF Complete
  <2>3. \A n \in A \cup B : Chain(x, y)[h[n]] = a[n]
    BY <1>2, <2>1, <2>2
  <2>4. Holds(op, a[op.lhs], a[op.rhs]) /\ Include(op, a[op.lhs], a[op.rhs])
    BY AnswersAllowed
  <2>5. OK(Chain(x, y))
    BY <2>3, <2>4
  <2> HIDE DEF OK
  <2> QED
    BY <1>1, <2>3, <2>5
<1>6. ASSUME Distinct(f, X, A, J, q), Distinct(g, Y, B, J, q)
      PROVE  Distinct(h, T, A \cup B, J \cup {k}, q)
  <2> SUFFICES ASSUME NEW t \in T, NEW j \in J \cup {k}, q.operators[j].lhs \in A \cup B
               PROVE  Include(q.operators[j], t[h[q.operators[j].lhs]], t[h[q.operators[j].rhs]])
    BY DEF Distinct
  <2>1. PICK x \in X, y \in Y : t = Chain(x, y) /\ OK(t)
    BY <1>1
  <2>2. CASE j = k
    BY <2>1, <2>2
  <2>3. CASE j \in J /\ q.operators[j].lhs \in A
    <3>1. q.operators[j].rhs \in A
      BY <2>3 DEF Closed
    <3>2. Include(q.operators[j], x[f[q.operators[j].lhs]], x[f[q.operators[j].rhs]])
      BY <1>6, <2>1, <2>3 DEF Distinct
    <3>3. t[h[q.operators[j].lhs]] = x[f[q.operators[j].lhs]] /\ t[h[q.operators[j].rhs]] = x[f[q.operators[j].rhs]]
      BY <1>2, <2>1, <2>3, <3>1
    <3> QED
      BY <3>2, <3>3
  <2>4. CASE j \in J /\ q.operators[j].lhs \in B
    <3>1. q.operators[j].rhs \in B
      BY <2>4 DEF Closed
    <3>2. Include(q.operators[j], y[g[q.operators[j].lhs]], y[g[q.operators[j].rhs]])
      BY <1>6, <2>1, <2>4 DEF Distinct
    <3>3. t[h[q.operators[j].lhs]] = y[g[q.operators[j].lhs]] /\ t[h[q.operators[j].rhs]] = y[g[q.operators[j].rhs]]
      BY <1>2, <2>1, <2>4, <3>1
    <3> QED
      BY <3>2, <3>3
  <2> QED
    BY <2>2, <2>3, <2>4
<1> QED
  BY <1>3, <1>4, <1>5, <1>6

----------------------------------------------------------------------------
(* The joins, again: an execution node of the query nodes S, after the       *)
(* operators J.                                                             *)

Right(e, S, J, q) ==
    /\ IsFiniteSet(e.tuples)
    /\ Sound(e.nodePos, e.tuples, S, J, q)
    /\ Complete(e.nodePos, e.tuples, S, q)
    /\ e.type # "none"
    /\ e.type = "base" => \E n : S = {n} /\ e.search = q.nodes[n] /\ \A k \in J : q.operators[k].lhs # n

NoneTwice(e, S, J, q) == Distinct(e.nodePos, e.tuples, S, J, q)

LEMMA NestedLoopRight ==
    ASSUME NEW q, Meant(q), NEW k \in DOMAIN q.operators, NEW J, NEW M,
           NEW A \in SUBSET DOMAIN q.nodes, NEW B \in SUBSET DOMAIN q.nodes,
           IsFiniteSet(A), IsFiniteSet(B), A \cap B = {},
           NEW lhs, NEW rhs, Fits(lhs, A, M), Fits(rhs, B, M),
           Right(lhs, A, J, q), Right(rhs, B, J, q), Closed(A, J, q), Closed(B, J, q),
           NEW op, op = q.operators[k], op.lhs \in A, op.rhs \in B,
           NEW e, e.type = "nested_loop", e.nodePos = MergedPos(lhs.nodePos, rhs.nodePos),
           e.tuples = NestedLoopJoin(op, lhs, lhs.nodePos[op.lhs], rhs, rhs.nodePos[op.rhs])
    PROVE  /\ Right(e, A \cup B, J \cup {k}, q)
           /\ NoneTwice(lhs, A, J, q) /\ NoneTwice(rhs, B, J, q) => NoneTwice(e, A \cup B, J \cup {k}, q)
<1> DEFINE X == lhs.tuples
           Y == rhs.tuples
           f == lhs.nodePos
           g == rhs.nodePos
           h == e.nodePos
           T == e.tuples
<1>1. Chained(X, Y, A, B, f, g, h)
  BY JoinedAt DEF Fits
<1>2. \A t : t \in T <=> \E p \in X \X Y : t = Chain(p[1], p[2]) /\ Holds(op, p[1][f[op.lhs]], p[2][g[op.rhs]])
                                              /\ Include(op, p[1][f[op.lhs]], p[2][g[op.rhs]])
  BY DEF NestedLoopJoin, Chain
<1> HIDE DEF X, Y, f, g, h, T
<1>3. Combines(T, X, Y, h, op)
  <2>1. ASSUME NEW x \in X, NEW y \in Y
        PROVE  Chain(x, y)[h[op.lhs]] = x[f[op.lhs]] /\ Chain(x, y)[h[op.rhs]] = y[g[op.rhs]]
    BY <1>1 DEF Chained
  <2>2. \A t : t \in T <=> \E x \in X, y \in Y : t = Chain(x, y) /\ Holds(op, x[f[op.lhs]], y[g[op.rhs]])
                                              /\ Include(op, x[f[op.lhs]], y[g[op.rhs]])
    <3>1. ASSUME NEW t \in T
          PROVE  \E x \in X, y \in Y : t = Chain(x, y) /\ Holds(op, x[f[op.lhs]], y[g[op.rhs]])
                                              /\ Include(op, x[f[op.lhs]], y[g[op.rhs]])
      BY <1>2
    <3>2. ASSUME NEW x \in X, NEW y \in Y, Holds(op, x[f[op.lhs]], y[g[op.rhs]]), Include(op, x[f[op.lhs]], y[g[op.rhs]])
          PROVE  Chain(x, y) \in T
      <4>1. <<x, y>> \in X \X Y /\ <<x, y>>[1] = x /\ <<x, y>>[2] = y
        OBVIOUS
      <4> QED
        BY <1>2, <3>2, <4>1
    <3> QED
      BY <3>1, <3>2
  <2> QED
    BY <2>1, <2>2 DEF Combines
<1>4. IsFiniteSet(X) /\ IsFiniteSet(Y)
  BY DEF Right, X, Y
<1>5. /\ Sound(f, X, A, J, q) /\ Complete(f, X, A, q)
      /\ Sound(g, Y, B, J, q) /\ Complete(g, Y, B, q)
  BY DEF Right, X, Y, f, g
<1>6. /\ IsFiniteSet(T)
      /\ Sound(h, T, A \cup B, J \cup {k}, q)
      /\ Complete(h, T, A \cup B, q)
      /\ Distinct(f, X, A, J, q) /\ Distinct(g, Y, B, J, q) => Distinct(h, T, A \cup B, J \cup {k}, q)
  BY <1>1, <1>3, <1>4, <1>5, CombinedRight
<1> QED
  BY <1>6 DEF Right, NoneTwice, X, Y, f, g, h, T

\* l is the query node of the left hand side, r that of the search.
LEMMA IndexJoinRight ==
    ASSUME NEW q, Meant(q), NEW k \in DOMAIN q.operators, NEW J, NEW M,
           NEW A \in SUBSET DOMAIN q.nodes, NEW r \in DOMAIN q.nodes, IsFiniteSet(A), r \notin A,
           NEW lhs, NEW rhs, Fits(lhs, A, M), Fits(rhs, {r}, M), rhs.search = q.nodes[r],
           Right(lhs, A, J, q), Closed(A, J, q), \A j \in J : q.operators[j].lhs # r, Closed({r}, J, q),
           NEW op, op = q.operators[k], NEW l \in A, Filtering(q.nodes[r]),
           \/ l = op.lhs /\ r = op.rhs
           \/ op.commutative /\ l = op.rhs /\ r = op.lhs,
           NEW h, h = MergedPos(lhs.nodePos, rhs.nodePos),
           NEW T, T = IndexJoin(op, lhs, lhs.nodePos[l], rhs.search)
    PROVE  /\ IsFiniteSet(T)
           /\ Sound(h, T, A \cup {r}, J \cup {k}, q)
           /\ Complete(h, T, A \cup {r}, q)
           /\ NoneTwice(lhs, A, J, q) => Distinct(h, T, A \cup {r}, J \cup {k}, q)
<1> DEFINE X == lhs.tuples
           Y == {<<m>> : m \in Of(q, r)}
           f == lhs.nodePos
           g == rhs.nodePos
<1>1. Found(q.nodes[r]) = Of(q, r) /\ IsFiniteSet(Of(q, r)) /\ \A m \in Of(q, r) : m[1] \in Nodes
  BY SearchesFind
<1>2. /\ \A x \in X : x \in Seq(M) /\ Len(x) = Cardinality(A)
      /\ Numbering(f, A) /\ Numbering(g, {r}) /\ g[r] = 1
  <2>1. Cardinality({r}) = 1
    BY FS_Singleton
  <2> QED
    BY <2>1 DEF Fits, Numbering
<1>3. Chained(X, Y, A, {r}, f, g, h)
  <2> DEFINE N2 == M \cup Of(q, r)
  <2>1. \A x \in X : x \in Seq(N2) /\ Len(x) = Cardinality(A)
    BY <1>2
  <2>2. \A y \in Y : y \in Seq(N2) /\ Len(y) = Cardinality({r})
    <3>1. Cardinality({r}) = 1
      BY FS_Singleton
    <3>2. ASSUME NEW m \in Of(q, r) PROVE <<m>> \in Seq(N2) /\ Len(<<m>>) = 1
      OBVIOUS
    <3> QED
      BY <3>1, <3>2
  <2>4. h = MergedPos(f, g)
    OBVIOUS
  <2> HIDE DEF X, Y, f, g, N2
  <2>3. IsFiniteSet({r}) /\ A \cap {r} = {}
    BY FS_Singleton
  <2> QED
    BY <1>2, <2>1, <2>2, <2>3, <2>4, JoinedAt
<1>4. \A t : t \in T <=> \E x \in X, m \in Of(q, r) : t = Chain(x, <<m>>) /\ Holds(op, x[f[l]], m) /\ Include(op, x[f[l]], m)
  <2>1. \A t : t \in T <=> \E x \in X, m \in Of(q, r) : t = Append(x, m) /\ Holds(op, x[f[l]], m) /\ Include(op, x[f[l]], m)
    BY <1>1 DEF IndexJoin, Found
  <2>2. \A x \in X, m \in Of(q, r) : Append(x, m) = Chain(x, <<m>>)
    BY <1>2 DEF Chain
  <2> HIDE DEF X, f
  <2>3. ASSUME NEW t \in T
        PROVE  \E x \in X, m \in Of(q, r) : t = Chain(x, <<m>>) /\ Holds(op, x[f[l]], m) /\ Include(op, x[f[l]], m)
    BY <2>1, <2>2
  <2>4. ASSUME NEW x \in X, NEW m \in Of(q, r), Holds(op, x[f[l]], m), Include(op, x[f[l]], m)
        PROVE  Chain(x, <<m>>) \in T
    <3>1. Append(x, m) \in T
      BY <2>1, <2>4
    <3> QED
      BY <2>2, <3>1
  <2> QED
    BY <2>3, <2>4
<1>5. Sound(f, X, A, J, q) /\ Complete(f, X, A, q) /\ IsFiniteSet(X)
  BY DEF Right
<1>6. ASSUME NEW x \in X, NEW m \in Of(q, r)
      PROVE  /\ Holds(op, x[f[l]], m) <=> Holds(op, Chain(x, <<m>>)[h[op.lhs]], Chain(x, <<m>>)[h[op.rhs]])
             /\ Include(op, x[f[l]], m) <=> Include(op, Chain(x, <<m>>)[h[op.lhs]], Chain(x, <<m>>)[h[op.rhs]])
  <2> DEFINE t == Chain(x, <<m>>)
  <2>1. t[h[l]] = x[f[l]] /\ t[h[r]] = m
    <3>1. <<m>> \in Y /\ <<m>>[1] = m
      OBVIOUS
    <3> HIDE DEF X, Y, f, g
    <3>2. Chain(x, <<m>>)[h[r]] = <<m>>[g[r]] /\ Chain(x, <<m>>)[h[l]] = x[f[l]]
      BY <1>3, <3>1 DEF Chained
    <3> QED
      BY <1>2, <3>1, <3>2
  <2>2. x[f[l]] \in Of(q, l)
    BY <1>5 DEF Sound
  <2>3. x[f[l]][1] \in Nodes /\ m[1] \in Nodes
    BY <1>1, <2>2, SearchesFind
  <2> HIDE DEF X, Y, f, g, t
  <2>4. CASE l = op.lhs /\ r = op.rhs
    BY <2>1, <2>4 DEF t
  <2>5. CASE op.commutative /\ l = op.rhs /\ r = op.lhs
    <3>1. Symmetric(op.rel)
      BY <2>5 DEF Meant
    <3> QED
      BY <2>1, <2>3, <2>5, <3>1 DEF Symmetric, Holds, Include, t
  <2> QED
    BY <2>4, <2>5 DEF t
<1>7. Combines(T, X, Y, h, op)
  <2> DEFINE OK(t) == Holds(op, t[h[op.lhs]], t[h[op.rhs]]) /\ Include(op, t[h[op.lhs]], t[h[op.rhs]])
  <2>1. ASSUME NEW x \in X, NEW m \in Of(q, r)
        PROVE  OK(Chain(x, <<m>>)) <=> Holds(op, x[f[l]], m) /\ Include(op, x[f[l]], m)
    BY <1>6
  <2> HIDE DEF X, f, OK
  <2>2. \A t : t \in T <=> \E x \in X, m \in Of(q, r) : t = Chain(x, <<m>>) /\ OK(t)
    <3>1. ASSUME NEW t \in T PROVE \E x \in X, m \in Of(q, r) : t = Chain(x, <<m>>) /\ OK(t)
      <4>1. PICK x \in X, m \in Of(q, r) : t = Chain(x, <<m>>) /\ Holds(op, x[f[l]], m) /\ Include(op, x[f[l]], m)
        BY <1>4
      <4> QED
        BY <2>1, <4>1
    <3>2. ASSUME NEW x \in X, NEW m \in Of(q, r), OK(Chain(x, <<m>>)) PROVE Chain(x, <<m>>) \in T
      BY <1>4, <2>1, <3>2
    <3> QED
      BY <3>1, <3>2
  <2>3. \A y : y \in Y <=> \E m \in Of(q, r) : y = <<m>>
    OBVIOUS
  <2> HIDE DEF Y
  <2>4. \A t : t \in T <=> \E x \in X, y \in Y : t = Chain(x, y) /\ OK(t)
    BY <2>2, <2>3
  <2> QED
    BY <2>4 DEF Combines, OK
<1>8. /\ Sound(g, Y, {r}, J, q) /\ Complete(g, Y, {r}, q) /\ Distinct(g, Y, {r}, J, q)
  <2>1. \A m \in Of(q, r) : <<m>>[g[r]] = m
    BY <1>2
  <2>2. \A a \in Answers(q) : a[r] \in Of(q, r)
    BY AnswersAllowed
  <2> HIDE DEF g
  <2>3. Complete(g, Y, {r}, q)
    BY <2>1, <2>2 DEF Complete
  <2>4. Sound(g, Y, {r}, J, q)
    BY <2>1 DEF Sound
  <2>5. Distinct(g, Y, {r}, J, q)
    BY DEF Distinct
  <2> QED
    BY <2>3, <2>4, <2>5
<1>9. IsFiniteSet(Y)
  <2> DEFINE c == [m \in Of(q, r) |-> <<m>>]
  <2>1. c \in Surjection(Of(q, r), Y)
    BY DEF Surjection
  <2> HIDE DEF c, Y
  <2> QED
    BY <1>1, <2>1, FS_Surjection
<1>10. op.lhs \in A \cup {r} /\ op.rhs \in A \cup {r} /\ {r} \in SUBSET DOMAIN q.nodes
  OBVIOUS
<1> HIDE DEF X, Y, f, g
<1>11. /\ IsFiniteSet(T)
       /\ Sound(h, T, A \cup {r}, J \cup {k}, q)
       /\ Complete(h, T, A \cup {r}, q)
       /\ Distinct(f, X, A, J, q) /\ Distinct(g, Y, {r}, J, q) => Distinct(h, T, A \cup {r}, J \cup {k}, q)
  BY <1>3, <1>5, <1>7, <1>8, <1>9, <1>10, CombinedRight
<1> QED
  BY <1>8, <1>11 DEF NoneTwice, X, f

\* Where the joined operators do not touch r, on one side, they do not on the
\* other; an index join, or the empty join that stands for one.
LEMMA IndexedRight ==
    ASSUME NEW q, Meant(q), NEW k \in DOMAIN q.operators, NEW J, NEW M,
           NEW A \in SUBSET DOMAIN q.nodes, NEW B \in SUBSET DOMAIN q.nodes,
           IsFiniteSet(A), IsFiniteSet(B), A \cap B = {},
           NEW lhs, NEW rhs, Fits(lhs, A, M), Fits(rhs, B, M), rhs.type = "base",
           Right(lhs, A, J, q), Right(rhs, B, J, q), Closed(A, J, q), Closed(B, J, q),
           NEW op, op = q.operators[k], NEW l \in A, NEW r \in B,
           \/ l = op.lhs /\ r = op.rhs
           \/ op.commutative /\ l = op.rhs /\ r = op.lhs,
           NEW idx, NEW tasks, NEW e, e = Indexed(op, l, r, idx, lhs, rhs, tasks)
    PROVE  /\ Right(e, A \cup B, J \cup {k}, q)
           /\ NoneTwice(lhs, A, J, q) /\ NoneTwice(rhs, B, J, q) => NoneTwice(e, A \cup B, J \cup {k}, q)
<1> DEFINE h == MergedPos(lhs.nodePos, rhs.nodePos)
           T == IndexJoin(op, lhs, lhs.nodePos[l], rhs.search)
<1>1. B = {r} /\ rhs.search = q.nodes[r] /\ \A j \in J : q.operators[j].lhs # r
  BY DEF Right
<1>2. Filtering(q.nodes[r])
  <2>1. \/ op.lhs = op.rhs
        \/ Filtering(q.nodes[op.rhs]) /\ (op.commutative => Filtering(q.nodes[op.lhs]))
    BY DEF Meant
  <2> QED
    BY <2>1
<1>3. CASE rhs.search.returnsNothing
  <2>1. e = ExecutionNode("do_nothing", idx, lhs, rhs, {}, tasks)
    BY <1>3 DEF Indexed
  <2>2. e.type = "do_nothing" /\ e.tuples = {}
    BY <2>1, ExecutionNodeFields
  <2>3. Of(q, r) = {}
    BY <1>1, <1>3, SearchesFind
  <2>4. Answers(q) = {}
    BY <2>3, AnswersAllowed
  <2>5. IsFiniteSet(e.tuples)
    BY <2>2, FS_EmptySet
  <2> QED
    BY <2>2, <2>4, <2>5 DEF Right, NoneTwice, Sound, Complete, Distinct
<1>4. CASE ~rhs.search.returnsNothing
  <2>1. e = ExecutionNode("index_join", idx, lhs, rhs, T, tasks)
    BY <1>4 DEF Indexed
  <2>2. e.type = "index_join" /\ e.tuples = T /\ e.nodePos = h
    BY <2>1, ExecutionNodeFields
  <2>3. Fits(rhs, {r}, M) /\ Closed({r}, J, q) /\ r \in DOMAIN q.nodes /\ r \notin A
    BY <1>1
  <2>4. /\ IsFiniteSet(T)
        /\ Sound(h, T, A \cup {r}, J \cup {k}, q)
        /\ Complete(h, T, A \cup {r}, q)
        /\ NoneTwice(lhs, A, J, q) => Distinct(h, T, A \cup {r}, J \cup {k}, q)
    BY <1>1, <1>2, <2>3, IndexJoinRight
  <2> HIDE DEF h, T
  <2> QED
    BY <1>1, <2>2, <2>4 DEF Right, NoneTwice
<1> QED
  BY <1>3, <1>4

\* What Plan::join makes of two different components,
LEMMA PlanJoinRight ==
    ASSUME NEW q, Meant(q), NEW k \in DOMAIN q.operators, NEW J, NEW M,
           NEW A \in SUBSET DOMAIN q.nodes, NEW B \in SUBSET DOMAIN q.nodes,
           IsFiniteSet(A), IsFiniteSet(B), A \cap B = {},
           NEW lhs, NEW rhs, Fits(lhs, A, M), Fits(rhs, B, M), lhs.componentNr # rhs.componentNr,
           Right(lhs, A, J, q), Right(rhs, B, J, q), Closed(A, J, q), Closed(B, J, q),
           NEW op, op = q.operators[k], op.lhs \in A, op.rhs \in B,
           NEW idx, NEW tasks, NEW e, e = PlanJoin(op, idx, lhs, rhs, tasks)
    PROVE  /\ Right(e, A \cup B, J \cup {k}, q)
           /\ NoneTwice(lhs, A, J, q) /\ NoneTwice(rhs, B, J, q) => NoneTwice(e, A \cup B, J \cup {k}, q)
<1>1. CASE rhs.type = "base" /\ ~op.force
  <2>1. e = Indexed(op, op.lhs, op.rhs, idx, lhs, rhs, tasks)
    BY <1>1 DEF PlanJoin
  <2> QED
    BY <1>1, <2>1, IndexedRight
<1>2. CASE ~(rhs.type = "base" /\ ~op.force) /\ lhs.type = "base" /\ ~op.force /\ op.commutative
  <2>1. e = Indexed(op, op.rhs, op.lhs, idx, rhs, lhs, tasks)
    BY <1>2 DEF PlanJoin
  <2>2. A \cup B = B \cup A /\ B \cap A = {}
    OBVIOUS
  <2>3. /\ Right(e, B \cup A, J \cup {k}, q)
        /\ NoneTwice(rhs, B, J, q) /\ NoneTwice(lhs, A, J, q) => NoneTwice(e, B \cup A, J \cup {k}, q)
    BY <1>2, <2>1, <2>2, IndexedRight
  <2> QED
    BY <2>2, <2>3
<1>3. CASE /\ ~(rhs.type = "base" /\ ~op.force)
           /\ ~(lhs.type = "base" /\ ~op.force /\ op.commutative)
  <2> DEFINE found == NestedLoopJoin(op, lhs, lhs.nodePos[op.lhs], rhs, rhs.nodePos[op.rhs])
  <2>1. e = ExecutionNode("nested_loop", idx, lhs, rhs, found, tasks)
    BY <1>3 DEF PlanJoin
  <2> HIDE DEF found
  <2>2. e.type = "nested_loop" /\ e.tuples = found /\ e.nodePos = MergedPos(lhs.nodePos, rhs.nodePos)
    BY <2>1, ExecutionNodeFields
  <2> QED
    BY <2>2, NestedLoopRight DEF found
<1> QED
  BY <1>1, <1>2, <1>3

\* and of a component with itself: its BinaryFilter does not look for the same
\* match.
LEMMA FilterRight ==
    ASSUME NEW q, Meant(q), NEW k \in DOMAIN q.operators, NEW J, NEW M,
           NEW A \in SUBSET DOMAIN q.nodes, NEW e0, Fits(e0, A, M), Right(e0, A, J, q), Closed(A, J, q),
           NEW op, op = q.operators[k], op.lhs \in A, op.rhs \in A,
           NEW idx, NEW tasks, NEW e, e = PlanJoin(op, idx, e0, e0, tasks)
    PROVE  Right(e, A, J \cup {k}, q)
<1> DEFINE left == BinaryFilter(op, e0, e0.nodePos[op.lhs], e0.nodePos[op.rhs])
           f == e0.nodePos
<1>1. e = ExecutionNode("filter", idx, e0, e0, left, tasks)
  BY DEF PlanJoin
<1>4. \A t : t \in left <=> t \in e0.tuples /\ Holds(op, t[f[op.lhs]], t[f[op.rhs]])
  BY DEF BinaryFilter
<1> HIDE DEF left
<1>2. e.type = "filter" /\ e.tuples = left /\ e.nodePos = MergedPos(f, f)
  BY <1>1, ExecutionNodeFields
<1>3. \A n \in A : e.nodePos[n] = f[n]
  BY <1>2 DEF MergedPos, Fits, Numbering
<1> HIDE DEF f
<1>5. IsFiniteSet(left)
  <2>1. left \subseteq e0.tuples /\ IsFiniteSet(e0.tuples)
    BY <1>4 DEF Right
  <2> QED
    BY <2>1, FS_Subset
<1>6. Complete(e.nodePos, left, A, q)
  <2> SUFFICES ASSUME NEW a \in Answers(q) PROVE \E t \in left : \A n \in A : t[e.nodePos[n]] = a[n]
    BY DEF Complete
  <2>1. PICK t \in e0.tuples : \A n \in A : t[f[n]] = a[n]
    BY DEF Right, Complete, f
  <2>2. Holds(op, a[op.lhs], a[op.rhs])
    BY AnswersAllowed
  <2>3. t \in left
    BY <1>4, <2>1, <2>2
  <2> QED
    BY <1>3, <2>1, <2>3
<1>7. Sound(e.nodePos, left, A, J \cup {k}, q)
  <2>1. ASSUME NEW t \in left, NEW n \in A PROVE t[e.nodePos[n]] \in Of(q, n)
    BY <1>3, <1>4 DEF Right, Sound, f
  <2>2. ASSUME NEW t \in left, NEW j \in J \cup {k}, q.operators[j].lhs \in A
        PROVE  Holds(q.operators[j], t[e.nodePos[q.operators[j].lhs]], t[e.nodePos[q.operators[j].rhs]])
    <3>1. q.operators[j].rhs \in A
      BY <2>2 DEF Closed
    <3>2. Holds(q.operators[j], t[f[q.operators[j].lhs]], t[f[q.operators[j].rhs]])
      BY <1>4, <2>2 DEF Right, Sound, f
    <3> QED
      BY <1>3, <2>2, <3>1, <3>2
  <2> QED
    BY <2>1, <2>2 DEF Sound
<1> QED
  BY <1>2, <1>5, <1>6, <1>7 DEF Right

----------------------------------------------------------------------------
(* internalInit makes such a plan of a tame query.                          *)

\* What a hit on a query node is, and that its searches are those of Tame.
Clear(s, hits) ==
    /\ s.kind # "edge" /\ (s.unbound => s.kind = "regex")
    /\ IsFiniteSet(hits) /\ \A h \in hits : h[1] \in Nodes /\ h = <<h[1], h[2]>>
    /\ s.wrap /\ s.kind = "regex" => ~s.unbound /\ \A g, h \in hits : g[1] = h[1] => g = h

\* Before an operator replaces it.
PlainSearch(s, hits, tokens, optimize) ==
    IF optimize THEN optimizeUnboundRegex(s, Search(s, hits, tokens)) ELSE Search(s, hits, tokens)

LEMMA SearchReads ==
    ASSUME NEW s, NEW hits, NEW tokens, NEW optimize, NEW rel, Clear(s, hits)
    PROVE  /\ Reads(PlainSearch(s, hits, tokens, optimize), s, hits, tokens)
           /\ PlainSearch(s, hits, tokens, optimize).kind # "edge"
           /\ PlainSearch(s, hits, tokens, optimize).sources = Nodes
           /\ Reads(createAnnoSearch(PlainSearch(s, hits, tokens, optimize), rel), s, hits, tokens)
           /\ createAnnoSearch(PlainSearch(s, hits, tokens, optimize), rel).sources = {e[1] : e \in rel}
<1> DEFINE plain == PlainSearch(s, hits, tokens, optimize)
<1>1. plain = IF optimize /\ s.unbound
                THEN [Search(s, hits, tokens) EXCEPT !.kind = "key", !.wrap = FALSE, !.returnsNothing = hits = {}]
                ELSE Search(s, hits, tokens)
  BY DEF PlainSearch, optimizeUnboundRegex, Search
<1>2. /\ DOMAIN plain = {"kind", "wrap", "hits", "sources", "pass", "returnsNothing"}
      /\ plain.hits = hits /\ plain.sources = Nodes
      /\ plain.pass = IF s.token THEN tokens ELSE Nodes
      /\ plain.returnsNothing => hits = {}
      /\ plain.kind = IF optimize /\ s.unbound THEN "key" ELSE s.kind
      /\ plain.wrap = IF optimize /\ s.unbound THEN FALSE ELSE s.wrap
  <2>1. CASE optimize /\ s.unbound
    BY <1>1, <2>1 DEF Search
  <2>2. CASE ~(optimize /\ s.unbound)
    <3>1. plain = Search(s, hits, tokens)
      BY <1>1, <2>2
    <3> HIDE DEF plain
    <3> QED
      BY <2>2, <3>1 DEF Search
  <2> QED
    BY <2>1, <2>2
<1>3. plain = [kind |-> plain.kind, wrap |-> plain.wrap, hits |-> plain.hits, sources |-> plain.sources,
               pass |-> plain.pass, returnsNothing |-> plain.returnsNothing]
  <2>1. CASE optimize /\ s.unbound
    BY <1>1, <2>1 DEF Search
  <2>2. CASE ~(optimize /\ s.unbound)
    <3>1. plain = Search(s, hits, tokens)
      BY <1>1, <2>2
    <3> HIDE DEF plain
    <3> QED
      BY <3>1 DEF Search
  <2> QED
    BY <2>1, <2>2
<1> HIDE DEF plain
<1>4. Reads(plain, s, hits, tokens) /\ plain.kind # "edge"
  BY <1>2 DEF Reads, Clear
<1>5. LET anno == createAnnoSearch(plain, rel)
      IN  /\ anno.kind = "edge" /\ anno.sources = {e[1] : e \in rel}
          /\ anno.hits = plain.hits /\ anno.wrap = plain.wrap /\ anno.pass = plain.pass
          /\ anno.returnsNothing = plain.returnsNothing
  BY <1>3 DEF createAnnoSearch
<1>6. Reads(createAnnoSearch(plain, rel), s, hits, tokens)
  BY <1>4, <1>5 DEF Reads
<1> QED
  BY <1>2, <1>4, <1>5, <1>6 DEF plain

\* The query of a call, and what is found for it.
Given(alt, c) ==
    /\ DOMAIN alt.ops = 1..Len(alt.ops) /\ Len(alt.ops) \in Nat
    /\ DOMAIN alt.searches = 1..Len(alt.searches) /\ Len(alt.searches) \in Nat
    /\ \A i \in DOMAIN alt.searches :
          /\ alt.searches[i].kind # "edge" /\ (alt.searches[i].unbound => alt.searches[i].kind = "regex")
          /\ IsFiniteSet(c.hits[i]) /\ \A h \in c.hits[i] : h[1] \in Nodes /\ h = <<h[1], h[2]>>
    /\ \A o \in DOMAIN alt.ops :
          /\ alt.ops[o].lhs \in DOMAIN alt.searches /\ alt.ops[o].rhs \in DOMAIN alt.searches
          /\ alt.ops[o].edge => ~alt.ops[o].commutative
          /\ alt.ops[o].commutative => Symmetric(c.rel[o])

LEMMA QueryGiven ==
    ASSUME NEW cl \in Calls, NEW a \in DOMAIN cl.query, NEW c \in Contents(cl.query[a])
    PROVE  Given(cl.query[a], c)
BY CallsAssumption, ContentsAssumption DEF Given, Symmetric

\* The plan's searches and operators.
Ordered(alt, c, order, switched) ==
    [k \in DOMAIN alt.ops |-> Operator(alt.ops[order[k]], c.rel[order[k]], order[k] \in switched)]

LEMMA InitMeans ==
    ASSUME NEW alt, NEW c, Given(alt, c), Tame(alt, c), NEW optimize,
           NEW order \in Orders(DOMAIN alt.ops, optimize),
           NEW switched \in Switches(alt.ops, optimize), NEW R \in EdgeSearches(alt.ops, optimize),
           NEW q, q.alt = alt, q.content = c, q.nodes = Searches(alt, c, R, optimize),
           q.operators = Ordered(alt, c, order, switched)
    PROVE  Meant(q)
<1> DEFINE I == DOMAIN alt.ops
           by(i) == {o \in R : alt.ops[o].lhs = i}
           chosen(i) == CHOOSE o \in by(i) : TRUE
           plain(i) == PlainSearch(alt.searches[i], c.hits[i], c.tokens, optimize)
<1>1. \A i \in DOMAIN alt.searches : Clear(alt.searches[i], c.hits[i])
  BY DEF Given, Tame, Clear
<1>2. /\ DOMAIN q.nodes = DOMAIN alt.searches
      /\ \A i \in DOMAIN alt.searches :
            q.nodes[i] = IF by(i) = {} THEN plain(i) ELSE createAnnoSearch(plain(i), c.rel[chosen(i)])
  BY DEF Searches, PlainSearch
<1>3. \A o \in R : o \in I /\ alt.ops[o].edge
  BY DEF EdgeSearches
<1>4. \A i : by(i) # {} => chosen(i) \in R /\ alt.ops[chosen(i)].lhs = i
  OBVIOUS
<1> HIDE DEF by, chosen, plain
<1>5. ASSUME NEW i \in DOMAIN alt.searches
      PROVE  /\ Reads(q.nodes[i], alt.searches[i], c.hits[i], c.tokens)
             /\ Sourced(q.nodes[i], alt, c, i)
             /\ Filtering(q.nodes[i]) \/ \E o \in I : alt.ops[o].edge /\ alt.ops[o].lhs = i /\ alt.searches[i].token
  <2>1. /\ Reads(plain(i), alt.searches[i], c.hits[i], c.tokens)
        /\ plain(i).kind # "edge" /\ plain(i).sources = Nodes
        /\ Reads(createAnnoSearch(plain(i), c.rel[chosen(i)]), alt.searches[i], c.hits[i], c.tokens)
        /\ createAnnoSearch(plain(i), c.rel[chosen(i)]).sources = {e[1] : e \in c.rel[chosen(i)]}
    BY <1>1, SearchReads DEF plain
  <2>2. CASE by(i) = {}
    <3>1. q.nodes[i] = plain(i)
      BY <1>2, <2>2
    <3> QED
      BY <2>1, <3>1 DEF Sourced, Filtering
  <2>3. CASE by(i) # {}
    <3>1. q.nodes[i] = createAnnoSearch(plain(i), c.rel[chosen(i)])
      BY <1>2, <2>3
    <3>2. chosen(i) \in I /\ alt.ops[chosen(i)].edge /\ alt.ops[chosen(i)].lhs = i
      BY <1>3, <1>4, <2>3
    <3>3. ~alt.searches[i].token => Filtering(q.nodes[i])
      BY <2>1, <3>1 DEF Filtering, Reads
    <3> QED
      BY <2>1, <3>1, <3>2, <3>3 DEF Sourced
  <2> QED
    BY <2>2, <2>3
<1>6. /\ DOMAIN q.operators = I
      /\ \A k \in I : q.operators[k] = Operator(alt.ops[order[k]], c.rel[order[k]], order[k] \in switched)
  BY DEF Ordered
<1>7. order \in Injection(I, I)
  <2>1. CASE optimize
    BY <2>1 DEF Orders, Injection, IsInjective
  <2>2. CASE ~optimize
    <3>1. order = [i \in I |-> i]
      BY <2>2 DEF Orders
    <3> QED
      BY <3>1 DEF Injection, IsInjective
  <2> QED
    BY <2>1, <2>2
<1>8. order \in Surjection(I, I)
  <2>1. IsFiniteSet(I)
    <3>1. I = 1..Len(alt.ops) /\ 1 \in Int /\ Len(alt.ops) \in Int
      BY DEF Given
    <3> HIDE DEF I
    <3> QED
      BY <3>1, FS_Interval
  <2> QED
    BY <1>7, <2>1, FS_Injection
<1>9. \A o \in switched : o \in I /\ alt.ops[o].commutative
  BY DEF Switches
<1>10. \A k \in I : order[k] \in I
  BY <1>7 DEF Injection
<1> HIDE DEF I
<1>11. ASSUME NEW k \in I
       PROVE  /\ Same(q.operators[k], alt.ops[order[k]], c.rel[order[k]])
              /\ q.operators[k].lhs \in DOMAIN q.nodes /\ q.operators[k].rhs \in DOMAIN q.nodes
              /\ q.operators[k].commutative => Symmetric(q.operators[k].rel)
              /\ \/ q.operators[k].lhs = q.operators[k].rhs
                 \/ /\ Filtering(q.nodes[q.operators[k].rhs])
                    /\ q.operators[k].commutative => Filtering(q.nodes[q.operators[k].lhs])
  <2> DEFINE op == q.operators[k]
             o == alt.ops[order[k]]
             rel == c.rel[order[k]]
  <2>1. order[k] \in I /\ op = Operator(o, rel, order[k] \in switched)
    BY <1>6, <1>10
  <2>2. order[k] \in switched => o.commutative
    BY <1>9
  <2>3. /\ o.lhs \in DOMAIN q.nodes /\ o.rhs \in DOMAIN q.nodes
        /\ o.commutative => Symmetric(rel)
        /\ o.edge => ~o.commutative
    BY <1>2, <2>1 DEF Given, I
  <2> HIDE DEF op, o, rel
  <2>4. Same(op, o, rel)
    BY <2>1, <2>2 DEF Same, Operator
  <2>5. ASSUME NEW i \in {op.lhs, op.rhs}, ~Filtering(q.nodes[i]) PROVE op.lhs = i /\ ~op.commutative
    <3>1. i \in DOMAIN alt.searches
      BY <1>2, <2>3, <2>4 DEF Same
    <3>2. PICK p \in I : alt.ops[p].edge /\ alt.ops[p].lhs = i /\ alt.searches[i].token
      BY <1>5, <2>5, <3>1
    <3>3. Len(alt.ops) = 1
      BY <3>2 DEF Tame, I
    <3>4. I = {1}
      BY <3>3 DEF Given, I
    <3>5. p = order[k]
      BY <2>1, <3>2, <3>4
    <3>6. o.edge /\ o.lhs = i
      BY <3>2, <3>5 DEF o
    <3> QED
      BY <2>3, <2>4, <3>6 DEF Same
  <2>6. op.lhs \in DOMAIN q.nodes /\ op.rhs \in DOMAIN q.nodes
    BY <2>3, <2>4 DEF Same
  <2>7. op.commutative => Symmetric(op.rel)
    BY <2>3, <2>4 DEF Same
  <2>8. \/ op.lhs = op.rhs
        \/ Filtering(q.nodes[op.rhs]) /\ (op.commutative => Filtering(q.nodes[op.lhs]))
    BY <2>5
  <2> QED
    BY <2>4, <2>6, <2>7, <2>8 DEF op, o, rel
<1>12. \A o \in I : \E k \in I : order[k] = o
  BY <1>8 DEF Surjection
<1> QED
  BY <1>2, <1>5, <1>6, <1>10, <1>11, <1>12 DEF Meant, I

LEMMA BaseRight ==
    ASSUME NEW q, Meant(q), NEW n \in DOMAIN q.nodes, NEW e, e = BaseNode(n, q.nodes[n])
    PROVE  Right(e, {n}, {}, q) /\ NoneTwice(e, {n}, {}, q) /\ Closed({n}, {}, q)
<1> DEFINE found == Iterated(q.nodes[n])
<1>1. found \subseteq Of(q, n) /\ IsFiniteSet(found)
  BY SearchesFind, FS_Subset
<1>2. /\ e.type = "base" /\ e.search = q.nodes[n] /\ e.nodePos[n] = 1
      /\ e.tuples = {<<m>> : m \in found}
  BY DEF BaseNode
<1> HIDE DEF found
<1>3. IsFiniteSet(e.tuples)
  <2> DEFINE c == [m \in found |-> <<m>>]
  <2>1. c \in Surjection(found, e.tuples)
    BY <1>2 DEF Surjection
  <2> HIDE DEF c
  <2> QED
    BY <1>1, <2>1, FS_Surjection
<1>4. Sound(e.nodePos, e.tuples, {n}, {}, q)
  BY <1>1, <1>2 DEF Sound
<1>5. Complete(e.nodePos, e.tuples, {n}, q)
  <2> SUFFICES ASSUME NEW a \in Answers(q) PROVE \E t \in e.tuples : t[1] = a[n]
    BY <1>2 DEF Complete
  <2>1. a[n] \in found
    BY AnswersAllowed DEF found
  <2>2. <<a[n]>> \in e.tuples /\ <<a[n]>>[1] = a[n]
    BY <1>2, <2>1
  <2> QED
    BY <2>2
<1> QED
  BY <1>2, <1>3, <1>4, <1>5 DEF Right, NoneTwice, Distinct, Closed

\* An operator of other components changes nothing.
LEMMA ElsewhereRight ==
    ASSUME NEW q, NEW k, NEW e, NEW S, NEW J, q.operators[k].lhs \notin S, q.operators[k].rhs \notin S
    PROVE  /\ Right(e, S, J, q) => Right(e, S, J \cup {k}, q)
           /\ NoneTwice(e, S, J, q) => NoneTwice(e, S, J \cup {k}, q)
           /\ Closed(S, J, q) => Closed(S, J \cup {k}, q)
<1>1. Sound(e.nodePos, e.tuples, S, J, q) => Sound(e.nodePos, e.tuples, S, J \cup {k}, q)
  BY DEF Sound
<1>2. NoneTwice(e, S, J, q) => NoneTwice(e, S, J \cup {k}, q)
  BY DEF NoneTwice, Distinct
<1>3. Closed(S, J, q) => Closed(S, J \cup {k}, q)
  BY DEF Closed
<1>4. ASSUME NEW n, S = {n}, \A j \in J : q.operators[j].lhs # n
      PROVE  \A j \in J \cup {k} : q.operators[j].lhs # n
  BY <1>4
<1>5. ASSUME Right(e, S, J, q) PROVE Right(e, S, J \cup {k}, q)
  <2>1. e.type = "base" => \E n : S = {n} /\ e.search = q.nodes[n] /\ \A j \in J \cup {k} : q.operators[j].lhs # n
    BY <1>4, <1>5 DEF Right
  <2> QED
    BY <1>1, <1>5, <2>1 DEF Right
<1> QED
  BY <1>2, <1>3, <1>5

\* The positions of a numbering are all of them: equal views, equal tuples.
LEMMA ViewsDiffer ==
    ASSUME NEW S, IsFiniteSet(S), NEW f, Numbering(f, S), NEW M, NEW t \in Seq(M), NEW u \in Seq(M),
           Len(t) = Cardinality(S), Len(u) = Cardinality(S), \A n \in S : t[f[n]] = u[f[n]]
    PROVE  t = u
<1> DEFINE g == [n \in S |-> f[n]]
           K == 1..Cardinality(S)
<1>1. Cardinality(S) \in Nat
  BY FS_CardinalityType
<1>2. IsFiniteSet(K) /\ Cardinality(K) = Cardinality(S)
  <2>1. 1 \in Int /\ Cardinality(S) \in Int
    BY <1>1
  <2>2. IsFiniteSet(K) /\ Cardinality(K) = IF 1 > Cardinality(S) THEN 0 ELSE Cardinality(S) - 1 + 1
    BY <2>1, FS_Interval
  <2> QED
    BY <1>1, <2>2
<1>3. g \in Injection(S, K)
  BY DEF Injection, IsInjective, Numbering
<1> HIDE DEF K
<1>4. g \in Surjection(S, K)
  BY <1>2, <1>3, FS_Injection
<1>5. \A i \in K : \E n \in S : f[n] = i
  BY <1>4 DEF Surjection
<1>6. \A i \in 1..Len(t) : t[i] = u[i]
  BY <1>5 DEF K
<1> QED
  BY <1>1, <1>6, SeqEqual

\* With all query nodes in one component, and all operators joined.
View(e, t) == [n \in DOMAIN e.nodePos |-> t[e.nodePos[n]]]

LEMMA PlanAnswers ==
    ASSUME NEW q, Meant(q), NEW S, S = DOMAIN q.nodes, IsFiniteSet(S), NEW e, NEW M, Fits(e, S, M),
           NEW J, J = DOMAIN q.operators, Right(e, S, J, q), NoneTwice(e, S, J, q)
    PROVE  /\ {View(e, t) : t \in e.tuples} = Answers(q)
           /\ Cardinality({View(e, t) : t \in e.tuples}) = Cardinality(e.tuples)
<1> DEFINE f == e.nodePos
<1>1. DOMAIN f = S /\ S = DOMAIN q.alt.searches
  BY DEF Fits, Numbering, Meant
<1>2. \A t : \A n \in S : View(e, t)[n] = t[f[n]]
  BY <1>1 DEF View
<1>3. \A t : View(e, t) = [n \in S |-> View(e, t)[n]]
  BY <1>1 DEF View
<1>4. ASSUME NEW t \in e.tuples PROVE View(e, t) \in Answers(q)
  <2> DEFINE a == View(e, t)
  <2>1. \A n \in S : a[n] \in Of(q, n)
    BY <1>2 DEF Right, Sound
  <2>2. a \in [S -> UNION {Of(q, i) : i \in S}]
    BY <1>3, <2>1
  <2>3. ASSUME NEW o \in DOMAIN q.alt.ops
        PROVE  Allowed(q.alt.ops[o], q.content.rel[o], a[q.alt.ops[o].lhs], a[q.alt.ops[o].rhs])
    <3>1. PICK k \in J : Same(q.operators[k], q.alt.ops[o], q.content.rel[o])
      BY DEF Meant
    <3> DEFINE op == q.operators[k]
    <3>2. op.lhs \in S /\ op.rhs \in S /\ (op.commutative => Symmetric(op.rel))
      BY DEF Meant
    <3>3. Holds(op, a[op.lhs], a[op.rhs]) /\ Include(op, a[op.lhs], a[op.rhs])
      <4>1. Holds(op, t[f[op.lhs]], t[f[op.rhs]]) /\ Include(op, t[f[op.lhs]], t[f[op.rhs]])
        BY <3>2 DEF Right, Sound, NoneTwice, Distinct
      <4> QED
        BY <1>2, <3>2, <4>1
    <3>4. a[op.lhs][1] \in Nodes /\ a[op.rhs][1] \in Nodes
      BY <2>1, <3>2, SearchesFind
    <3> HIDE DEF op, a
    <3>5. a[q.alt.ops[o].lhs][1] \in Nodes /\ a[q.alt.ops[o].rhs][1] \in Nodes
      BY <3>1, <3>4 DEF Same, op
    <3>6. op.commutative => Symmetric(q.content.rel[o])
      BY <3>1, <3>2 DEF Same, op
    <3>7. Same(op, q.alt.ops[o], q.content.rel[o])
      BY <3>1 DEF op
    <3> QED
      BY <3>3, <3>5, <3>6, <3>7, SameAllows DEF Allowed
  <2> HIDE DEF a
  <2>4. a \in Answers(q)
    BY <1>1, <2>1, <2>2, <2>3, AnswersAre
  <2> QED
    BY <2>4 DEF a
<1>5. ASSUME NEW a \in Answers(q) PROVE \E t \in e.tuples : View(e, t) = a
  <2>1. PICK t \in e.tuples : \A n \in S : t[f[n]] = a[n]
    BY DEF Right, Complete
  <2>2. a \in [S -> UNION {Of(q, i) : i \in S}]
    BY <1>1, AnswersAre
  <2>3. a = [n \in S |-> a[n]]
    BY <2>2
  <2>4. \A n \in S : View(e, t)[n] = a[n]
    BY <1>2, <2>1
  <2> QED
    BY <1>3, <2>3, <2>4
<1>6. ASSUME NEW t \in e.tuples, NEW u \in e.tuples, View(e, t) = View(e, u) PROVE t = u
  <2>1. \A n \in S : t[f[n]] = u[f[n]]
    BY <1>2, <1>6
  <2>2. /\ Numbering(f, S) /\ t \in Seq(M) /\ Len(t) = Cardinality(S)
        /\ u \in Seq(M) /\ Len(u) = Cardinality(S)
    BY DEF Fits
  <2> HIDE DEF f
  <2> QED
    BY <2>1, <2>2, ViewsDiffer
<1>7. {View(e, t) : t \in e.tuples} = Answers(q)
  BY <1>4, <1>5
<1>8. Cardinality({View(e, t) : t \in e.tuples}) = Cardinality(e.tuples)
  <2> DEFINE V == {View(e, t) : t \in e.tuples}
             c == [t \in e.tuples |-> View(e, t)]
  <2>1. c \in Surjection(e.tuples, V)
    BY DEF Surjection
  <2>2. c \in Injection(e.tuples, V)
    BY <1>6 DEF Injection, IsInjective
  <2>3. IsFiniteSet(e.tuples)
    BY DEF Right
  <2> HIDE DEF c, V
  <2>4. Cardinality(V) = Cardinality(e.tuples)
    BY <2>1, <2>2, <2>3, FS_Surjection
  <2> QED
    BY <2>4 DEF V
<1> QED
  BY <1>7, <1>8

----------------------------------------------------------------------------
(* A plan of a tame query while it is made: every component is right, and,  *)
(* as long as no filter was made, has no match twice.  With fewer operators *)
(* than query nodes none is made until the nodes are one component.         *)

Asked == [alt |-> Query[alternative], content |-> content, nodes |-> nodes, operators |-> operators]
Done  == {k \in DOMAIN operators : k < operatorIdx}
Comps == {node2component[n] : n \in DOMAIN nodes}
IsTame == Tame(Query[alternative], content)

Known ==
    /\ Given(Query[alternative], content)
    /\ DOMAIN operators = DOMAIN Query[alternative].ops
    /\ Meant(Asked)

RightSoFar ==
    \A n \in DOMAIN nodes : LET c == node2component[n] IN
        /\ Right(component2exec[c], Own(node2component, c), Done, Asked)
        /\ Closed(Own(node2component, c), Done, Asked)

NoneTwiceSoFar ==
    \A n \in DOMAIN nodes : LET c == node2component[n] IN
        NoneTwice(component2exec[c], Own(node2component, c), Done, Asked)

Counted ==
    /\ operatorIdx \in 1..Len(Query[alternative].ops) + 1
    /\ Cardinality(Comps) + operatorIdx >= Cardinality(DOMAIN nodes) + 1
    /\ NoneTwiceSoFar \/ Cardinality(Comps) + operatorIdx > Cardinality(DOMAIN nodes) + 1

Built == RightSoFar /\ Counted

PlanRight == RightAnswers /\ IsFiniteSet(bestPlan.tuples)

AnswerInv ==
    /\ phase = "corpus" => bestPlan = None
    /\ phase \in {"create", "tasks"} /\ IsTame => Known
    /\ phase = "create" /\ IsTame => Built
    /\ phase \in {"find", "next"} /\ bestPlan # None /\ IsTame => PlanRight

LEMMA StartBuilt ==
    ASSUME IsFiniteSet(DOMAIN nodes'), Known', StartPlan(nodes')
    PROVE  Built'
<1> DEFINE q == Asked'
           ops == Query'[alternative'].ops
<1>1. /\ operatorIdx' = 1 /\ node2component' = [n \in DOMAIN nodes' |-> n]
      /\ component2exec' = [n \in DOMAIN nodes' |-> BaseNode(n, nodes'[n])]
  BY DEF StartPlan
<1>2. DOMAIN operators' = 1..Len(ops) /\ Len(ops) \in Nat /\ Meant(q) /\ q.nodes = nodes'
  BY DEF Known, Given, Asked
<1>3. Done' = {}
  <2>1. \A k \in DOMAIN operators' : ~(k < 1)
    BY <1>2
  <2> QED
    BY <1>1, <2>1 DEF Done
<1>4. \A n \in DOMAIN nodes' : Own(node2component', n) = {n}
  BY <1>1 DEF Own
<1>5. ASSUME NEW n \in DOMAIN nodes'
      PROVE  LET e == component2exec'[n]
             IN  Right(e, {n}, {}, q) /\ NoneTwice(e, {n}, {}, q) /\ Closed({n}, {}, q)
  <2>1. component2exec'[n] = BaseNode(n, nodes'[n])
    BY <1>1
  <2> HIDE DEF q
  <2> QED
    BY <1>2, <2>1, BaseRight
<1>6. RightSoFar' /\ NoneTwiceSoFar'
  BY <1>1, <1>3, <1>4, <1>5 DEF RightSoFar, NoneTwiceSoFar
<1>7. Comps' = DOMAIN nodes'
  BY <1>1 DEF Comps
<1>8. Cardinality(DOMAIN nodes') \in Nat
  BY FS_CardinalityType
<1>9. Counted'
  BY <1>1, <1>2, <1>6, <1>7, <1>8 DEF Counted
<1> QED
  BY <1>6, <1>9 DEF Built

\* The components left after a join: one less, or the same.
LEMMA CompsLeft ==
    ASSUME PlanInv, JoinOperator
    PROVE  /\ Cardinality(Comps) \in Nat /\ Cardinality(Comps') \in Nat
           /\ Cardinality(Comps') = IF componentLeft = componentRight THEN Cardinality(Comps)
                                                                       ELSE Cardinality(Comps) - 1
<1> DEFINE L == componentLeft
           R == componentRight
           C == joined.componentNr
           other == IF C = L THEN R ELSE L
<1>1. IsFiniteSet(Comps) /\ L \in Comps /\ R \in Comps
  <2>1. Comps \subseteq DOMAIN nodes
    BY DEF PlanInv, Maps, Comps
  <2>2. operators[operatorIdx].lhs \in DOMAIN nodes /\ operators[operatorIdx].rhs \in DOMAIN nodes
    BY JoinOperatorIs DEF PlanInv, Parsed
  <2> QED
    BY <2>1, <2>2, FS_Subset DEF PlanInv, Parsed, Comps, componentLeft, componentRight
<1>2. C \in {L, R}
  BY JoinOperatorIs, JoinedIs
<1>3. /\ nodes' = nodes
      /\ \A n \in DOMAIN nodes : node2component'[n] =
            IF node2component[n] \in {L, R} THEN C ELSE node2component[n]
  BY JoinOperatorIs DEF PlanInv, Maps, parsed
<1> HIDE DEF L, R, C
<1>4. CASE L = R
  <2>1. \A n \in DOMAIN nodes : node2component'[n] = node2component[n]
    BY <1>2, <1>3, <1>4
  <2>2. Comps' = Comps
    BY <1>3, <2>1 DEF Comps
  <2> QED
    BY <1>1, <1>4, <2>2, FS_CardinalityType DEF L, R
<1>5. CASE L # R
  <2>1. {L, R} = {C, other} /\ C # other /\ other \in Comps /\ C \in Comps
    BY <1>1, <1>2, <1>5
  <2> HIDE DEF other
  <2>2. \A c : c \in Comps' <=> \E n \in DOMAIN nodes : c = node2component'[n]
    BY <1>3 DEF Comps
  <2>3. \A c : c \in Comps <=> \E n \in DOMAIN nodes : c = node2component[n]
    BY DEF Comps
  <2>4. ASSUME NEW c \in Comps' PROVE c \in Comps \ {other}
    BY <1>3, <2>1, <2>2, <2>3
  <2>5. ASSUME NEW c \in Comps \ {other} PROVE c \in Comps'
    BY <1>3, <2>1, <2>2, <2>3
  <2>6. Comps' = Comps \ {other}
    BY <2>4, <2>5
  <2>7. /\ IsFiniteSet(Comps \ {other})
        /\ Cardinality(Comps \ {other}) = Cardinality(Comps) - 1
    BY <1>1, <2>1, FS_RemoveElement
  <2> QED
    BY <1>1, <1>5, <2>6, <2>7, FS_CardinalityType DEF L, R
<1> QED
  BY <1>4, <1>5

\* The joined component.
LEMMA JoinedRight ==
    ASSUME PlanInv, operatorIdx \in DOMAIN operators, Meant(Asked), RightSoFar
    PROVE  LET S == Own(node2component, componentLeft) \cup Own(node2component, componentRight)
               J == Done \cup {operatorIdx}
           IN  /\ Right(joined, S, J, Asked)
               /\ Closed(S, J, Asked)
               /\ componentLeft # componentRight /\ NoneTwiceSoFar => NoneTwice(joined, S, J, Asked)
<1> DEFINE q == Asked
           l == operators[operatorIdx].lhs
           r == operators[operatorIdx].rhs
           A == Own(node2component, componentLeft)
           B == Own(node2component, componentRight)
           lhs == component2exec[componentLeft]
           rhs == component2exec[componentRight]
           J == Done
           op == operators[operatorIdx]
<1>1. l \in DOMAIN nodes /\ r \in DOMAIN nodes
  BY DEF PlanInv, Parsed
<1>2. l \in A /\ r \in B
  BY <1>1 DEF PlanInv, Maps, Own, componentLeft, componentRight
<1>3. /\ lhs.componentNr = componentLeft /\ Fits(lhs, A, Matches(nodes))
      /\ rhs.componentNr = componentRight /\ Fits(rhs, B, Matches(nodes))
  BY <1>1 DEF PlanInv, Fit, componentLeft, componentRight
<1>4. IsFiniteSet(A) /\ IsFiniteSet(B) /\ A \subseteq DOMAIN nodes /\ B \subseteq DOMAIN nodes
  BY FS_Subset DEF PlanInv, Parsed, Maps, Own
<1>5. /\ Right(lhs, A, J, q) /\ Closed(A, J, q)
      /\ Right(rhs, B, J, q) /\ Closed(B, J, q)
  BY <1>1 DEF RightSoFar, componentLeft, componentRight
<1>6. NoneTwiceSoFar => NoneTwice(lhs, A, J, q) /\ NoneTwice(rhs, B, J, q)
  BY <1>1 DEF NoneTwiceSoFar, componentLeft, componentRight
<1>7. /\ q.operators = operators /\ q.nodes = nodes /\ q.operators[operatorIdx] = op
      /\ operatorIdx \in DOMAIN q.operators /\ op.lhs = l /\ op.rhs = r
  BY DEF Asked
<1>8. joined = PlanJoin(op, operatorIdx, lhs, rhs, TasksOf(operatorIdx))
  BY DEF joined
<1>9. componentLeft # componentRight => A \cap B = {}
  BY DEF Own
<1>10. componentLeft = componentRight => A = B /\ lhs = rhs
  OBVIOUS
<1>11. Meant(q)
  OBVIOUS
<1> HIDE DEF q, l, r, A, B, lhs, rhs, J, op
<1>12. Closed(A \cup B, J \cup {operatorIdx}, q)
  BY <1>2, <1>5, <1>7 DEF Closed
<1>13. CASE componentLeft = componentRight
  <2>1. Right(joined, A, J \cup {operatorIdx}, q)
    BY <1>2, <1>3, <1>4, <1>5, <1>7, <1>8, <1>10, <1>11, <1>13, FilterRight
  <2>2. A \cup B = A
    BY <1>10, <1>13
  <2> QED
    BY <1>12, <1>13, <2>1, <2>2 DEF q, A, B, J
<1>14. CASE componentLeft # componentRight
  <2>1. /\ Right(joined, A \cup B, J \cup {operatorIdx}, q)
        /\ NoneTwice(lhs, A, J, q) /\ NoneTwice(rhs, B, J, q) => NoneTwice(joined, A \cup B, J \cup {operatorIdx}, q)
    BY <1>2, <1>3, <1>4, <1>5, <1>7, <1>8, <1>9, <1>11, <1>14, PlanJoinRight
  <2> QED
    BY <1>6, <1>12, <2>1 DEF q, A, B, J
<1> QED
  BY <1>13, <1>14

LEMMA JoinBuilt ==
    ASSUME PlanInv, Known, Built, JoinOperator, UNCHANGED <<nodes, operators, call, alternative, content>>
    PROVE  Built'
<1> DEFINE L == componentLeft
           R == componentRight
           C == joined.componentNr
           q == Asked
           J == Done \cup {operatorIdx}
           S == Own(node2component, L) \cup Own(node2component, R)
           own(c) == Own(node2component, c)
           own1(c) == Own(node2component', c)
           e(c) == component2exec[c]
           e1(c) == component2exec'[c]
<1>1. /\ operatorIdx \in DOMAIN operators /\ operatorIdx' = operatorIdx + 1
      /\ L \in DOMAIN nodes /\ R \in DOMAIN nodes /\ C \in {L, R}
  BY JoinOperatorIs, JoinedIs DEF JoinOperator
<1>2. /\ \A n \in DOMAIN nodes : node2component'[n] =
             IF node2component[n] \in {L, R} THEN C ELSE node2component[n]
      /\ \A c \in DOMAIN nodes : e1(c) = IF c = C THEN joined ELSE e(c)
      /\ DOMAIN node2component' = DOMAIN nodes
  BY JoinOperatorIs DEF PlanInv, Maps
<1>3. Asked' = q /\ Query[alternative]' = Query[alternative]
  BY DEF Asked, Query
<1>4. DOMAIN operators = 1..Len(Query[alternative].ops) /\ Len(Query[alternative].ops) \in Nat
  BY DEF Known, Given
<1>5. Done' = J
  BY <1>1, <1>4 DEF Done
<1>6. /\ Right(joined, S, J, q) /\ Closed(S, J, q)
      /\ L # R /\ NoneTwiceSoFar => NoneTwice(joined, S, J, q)
  BY <1>1, JoinedRight DEF Known, Built
<1>7. /\ operators[operatorIdx].lhs \in own(L) /\ operators[operatorIdx].rhs \in own(R)
      /\ q.operators[operatorIdx] = operators[operatorIdx]
  BY <1>1 DEF PlanInv, Parsed, Maps, Own, componentLeft, componentRight, Asked
<1>8. ASSUME NEW n \in DOMAIN nodes
      PROVE  /\ Right(e(node2component[n]), own(node2component[n]), Done, q)
             /\ Closed(own(node2component[n]), Done, q)
             /\ NoneTwiceSoFar => NoneTwice(e(node2component[n]), own(node2component[n]), Done, q)
             /\ node2component[n] \in DOMAIN nodes
  BY DEF Built, RightSoFar, NoneTwiceSoFar, PlanInv, Maps
<1>9. \A c, d : c # d => own(c) \cap own(d) = {}
  BY DEF Own
<1>10. own1(C) = S
  BY <1>1, <1>2 DEF Own, PlanInv, Maps
<1>11. \A c : c \notin {L, R} => own1(c) = own(c)
  BY <1>1, <1>2 DEF Own, PlanInv, Maps
<1> HIDE DEF L, R, C, q, J, S, own, own1, e, e1
<1>12. ASSUME NEW n \in DOMAIN nodes
       PROVE  /\ Right(e1(node2component'[n]), own1(node2component'[n]), J, q)
              /\ Closed(own1(node2component'[n]), J, q)
              /\ L # R /\ NoneTwiceSoFar => NoneTwice(e1(node2component'[n]), own1(node2component'[n]), J, q)
  <2>1. CASE node2component[n] \in {L, R}
    <3>1. node2component'[n] = C /\ e1(C) = joined
      BY <1>1, <1>2, <2>1
    <3> QED
      BY <1>6, <1>10, <3>1
  <2>2. CASE node2component[n] \notin {L, R}
    <3> DEFINE c == node2component[n]
    <3>1. node2component'[n] = c /\ e1(c) = e(c) /\ own1(c) = own(c)
      BY <1>1, <1>2, <1>8, <1>11, <2>2
    <3>2. q.operators[operatorIdx].lhs \notin own(c) /\ q.operators[operatorIdx].rhs \notin own(c)
      BY <1>7, <1>9, <2>2
    <3>3. /\ Right(e(c), own(c), Done, q) /\ Closed(own(c), Done, q)
          /\ NoneTwiceSoFar => NoneTwice(e(c), own(c), Done, q)
      BY <1>8
    <3> HIDE DEF c
    <3>4. /\ Right(e(c), own(c), J, q) /\ Closed(own(c), J, q)
          /\ NoneTwiceSoFar => NoneTwice(e(c), own(c), J, q)
      BY <3>2, <3>3, ElsewhereRight DEF J
    <3> QED
      BY <3>1, <3>4 DEF c
  <2> QED
    BY <2>1, <2>2
<1>13. RightSoFar'
  BY <1>3, <1>5, <1>12 DEF RightSoFar, own1, e1
<1>14. L # R /\ NoneTwiceSoFar => NoneTwiceSoFar'
  BY <1>3, <1>5, <1>12 DEF NoneTwiceSoFar, own1, e1
<1>15. /\ Cardinality(Comps) \in Nat /\ Cardinality(Comps') \in Nat
       /\ Cardinality(Comps') = IF L = R THEN Cardinality(Comps) ELSE Cardinality(Comps) - 1
  BY CompsLeft DEF L, R
<1>16. /\ operatorIdx \in 1..Len(Query[alternative].ops)
       /\ Cardinality(Comps) + operatorIdx >= Cardinality(DOMAIN nodes) + 1
       /\ NoneTwiceSoFar \/ Cardinality(Comps) + operatorIdx > Cardinality(DOMAIN nodes) + 1
  BY <1>1, <1>4 DEF Built, Counted
<1>17. Cardinality(DOMAIN nodes) \in Nat
  BY FS_CardinalityType DEF PlanInv, Parsed
<1>18. /\ operatorIdx' \in 1..Len(Query[alternative].ops) + 1
       /\ Cardinality(Comps') + operatorIdx' >= Cardinality(DOMAIN nodes) + 1
       /\ NoneTwiceSoFar' \/ Cardinality(Comps') + operatorIdx' > Cardinality(DOMAIN nodes) + 1
  <2>1. CASE L = R
    BY <1>1, <1>4, <1>15, <1>16, <1>17, <2>1
  <2>2. CASE L # R
    BY <1>1, <1>4, <1>14, <1>15, <1>16, <1>17, <2>2
  <2> QED
    BY <2>1, <2>2
<1>19. Counted'
  BY <1>3, <1>18 DEF Counted
<1> QED
  BY <1>13, <1>19 DEF Built

\* The plan, when all nodes are in one component.
LEMMA PlannedRight ==
    ASSUME PlanInv, phase = "create", IsTame, Known, Built, PlanCreated,
           UNCHANGED <<content, nodes, operators, call, alternative>>
    PROVE  PlanRight' /\ bestPlan' # None
<1> DEFINE c == node2component[1]
           plan == component2exec[c]
           q == Asked
           I == DOMAIN nodes
           ops == Query[alternative].ops
<1>1. /\ OneComponent /\ operatorIdx \notin DOMAIN operators /\ bestPlan' = plan
  BY DEF PlanCreated
<1>2. 1 \in I /\ IsFiniteSet(I) /\ Own(node2component, c) = I
  BY <1>1 DEF PlanInv, Parsed, Maps, Own, OneComponent
<1>3. /\ DOMAIN operators = 1..Len(ops) /\ Len(ops) \in Nat /\ operatorIdx \in 1..Len(ops) + 1
      /\ DOMAIN ops = DOMAIN operators
  BY DEF Known, Given, Built, Counted
<1>4. operatorIdx = Len(ops) + 1 /\ Done = DOMAIN operators
  BY <1>1, <1>3 DEF Done
<1>5. Comps = {c}
  BY <1>1, <1>2 DEF Comps, OneComponent, PlanInv, Maps
<1>6. Cardinality(Comps) = 1
  BY <1>5, FS_Singleton
<1>7. Right(plan, I, Done, q) /\ Fits(plan, I, Matches(nodes))
  BY <1>2 DEF Built, RightSoFar, PlanInv, Fit
<1>8. /\ Meant(q) /\ q.nodes = nodes /\ q.operators = operators
      /\ q.alt = Query[alternative] /\ q.content = content
  BY DEF Known, Asked
<1>9. NoneTwice(plan, I, Done, q)
  <2>1. CASE Len(ops) < Len(Query[alternative].searches)
    <3>1. Len(Query[alternative].searches) \in Nat /\ I = 1..Len(Query[alternative].searches)
      BY DEF Known, Given, Meant, Asked
    <3>2. Cardinality(I) = Len(Query[alternative].searches)
      <4>1. 1 \in Int /\ Len(Query[alternative].searches) \in Int
        BY <3>1
      <4>2. Cardinality(1..Len(Query[alternative].searches)) =
               IF 1 > Len(Query[alternative].searches) THEN 0 ELSE Len(Query[alternative].searches) - 1 + 1
        BY <4>1, FS_Interval
      <4> QED
        BY <3>1, <4>2
    <3>3. ~(Cardinality(Comps) + operatorIdx > Cardinality(I) + 1)
      BY <1>3, <1>4, <1>6, <2>1, <3>1, <3>2
    <3>4. NoneTwiceSoFar
      BY <3>3 DEF Built, Counted
    <3> QED
      BY <1>2, <3>4 DEF NoneTwiceSoFar
  <2>2. CASE \A o \in DOMAIN ops : ops[o].reflexive
    <3>1. ASSUME NEW k \in DOMAIN operators PROVE operators[k].reflexive
      <4>1. PICK o \in DOMAIN ops : Same(q.operators[k], q.alt.ops[o], q.content.rel[o])
        BY <1>8 DEF Meant
      <4> QED
        BY <1>8, <2>2, <4>1 DEF Same
    <3> QED
      BY <1>4, <1>8, <3>1 DEF NoneTwice, Distinct, Include
  <2> QED
    BY <2>1, <2>2 DEF IsTame, Tame
<1> HIDE DEF plan, q, ops
<1>10. /\ {View(plan, t) : t \in plan.tuples} = Answers(q)
       /\ Cardinality({View(plan, t) : t \in plan.tuples}) = Cardinality(plan.tuples)
  BY <1>2, <1>4, <1>7, <1>8, <1>9, PlanAnswers
<1>11. \A t : executeStep(t)' = View(plan, t)
  BY <1>1 DEF executeStep, View
<1>12. Wanted(Query[alternative], content)' = Answers(q)
  BY <1>8 DEF Answers, Query
<1>13. RightAnswers'
  BY <1>1, <1>10, <1>11, <1>12 DEF RightAnswers
<1>14. plan.type # "none" /\ IsFiniteSet(plan.tuples)
  BY <1>7 DEF Right
<1> QED
  BY <1>1, <1>13, <1>14 DEF PlanRight, None

LEMMA AnswerInit == Init => AnswerInv
BY DEF Init, AnswerInv

\* internalInit
LEMMA InitAnswers == ASSUME PlanInv, PlanInv', AnswerInv, InternalInit PROVE AnswerInv'
<1> DEFINE alt == Query[alternative]
           optimize == call.config.optimize
<1>1. alternative \in DOMAIN call.query /\ call \in Calls
  BY DEF InternalInit, Query, PlanInv, Parsed
<1>2. PICK c \in Contents(alt), order \in Orders(DOMAIN alt.ops, optimize),
           switched \in Switches(alt.ops, optimize), R \in EdgeSearches(alt.ops, optimize) :
              /\ content' = c
              /\ nodes' = Searches(alt, c, R, optimize)
              /\ operators' = [k \in DOMAIN alt.ops |->
                    Operator(alt.ops[order[k]], c.rel[order[k]], order[k] \in switched)]
              /\ StartPlan(nodes')
  BY DEF InternalInit
<1>3. phase' = "create" /\ call' = call /\ alternative' = alternative
  BY DEF InternalInit, asking
<1>4. Given(alt, c)
  BY <1>1, QueryGiven DEF Query
<1>5. Query[alternative]' = alt
  BY <1>3 DEF Query
<1> HIDE DEF alt, optimize
<1>6. ASSUME Tame(alt, c) PROVE Known' /\ Built'
  <2>1. DOMAIN operators' = DOMAIN alt.ops /\ operators' = Ordered(alt, c, order, switched)
    BY <1>2 DEF Ordered
  <2>2. /\ Asked'.alt = alt /\ Asked'.content = c /\ Asked'.nodes = nodes' /\ Asked'.operators = operators'
    BY <1>2, <1>5 DEF Asked
  <2>3. Meant(Asked')
    BY <1>2, <1>4, <1>6, <2>1, <2>2, InitMeans
  <2>4. Known'
    BY <1>2, <1>4, <1>5, <2>1, <2>3 DEF Known
  <2>5. IsFiniteSet(DOMAIN nodes')
    BY DEF PlanInv, Parsed
  <2>6. Built'
    BY <1>2, <2>4, <2>5, StartBuilt
  <2> QED
    BY <2>4, <2>6
<1> QED
  BY <1>2, <1>3, <1>5, <1>6 DEF AnswerInv, IsTame

\* Plan::join
LEMMA JoinAnswers == ASSUME PlanInv, AnswerInv, JoinOperator PROVE AnswerInv'
<1>1. /\ phase = "create" /\ phase' = "create" /\ nodes' = nodes /\ operators' = operators /\ call' = call
      /\ alternative' = alternative /\ content' = content
  BY JoinOperatorIs DEF parsed, asking
<1>2. Query[alternative]' = Query[alternative] /\ IsTame' = IsTame
  BY <1>1 DEF Query, IsTame
<1>3. Asked' = Asked
  BY <1>1, <1>2 DEF Asked
<1>4. IsTame => Known /\ Built
  BY <1>1 DEF AnswerInv
<1>5. Known => Known'
  BY <1>1, <1>2, <1>3 DEF Known
<1>6. IsTame => Built'
  BY <1>1, <1>4, JoinBuilt
<1> QED
  BY <1>1, <1>2, <1>4, <1>5, <1>6 DEF AnswerInv

\* Nothing of the query changes.
LEMMA SameQuery ==
    ASSUME UNCHANGED <<call, alternative, content, nodes, operators>>
    PROVE  /\ IsTame' = IsTame
           /\ Known => Known'
           /\ bestPlan' = bestPlan => (PlanRight => PlanRight')
<1>1. Query[alternative]' = Query[alternative]
  BY DEF Query
<1>2. Asked' = Asked
  BY <1>1 DEF Asked
<1>3. ASSUME bestPlan' = bestPlan, RightAnswers PROVE RightAnswers'
  <2>1. \A t : executeStep(t)' = executeStep(t)
    BY <1>3 DEF executeStep
  <2> QED
    BY <1>1, <1>3, <2>1 DEF RightAnswers
<1> QED
  BY <1>1, <1>2, <1>3 DEF IsTame, Known, PlanRight

LEMMA CreatedAnswers == ASSUME PlanInv, AnswerInv, PlanCreated PROVE AnswerInv'
<1>1. /\ phase = "create" /\ phase' \in {"tasks", "next"}
      /\ UNCHANGED <<call, alternative, content, nodes, operators>>
  BY DEF PlanCreated, parsed
<1>2. IsTame' = IsTame /\ (Known => Known')
  BY <1>1, SameQuery
<1>3. IsTame => Known /\ Built
  BY <1>1 DEF AnswerInv
<1>4. IsTame => PlanRight'
  BY <1>1, <1>3, PlannedRight
<1> QED
  BY <1>1, <1>2, <1>3, <1>4 DEF AnswerInv

LEMMA RecreateAnswers == ASSUME PlanInv, AnswerInv, RecreatePlan PROVE AnswerInv'
<1>1. /\ phase = "tasks" /\ phase' = "create" /\ UNCHANGED <<call, alternative, content, nodes, operators>>
  BY DEF RecreatePlan, parsed, asking
<1>2. IsTame' = IsTame /\ (Known => Known')
  BY <1>1, SameQuery
<1>3. IsTame => Known
  BY <1>1 DEF AnswerInv
<1>4. IsFiniteSet(DOMAIN nodes') /\ StartPlan(nodes')
  BY <1>1 DEF RecreatePlan, StartPlan, PlanInv, Parsed
<1>5. IsTame => Built'
  BY <1>2, <1>3, <1>4, StartBuilt
<1> QED
  BY <1>1, <1>2, <1>3, <1>5 DEF AnswerInv

\* The plan and the query stay, and no plan is started.
LEMMA PlanStays ==
    ASSUME AnswerInv, UNCHANGED <<call, alternative, content, nodes, operators, bestPlan>>,
           phase \in {"find", "next", "tasks"}, phase' \in {"find", "next", "tasks"},
           phase = "tasks" <=> phase' = "tasks"
    PROVE  AnswerInv'
BY SameQuery DEF AnswerInv

LEMMA NoPlan ==
    ASSUME bestPlan' = None, phase' \notin {"create", "tasks"}
    PROVE  AnswerInv'
BY DEF AnswerInv

LEMMA AnswerNext == PlanInv /\ PlanInv' /\ AnswerInv /\ [Next]_vars => AnswerInv'
<1> SUFFICES ASSUME PlanInv, PlanInv', AnswerInv, [Next]_vars PROVE AnswerInv'
  OBVIOUS
<1>1. CASE OpenCorpus
  <2>1. bestPlan' = None /\ phase' \notin {"create", "tasks"}
    BY <1>1 DEF OpenCorpus, AnswerInv
  <2> QED
    BY <2>1, NoPlan
<1>2. CASE StopAtPage \/ QueryEnds \/ NextAlternative
  <2>1. bestPlan' = None /\ phase' \notin {"create", "tasks"}
    BY <1>2 DEF StopAtPage, QueryEnds, NextAlternative, CloseCorpus, Released
  <2> QED
    BY <2>1, NoPlan
<1>3. CASE CallNext
  <2>1. /\ UNCHANGED <<call, alternative, content, nodes, operators, bestPlan>>
        /\ phase \in {"find", "next"} /\ phase' \in {"find", "next"}
    BY <1>3 DEF CallNext, asking, parsed
  <2> QED
    BY <2>1, PlanStays
<1>4. CASE Finish
  BY <1>4 DEF Finish, AnswerInv
<1>5. CASE InternalInit
  BY <1>5, InitAnswers
<1>6. CASE JoinOperator
  BY <1>6, JoinAnswers
<1>7. CASE PlanCreated
  BY <1>7, CreatedAnswers
<1>8. CASE PlanFailed
  <2>1. CASE call.config.optimize
    BY <1>8, <2>1 DEF PlanFailed, AnswerInv
  <2>2. CASE ~call.config.optimize
    <3>1. bestPlan' = None /\ phase' \notin {"create", "tasks"}
      BY <1>8, <2>2 DEF PlanFailed, Released
    <3> QED
      BY <3>1, NoPlan
  <2> QED
    BY <2>1, <2>2
<1>9. CASE AssignTasks
  <2>1. /\ UNCHANGED <<call, alternative, content, nodes, operators, bestPlan>>
        /\ phase = "tasks" /\ phase' = "tasks"
    BY <1>9 DEF AssignTasks, asking, parsed
  <2> QED
    BY <2>1, PlanStays
<1>10. CASE RecreatePlan
  BY <1>10, RecreateAnswers
<1>11. CASE Answer
  <2>1. /\ UNCHANGED <<call, alternative, content, nodes, operators, bestPlan>>
        /\ phase \in {"find", "next"} /\ phase' \in {"find", "next"}
    BY <1>11 DEF Answer, parsed
  <2> QED
    BY <2>1, PlanStays
<1>12. CASE UNCHANGED vars
  <2>1. /\ UNCHANGED <<call, alternative, content, nodes, operators, bestPlan>>
        /\ UNCHANGED <<phase, operatorIdx, node2component, component2exec>>
    BY <1>12 DEF vars, asking, parsed, creating
  <2>2. Query[alternative]' = Query[alternative]
    BY <2>1 DEF Query
  <2>3. Asked' = Asked /\ Done' = Done /\ Comps' = Comps
    BY <2>1, <2>2 DEF Asked, Done, Comps
  <2>4. RightSoFar = RightSoFar' /\ NoneTwiceSoFar = NoneTwiceSoFar'
    BY <2>1, <2>3 DEF RightSoFar, NoneTwiceSoFar
  <2>5. Built => Built'
    BY <2>1, <2>2, <2>3, <2>4 DEF Built, Counted
  <2> QED
    BY <2>1, <2>5, SameQuery DEF AnswerInv
<1> QED
  BY <1>1, <1>2, <1>3, <1>4, <1>5, <1>6, <1>7, <1>8, <1>9, <1>10, <1>11, <1>12 DEF Next, Terminated

\* Whatever the corpus, the order of the operators and operands, the replaced
\* searches and the kinds of the joins, the plan of every tame query returns
\* each of its answers once and nothing else.
THEOREM PlansAnswerTheQuery == Spec => []AnswersAreTheQuery
<1>1. Init => PlanInv /\ AnswerInv
  BY PlanInit, AnswerInit
<1>2. PlanInv /\ AnswerInv /\ [Next]_vars => PlanInv' /\ AnswerInv'
  BY PlanNext, AnswerNext
<1>3. AnswerInv => AnswersAreTheQuery
  BY DEF AnswerInv, AnswersAreTheQuery, IsTame, PlanRight
<1> QED
  BY <1>1, <1>2, <1>3, PTL DEF Spec

----------------------------------------------------------------------------
(* find counts what the queries ask for: the answers that a plan has left   *)
(* are those that the corpus has not returned yet, each counted once.       *)

Ahead ==
    IF phase \in {"create", "tasks"} THEN Wanted(Query[alternative], content)
    ELSE IF bestPlan # None THEN {executeStep(t) : t \in pending} ELSE {}

\* In proxy mode the answers are not kept.
Returned == IF proxyMode THEN expected \ Ahead ELSE uniqueResultSet

Balance ==
    /\ total \in Nat
    /\ IsFiniteSet(Returned) /\ Returned \subseteq expected
    /\ expected \ Ahead \subseteq Returned /\ Ahead \subseteq expected
    /\ counter <= total + Cardinality(Returned)
    /\ ~PageIsFull(call.page) => counter = total + Cardinality(Returned)

\* What the phases say of the other state.
Track ==
    /\ phase \in {"corpus", "done"} =>
          content = None /\ bestPlan = None /\ pending = {} /\ expected = {} /\ uniqueResultSet = {}
    /\ phase \in {"create", "tasks"} => content # None
    /\ phase \in {"find", "next"} =>
          IF bestPlan = None THEN pending = {} ELSE content # None /\ pending \subseteq bestPlan.tuples
    /\ alternative \in Nat
    /\ content # None => alternative \in DOMAIN Query /\ IsTame
    /\ proxyMode /\ content = None /\ alternative < 2 => expected = {}

Paged ==
    /\ counter \in Nat
    /\ shown = IF counter > call.page[1] THEN counter - call.page[1] ELSE 0
    /\ call.page[2] > 0 => counter <= call.page[1] + call.page[2]
    /\ phase \in {"next", "create", "tasks"} => ~PageIsFull(call.page)

PageInv == Paged /\ (tame /\ phase # "crashed" => Track /\ Balance)

LEMMA Pages == PlanInv => /\ call.page[1] \in Nat /\ call.page[2] \in Nat
                          /\ Len(Query) \in Nat /\ DOMAIN Query = 1..Len(Query)
BY CallsAssumption DEF PlanInv, Parsed, Query

LEMMA PageInit == Init => PageInv
<1> SUFFICES ASSUME Init PROVE PageInv
  OBVIOUS
<1>1. /\ phase = "corpus" /\ content = None /\ bestPlan = None /\ pending = {} /\ expected = {} /\ uniqueResultSet = {}
      /\ alternative = 0 /\ total = 0 /\ counter = 0 /\ shown = 0
  BY DEF Init
<1>2. call.page[1] \in Nat /\ call.page[2] \in Nat
  BY PlanInit, Pages
<1>3. Ahead = {} /\ Returned = {}
  BY <1>1 DEF Ahead, Returned
<1>4. IsFiniteSet({}) /\ Cardinality({}) = 0
  BY FS_EmptySet
<1>5. Track
  BY <1>1 DEF Track
<1>6. Balance
  BY <1>1, <1>3, <1>4 DEF Balance
<1>7. Paged
  BY <1>1, <1>2 DEF Paged
<1> QED
  BY <1>5, <1>6, <1>7 DEF PageInv

\* Nothing is returned.
LEMMA PagedStays ==
    ASSUME Paged, UNCHANGED <<call, counter, shown>>,
           phase' \in {"next", "create", "tasks"} => ~PageIsFull(call.page)
    PROVE  Paged'
BY DEF Paged, PageIsFull

LEMMA BalanceStays ==
    ASSUME Balance, Ahead' = Ahead, UNCHANGED <<call, expected, uniqueResultSet, counter, total>>
    PROVE  Balance'
<1>1. Returned' = Returned
  BY DEF Returned, proxyMode, Query
<1> QED
  BY <1>1 DEF Balance, PageIsFull

\* The answers that the plan has left.
LEMMA AheadStays ==
    ASSUME UNCHANGED <<call, alternative, content, bestPlan, pending>>,
           phase \in {"create", "tasks"} <=> phase' \in {"create", "tasks"}
    PROVE  Ahead' = Ahead
<1>1. \A t : executeStep(t)' = executeStep(t)
  BY DEF executeStep
<1> QED
  BY <1>1 DEF Ahead, Query

\* A corpus is closed: what the queries asked for is counted.
LEMMA ClosePages ==
    ASSUME PageInv, CloseCorpus, UNCHANGED <<call, counter, shown, tame>>,
           tame => Track /\ Balance, tame => IsFiniteSet(Ahead),
           \/ PageIsFull(call.page)
           \/ tame => Ahead = {}
    PROVE  PageInv'
<1>1. /\ phase' = "corpus" /\ alternative' = 0 /\ uniqueResultSet' = {} /\ expected' = {}
      /\ content' = None /\ bestPlan' = None /\ pending' = {} /\ total' = total + Cardinality(expected)
  BY DEF CloseCorpus, Released
<1>2. Paged'
  BY <1>1, PagedStays DEF PageInv
<1>3. ASSUME tame PROVE Track' /\ Balance'
  <2>1. Track'
    BY <1>1 DEF Track
  <2>2. Ahead' = {} /\ Returned' = {}
    BY <1>1 DEF Ahead, Returned
  <2>3. IsFiniteSet({}) /\ Cardinality({}) = 0
    BY FS_EmptySet
  <2>4. IsFiniteSet(expected) /\ Cardinality(expected) \in Nat
    <3>1. IsFiniteSet(Returned \cup Ahead)
      BY <1>3, FS_Union DEF Balance
    <3>2. expected \subseteq Returned \cup Ahead
      BY <1>3 DEF Balance
    <3> QED
      BY <3>1, <3>2, FS_Subset, FS_CardinalityType
  <2>5. Cardinality(Returned) <= Cardinality(expected) /\ Cardinality(Returned) \in Nat
    BY <1>3, <2>4, FS_Subset, FS_CardinalityType DEF Balance
  <2>6. Ahead = {} => Returned = expected
    BY <1>3 DEF Balance
  <2>7. counter \in Nat /\ total \in Nat
    BY <1>3 DEF PageInv, Paged, Balance
  <2>8. counter <= total + Cardinality(expected)
    BY <1>3, <2>4, <2>5, <2>7 DEF Balance
  <2>9. ~PageIsFull(call.page) => counter = total + Cardinality(expected)
    BY <1>3, <2>6 DEF Balance
  <2>10. Balance'
    BY <1>1, <2>2, <2>3, <2>4, <2>7, <2>8, <2>9 DEF Balance, PageIsFull
  <2> QED
    BY <2>1, <2>10
<1> QED
  BY <1>2, <1>3 DEF PageInv

\* A plan has finitely many answers left.
LEMMA AheadFinite ==
    ASSUME AnswerInv, Track, phase \in {"find", "next"}
    PROVE  IsFiniteSet(Ahead)
<1>1. CASE bestPlan = None
  BY <1>1, FS_EmptySet DEF Ahead
<1>2. CASE bestPlan # None
  <2>1. IsTame /\ pending \subseteq bestPlan.tuples
    BY <1>2 DEF Track
  <2>2. IsFiniteSet(pending)
    BY <1>2, <2>1, FS_Subset DEF AnswerInv, PlanRight
  <2> DEFINE c == [t \in pending |-> executeStep(t)]
  <2>3. c \in Surjection(pending, Ahead)
    BY <1>2 DEF Surjection, Ahead
  <2> HIDE DEF c
  <2> QED
    BY <2>2, <2>3, FS_Surjection
<1> QED
  BY <1>1, <1>2

\* The views of different tuples differ.
LEMMA OneView ==
    ASSUME AnswerInv, phase \in {"find", "next"}, bestPlan # None, IsTame,
           NEW t \in bestPlan.tuples, NEW u \in bestPlan.tuples, executeStep(t) = executeStep(u)
    PROVE  t = u
<1> DEFINE T == bestPlan.tuples
           V == {executeStep(x) : x \in T}
           c == [x \in T |-> executeStep(x)]
<1>1. IsFiniteSet(T) /\ Cardinality(V) = Cardinality(T)
  BY DEF AnswerInv, PlanRight, RightAnswers
<1>2. c \in Surjection(T, V)
  BY DEF Surjection
<1>3. c[t] = c[u]
  OBVIOUS
<1> HIDE DEF T, V
<1>4. c \in Injection(T, V)
  <2> HIDE DEF c
  <2> QED
    BY <1>1, <1>2, FS_Surjection
<1>5. DOMAIN c = T /\ t \in T /\ u \in T
  BY DEF T
<1> HIDE DEF c
<1> QED
  BY <1>3, <1>4, <1>5 DEF Injection, IsInjective

\* next returns an answer, or drops one that was returned before.
LEMMA AnswerPages == ASSUME PlanInv, AnswerInv, PageInv, Answer PROVE PageInv'
<1> DEFINE tuple == CHOOSE t \in pending : TRUE
           v == executeStep(tuple)
           new == proxyMode \/ v \notin uniqueResultSet
<1>1. /\ phase = "next" /\ pending # {} /\ tuple \in pending /\ pending' = pending \ {tuple}
      /\ UNCHANGED <<call, alternative, content, nodes, operators, bestPlan, expected, total, tame>>
  BY DEF Answer, parsed, history
<1>2. IF new
        THEN /\ uniqueResultSet' = IF proxyMode THEN {} ELSE uniqueResultSet \cup {v}
             /\ counter' = counter + 1
             /\ shown' = IF counter >= call.page[1] THEN shown + 1 ELSE shown
             /\ phase' = "find"
        ELSE UNCHANGED <<uniqueResultSet, counter, shown, phase>>
  BY DEF Answer
<1> HIDE DEF tuple, v
<1>3. ~PageIsFull(call.page) /\ counter \in Nat /\ call.page[1] \in Nat /\ call.page[2] \in Nat
  BY <1>1, Pages DEF PageInv, Paged
<1>4. Paged'
  <2>1. CASE new
    BY <1>1, <1>2, <1>3, <2>1 DEF PageInv, Paged, PageIsFull
  <2>2. CASE ~new
    BY <1>1, <1>2, <1>3, <2>2 DEF PageInv, Paged, PageIsFull
  <2> QED
    BY <2>1, <2>2
<1>5. proxyMode' = proxyMode
  BY <1>1 DEF proxyMode, Query
<1>6. ASSUME tame PROVE Track' /\ Balance'
  <2>1. Track /\ Balance
    BY <1>1, <1>6 DEF PageInv
  <2>2. bestPlan # None /\ pending \subseteq bestPlan.tuples /\ content # None /\ IsTame
    BY <1>1, <2>1 DEF Track
  <2>3. Query' = Query /\ (IsTame' <=> IsTame) /\ phase' \in {"find", "next"}
    BY <1>1, <1>2 DEF Query, IsTame
  <2>4. Track'
    BY <1>1, <1>5, <2>1, <2>2, <2>3 DEF Track
  <2>5. Ahead = {executeStep(t) : t \in pending} /\ v \in Ahead
    BY <1>1, <2>2 DEF Ahead, v
  <2>6. Ahead' = Ahead \ {v}
    <3>1. \A t : executeStep(t)' = executeStep(t)
      BY <1>1 DEF executeStep
    <3>2. Ahead' = {executeStep(t) : t \in pending \ {tuple}}
      BY <1>1, <2>2, <2>3, <3>1 DEF Ahead
    <3>3. \A t \in pending : executeStep(t) = v => t = tuple
      BY <1>1, <2>2, OneView DEF v
    <3> QED
      BY <1>1, <2>5, <3>2, <3>3 DEF v
  <2>7. /\ total \in Nat /\ IsFiniteSet(Returned) /\ Returned \subseteq expected
        /\ expected \ Ahead \subseteq Returned /\ Ahead \subseteq expected
        /\ counter = total + Cardinality(Returned)
    BY <1>3, <2>1 DEF Balance
  <2>8. CASE new
    <3>1. v \notin Returned /\ Returned' = Returned \cup {v}
      <4>1. CASE proxyMode
        <5>1. Returned = expected \ Ahead /\ Returned' = expected \ (Ahead \ {v})
          BY <1>1, <1>5, <2>6, <4>1 DEF Returned
        <5> QED
          BY <2>5, <2>7, <5>1
      <4>2. CASE ~proxyMode
        BY <1>2, <1>5, <2>8, <4>2 DEF Returned
      <4> QED
        BY <4>1, <4>2
    <3>2. /\ IsFiniteSet(Returned') /\ Cardinality(Returned') = Cardinality(Returned) + 1
          /\ Cardinality(Returned) \in Nat
      BY <2>7, <3>1, FS_AddElement, FS_CardinalityType
    <3>3. counter' = total' + Cardinality(Returned')
      BY <1>1, <1>2, <2>7, <2>8, <3>2
    <3>4. Returned' \subseteq expected' /\ expected' \ Ahead' \subseteq Returned' /\ Ahead' \subseteq expected'
      BY <1>1, <2>5, <2>6, <2>7, <3>1
    <3>5. counter' \in Nat
      BY <1>4 DEF Paged
    <3> QED
      BY <1>1, <2>4, <2>7, <3>2, <3>3, <3>4, <3>5 DEF Balance
  <2>9. CASE ~new
    <3>1. Returned' = Returned /\ v \in Returned /\ counter' = counter
      BY <1>2, <1>5, <2>9 DEF Returned
    <3>2. Returned' \subseteq expected' /\ expected' \ Ahead' \subseteq Returned' /\ Ahead' \subseteq expected'
      BY <1>1, <2>5, <2>6, <2>7, <3>1
    <3> QED
      BY <1>1, <1>3, <2>4, <2>7, <3>1, <3>2 DEF Balance, PageIsFull
  <2> QED
    BY <2>8, <2>9
<1> QED
  BY <1>1, <1>4, <1>6 DEF PageInv

\* A query is parsed: what it asks for is ahead.
LEMMA InternalInitPages == ASSUME PlanInv, PageInv, InternalInit PROVE PageInv'
<1> DEFINE alt == Query[alternative]
<1>1. PICK c \in Contents(alt) :
         /\ content' = c /\ expected' = expected \cup Wanted(alt, c) /\ tame' = (tame /\ Tame(alt, c))
  BY DEF InternalInit
<1>2. /\ phase = "next" /\ phase' = "create" /\ alternative \in DOMAIN Query /\ content = None
      /\ UNCHANGED <<call, counter, shown, alternative, uniqueResultSet, total>>
  BY DEF InternalInit, finding, asking
<1>3. Query' = Query /\ proxyMode' = proxyMode /\ Query[alternative]' = alt
  BY <1>2 DEF Query, proxyMode
<1>4. c # None
  <2>1. call \in Calls /\ alternative \in DOMAIN call.query
    BY <1>2 DEF PlanInv, Parsed, Query
  <2> QED
    BY <1>1, <2>1, ContentsAssumption DEF Query
<1> HIDE DEF alt
<1>5. Paged'
  BY <1>2, PagedStays DEF PageInv, Paged
<1>6. ASSUME tame' PROVE Track' /\ Balance'
  <2>1. tame /\ Tame(alt, c) /\ Track /\ Balance
    BY <1>1, <1>2, <1>6 DEF PageInv
  <2>2. IsTame'
    BY <1>1, <1>3, <2>1 DEF IsTame
  <2>3. Track'
    BY <1>1, <1>2, <1>3, <1>4, <2>1, <2>2 DEF Track
  <2>4. Ahead = {} /\ Ahead' = Wanted(alt, c)
    BY <1>1, <1>2, <1>3, <2>1 DEF Ahead, Track
  <2>5. Returned' = Returned
    <3>1. CASE proxyMode
      <4>1. alternative < 2
        BY <1>2, <3>1, Pages DEF proxyMode
      <4>2. expected = {}
        BY <1>2, <2>1, <3>1, <4>1 DEF Track
      <4> QED
        BY <1>1, <1>3, <2>4, <3>1, <4>2 DEF Returned
    <3>2. CASE ~proxyMode
      BY <1>2, <1>3, <3>2 DEF Returned
    <3> QED
      BY <3>1, <3>2
  <2>6. Balance'
    BY <1>1, <1>2, <2>1, <2>4, <2>5 DEF Balance, PageIsFull
  <2> QED
    BY <2>3, <2>6
<1> QED
  BY <1>5, <1>6 DEF PageInv

\* A tame query has a plan.
LEMMA TamePlans ==
    ASSUME PlanInv, AnswerInv, IsTame, phase = "create", operatorIdx \notin DOMAIN operators
    PROVE  OneComponent
<1> DEFINE alt == Query[alternative]
           S == Own(node2component, node2component[1])
<1>1. Known /\ Built
  BY DEF AnswerInv
<1>2. 1 \in DOMAIN nodes /\ DOMAIN nodes = DOMAIN alt.searches /\ DOMAIN node2component = DOMAIN nodes
  BY <1>1 DEF PlanInv, Parsed, Maps, Known, Meant, Asked
<1>3. Done = DOMAIN operators
  <2>1. /\ DOMAIN operators = 1..Len(alt.ops) /\ Len(alt.ops) \in Nat /\ operatorIdx \in 1..Len(alt.ops) + 1
    BY <1>1 DEF Known, Given, Built, Counted
  <2> QED
    BY <2>1 DEF Done
<1>4. S \subseteq DOMAIN alt.searches /\ 1 \in S
  BY <1>2 DEF Own
<1>5. Closed(S, Done, Asked)
  BY <1>1, <1>2 DEF Built, RightSoFar
<1>6. \A o \in DOMAIN alt.ops : alt.ops[o].lhs \in S <=> alt.ops[o].rhs \in S
  <2> SUFFICES ASSUME NEW o \in DOMAIN alt.ops PROVE alt.ops[o].lhs \in S <=> alt.ops[o].rhs \in S
    OBVIOUS
  <2>1. PICK k \in DOMAIN operators : Same(operators[k], alt.ops[o], content.rel[o])
    BY <1>1 DEF Known, Meant, Asked
  <2>2. operators[k].lhs \in S <=> operators[k].rhs \in S
    BY <1>3, <1>5 DEF Closed, Asked
  <2> QED
    BY <2>1, <2>2 DEF Same
<1>7. Connected(alt)
  BY DEF IsTame, Tame
<1>8. S = DOMAIN alt.searches
  <2> HIDE DEF S, alt
  <2> QED
    BY <1>4, <1>6, <1>7 DEF Connected
<1> QED
  BY <1>2, <1>8 DEF OneComponent, Own

LEMMA CreatedPages == ASSUME PlanInv, AnswerInv, PageInv, PlanCreated PROVE PageInv'
<1>1. /\ phase = "create" /\ phase' \in {"tasks", "next"} /\ operatorIdx \notin DOMAIN operators
      /\ UNCHANGED <<call, alternative, content, nodes, operators, counter, shown, uniqueResultSet, expected, total, tame>>
      /\ pending' = bestPlan'.tuples
  BY DEF PlanCreated, parsed, finding, history
<1>2. Query' = Query /\ (IsTame' <=> IsTame) /\ proxyMode' = proxyMode
  BY <1>1 DEF Query, IsTame, proxyMode
<1>3. Paged'
  BY <1>1, PagedStays DEF PageInv, Paged
<1>4. ASSUME tame PROVE Track' /\ Balance'
  <2>1. Track /\ Balance /\ content # None /\ IsTame
    BY <1>1, <1>4 DEF PageInv, Track
  <2>2. Known /\ Built
    BY <1>1, <2>1 DEF AnswerInv
  <2>3. PlanRight' /\ bestPlan' # None
    BY <1>1, <2>1, <2>2, PlannedRight
  <2>4. Track'
    BY <1>1, <1>2, <2>1, <2>3 DEF Track
  <2>5. Ahead' = Ahead
    <3>1. Ahead = Wanted(Query[alternative], content)
      BY <1>1 DEF Ahead
    <3>2. CASE phase' = "tasks"
      BY <1>1, <1>2, <3>1, <3>2 DEF Ahead
    <3>3. CASE phase' = "next"
      <4>1. Ahead' = {executeStep(t)' : t \in bestPlan'.tuples}
        BY <1>1, <2>3, <3>3 DEF Ahead
      <4>2. {executeStep(t)' : t \in bestPlan'.tuples} = Wanted(Query[alternative], content)'
        BY <2>3 DEF PlanRight, RightAnswers
      <4> QED
        BY <1>1, <1>2, <3>1, <4>1, <4>2
    <3> QED
      BY <1>1, <3>2, <3>3
  <2>6. Balance'
    BY <1>1, <2>1, <2>5, BalanceStays
  <2> QED
    BY <2>4, <2>6
<1> QED
  BY <1>1, <1>3, <1>4 DEF PageInv

\* Steps that only work on the plan, or none.
LEMMA WorkPages ==
    ASSUME PlanInv, PageInv, UNCHANGED <<call, alternative, content, bestPlan, pending, uniqueResultSet>>,
           UNCHANGED <<counter, shown, expected, total, tame>>,
           \/ phase \in {"create", "tasks"} /\ phase' \in {"create", "tasks"}
           \/ phase = "find" /\ phase' = "next" /\ ~PageIsFull(call.page)
           \/ phase = "corpus" /\ phase' = "done"
           \/ phase' = phase
    PROVE  PageInv'
<1>1. Paged'
  BY PagedStays DEF PageInv, Paged
<1>2. Ahead' = Ahead
  BY AheadStays
<1>3. Balance => Balance'
  BY <1>2, BalanceStays
<1>4. phase # "crashed" /\ Track => Track'
  BY DEF Track, Query, proxyMode, IsTame
<1>5. phase' # "crashed" => phase # "crashed"
  OBVIOUS
<1> QED
  BY <1>1, <1>3, <1>4, <1>5 DEF PageInv

LEMMA OpenPages == ASSUME PlanInv, PageInv, OpenCorpus PROVE PageInv'
<1>1. /\ phase = "corpus"
      /\ \/ phase' = "find" /\ alternative' = 1
         \/ UNCHANGED <<phase, alternative>>
      /\ UNCHANGED <<call, content, bestPlan, pending, uniqueResultSet, counter, shown, expected, total, tame>>
  BY DEF OpenCorpus, parsed, history
<1>2. Paged'
  BY <1>1, PagedStays DEF PageInv
<1>3. ASSUME tame PROVE Track' /\ Balance'
  <2>1. /\ Track /\ Balance /\ content = None /\ bestPlan = None /\ expected = {}
    BY <1>1, <1>3 DEF PageInv, Track
  <2>2. Ahead = {} /\ Ahead' = {}
    BY <1>1, <2>1 DEF Ahead
  <2>3. Balance'
    BY <1>1, <2>1, <2>2, BalanceStays
  <2>4. pending = {}
    BY <1>1, <2>1 DEF Track
  <2>5. Track'
    BY <1>1, <2>1, <2>4 DEF Track, Query, proxyMode
  <2> QED
    BY <2>3, <2>5
<1> QED
  BY <1>1, <1>2, <1>3 DEF PageInv

\* The next alternative.
LEMMA NextPages == ASSUME PlanInv, PageInv, NextAlternative PROVE PageInv'
<1>1. /\ phase = "next" /\ phase' = "next" /\ bestPlan # None /\ pending = {} /\ alternative' = alternative + 1
      /\ UNCHANGED <<call, uniqueResultSet, counter, shown, expected, total, tame>>
      /\ pending' = {} /\ content' = None /\ bestPlan' = None
  BY DEF NextAlternative, Released, finding, history
<1>2. Query' = Query /\ proxyMode' = proxyMode
  BY <1>1 DEF Query, proxyMode
<1>3. Paged'
  BY <1>1, PagedStays DEF PageInv, Paged
<1>4. ASSUME tame PROVE Track' /\ Balance'
  <2>1. Track /\ Balance /\ alternative \in DOMAIN Query
    BY <1>1, <1>4 DEF PageInv, Track
  <2>2. ~(alternative' < 2) /\ alternative' \in Nat
    BY <1>1, <2>1, Pages
  <2>3. Track'
    BY <1>1, <1>2, <2>2 DEF Track
  <2>4. Ahead = {} /\ Ahead' = {}
    BY <1>1 DEF Ahead
  <2>5. Balance'
    BY <1>1, <2>1, <2>4, BalanceStays
  <2> QED
    BY <2>3, <2>5
<1> QED
  BY <1>1, <1>3, <1>4 DEF PageInv

LEMMA PageNext == PlanInv /\ PlanInv' /\ AnswerInv /\ PageInv /\ [Next]_vars => PageInv'
<1> SUFFICES ASSUME PlanInv, AnswerInv, PageInv, [Next]_vars PROVE PageInv'
  OBVIOUS
<1>1. CASE OpenCorpus
  BY <1>1, OpenPages
<1>2. CASE StopAtPage
  <2>1. /\ CloseCorpus /\ UNCHANGED <<call, counter, shown, tame>> /\ PageIsFull(call.page) /\ phase = "find"
    BY <1>2 DEF StopAtPage
  <2>2. tame => Track /\ Balance
    BY <2>1 DEF PageInv
  <2>3. tame => IsFiniteSet(Ahead)
    BY <2>1, <2>2, AheadFinite
  <2> QED
    BY <2>1, <2>2, <2>3, ClosePages
<1>3. CASE QueryEnds
  <2>1. /\ CloseCorpus /\ UNCHANGED <<call, counter, shown, tame>> /\ phase = "next" /\ alternative \notin DOMAIN Query
    BY <1>3 DEF QueryEnds
  <2>2. tame => Track /\ Balance
    BY <2>1 DEF PageInv
  <2>3. tame => Ahead = {}
    BY <2>1, <2>2 DEF Track, Ahead
  <2>4. tame => IsFiniteSet(Ahead)
    BY <2>3, FS_EmptySet
  <2> QED
    BY <2>1, <2>2, <2>3, <2>4, ClosePages
<1>4. CASE CallNext
  <2>1. /\ phase = "find" /\ phase' = "next" /\ ~PageIsFull(call.page)
        /\ UNCHANGED <<call, alternative, content, bestPlan, pending, uniqueResultSet>>
        /\ UNCHANGED <<counter, shown, expected, total, tame>>
    BY <1>4 DEF CallNext, asking, parsed, finding, history
  <2> QED
    BY <2>1, WorkPages
<1>5. CASE Finish
  <2>1. /\ phase = "corpus" /\ phase' = "done"
        /\ UNCHANGED <<call, alternative, content, bestPlan, pending, uniqueResultSet>>
        /\ UNCHANGED <<counter, shown, expected, total, tame>>
    BY <1>5 DEF Finish, asking, parsed, finding, history
  <2> QED
    BY <2>1, WorkPages
<1>6. CASE InternalInit
  BY <1>6, InternalInitPages
<1>7. CASE JoinOperator
  <2>1. /\ phase' = phase
        /\ UNCHANGED <<call, alternative, content, bestPlan, pending, uniqueResultSet>>
        /\ UNCHANGED <<counter, shown, expected, total, tame>>
    BY <1>7 DEF JoinOperator, asking, parsed, finding, history
  <2> QED
    BY <2>1, WorkPages
<1>8. CASE PlanCreated
  BY <1>8, CreatedPages
<1>9. CASE PlanFailed
  <2>1. /\ phase = "create" /\ operatorIdx \notin DOMAIN operators /\ ~OneComponent /\ phase' \in {"crashed", "next"}
        /\ UNCHANGED <<call, counter, shown, tame>>
    BY <1>9 DEF PlanFailed, finding, history
  <2>2. ~tame
    <3> SUFFICES ASSUME tame PROVE FALSE
      OBVIOUS
    <3>1. IsTame
      BY <2>1 DEF PageInv, Track
    <3> QED
      BY <2>1, <3>1, TamePlans
  <2>3. Paged'
    BY <2>1, PagedStays DEF PageInv, Paged
  <2> QED
    BY <2>1, <2>2, <2>3 DEF PageInv
<1>10. CASE AssignTasks
  <2>1. /\ phase' = phase
        /\ UNCHANGED <<call, alternative, content, bestPlan, pending, uniqueResultSet>>
        /\ UNCHANGED <<counter, shown, expected, total, tame>>
    BY <1>10 DEF AssignTasks, asking, parsed, finding, history
  <2> QED
    BY <2>1, WorkPages
<1>11. CASE RecreatePlan
  <2>1. /\ phase \in {"create", "tasks"} /\ phase' \in {"create", "tasks"}
        /\ UNCHANGED <<call, alternative, content, bestPlan, pending, uniqueResultSet>>
        /\ UNCHANGED <<counter, shown, expected, total, tame>>
    BY <1>11 DEF RecreatePlan, asking, parsed, finding, history
  <2> QED
    BY <2>1, WorkPages
<1>12. CASE Answer
  BY <1>12, AnswerPages
<1>13. CASE NextAlternative
  BY <1>13, NextPages
<1>14. CASE UNCHANGED vars
  <2>1. /\ phase' = phase
        /\ UNCHANGED <<call, alternative, content, bestPlan, pending, uniqueResultSet>>
        /\ UNCHANGED <<counter, shown, expected, total, tame>>
    BY <1>14 DEF vars, asking, parsed, finding, history
  <2> QED
    BY <2>1, WorkPages
<1> QED
  BY <1>1, <1>2, <1>3, <1>4, <1>5, <1>6, <1>7, <1>8, <1>9, <1>10, <1>11, <1>12, <1>13, <1>14 DEF Next, Terminated

LEMMA PageFollows == PlanInv /\ PageInv => PageIsRight
<1> SUFFICES ASSUME PlanInv, PageInv, phase = "done", tame
             PROVE  LET rest  == IF total > call.page[1] THEN total - call.page[1] ELSE 0
                        limit == call.page[2]
                    IN  shown = IF limit > 0 /\ limit < rest THEN limit ELSE rest
  BY DEF PageIsRight
<1>1. /\ expected = {} /\ uniqueResultSet = {} /\ bestPlan = None /\ Balance
  BY DEF PageInv, Track
<1>2. Returned = {} /\ Cardinality({}) = 0
  BY <1>1, FS_EmptySet DEF Returned
<1>3. /\ total \in Nat /\ counter \in Nat /\ counter <= total
      /\ ~PageIsFull(call.page) => counter = total
  BY <1>1, <1>2 DEF Balance, PageInv, Paged
<1>4. call.page[1] \in Nat /\ call.page[2] \in Nat
  BY Pages
<1> QED
  BY <1>3, <1>4 DEF PageInv, Paged, PageIsFull

\* However many corpora and alternatives there are, and however their answers
\* repeat: if the queries are tame, find shows the answers from offset on, up
\* to limit of them.
THEOREM FindShowsThePage == Spec => []PageIsRight
<1>1. Init => PlanInv /\ AnswerInv /\ PageInv
  BY PlanInit, AnswerInit, PageInit
<1>2. PlanInv /\ AnswerInv /\ PageInv /\ [Next]_vars => PlanInv' /\ AnswerInv' /\ PageInv'
  BY PlanNext, AnswerNext, PageNext
<1>3. PlanInv /\ PageInv => PageIsRight
  BY PageFollows
<1> QED
  BY <1>1, <1>2, <1>3, PTL DEF Spec
=============================================================================
