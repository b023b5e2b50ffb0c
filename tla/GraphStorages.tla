--------------------------- MODULE GraphStorages ---------------------------
(****************************************************************************)
(* One component of a corpus and its graph storage: its statistics, the     *)
(* implementation that GraphStorageRegistry chooses by them, the copy that  *)
(* DB::convertComponent makes (AdjacencyListStorage, PrePostOrderStorage,   *)
(* LinearStorage), and what each implementation answers about connections.  *)
(* Every traversal is a DFS; edge labels are left out (see GraphUpdate).    *)
(****************************************************************************)
EXTENDS DFS, Integers, FiniteSets, FiniteSetsExt, SequencesExt, Functions

CONSTANTS
    Components,            \* the edge sets to begin with
    Windows,               \* <<minDistance, maxDistance>> of the questions
    Uint8Max, Uint16Max, Uint32Max, Int8Max, Int32Max,   \* numeric_limits::max
    VisitRatio,            \* the 1.03 of getImplByHeuristics, in percent
    MaxDeletes, MaxConversions     \* bounds on the operations

ASSUME StoragesAssumption ==
    /\ Nodes \subseteq Nat /\ IsFiniteSet(Nodes)
    /\ \A E \in Components : \A e \in E : e \in Nodes \X Nodes /\ e[1] # e[2]
    /\ \A w \in Windows : w \in (1..Far) \X (0..Far)

\* The widest types are wide enough for the nodes of a corpus: no distance reaches
\* Far, and the copy, which does not check them, counts every way to a node twice.
ASSUME WidthsAssumption ==
    /\ {Uint8Max, Uint16Max, Uint32Max, Int8Max, Int32Max} \subseteq Nat \ {0}
    /\ Cardinality(Nodes) <= Far /\ Cardinality(Nodes) <= Int32Max
    /\ VisitRatio \in Nat /\ VisitRatio >= 100
    /\ 2 * VisitRatio * Cardinality(Nodes) <= 100 * Uint32Max

VARIABLES
    storage,        \* the implementation and its data
    copied,         \* the storage that is being filled
    stat,           \* GraphStatistic
    phase, wanted,  \* what is going on; the argument impl of convertComponent
    roots,          \* roots that are still to be traversed
    visits,         \* numberOfVisits
    currentOrder, nodeStack,     \* of PrePostOrderStorage::copy
    question, answer,
    deletes, conversions,
    measured        \* history: what the statistics were taken of, and when

copying == <<copied, roots, visits, currentOrder, nodeStack>>
asking  == <<question, answer>>
budget  == <<deletes, conversions, measured>>
vars    == <<dfsVars, storage, stat, phase, wanted, copying, asking, budget>>

----------------------------------------------------------------------------
Adjacency        == [kind |-> "adjacency"]
Linear(pos)      == [kind |-> "linear", pos |-> pos]
PrePost(ord, lv) == [kind |-> "prepost", order |-> ord, level |-> lv]

\* Assignments to an unsigned and to a signed integer of this maximum.
Unsigned(x, max) == x % (max + 1)
Signed(x, max)   == ((x + max + 1) % (2 * max + 2)) - (max + 1)

Empty(i) == [impl |-> i, edges |-> {}, order |-> {}, node2pos |-> <<>>, nodeChains |-> <<>>]

Abs(x) == IF x < 0 THEN -x ELSE x

----------------------------------------------------------------------------
(* PrePostOrderStorage: order holds an entry for every way to reach a node. *)

Below(x, y) == x.pre <= y.pre /\ y.post <= x.post

\* Mutant: the level is not looked at.
PrePostConnectedAnyLevel(s, m, n, min, max) ==
    \E x, y \in s.order : x.node = m /\ y.node = n /\ x # y /\ Below(x, y)

PrePostConnected(s, m, n, min, max) ==
    \E x, y \in s.order :
        /\ x.node = m /\ y.node = n /\ Below(x, y)
        /\ Abs(y.level - x.level) \in min..max

\* PrePostIterator: one range of pre-orders for every entry of the start node.
PrePostFind(s, m, min, max) ==
    SetToSeq({n \in Nodes : \E x, y \in s.order :
        /\ x.node = m /\ y.node = n
        /\ x.pre <= y.pre /\ y.pre <= x.post /\ y.post <= x.post
        /\ Abs(y.level - x.level) \in min..max})

PrePostDistance(s, m, n) ==
    LET pairs   == {p \in s.order \X s.order : /\ p[1].node = m /\ p[2].node = n
                                               /\ Below(p[1], p[2])
                                               /\ p[2].level >= p[1].level}
        between == {p[2].level - p[1].level : p \in pairs}
    IN  IF m = n THEN 0 ELSE IF between = {} THEN -1 ELSE Min(between)

(* LinearStorage: the position of a node in the chain of its root.          *)

Positioned(s, n) == n \in DOMAIN s.node2pos

LinearConnected(s, m, n, min, max) ==
    /\ Positioned(s, m) /\ Positioned(s, n)
    /\ s.node2pos[m].root = s.node2pos[n].root
    /\ s.node2pos[m].pos <= s.node2pos[n].pos
    /\ s.node2pos[n].pos - s.node2pos[m].pos \in min..max

\* LinearIterator; positions count from 0.
LinearFind(s, m, min, max) ==
    IF ~Positioned(s, m) THEN <<>>
    ELSE LET at    == s.node2pos[m].pos
             chain == s.nodeChains[s.node2pos[m].root]
             end   == IF max = Far THEN s.impl.pos ELSE at + max
         IN  SubSeq(chain, at + min + 1, IF end < Len(chain) THEN end + 1 ELSE Len(chain))

LinearDistance(s, m, n) ==
    IF LinearConnected(s, m, n, 0, Far) THEN s.node2pos[n].pos - s.node2pos[m].pos ELSE -1

\* The order of the set that holds the edges of an AdjacencyListStorage.
Ascending(S) ==
    CHOOSE f \in [1..Cardinality(S) -> S] : \A i, j \in DOMAIN f : i < j => f[i] < f[j]

getOutgoingEdges(s, n) ==
    CASE s.impl.kind = "adjacency" -> Ascending({e[2] : e \in {f \in s.edges : f[1] = n}})
      [] s.impl.kind = "linear"    -> LinearFind(s, n, 1, 1)
      [] s.impl.kind = "prepost"   -> PrePostFind(s, n, 1, 1)

OutgoingOf(s) == [n \in Nodes |-> getOutgoingEdges(s, n)]

\* The edges a storage presents to its users, and those without an incoming one.
EdgesOf(s) == UNION {{<<n, t>> : t \in Range(getOutgoingEdges(s, n))} : n \in Nodes}
Sources(E) == {e[1] : e \in E}
RootsOf(E) == Sources(E) \ {e[2] : e \in E}

----------------------------------------------------------------------------
NoStatistics == [valid |-> FALSE, cyclic |-> FALSE, rootedTree |-> TRUE, nodes |-> 0,
                 maxFanOut |-> 0, maxDepth |-> 1, visits |-> 0]

NoQuestion == [kind |-> "none"]

Init ==
    /\ storage \in {[Empty(Adjacency) EXCEPT !.edges = E] : E \in Components}
    /\ gs = OutgoingOf(storage) /\ cycleSafe = TRUE
    /\ startNode = 0 /\ minDistance = 0 /\ maxDistance = 0
    /\ traversalStack = <<>> /\ lastDistance = 0 /\ cycleDetected = FALSE
    /\ nodesInCurrentPath = {} /\ distanceToNode = {} /\ outputted = {}
    /\ stat = NoStatistics /\ phase = "ready" /\ wanted = "none"
    /\ copied = Empty(Adjacency) /\ roots = {} /\ visits = 0
    /\ currentOrder = 0 /\ nodeStack = <<>>
    /\ question = NoQuestion /\ answer = FALSE
    /\ deletes = 0 /\ conversions = 0 /\ measured = [edges |-> {}, deletes |-> 0]

\* A deleted edge leaves the statistics valid, an added one does not.
deleteEdge ==
    /\ phase = "ready" /\ storage.impl = Adjacency /\ deletes < MaxDeletes
    /\ \E e \in storage.edges : storage' = [storage EXCEPT !.edges = @ \ {e}]
    /\ deletes' = deletes + 1
    /\ UNCHANGED <<dfsVars, stat, phase, wanted, copying, asking, conversions, measured>>

----------------------------------------------------------------------------
(* AdjacencyListStorage::calculateStatistics                                *)

convertComponent(impl) ==
    /\ phase = "ready" /\ conversions < MaxConversions
    /\ wanted' = impl
    /\ phase' = IF stat.valid THEN "choose" ELSE "measure"
    /\ conversions' = conversions + 1
    /\ UNCHANGED <<dfsVars, storage, stat, copying, asking, deletes, measured>>

BeginStatistics ==
    /\ phase = "measure"
    /\ LET E == storage.edges IN
          /\ stat' = [NoStatistics EXCEPT
                !.cyclic = RootsOf(E) = {} /\ E # {},
                !.rootedTree = \A e, f \in E : e[2] = f[2] => e = f,
                !.nodes = Cardinality(UNION {{e[1], e[2]} : e \in E}),
                !.maxFanOut = Max({0} \cup {Len(getOutgoingEdges(storage, n)) : n \in Nodes})]
          /\ roots' = RootsOf(E)
    /\ visits' = 0 /\ measured' = [edges |-> storage.edges, deletes |-> deletes]
    /\ phase' = "statistics"
    /\ UNCHANGED <<dfsVars, storage, wanted, copied, currentOrder, nodeStack, asking,
                   deletes, conversions>>

NextRoot == Exhausted /\ roots # {}

MeasureRoot ==
    /\ phase = "statistics" /\ NextRoot
    /\ roots' = roots \ {Min(roots)}
    /\ Construct(OutgoingOf(storage), TRUE, Min(roots), 0, Far)
    /\ UNCHANGED <<storage, stat, phase, wanted, copied, visits, currentOrder, nodeStack,
                   asking, budget>>

Measure ==
    /\ phase = "statistics"
    /\ Enter
    /\ visits' = visits + 1
    /\ stat' = [stat EXCEPT !.maxDepth = Max({@, distance})]
    /\ UNCHANGED <<storage, phase, wanted, copied, roots, currentOrder, nodeStack, asking, budget>>

\* dfs.cyclic() is read when the traversal ends.
MeasureCycle ==
    /\ phase = "statistics"
    /\ RejectCycle
    /\ stat' = [stat EXCEPT !.cyclic = TRUE]
    /\ UNCHANGED <<storage, phase, wanted, copying, asking, budget>>

EndStatistics ==
    /\ phase = "statistics" /\ Exhausted /\ roots = {}
    /\ stat' = [stat EXCEPT !.valid = TRUE,
                            !.rootedTree = @ /\ ~stat.cyclic,
                            !.maxDepth = IF stat.cyclic THEN 0 ELSE @,
                            !.visits = IF stat.cyclic THEN 0 ELSE visits]
    /\ phase' = "choose"
    /\ UNCHANGED <<dfsVars, storage, wanted, copying, asking, budget>>

----------------------------------------------------------------------------
(* GraphStorageRegistry                                                     *)

\* Mutant: half of the entries that a node has in pre- and post-order.
getPrePostOrderBySizeHalf(isTree) ==
    PrePost(IF isTree /\ stat.nodes < Uint16Max THEN Uint16Max ELSE Uint32Max, Int32Max)

getPrePostOrderBySize(isTree) ==
    LET few  == stat.nodes < Uint16Max \div 2
        flat == stat.maxDepth < Int8Max
    IN  PrePost(IF isTree /\ few /\ (flat \/ stat.maxDepth < Int32Max)
                THEN Uint16Max ELSE Uint32Max,
                IF flat /\ (isTree => stat.nodes < Uint32Max \div 2)
                THEN Int8Max ELSE Int32Max)

LinearBySize ==
    Linear(CASE stat.maxDepth < Uint8Max  -> Uint8Max
             [] stat.maxDepth >= Uint8Max /\ stat.maxDepth < Uint16Max -> Uint16Max
             [] OTHER -> Uint32Max)

AlmostTree == ~stat.cyclic /\ stat.visits * 100 <= VisitRatio * stat.nodes

getImplByHeuristics ==
    IF ~stat.valid \/ stat.maxDepth <= 1 THEN Adjacency
    ELSE IF stat.rootedTree
         THEN IF stat.maxFanOut <= 1 THEN LinearBySize ELSE getPrePostOrderBySize(TRUE)
    ELSE IF AlmostTree THEN getPrePostOrderBySize(FALSE) ELSE Adjacency

Chosen == IF wanted = "adjacency" THEN Adjacency ELSE getImplByHeuristics

----------------------------------------------------------------------------
(* copy                                                                     *)

KeepStorage ==
    /\ phase = "choose" /\ Chosen = storage.impl
    /\ phase' = "ready"
    /\ UNCHANGED <<dfsVars, storage, stat, wanted, copying, asking, budget>>

BeginCopy ==
    /\ phase = "choose" /\ Chosen # storage.impl
    /\ copied' = [Empty(Chosen) EXCEPT !.edges =
                     IF Chosen = Adjacency THEN EdgesOf(storage) ELSE {}]
    /\ roots' = IF Chosen = Adjacency THEN {} ELSE RootsOf(EdgesOf(storage))
    /\ currentOrder' = 0
    /\ phase' = "copy"
    /\ UNCHANGED <<dfsVars, storage, stat, wanted, visits, nodeStack, asking, budget>>

\* exitNode, until the stack has this size: post-orders from the top downwards.
Exited(size) ==
    {[node  |-> nodeStack[i].node, pre |-> nodeStack[i].pre, level |-> nodeStack[i].level,
      post  |-> Unsigned(currentOrder + Len(nodeStack) - i, copied.impl.order)] :
        i \in (size + 1)..Len(nodeStack)}

\* exitNode down to the parent, then enterNode. Going deeper exits nobody.
Order(n, d) ==
    LET size == IF Len(nodeStack) < d THEN Len(nodeStack) ELSE d
        next == currentOrder + Len(nodeStack) - size
    IN  /\ copied' = [copied EXCEPT !.order = @ \cup Exited(size)]
        /\ nodeStack' = SubSeq(nodeStack, 1, size) \o
              <<[node |-> n, pre |-> Unsigned(next, copied.impl.order),
                 level |-> Signed(d, copied.impl.level)]>>
        /\ currentOrder' = Unsigned(next + 1, copied.impl.order)

PositionIn(chain) == Unsigned(Len(chain) - 1, copied.impl.pos)

Chain(n, root, before) ==
    LET chain == Append(before, n) IN
        /\ copied' = [copied EXCEPT
              !.nodeChains = [r \in DOMAIN @ \cup {root} |-> IF r = root THEN chain ELSE @[r]],
              !.node2pos   = [m \in DOMAIN @ \cup {n} |->
                                 IF m = n THEN [root |-> root, pos |-> PositionIn(chain)]
                                 ELSE @[m]]]
        /\ UNCHANGED <<currentOrder, nodeStack>>

\* Every open node is exited before the next root: its entry takes level 0.
CopyRoot ==
    /\ phase = "copy" /\ NextRoot
    /\ LET r == Min(roots) IN
          /\ roots' = roots \ {r}
          /\ IF copied.impl.kind = "prepost" THEN Order(r, 0) ELSE Chain(r, r, <<>>)
          /\ Construct(OutgoingOf(storage), TRUE, r, 1, Far)
    /\ UNCHANGED <<storage, stat, phase, wanted, visits, asking, budget>>

\* A cycle that the statistics missed is left out.
Copy ==
    /\ phase = "copy"
    /\ Traverse
    /\ IF ~Found \/ node \in PathLeft THEN UNCHANGED <<copied, currentOrder, nodeStack>>
       ELSE IF copied.impl.kind = "prepost" THEN Order(node, distance)
       ELSE Chain(node, startNode, copied.nodeChains[startNode])
    /\ UNCHANGED <<storage, stat, phase, wanted, roots, visits, asking, budget>>

EndCopy ==
    /\ phase = "copy" /\ Exhausted /\ roots = {}
    /\ storage' = IF copied.impl.kind = "prepost"
                  THEN [copied EXCEPT !.order = @ \cup Exited(0)] ELSE copied
    /\ copied' = Empty(Adjacency) /\ nodeStack' = <<>>
    /\ phase' = "ready"
    /\ UNCHANGED <<dfsVars, stat, wanted, roots, visits, currentOrder, asking, budget>>

----------------------------------------------------------------------------
(* Questions. An adjacency list searches, the others look up.               *)

Answer(a) == answer' = a /\ phase' = "answered"

Lookup(q) ==
    LET s == storage IN
    CASE q.kind = "findConnected" ->
            IF s.impl.kind = "linear" THEN LinearFind(s, q.source, q.min, q.max)
                                      ELSE PrePostFind(s, q.source, q.min, q.max)
      [] q.kind = "isConnected" ->
            IF s.impl.kind = "linear" THEN LinearConnected(s, q.source, q.target, q.min, q.max)
                                      ELSE PrePostConnected(s, q.source, q.target, q.min, q.max)
      [] q.kind = "distance" ->
            IF s.impl.kind = "linear" THEN LinearDistance(s, q.source, q.target)
                                      ELSE PrePostDistance(s, q.source, q.target)

IsEdgeQuestion(q) == q.kind = "isConnected" /\ q.min = 1 /\ q.max = 1

Ask(q) ==
    /\ question' = q
    /\ IF storage.impl # Adjacency
       THEN Answer(Lookup(q)) /\ UNCHANGED dfsVars
       ELSE IF IsEdgeQuestion(q)
       THEN Answer(<<q.source, q.target>> \in storage.edges) /\ UNCHANGED dfsVars
       ELSE /\ Construct(OutgoingOf(storage), q.kind # "findConnected", q.source, q.min, q.max)
            /\ answer' = <<>>
            /\ phase' = "search"
    /\ UNCHANGED <<storage, stat, wanted, copying, budget>>

findConnected == phase = "ready" /\ \E n \in Nodes, w \in Windows :
    Ask([kind |-> "findConnected", source |-> n, min |-> w[1], max |-> w[2]])
isConnected   == phase = "ready" /\ \E m, n \in Nodes, w \in Windows :
    Ask([kind |-> "isConnected", source |-> m, target |-> n, min |-> w[1], max |-> w[2]])
distanceOf    == phase = "ready" /\ \E m, n \in Nodes :
    Ask([kind |-> "distance", source |-> m, target |-> n, min |-> 0, max |-> Far])

Search ==
    /\ phase = "search"
    /\ Enter
    /\ IF ~Found THEN UNCHANGED <<answer, phase>>
       ELSE IF question.kind = "findConnected"
       THEN answer' = Append(answer, node) /\ UNCHANGED phase
       ELSE IF node # question.target THEN UNCHANGED <<answer, phase>>
       ELSE Answer(IF question.kind = "distance" THEN distance ELSE TRUE)
    /\ UNCHANGED <<storage, stat, wanted, copying, question, budget>>

SearchCycle ==
    /\ phase = "search"
    /\ RejectCycle
    /\ UNCHANGED <<storage, stat, phase, wanted, copying, asking, budget>>

EndSearch ==
    /\ phase = "search" /\ Exhausted
    /\ Answer(CASE question.kind = "findConnected" -> answer
                [] question.kind = "isConnected"   -> FALSE
                [] question.kind = "distance"      -> -1)
    /\ UNCHANGED <<dfsVars, storage, stat, wanted, copying, question, budget>>

----------------------------------------------------------------------------
Work ==
    \/ BeginStatistics \/ MeasureRoot \/ Measure \/ MeasureCycle \/ EndStatistics
    \/ KeepStorage \/ BeginCopy \/ CopyRoot \/ Copy \/ EndCopy
    \/ Search \/ SearchCycle \/ EndSearch

Next ==
    \/ deleteEdge
    \/ \E impl \in {"none", "adjacency"} : convertComponent(impl)
    \/ findConnected \/ isConnected \/ distanceOf
    \/ Work

Spec == Init /\ [][Next]_vars

----------------------------------------------------------------------------
(* What the edges say, by definition.                                       *)

Lengths == 0..Far

\* Pairs of nodes that a walk of k edges connects; paths visit no node twice.
Walks(E) ==
    LET W[k \in Lengths] ==
            IF k = 0 THEN {<<n, n>> : n \in Nodes}
            ELSE {<<x[1][1], x[2][2]>> : x \in {y \in W[k - 1] \X E : y[1][2] = y[2][1]}}
    IN  W

Paths(E) ==
    LET P[k \in Lengths] ==
            IF k = 0 THEN {<<n>> : n \in Nodes}
            ELSE {Append(x[1], x[2][2]) : x \in
                    {y \in P[k - 1] \X E : Last(y[1]) = y[2][1] /\ y[2][2] \notin Range(y[1])}}
    IN  P

Reached(E, m, min, max) ==
    {n \in Nodes : \E k \in Lengths : k \in min..max /\ <<m, n>> \in Walks(E)[k]}

Distances(E, m, n) == {k \in Lengths : \E p \in Paths(E)[k] : p[1] = m /\ Last(p) = n}

HasEdges(E, n) == \E e \in E : n \in {e[1], e[2]}

\* Every edge can be reached from a node without incoming edges.
Rooted(E) ==
    \A e \in E : \E r \in RootsOf(E) : e[1] \in Reached(E, r, 0, Far)

\* The statistics describe what there is: of what they were taken, nothing was
\* deleted since, or the roots led to all of it. Else a cycle that they missed may
\* have been opened, and be longer than what they measured.
Informed == deletes = measured.deletes \/ Rooted(measured.edges)

\* Whatever a component is converted into and back, with statistics that were
\* taken before or after the last deletion, it keeps exactly its edges.
ConversionKeepsEdges ==
    [][storage'.impl # storage.impl /\ Informed /\ Rooted(EdgesOf(storage)) =>
          EdgesOf(storage') = EdgesOf(storage)]_vars

\* Every implementation gives the same answers, those of the edges: findConnected
\* the nodes that a walk within the window leads to, each once, isConnected
\* whether a path does, distance the length of a path (of a node without edges to
\* itself see DistanceToItself).
AnswersAgree ==
    phase = "answered" /\ Informed =>
        LET E == EdgesOf(storage)
            q == question
        IN  CASE q.kind = "findConnected" ->
                    /\ Range(answer) = Reached(E, q.source, q.min, q.max)
                    /\ IsInjective(answer)
              [] q.kind = "isConnected" ->
                    answer = \E k \in Distances(E, q.source, q.target) : k \in q.min..q.max
              [] q.kind = "distance" /\ (q.source # q.target \/ HasEdges(E, q.source)) ->
                    IF answer = -1
                    THEN Distances(E, q.source, q.target) = {}
                    ELSE answer \in Distances(E, q.source, q.target)
              [] OTHER -> TRUE

----------------------------------------------------------------------------
(* What does not hold.                                                      *)

\* "if we have edges but no roots at all there must be a cycle", but there may be
\* one, too, that the roots do not lead to: a conversion drops its edges.
ConversionKeepsAllEdges ==
    [][storage'.impl # storage.impl => EdgesOf(storage') = EdgesOf(storage)]_vars

\* Nor are the edges that the roots lead to safe: after a deletion they may be the
\* rest of a missed cycle, too long for the integers that the statistics ask for.
ConversionKeepsRootedEdges ==
    [][storage'.impl # storage.impl /\ Rooted(EdgesOf(storage)) =>
          EdgesOf(storage') = EdgesOf(storage)]_vars

\* The distance of a node to itself is 0; a linear storage does not know the nodes
\* that have no edges (Overlap::filter asks for a token and itself).
DistanceToItself ==
    phase = "answered" /\ question.kind = "distance" /\ question.source = question.target
        => answer = 0

\* Joins ask findConnected, filters isConnected: the answers are the same.
FindIsConnected ==
    phase = "answered" /\ question.kind = "findConnected" =>
        Range(answer) = {n \in Nodes : \E k \in Distances(EdgesOf(storage), question.source, n) :
                                         k \in question.min..question.max}
============================================================================
