---------------------------- MODULE GraphUpdate ----------------------------
(****************************************************************************)
(* DB::update: the events of a GraphUpdate, one action each, on the node     *)
(* labels (an AnnoStorage) and on the graph storages of the components. An   *)
(* AdjacencyListStorage keeps edges, inverse edges and the labels of edges;  *)
(* other storages are read-only, and what a relANNIS import leaves behind.   *)
(****************************************************************************)
EXTENDS Naturals, Sequences, FiniteSets

CONSTANTS
    Names, Types, LabelKeys, LabelValues, Components,
    NameKey, TypeKey,        \* annis::node_name and annis::node_type, no LabelKeys
    ImportName,              \* ImportName[i]: the name of the imported node i
    ImportType, ImportEdges, \* its type; ImportEdges[c]: pairs of ids
    Optimisable,             \* components deep enough to be converted
    MaxID, MaxEvents,        \* bounds on the node ids and on the events
    None

IDs      == 0 .. MaxID
NodeKeys == LabelKeys \cup {NameKey, TypeKey}

ASSUME UpdateAssumption ==
    /\ MaxID \in Nat /\ MaxEvents \in Nat
    /\ NameKey # TypeKey /\ {NameKey, TypeKey} \cap LabelKeys = {}
    /\ ImportType \in Types
    /\ DOMAIN ImportName \subseteq IDs /\ \A i \in DOMAIN ImportName : ImportName[i] \in Names
    /\ \A i, j \in DOMAIN ImportName : ImportName[i] = ImportName[j] => i = j
    /\ \A i \in DOMAIN ImportName : \A j \in IDs : j < i => j \in DOMAIN ImportName
    /\ ImportEdges \in [Components -> SUBSET (IDs \X IDs)]
    /\ \A c \in Components : \A e \in ImportEdges[c] :
          e[1] # e[2] /\ {e[1], e[2]} \subseteq DOMAIN ImportName
    /\ Optimisable \subseteq Components
    /\ None \notin Types \cup LabelValues

Labels == INSTANCE AnnoStorage WITH
              Items <- IDs, Keys <- NodeKeys, Values <- Names \cup Types \cup LabelValues,
              Multi <- FALSE
EdgeLabels == INSTANCE AnnoStorage WITH
              Items <- IDs \X IDs, Keys <- LabelKeys, Values <- LabelValues, Multi <- TRUE

VARIABLES
    nodeAnnos,  \* the labels of the nodes
    gs,         \* graphStorages
    events,     \* events applied so far
    promises    \* what the client is careful about, see below

vars == <<nodeAnnos, gs, events, promises>>

----------------------------------------------------------------------------
(* Graph storages.                                                          *)

NewStorage ==
    [writable |-> TRUE, edges |-> {}, inverseEdges |-> {}, edgeAnnos |-> EdgeLabels!Empty]

\* A storage that is not writable is replaced, and not copied.
createWritableGraphStorage(g) == IF g.writable THEN g ELSE NewStorage

Opposite(e) == <<e[2], e[1]>>

\* Mutant: loops are kept.
addEdgeOrLoop(g, e) ==
    [g EXCEPT !.edges = @ \cup {e}, !.inverseEdges = @ \cup {Opposite(e)}]

addEdge(g, e) ==
    IF e[1] = e[2] THEN g
    ELSE [g EXCEPT !.edges = @ \cup {e}, !.inverseEdges = @ \cup {Opposite(e)}]

\* Mutant: the inverse edges are forgotten.
deleteEdgesOneWay(g, es) ==
    [g EXCEPT !.edges = @ \ es, !.edgeAnnos = EdgeLabels!deleteAnnotations(@, es)]

\* deleteEdge of each of some edges
deleteEdges(g, es) ==
    [g EXCEPT !.edges = @ \ es,
              !.inverseEdges = {e \in @ : Opposite(e) \notin es},
              !.edgeAnnos = EdgeLabels!deleteAnnotations(@, es)]

\* Mutant: the edges that end at the node.
deleteNodeAsTarget(g, i) == deleteEdges(g, {e \in g.edges : e[2] = i})

\* The edges that start at the node, in either of the two sets: those of the
\* inverse one are taken for edges as they are.
deleteNode(g, i) ==
    deleteEdges(g, {e \in g.edges \cup g.inverseEdges : e[1] = i})

----------------------------------------------------------------------------
(* Nodes.                                                                   *)

\* Nothing, or the node with this name; of several nodes find() returns any.
getNodeID(n) == Labels!Found(nodeAnnos, NameKey, n)

Used == {i \in IDs : \E k \in NodeKeys : Labels!Has(nodeAnnos, i, k)}

\* One more than the largest id that has a label.
nextFreeNodeID(i) ==
    /\ \A j \in Used : j < i
    /\ i = 0 \/ i - 1 \in Used

Exists(i) == Labels!Has(nodeAnnos, i, NameKey)

\* A corpus without nodes, or as importRelANNIS leaves it. optimizeAll
\* converts a component by its statistics; one that was built by updates has
\* never been converted.
Imported(i, k) ==
    IF i \notin DOMAIN ImportName \/ k \in LabelKeys THEN <<>>
    ELSE IF k = NameKey THEN <<ImportName[i]>> ELSE <<ImportType>>

ImportedAnnos ==
    [annotations |-> [x \in IDs \X NodeKeys |-> Imported(x[1], x[2])],
     inverseAnnotations |->
         [x \in NodeKeys \X (Names \cup Types \cup LabelValues) \X IDs |->
             IF Imported(x[3], x[1]) = <<x[2]>> THEN 1 ELSE 0],
     annoKeys |-> [k \in NodeKeys |->
         IF k \in {NameKey, TypeKey} THEN Cardinality(DOMAIN ImportName) ELSE 0]]

ImportedStorage(c, isWritable) ==
    [writable |-> isWritable,
     edges |-> ImportEdges[c],
     inverseEdges |-> {e \in IDs \X IDs : Opposite(e) \in ImportEdges[c]},
     edgeAnnos |-> EdgeLabels!Empty]

Init ==
    /\ \/ nodeAnnos = Labels!Empty /\ gs = [c \in Components |-> NewStorage]
       \/ /\ nodeAnnos = ImportedAnnos
          /\ \E optimised \in SUBSET Optimisable :
                gs = [c \in Components |-> ImportedStorage(c, c \notin optimised)]
    /\ events = 0
    /\ promises \in SUBSET {"labels", "edges", "reserved"}

----------------------------------------------------------------------------
(* What a client may promise. For the labels: it adds one only where there  *)
(* is none with the key, and deletes one only if no other item has the same.*)
(* For the edges: it deletes a node when no edge leads to it, leaves the    *)
(* components alone that the import has optimised, and gives an edge one    *)
(* label with a key. For the reserved keys: no event about a label of a     *)
(* node is about annis::node_name or annis::node_type.                      *)

KeepsLabels   == "labels" \in promises
KeepsEdges    == "edges" \in promises
KeepsReserved == "reserved" \in promises

EventKeys == IF KeepsReserved THEN LabelKeys ELSE NodeKeys

UnsharedLabel(i, k) ==
    \A v \in Names \cup Types \cup LabelValues :
        i \in Labels!Found(nodeAnnos, k, v) => Labels!Found(nodeAnnos, k, v) = {i}

UnsharedEdgeLabel(c, e, k) ==
    \A v \in LabelValues :
        e \in EdgeLabels!Found(gs[c].edgeAnnos, k, v) =>
            EdgeLabels!Found(gs[c].edgeAnnos, k, v) = {e}

MayDelete(i) ==
    /\ KeepsLabels =>
          /\ \A k \in NodeKeys : UnsharedLabel(i, k)
          /\ \A c \in Components, k \in LabelKeys : \A e \in gs[c].edges :
                e[1] = i => UnsharedEdgeLabel(c, e, k)
    /\ KeepsEdges =>
          \A c \in Components : gs[c].writable /\ \A e \in gs[c].edges : e[2] # i

----------------------------------------------------------------------------
(* The events.                                                              *)

\* Mutant: a second node with the name.
AddNodeAgain(n, t) ==
    /\ \E i \in IDs :
          /\ nextFreeNodeID(i)
          /\ nodeAnnos' = Labels!addAnnotation(
                              Labels!addAnnotation(nodeAnnos, i, NameKey, n), i, TypeKey, t)
    /\ UNCHANGED gs

AddNode(n, t) ==
    /\ IF getNodeID(n) = {}
       THEN \E i \in IDs :
               /\ nextFreeNodeID(i)
               /\ nodeAnnos' = Labels!addAnnotation(
                                   Labels!addAnnotation(nodeAnnos, i, NameKey, n), i, TypeKey, t)
       ELSE UNCHANGED nodeAnnos
    /\ UNCHANGED gs

DeleteNode(n) ==
    \/ getNodeID(n) = {} /\ UNCHANGED <<nodeAnnos, gs>>
    \/ \E i \in getNodeID(n) :
          /\ MayDelete(i)
          /\ nodeAnnos' = Labels!deleteAnnotations(nodeAnnos, {i})
          /\ gs' = [c \in Components |-> deleteNode(createWritableGraphStorage(gs[c]), i)]

AddNodeLabel(n, k, v) ==
    /\ \/ getNodeID(n) = {} /\ UNCHANGED nodeAnnos
       \/ \E i \in getNodeID(n) :
             /\ KeepsLabels => ~Labels!Has(nodeAnnos, i, k)
             /\ nodeAnnos' = Labels!addAnnotation(nodeAnnos, i, k, v)
    /\ UNCHANGED gs

DeleteNodeLabel(n, k) ==
    /\ \/ getNodeID(n) = {} /\ UNCHANGED nodeAnnos
       \/ \E i \in getNodeID(n) :
             /\ KeepsLabels => UnsharedLabel(i, k)
             /\ nodeAnnos' = Labels!deleteAnnotation(nodeAnnos, i, k)
    /\ UNCHANGED gs

\* The edge between two nodes that both exist.
EdgeOf(m, n) == getNodeID(m) \X getNodeID(n)

AddEdge(c, m, n) ==
    /\ \/ EdgeOf(m, n) = {} /\ UNCHANGED gs
       \/ \E e \in EdgeOf(m, n) :
             /\ KeepsEdges => gs[c].writable
             /\ gs' = [gs EXCEPT ![c] = addEdge(createWritableGraphStorage(@), e)]
    /\ UNCHANGED nodeAnnos

DeleteEdge(c, m, n) ==
    /\ \/ EdgeOf(m, n) = {} /\ UNCHANGED gs
       \/ \E e \in EdgeOf(m, n) :
             /\ KeepsEdges => gs[c].writable
             /\ KeepsLabels => \A k \in LabelKeys : UnsharedEdgeLabel(c, e, k)
             /\ gs' = [gs EXCEPT ![c] = deleteEdges(createWritableGraphStorage(@), {e})]
    /\ UNCHANGED nodeAnnos

\* Mutant: also without the edge.
addLabelAnyway(g, e, k, v) ==
    [g EXCEPT !.edgeAnnos = EdgeLabels!addAnnotation(@, e, k, v)]

\* isConnected(edge, 1, 1), then addEdgeAnnotation
addLabelIfConnected(g, e, k, v) ==
    IF e \in g.edges
    THEN [g EXCEPT !.edgeAnnos = EdgeLabels!addAnnotation(@, e, k, v)] ELSE g

AddEdgeLabel(c, m, n, k, v) ==
    /\ \/ EdgeOf(m, n) = {} /\ UNCHANGED gs
       \/ \E e \in EdgeOf(m, n) :
             /\ KeepsEdges => gs[c].writable
             /\ KeepsEdges \/ KeepsLabels => ~EdgeLabels!Has(gs[c].edgeAnnos, e, k)
             /\ gs' = [gs EXCEPT ![c] =
                          addLabelIfConnected(createWritableGraphStorage(@), e, k, v)]
    /\ UNCHANGED nodeAnnos

deleteLabelIfConnected(g, e, k) ==
    IF e \in g.edges
    THEN [g EXCEPT !.edgeAnnos = EdgeLabels!deleteAnnotation(@, e, k)] ELSE g

DeleteEdgeLabel(c, m, n, k) ==
    /\ \/ EdgeOf(m, n) = {} /\ UNCHANGED gs
       \/ \E e \in EdgeOf(m, n) :
             /\ KeepsEdges => gs[c].writable
             /\ KeepsLabels => UnsharedEdgeLabel(c, e, k)
             /\ gs' = [gs EXCEPT ![c] =
                          deleteLabelIfConnected(createWritableGraphStorage(@), e, k)]
    /\ UNCHANGED nodeAnnos

Event ==
    \/ \E n \in Names :
          \/ \E t \in Types : AddNode(n, t)
          \/ DeleteNode(n)
          \/ \E k \in EventKeys :
                DeleteNodeLabel(n, k) \/ \E v \in LabelValues : AddNodeLabel(n, k, v)
    \/ \E c \in Components, m, n \in Names :
          \/ AddEdge(c, m, n)
          \/ DeleteEdge(c, m, n)
          \/ \E k \in LabelKeys :
                DeleteEdgeLabel(c, m, n, k) \/ \E v \in LabelValues : AddEdgeLabel(c, m, n, k, v)

\* Each event once, in the order of the list, by one thread.
Next ==
    /\ events < MaxEvents
    /\ Event
    /\ events' = events + 1
    /\ UNCHANGED promises

Spec == Init /\ [][Next]_vars

----------------------------------------------------------------------------
(* Properties.                                                              *)

\* A node has at most one label with a key (annotations is a map), although
\* the same label may be added many times.
TypeOK ==
    /\ nodeAnnos \in Labels!Storages
    /\ \A x \in IDs \X NodeKeys : Len(nodeAnnos.annotations[x]) <= 1
    /\ \A c \in Components :
          /\ gs[c].writable \in BOOLEAN
          /\ gs[c].edges \subseteq IDs \X IDs
          /\ gs[c].inverseEdges \subseteq IDs \X IDs
          /\ gs[c].edgeAnnos \in EdgeLabels!Storages
    /\ events \in 0 .. MaxEvents
    /\ promises \subseteq {"labels", "edges", "reserved"}

\* getIncomingEdges reads inverseEdges, getOutgoingEdges and the joins read
\* edges: they are two views of one relation in every storage, also after
\* deleteNode has taken inverse edges for edges.
MirrorEdges ==
    \A c \in Components, i, j \in IDs :
        <<i, j>> \in gs[c].edges <=> <<j, i>> \in gs[c].inverseEdges

\* getNodeID finds a node by its name through the inverse index: it finds the
\* one node that has the name, or none when there is none, after any
\* deletions, reuse of ids and shared labels. A client that leaves the reserved
\* keys alone may rely on it.
NamesFindNodes ==
    KeepsReserved => \A n \in Names :
        /\ getNodeID(n) = {i \in IDs : nodeAnnos.annotations[<<i, NameKey>>] = <<n>>}
        /\ Cardinality(getNodeID(n)) <= 1

\* No edge starts at a node that was deleted (or, by a client that does not keep
\* to the promise about the reserved keys, has lost its name).
SourcesExist ==
    KeepsReserved => \A c \in Components : \A e \in gs[c].edges : Exists(e[1])

\* A label of an edge is deleted with its edge: an edge that is added again
\* comes without labels.
EdgeLabelsOnEdges ==
    \A c \in Components, e \in IDs \X IDs, k \in LabelKeys :
        EdgeLabels!Has(gs[c].edgeAnnos, e, k) => e \in gs[c].edges

\* The searches for a key go over annoKeys: a key with labels is listed, with
\* a count that is not below theirs.
KeysListed ==
    /\ \A k \in NodeKeys :
          Cardinality({i \in IDs : Labels!Has(nodeAnnos, i, k)}) <= nodeAnnos.annoKeys[k]
    /\ \A c \in Components, k \in LabelKeys :
          Cardinality({e \in IDs \X IDs : EdgeLabels!Has(gs[c].edgeAnnos, e, k)})
              <= gs[c].edgeAnnos.annoKeys[k]

\* A search finds the keys in annoKeys and, with a client careful about labels,
\* exactly the items that have a label, once each, in the inverse index.
SearchAgrees ==
    /\ KeysListed
    /\ KeepsLabels => /\ Labels!IndexAgrees(nodeAnnos)
                      /\ \A c \in Components : EdgeLabels!IndexAgrees(gs[c].edgeAnnos)

\* What the client of the library sees, by names.
Careful == KeepsEdges /\ KeepsReserved

LabelOf(i, k) ==
    IF Labels!Has(nodeAnnos, i, k) THEN Head(nodeAnnos.annotations[<<i, k>>]) ELSE None

NodeLabel(n, k) ==
    IF Careful /\ getNodeID(n) # {} THEN LabelOf(CHOOSE i \in getNodeID(n) : TRUE, k) ELSE None

NamedEdges ==
    {x \in Components \X Names \X Names : Careful /\ EdgeOf(x[2], x[3]) \cap gs[x[1]].edges # {}}

NamedEdgeLabels ==
    {x \in Components \X Names \X Names \X LabelKeys \X LabelValues :
        /\ Careful
        /\ \E e \in EdgeOf(x[2], x[3]) : \E i \in DOMAIN gs[x[1]].edgeAnnos.annotations[<<e, x[4]>>] :
              gs[x[1]].edgeAnnos.annotations[<<e, x[4]>>][i] = x[5]}

Graph == INSTANCE LabelledGraph WITH
    type <- [n \in Names |-> NodeLabel(n, TypeKey)],
    label <- [x \in Names \X LabelKeys |-> NodeLabel(x[1], x[2])],
    edges <- NamedEdges,
    edgeLabels <- NamedEdgeLabels

\* For a client careful about edges and the reserved keys the events do what
\* graphupdate.h says of them, to nodes and edges known by their names (any other
\* client is seen as one that never looks).
ImplementsGraph == Graph!Spec

\* "there is already a label with the same namespace and name, nothing is
\* done" (graphupdate.h): what a search finds has the label it was found by.
RepeatedLabelIgnored ==
    \A i \in IDs, k \in LabelKeys, v \in LabelValues :
        Len(nodeAnnos.annotations[<<i, k>>]) = 1 /\ i \in Labels!Found(nodeAnnos, k, v)
            => nodeAnnos.annotations[<<i, k>>] = <<v>>

\* "delete all edges pointing to this node either as source or target"
\* (db.cpp): every edge leads to a node that exists.
NoDanglingEdges ==
    \A c \in Components : \A e \in gs[c].edges : Exists(e[2])
=============================================================================
