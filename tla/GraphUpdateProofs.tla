------------------------- MODULE GraphUpdateProofs -------------------------
(****************************************************************************)
(* What holds for every imported corpus and every list of events. Whatever  *)
(* the client promises, the two sets of edges of a graph storage mirror     *)
(* each other, only edges have labels, and searches find every label,       *)
(* exactly as it is when the client is careful about labels. With a client  *)
(* that leaves the reserved keys alone, a name leads to the one node that   *)
(* has it, and an edge starts at a node. Last, that for such a client that  *)
(* is careful about edges, too, the events do to the graph, as seen by      *)
(* names, what LabelledGraph says.                                          *)
(****************************************************************************)
EXTENDS GraphUpdate, FiniteSetTheorems, SequenceTheorems, TLAPS

V     == Names \cup Types \cup LabelValues
Pairs == IDs \X IDs

----------------------------------------------------------------------------
(* The invariant.                                                           *)

NodeLabels(s) ==
    /\ s.annotations \in [IDs \X NodeKeys -> Seq(V)]
    /\ s.inverseAnnotations \in [NodeKeys \X V \X IDs -> Nat]

\* The inverse index has a name of a node when the node has the name.
NameIndex(s) ==
    \A i \in IDs, n \in Names :
        s.inverseAnnotations[<<NameKey, n, i>>] > 0 <=> s.annotations[<<i, NameKey>>] = <<n>>

NamesUnique(s) ==
    \A i, j \in IDs, n \in Names :
        s.annotations[<<i, NameKey>>] = <<n>> /\ s.annotations[<<j, NameKey>>] = <<n>> => i = j

Named(s) == NodeLabels(s) /\ NameIndex(s) /\ NamesUnique(s)

\* A graph storage by itself.
Typed(g) ==
    /\ g = [writable |-> g.writable, edges |-> g.edges, inverseEdges |-> g.inverseEdges,
            edgeAnnos |-> g.edgeAnnos]
    /\ g.edges \subseteq Pairs /\ g.inverseEdges \subseteq Pairs
    /\ g.edgeAnnos.annotations \in [Pairs \X LabelKeys -> Seq(LabelValues)]
Mirrored(g) == \A i, j \in IDs : <<i, j>> \in g.edges <=> <<j, i>> \in g.inverseEdges
OnEdges(g) ==
    \A e \in Pairs, k \in LabelKeys : g.edgeAnnos.annotations[<<e, k>>] # <<>> => e \in g.edges
Sound(g) == Typed(g) /\ Mirrored(g) /\ OnEdges(g)

\* The nodes at which the edges of a storage start have names.
Started(g, s) == \A e \in g.edges : s.annotations[<<e[1], NameKey>>] # <<>>

\* Whatever the client promises.
SInv ==
    /\ DOMAIN gs = Components
    /\ \A c \in Components : Sound(gs[c])

\* With a client that leaves the reserved keys alone.
GInv ==
    /\ Named(nodeAnnos)
    /\ DOMAIN gs = Components
    /\ \A c \in Components : Sound(gs[c]) /\ Started(gs[c], nodeAnnos)

----------------------------------------------------------------------------
(* The labels of a node.                                                    *)

LEMMA NameKeys == NameKey \in NodeKeys /\ TypeKey \in NodeKeys /\ NameKey # TypeKey
                  /\ \A k \in LabelKeys : k \in NodeKeys /\ k # NameKey
BY UpdateAssumption DEF NodeKeys

LEMMA LabelAdded ==
    ASSUME NEW s, NodeLabels(s), NEW i \in IDs, NEW k \in NodeKeys, NEW v \in V
    PROVE  LET t == Labels!addAnnotation(s, i, k, v)
           IN  /\ NodeLabels(t)
               /\ t.annotations = [s.annotations EXCEPT ![<<i, k>>] = IF @ = <<>> THEN <<v>> ELSE @]
               /\ t.inverseAnnotations = [s.inverseAnnotations EXCEPT ![<<k, v, i>>] = @ + 1]
<1> DEFINE t == Labels!addAnnotation(s, i, k, v)
<1>1. s.annotations[<<i, k>>] \in Seq(V)
  BY DEF NodeLabels
<1>2. s.annotations[<<i, k>>] = <<>> => Append(s.annotations[<<i, k>>], v) = <<v>>
  OBVIOUS
<1>3. /\ t.annotations = [s.annotations EXCEPT ![<<i, k>>] = IF @ = <<>> THEN <<v>> ELSE @]
      /\ t.inverseAnnotations = [s.inverseAnnotations EXCEPT ![<<k, v, i>>] = @ + 1]
  BY <1>2 DEF Labels!addAnnotation
<1> HIDE DEF t
<1>4. t.annotations \in [IDs \X NodeKeys -> Seq(V)]
  BY <1>1, <1>3 DEF NodeLabels
<1>5. t.inverseAnnotations \in [NodeKeys \X V \X IDs -> Nat]
  BY <1>3 DEF NodeLabels
<1> QED
  BY <1>3, <1>4, <1>5 DEF NodeLabels, t

\* A label that is not the name leaves the names.
LEMMA OtherLabelAdded ==
    ASSUME NEW s, Named(s), NEW i \in IDs, NEW k \in NodeKeys, k # NameKey, NEW v \in V
    PROVE  LET t == Labels!addAnnotation(s, i, k, v)
           IN  /\ Named(t)
               /\ \A j \in IDs : t.annotations[<<j, NameKey>>] = s.annotations[<<j, NameKey>>]
<1> DEFINE t == Labels!addAnnotation(s, i, k, v)
<1>1. /\ NodeLabels(t)
      /\ t.annotations = [s.annotations EXCEPT ![<<i, k>>] = IF @ = <<>> THEN <<v>> ELSE @]
      /\ t.inverseAnnotations = [s.inverseAnnotations EXCEPT ![<<k, v, i>>] = @ + 1]
  BY LabelAdded DEF Named
<1> HIDE DEF t
<1>2. \A j \in IDs : t.annotations[<<j, NameKey>>] = s.annotations[<<j, NameKey>>]
  BY <1>1, NameKeys DEF Named, NodeLabels
<1>3. \A j \in IDs, n \in Names :
         t.inverseAnnotations[<<NameKey, n, j>>] = s.inverseAnnotations[<<NameKey, n, j>>]
  BY <1>1, NameKeys DEF Named, NodeLabels, V
<1>4. NameIndex(t)
  BY <1>2, <1>3 DEF Named, NameIndex
<1>5. NamesUnique(t)
  BY <1>2 DEF Named, NamesUnique
<1> QED
  BY <1>1, <1>2, <1>4, <1>5 DEF Named, t

\* A new name for a node without one.
LEMMA NameAdded ==
    ASSUME NEW s, Named(s), NEW i \in IDs, NEW n \in Names, s.annotations[<<i, NameKey>>] = <<>>,
           \A j \in IDs : s.annotations[<<j, NameKey>>] # <<n>>
    PROVE  LET t == Labels!addAnnotation(s, i, NameKey, n)
           IN  /\ Named(t)
               /\ \A j \in IDs : s.annotations[<<j, NameKey>>] # <<>> => t.annotations[<<j, NameKey>>] # <<>>
<1> DEFINE t == Labels!addAnnotation(s, i, NameKey, n)
<1>1. /\ NodeLabels(t)
      /\ t.annotations = [s.annotations EXCEPT ![<<i, NameKey>>] = IF @ = <<>> THEN <<n>> ELSE @]
      /\ t.inverseAnnotations = [s.inverseAnnotations EXCEPT ![<<NameKey, n, i>>] = @ + 1]
  <2>1. NodeLabels(s) /\ NameKey \in NodeKeys /\ n \in V
    BY NameKeys DEF Named, V
  <2>2. \A k \in NodeKeys, v \in V :
           LET u == Labels!addAnnotation(s, i, k, v)
           IN  /\ NodeLabels(u)
               /\ u.annotations = [s.annotations EXCEPT ![<<i, k>>] = IF @ = <<>> THEN <<v>> ELSE @]
               /\ u.inverseAnnotations = [s.inverseAnnotations EXCEPT ![<<k, v, i>>] = @ + 1]
    BY <2>1, LabelAdded
  <2> QED
    BY <2>1, <2>2, ZenonT(40)
<1> HIDE DEF t
<1>2. \A j \in IDs : t.annotations[<<j, NameKey>>] = IF j = i THEN <<n>> ELSE s.annotations[<<j, NameKey>>]
  BY <1>1, NameKeys DEF Named, NodeLabels
<1>3. \A j \in IDs, m \in Names : <<NameKey, m, j>> \in NodeKeys \X V \X IDs
  BY NameKeys DEF V
<1>4. \A j \in IDs, m \in Names :
         /\ s.inverseAnnotations[<<NameKey, m, j>>] \in Nat
         /\ t.inverseAnnotations[<<NameKey, m, j>>] =
                IF j = i /\ m = n THEN s.inverseAnnotations[<<NameKey, m, j>>] + 1
                ELSE s.inverseAnnotations[<<NameKey, m, j>>]
  <2>1. \A j \in IDs, m \in Names : <<NameKey, m, j>> = <<NameKey, n, i>> <=> j = i /\ m = n
    OBVIOUS
  <2>2. s.inverseAnnotations \in [NodeKeys \X V \X IDs -> Nat]
    BY DEF Named, NodeLabels
  <2>3. \A x \in NodeKeys \X V \X IDs :
           t.inverseAnnotations[x] = IF x = <<NameKey, n, i>> THEN s.inverseAnnotations[x] + 1
                                     ELSE s.inverseAnnotations[x]
    BY <1>1, <2>2
  <2> QED
    BY <1>3, <2>1, <2>2, <2>3
<1>5. \A m \in Names : <<m>> # <<>> /\ (<<m>> = <<n>> => m = n)
  OBVIOUS
<1>6. NameIndex(t)
  <2> SUFFICES ASSUME NEW j \in IDs, NEW m \in Names
               PROVE  t.inverseAnnotations[<<NameKey, m, j>>] > 0 <=> t.annotations[<<j, NameKey>>] = <<m>>
    BY DEF NameIndex
  <2>1. s.inverseAnnotations[<<NameKey, m, j>>] > 0 <=> s.annotations[<<j, NameKey>>] = <<m>>
    BY DEF Named, NameIndex
  <2>2. CASE j = i /\ m = n
    BY <2>2, <1>2, <1>4
  <2>3. CASE j = i /\ m # n
    BY <2>1, <2>3, <1>2, <1>4, <1>5
  <2>4. CASE j # i
    BY <2>1, <2>4, <1>2, <1>4
  <2> QED
    BY <2>2, <2>3, <2>4
<1>7. NamesUnique(t)
  BY <1>2, <1>5 DEF Named, NamesUnique
<1>8. \A j \in IDs : s.annotations[<<j, NameKey>>] # <<>> => t.annotations[<<j, NameKey>>] # <<>>
  BY <1>2
<1> QED
  BY <1>1, <1>6, <1>7, <1>8 DEF Named, t

LEMMA OtherLabelDeleted ==
    ASSUME NEW s, Named(s), NEW i \in IDs, NEW k \in NodeKeys, k # NameKey
    PROVE  LET t == Labels!deleteAnnotation(s, i, k)
           IN  /\ Named(t)
               /\ \A j \in IDs : t.annotations[<<j, NameKey>>] = s.annotations[<<j, NameKey>>]
<1> DEFINE t == Labels!deleteAnnotation(s, i, k)
           old == s.annotations[<<i, k>>]
<1>1. CASE old = <<>>
  BY <1>1 DEF Labels!deleteAnnotation, Labels!Has
<1>2. CASE old # <<>>
  <2>1. /\ t.annotations = [s.annotations EXCEPT ![<<i, k>>] = Tail(old)]
        /\ t.inverseAnnotations = [x \in NodeKeys \X V \X IDs |->
              IF x[1] = k /\ x[2] = Head(old) THEN 0 ELSE s.inverseAnnotations[x]]
    BY <1>2 DEF Labels!deleteAnnotation, Labels!Has, Labels!Erase, V
  <2> HIDE DEF t
  <2>2. old \in Seq(V)
    BY DEF Named, NodeLabels
  <2>3. Tail(old) \in Seq(V)
    BY <1>2, <2>2, HeadTailProperties
  <2>4. t.annotations \in [IDs \X NodeKeys -> Seq(V)]
    BY <2>1, <2>3 DEF Named, NodeLabels
  <2>5. t.inverseAnnotations \in [NodeKeys \X V \X IDs -> Nat]
    BY <2>1 DEF Named, NodeLabels
  <2>6. \A j \in IDs : t.annotations[<<j, NameKey>>] = s.annotations[<<j, NameKey>>]
    BY <2>1, NameKeys DEF Named, NodeLabels
  <2>7. \A j \in IDs, n \in Names :
           t.inverseAnnotations[<<NameKey, n, j>>] = s.inverseAnnotations[<<NameKey, n, j>>]
    BY <2>1, NameKeys DEF V
  <2>8. NodeLabels(t)
    BY <2>4, <2>5 DEF NodeLabels
  <2>9. NameIndex(t)
    BY <2>6, <2>7 DEF Named, NameIndex
  <2>10. NamesUnique(t)
    BY <2>6 DEF Named, NamesUnique
  <2> QED
    BY <2>6, <2>8, <2>9, <2>10 DEF Named, t
<1> QED
  BY <1>1, <1>2

\* All labels of a node, with the name in the index.
LEMMA NodeDeleted ==
    ASSUME NEW s, Named(s), NEW i \in IDs, NEW n \in Names, s.annotations[<<i, NameKey>>] = <<n>>
    PROVE  LET t == Labels!deleteAnnotations(s, {i})
           IN  /\ Named(t)
               /\ \A j \in IDs : t.annotations[<<j, NameKey>>] =
                      IF j = i THEN <<>> ELSE s.annotations[<<j, NameKey>>]
<1> DEFINE t == Labels!deleteAnnotations(s, {i})
           Gone(k, v) == \E j \in {i} : \E m \in DOMAIN s.annotations[<<j, k>>] :
                             s.annotations[<<j, k>>][m] = v
<1>1. /\ t.annotations = [x \in IDs \X NodeKeys |-> IF x[1] \in {i} THEN <<>> ELSE s.annotations[x]]
      /\ t.inverseAnnotations = [x \in NodeKeys \X V \X IDs |->
            IF Gone(x[1], x[2]) THEN 0 ELSE s.inverseAnnotations[x]]
  BY DEF Labels!deleteAnnotations, V
<1>2. \A m \in Names : Gone(NameKey, m) <=> m = n
  <2>1. DOMAIN s.annotations[<<i, NameKey>>] = {1} /\ s.annotations[<<i, NameKey>>][1] = n
    OBVIOUS
  <2> QED
    BY <2>1
<1> HIDE DEF t, Gone
<1>3. t.annotations \in [IDs \X NodeKeys -> Seq(V)]
  BY <1>1 DEF Named, NodeLabels
<1>4. t.inverseAnnotations \in [NodeKeys \X V \X IDs -> Nat]
  BY <1>1 DEF Named, NodeLabels
<1>5. \A j \in IDs : t.annotations[<<j, NameKey>>] = IF j = i THEN <<>> ELSE s.annotations[<<j, NameKey>>]
  BY <1>1, NameKeys
<1>6. \A j \in IDs, m \in Names : t.inverseAnnotations[<<NameKey, m, j>>] =
         IF m = n THEN 0 ELSE s.inverseAnnotations[<<NameKey, m, j>>]
  BY <1>1, <1>2, NameKeys DEF V
<1>7. \A m \in Names : <<m>> # <<>> /\ (<<m>> = <<n>> => m = n)
  OBVIOUS
<1>8. NameIndex(t)
  <2> SUFFICES ASSUME NEW j \in IDs, NEW m \in Names
               PROVE  t.inverseAnnotations[<<NameKey, m, j>>] > 0 <=> t.annotations[<<j, NameKey>>] = <<m>>
    BY DEF NameIndex
  <2>1. s.inverseAnnotations[<<NameKey, m, j>>] > 0 <=> s.annotations[<<j, NameKey>>] = <<m>>
    BY DEF Named, NameIndex
  <2>2. s.annotations[<<j, NameKey>>] = <<n>> => j = i
    BY DEF Named, NamesUnique
  <2> QED
    BY <2>1, <2>2, <1>5, <1>6, <1>7
<1>9. NamesUnique(t)
  BY <1>5, <1>7 DEF Named, NamesUnique
<1> QED
  BY <1>3, <1>4, <1>5, <1>8, <1>9 DEF Named, NodeLabels, t

\* What getNodeID returns.
LEMMA NameFound ==
    ASSUME Named(nodeAnnos), NEW n \in Names
    PROVE  getNodeID(n) = {i \in IDs : nodeAnnos.annotations[<<i, NameKey>>] = <<n>>}
BY DEF Named, NameIndex, getNodeID, Labels!Found

----------------------------------------------------------------------------
(* A graph storage.                                                         *)

LEMMA NewSound == Sound(NewStorage) /\ NewStorage.edges = {}
<1>1. NewStorage.edgeAnnos.annotations = [x \in Pairs \X LabelKeys |-> <<>>]
  BY DEF NewStorage, EdgeLabels!Empty, Pairs
<1>2. <<>> \in Seq(LabelValues)
  OBVIOUS
<1>3. NewStorage.edgeAnnos.annotations \in [Pairs \X LabelKeys -> Seq(LabelValues)]
  BY <1>1, <1>2
<1>4. Typed(NewStorage) /\ NewStorage.edges = {} /\ NewStorage.inverseEdges = {}
  BY <1>3 DEF NewStorage, Typed
<1> QED
  BY <1>1, <1>4 DEF Sound, Mirrored, OnEdges

LEMMA WritableSound ==
    ASSUME NEW g, Sound(g), NEW s, Started(g, s)
    PROVE  Sound(createWritableGraphStorage(g)) /\ Started(createWritableGraphStorage(g), s)
BY NewSound DEF createWritableGraphStorage, Started

LEMMA EdgeAddedSound ==
    ASSUME NEW g, Sound(g), NEW e \in Pairs
    PROVE  Sound(addEdge(g, e)) /\ addEdge(g, e).edges \subseteq g.edges \cup {e}
<1> DEFINE h == addEdge(g, e)
<1>1. CASE e[1] = e[2]
  BY <1>1 DEF addEdge
<1>2. CASE e[1] # e[2]
  <2>1. h = [writable |-> g.writable, edges |-> g.edges \cup {e},
             inverseEdges |-> g.inverseEdges \cup {Opposite(e)}, edgeAnnos |-> g.edgeAnnos]
    BY <1>2 DEF addEdge, Sound, Typed
  <2> HIDE DEF h
  <2>2. e = <<e[1], e[2]>> /\ e[1] \in IDs /\ e[2] \in IDs
    BY DEF Pairs
  <2>3. Typed(h)
    BY <2>1, <2>2 DEF Sound, Typed, Opposite, Pairs
  <2>4. Mirrored(h)
    <3> SUFFICES ASSUME NEW i \in IDs, NEW j \in IDs
                 PROVE  <<i, j>> \in h.edges <=> <<j, i>> \in h.inverseEdges
      BY DEF Mirrored
    <3>1. <<i, j>> = e <=> <<j, i>> = <<e[2], e[1]>>
      BY <2>2
    <3>2. <<i, j>> \in h.edges <=> (<<i, j>> \in g.edges \/ <<i, j>> = e)
      BY <2>1
    <3>3. <<j, i>> \in h.inverseEdges <=> (<<j, i>> \in g.inverseEdges \/ <<j, i>> = <<e[2], e[1]>>)
      BY <2>1 DEF Opposite
    <3>4. <<i, j>> \in g.edges <=> <<j, i>> \in g.inverseEdges
      BY DEF Sound, Mirrored
    <3> QED
      BY <3>1, <3>2, <3>3, <3>4
  <2>5. OnEdges(h) /\ h.edges \subseteq g.edges \cup {e}
    BY <2>1 DEF Sound, OnEdges
  <2> QED
    BY <2>3, <2>4, <2>5 DEF Sound, h
<1> QED
  BY <1>1, <1>2

LEMMA EdgeAdded ==
    ASSUME NEW g, Sound(g), NEW s, Started(g, s), NEW e \in Pairs,
           s.annotations[<<e[1], NameKey>>] # <<>>
    PROVE  Sound(addEdge(g, e)) /\ Started(addEdge(g, e), s)
BY EdgeAddedSound DEF Started

LEMMA EdgesDeleted ==
    ASSUME NEW g, Sound(g), NEW es \in SUBSET Pairs
    PROVE  Sound(deleteEdges(g, es)) /\ deleteEdges(g, es).edges = g.edges \ es
<1> DEFINE h == deleteEdges(g, es)
           rest == {e \in g.inverseEdges : Opposite(e) \notin es}
           annos == EdgeLabels!deleteAnnotations(g.edgeAnnos, es)
<1>0. h = [writable |-> g.writable, edges |-> g.edges \ es, inverseEdges |-> rest, edgeAnnos |-> annos]
  <2>1. h = [g EXCEPT !.edges = g.edges \ es, !.inverseEdges = rest, !.edgeAnnos = annos]
    BY DEF deleteEdges
  <2> HIDE DEF h, rest, annos
  <2> QED
    BY <2>1 DEF Sound, Typed
<1>1. /\ h.edges = g.edges \ es
      /\ h.inverseEdges = {e \in g.inverseEdges : Opposite(e) \notin es}
      /\ h.edgeAnnos = EdgeLabels!deleteAnnotations(g.edgeAnnos, es)
      /\ h = [writable |-> h.writable, edges |-> h.edges, inverseEdges |-> h.inverseEdges,
              edgeAnnos |-> h.edgeAnnos]
  <2> HIDE DEF h, annos
  <2>1. h.edgeAnnos = annos
    BY <1>0
  <2>2. /\ h.edges = g.edges \ es /\ h.inverseEdges = rest
        /\ h = [writable |-> h.writable, edges |-> h.edges, inverseEdges |-> h.inverseEdges,
                edgeAnnos |-> h.edgeAnnos]
    BY <1>0
  <2> QED
    BY <2>1, <2>2 DEF annos
<1> HIDE DEF h
<1>2. h.edgeAnnos.annotations =
         [x \in Pairs \X LabelKeys |-> IF x[1] \in es THEN <<>> ELSE g.edgeAnnos.annotations[x]]
  BY <1>1 DEF EdgeLabels!deleteAnnotations, Pairs
<1>3. Typed(h)
  <2>1. h.edgeAnnos.annotations \in [Pairs \X LabelKeys -> Seq(LabelValues)]
    BY <1>2 DEF Sound, Typed
  <2> QED
    BY <1>1, <2>1 DEF Sound, Typed
<1>4. Mirrored(h)
  BY <1>1 DEF Sound, Mirrored, Opposite
<1>5. OnEdges(h)
  BY <1>1, <1>2 DEF Sound, OnEdges
<1> QED
  BY <1>1, <1>3, <1>4, <1>5 DEF Sound, h

LEMMA NodeEdgesDeleted ==
    ASSUME NEW g, Sound(g), NEW i
    PROVE  /\ Sound(deleteNode(g, i))
           /\ deleteNode(g, i).edges = g.edges \ {e \in g.edges \cup g.inverseEdges : e[1] = i}
<1> DEFINE es == {e \in g.edges \cup g.inverseEdges : e[1] = i}
<1>1. es \in SUBSET Pairs
  BY DEF Sound, Typed
<1>2. deleteNode(g, i) = deleteEdges(g, es)
  BY DEF deleteNode
<1> HIDE DEF es
<1>3. Sound(deleteNode(g, i)) /\ deleteNode(g, i).edges = g.edges \ es
  BY <1>1, <1>2, EdgesDeleted
<1> QED
  BY <1>3 DEF es

\* deleteNode leaves no edge that starts at the node.
LEMMA StartDeleted ==
    ASSUME NEW g, Sound(g), NEW i \in IDs, NEW s, Started(g, s), NEW t,
           \A j \in IDs : j # i => t.annotations[<<j, NameKey>>] = s.annotations[<<j, NameKey>>]
    PROVE  Sound(deleteNode(g, i)) /\ Started(deleteNode(g, i), t)
<1>1. /\ Sound(deleteNode(g, i))
      /\ deleteNode(g, i).edges = g.edges \ {e \in g.edges \cup g.inverseEdges : e[1] = i}
  BY NodeEdgesDeleted
<1>2. ASSUME NEW e \in deleteNode(g, i).edges PROVE t.annotations[<<e[1], NameKey>>] # <<>>
  <2>1. e \in g.edges /\ e[1] # i /\ e[1] \in IDs
    BY <1>1 DEF Sound, Typed, Pairs
  <2> QED
    BY <2>1 DEF Started
<1> QED
  BY <1>1, <1>2 DEF Started

LEMMA EdgeLabelAdded ==
    ASSUME NEW g, Sound(g), NEW e \in Pairs, NEW k \in LabelKeys, NEW v \in LabelValues
    PROVE  Sound(addLabelIfConnected(g, e, k, v)) /\ addLabelIfConnected(g, e, k, v).edges = g.edges
<1> DEFINE h == addLabelIfConnected(g, e, k, v)
<1>1. CASE e \notin g.edges
  BY <1>1 DEF addLabelIfConnected
<1>2. CASE e \in g.edges
  <2>1. /\ h.edges = g.edges /\ h.inverseEdges = g.inverseEdges
        /\ h.edgeAnnos = EdgeLabels!addAnnotation(g.edgeAnnos, e, k, v)
        /\ h = [writable |-> h.writable, edges |-> h.edges, inverseEdges |-> h.inverseEdges,
                edgeAnnos |-> h.edgeAnnos]
    BY <1>2 DEF addLabelIfConnected, Sound, Typed
  <2> HIDE DEF h
  <2>2. h.edgeAnnos.annotations =
           [g.edgeAnnos.annotations EXCEPT ![<<e, k>>] = Append(@, v)]
    BY <2>1 DEF EdgeLabels!addAnnotation
  <2>3. g.edgeAnnos.annotations \in [Pairs \X LabelKeys -> Seq(LabelValues)]
    BY DEF Sound, Typed
  <2>4. Append(g.edgeAnnos.annotations[<<e, k>>], v) \in Seq(LabelValues)
    BY <2>3
  <2>5. h.edgeAnnos.annotations \in [Pairs \X LabelKeys -> Seq(LabelValues)]
    BY <2>2, <2>3, <2>4
  <2>6. \A f \in Pairs, l \in LabelKeys :
           f # e => h.edgeAnnos.annotations[<<f, l>>] = g.edgeAnnos.annotations[<<f, l>>]
    BY <2>2, <2>3
  <2>7. Typed(h) /\ Mirrored(h)
    BY <2>1, <2>5 DEF Sound, Typed, Mirrored
  <2>8. OnEdges(h)
    BY <1>2, <2>1, <2>6 DEF Sound, OnEdges
  <2> QED
    BY <2>1, <2>7, <2>8 DEF Sound, h
<1> QED
  BY <1>1, <1>2

LEMMA EdgeLabelDeleted ==
    ASSUME NEW g, Sound(g), NEW e \in Pairs, NEW k \in LabelKeys
    PROVE  Sound(deleteLabelIfConnected(g, e, k)) /\ deleteLabelIfConnected(g, e, k).edges = g.edges
<1> DEFINE h == deleteLabelIfConnected(g, e, k)
           old == g.edgeAnnos.annotations[<<e, k>>]
<1>1. CASE e \notin g.edges
  BY <1>1 DEF deleteLabelIfConnected
<1>2. CASE e \in g.edges
  <2>1. /\ h.edges = g.edges /\ h.inverseEdges = g.inverseEdges
        /\ h.edgeAnnos = EdgeLabels!deleteAnnotation(g.edgeAnnos, e, k)
        /\ h = [writable |-> h.writable, edges |-> h.edges, inverseEdges |-> h.inverseEdges,
                edgeAnnos |-> h.edgeAnnos]
    BY <1>2 DEF deleteLabelIfConnected, Sound, Typed
  <2> HIDE DEF h
  <2>2. h.edgeAnnos.annotations = g.edgeAnnos.annotations
        \/ (old # <<>> /\ h.edgeAnnos.annotations = [g.edgeAnnos.annotations EXCEPT ![<<e, k>>] = Tail(old)])
    <3>1. CASE old = <<>>
      <4>1. h.edgeAnnos = g.edgeAnnos
        BY <2>1, <3>1 DEF EdgeLabels!deleteAnnotation, EdgeLabels!Has
      <4>2. h.edgeAnnos.annotations = g.edgeAnnos.annotations
        BY <4>1
      <4> QED
        BY <4>2
    <3>2. CASE old # <<>>
      <4>1. h.edgeAnnos.annotations = [g.edgeAnnos.annotations EXCEPT ![<<e, k>>] = Tail(old)]
        BY <2>1, <3>2 DEF EdgeLabels!deleteAnnotation, EdgeLabels!Has
      <4> QED
        BY <3>2, <4>1
    <3> QED
      BY <3>1, <3>2
  <2>3. g.edgeAnnos.annotations \in [Pairs \X LabelKeys -> Seq(LabelValues)]
    BY DEF Sound, Typed
  <2>4. old \in Seq(LabelValues)
    BY <2>3
  <2>5. old # <<>> => Tail(old) \in Seq(LabelValues)
    BY <2>4, HeadTailProperties
  <2> HIDE DEF old
  <2>6. h.edgeAnnos.annotations \in [Pairs \X LabelKeys -> Seq(LabelValues)]
    BY <2>2, <2>3, <2>5
  <2>7. \A f \in Pairs, l \in LabelKeys :
           f # e => h.edgeAnnos.annotations[<<f, l>>] = g.edgeAnnos.annotations[<<f, l>>]
    BY <2>2, <2>3
  <2>8. Typed(h) /\ Mirrored(h)
    BY <2>1, <2>6 DEF Sound, Typed, Mirrored
  <2>9. OnEdges(h)
    BY <1>2, <2>1, <2>7 DEF Sound, OnEdges
  <2> QED
    BY <2>1, <2>8, <2>9 DEF Sound, h
<1> QED
  BY <1>1, <1>2

----------------------------------------------------------------------------
(* The initial states.                                                      *)

LEMMA EmptyNamed == Named(Labels!Empty)
<1>1. <<>> \in Seq(V)
  OBVIOUS
<1>2. /\ Labels!Empty.annotations = [x \in IDs \X NodeKeys |-> <<>>]
      /\ Labels!Empty.inverseAnnotations = [x \in NodeKeys \X V \X IDs |-> 0]
  BY DEF Labels!Empty, V
<1>3. NodeLabels(Labels!Empty)
  BY <1>1, <1>2 DEF NodeLabels
<1>4. \A i \in IDs, n \in Names :
         /\ Labels!Empty.annotations[<<i, NameKey>>] = <<>>
         /\ Labels!Empty.inverseAnnotations[<<NameKey, n, i>>] = 0
         /\ <<n>> # <<>>
  BY <1>2, NameKeys DEF V
<1>5. NameIndex(Labels!Empty)
  BY <1>4 DEF NameIndex
<1>6. NamesUnique(Labels!Empty)
  BY <1>4 DEF NamesUnique
<1> QED
  BY <1>3, <1>5, <1>6 DEF Named

LEMMA ImportedNamed ==
    /\ Named(ImportedAnnos)
    /\ \A i \in DOMAIN ImportName : ImportedAnnos.annotations[<<i, NameKey>>] # <<>>
<1>1. \A i \in IDs, k \in NodeKeys : Imported(i, k) \in Seq(V)
  <2>1. \A v \in V : <<v>> \in Seq(V)
    OBVIOUS
  <2>2. <<>> \in Seq(V)
    OBVIOUS
  <2>3. ImportType \in V /\ \A i \in DOMAIN ImportName : ImportName[i] \in V
    BY UpdateAssumption DEF V
  <2> QED
    BY <2>1, <2>2, <2>3 DEF Imported
<1>2. /\ ImportedAnnos.annotations = [x \in IDs \X NodeKeys |-> Imported(x[1], x[2])]
      /\ ImportedAnnos.inverseAnnotations =
            [x \in NodeKeys \X V \X IDs |-> IF Imported(x[3], x[1]) = <<x[2]>> THEN 1 ELSE 0]
  BY DEF ImportedAnnos, V
<1>3. NodeLabels(ImportedAnnos)
  BY <1>1, <1>2 DEF NodeLabels
<1>4. \A i \in IDs, n \in Names :
         /\ ImportedAnnos.annotations[<<i, NameKey>>] = Imported(i, NameKey)
         /\ ImportedAnnos.inverseAnnotations[<<NameKey, n, i>>] =
                IF Imported(i, NameKey) = <<n>> THEN 1 ELSE 0
  BY <1>2, NameKeys DEF V
<1>5. \A i \in IDs : Imported(i, NameKey) = IF i \in DOMAIN ImportName THEN <<ImportName[i]>> ELSE <<>>
  BY NameKeys DEF Imported
<1>6. NameIndex(ImportedAnnos)
  BY <1>4 DEF NameIndex
<1>7. NamesUnique(ImportedAnnos)
  <2> SUFFICES ASSUME NEW i \in IDs, NEW j \in IDs, NEW n \in Names,
                      Imported(i, NameKey) = <<n>>, Imported(j, NameKey) = <<n>>
               PROVE  i = j
    BY <1>4 DEF NamesUnique
  <2>1. <<n>> # <<>>
    OBVIOUS
  <2>2. i \in DOMAIN ImportName /\ ImportName[i] = n
    BY <1>5, <2>1
  <2>3. j \in DOMAIN ImportName /\ ImportName[j] = n
    BY <1>5, <2>1
  <2> QED
    BY <2>2, <2>3, UpdateAssumption
<1>8. \A i \in DOMAIN ImportName : i \in IDs /\ <<ImportName[i]>> # <<>>
  BY UpdateAssumption
<1>9. \A i \in DOMAIN ImportName : ImportedAnnos.annotations[<<i, NameKey>>] # <<>>
  <2> SUFFICES ASSUME NEW i \in DOMAIN ImportName
               PROVE  ImportedAnnos.annotations[<<i, NameKey>>] # <<>>
    OBVIOUS
  <2>1. i \in IDs
    BY <1>8
  <2>2. ImportedAnnos.annotations[<<i, NameKey>>] = Imported(i, NameKey)
    BY <1>2, <2>1, NameKeys
  <2>3. Imported(i, NameKey) = <<ImportName[i]>>
    BY <1>5, <2>1
  <2>4. <<ImportName[i]>> # <<>>
    OBVIOUS
  <2> QED
    BY <2>2, <2>3, <2>4
<1> QED
  BY <1>3, <1>6, <1>7, <1>9 DEF Named

LEMMA ImportedSound ==
    ASSUME NEW c \in Components, NEW w
    PROVE  Sound(ImportedStorage(c, w)) /\ Started(ImportedStorage(c, w), ImportedAnnos)
<1> DEFINE g == ImportedStorage(c, w)
<1>1. ImportEdges[c] \subseteq Pairs
  BY UpdateAssumption DEF Pairs
<1>2. /\ g.edges = ImportEdges[c] /\ g.inverseEdges = {e \in Pairs : Opposite(e) \in ImportEdges[c]}
      /\ g.edgeAnnos = EdgeLabels!Empty
      /\ g = [writable |-> g.writable, edges |-> g.edges, inverseEdges |-> g.inverseEdges,
              edgeAnnos |-> g.edgeAnnos]
  BY DEF ImportedStorage, Pairs
<1>3. g.edgeAnnos.annotations = [x \in Pairs \X LabelKeys |-> <<>>]
  BY <1>2 DEF EdgeLabels!Empty, Pairs
<1> HIDE DEF g
<1>4. Typed(g)
  <2>1. <<>> \in Seq(LabelValues)
    OBVIOUS
  <2>2. g.edgeAnnos.annotations \in [Pairs \X LabelKeys -> Seq(LabelValues)]
    BY <1>3, <2>1
  <2> QED
    BY <1>1, <1>2, <2>2 DEF Typed
<1>5. Mirrored(g)
  BY <1>2 DEF Mirrored, Opposite, Pairs
<1>6. OnEdges(g)
  BY <1>3 DEF OnEdges
<1>7. Started(g, ImportedAnnos)
  BY <1>2, ImportedNamed, UpdateAssumption DEF Started
<1> QED
  BY <1>4, <1>5, <1>6, <1>7 DEF Sound, g

LEMMA InitGInv == Init => GInv
<1> SUFFICES ASSUME Init PROVE GInv
  OBVIOUS
<1>1. CASE nodeAnnos = Labels!Empty /\ gs = [c \in Components |-> NewStorage]
  BY <1>1, EmptyNamed, NewSound DEF GInv, Started
<1>2. CASE /\ nodeAnnos = ImportedAnnos
           /\ \E optimised \in SUBSET Optimisable :
                 gs = [c \in Components |-> ImportedStorage(c, c \notin optimised)]
  <2>1. PICK optimised \in SUBSET Optimisable :
           gs = [c \in Components |-> ImportedStorage(c, c \notin optimised)]
    BY <1>2
  <2>2. ASSUME NEW c \in Components PROVE Sound(gs[c]) /\ Started(gs[c], nodeAnnos)
    <3>1. gs[c] = ImportedStorage(c, c \notin optimised)
      BY <2>1
    <3> QED
      BY <1>2, <3>1, ImportedSound
  <2> QED
    BY <1>2, <2>1, <2>2, ImportedNamed DEF GInv
<1> QED
  BY <1>1, <1>2 DEF Init

----------------------------------------------------------------------------
(* The storages of the components, whatever the client promises.            *)

LEMMA InitSInv == Init => SInv
BY InitGInv DEF GInv, SInv

\* The ids of an edge are found by names, whether or not they have the names.
LEMMA EdgePairs ==
    ASSUME NEW m, NEW n
    PROVE  EdgeOf(m, n) \subseteq Pairs
BY DEF EdgeOf, getNodeID, Labels!Found, Pairs

LEMMA EdgeEventSound ==
    ASSUME SInv, NEW c \in Components, NEW m \in Names, NEW n \in Names,
           \/ AddEdge(c, m, n) \/ DeleteEdge(c, m, n)
           \/ \E k \in LabelKeys :
                 \/ DeleteEdgeLabel(c, m, n, k)
                 \/ \E v \in LabelValues : AddEdgeLabel(c, m, n, k, v)
    PROVE  SInv'
<1> DEFINE g == createWritableGraphStorage(gs[c])
<1>1. Sound(g)
  BY NewSound DEF SInv, createWritableGraphStorage
<1>2. \A e \in EdgeOf(m, n) : e \in Pairs /\ {e} \in SUBSET Pairs
  BY EdgePairs
<1>3. CASE gs' = gs
  BY <1>3 DEF SInv
<1>4. ASSUME NEW h, Sound(h), gs' = [gs EXCEPT ![c] = h] PROVE SInv'
  <2>1. DOMAIN gs' = Components /\ \A d \in Components : gs'[d] = IF d = c THEN h ELSE gs[d]
    BY <1>4 DEF SInv
  <2> QED
    BY <1>4, <2>1 DEF SInv
<1>5. /\ \A e \in EdgeOf(m, n) : Sound(addEdge(g, e)) /\ Sound(deleteEdges(g, {e}))
      /\ \A e \in EdgeOf(m, n), k \in LabelKeys :
            /\ Sound(deleteLabelIfConnected(g, e, k))
            /\ \A v \in LabelValues : Sound(addLabelIfConnected(g, e, k, v))
  <2> HIDE DEF g
  <2> QED
    BY <1>1, <1>2, EdgeAddedSound, EdgesDeleted, EdgeLabelAdded, EdgeLabelDeleted
<1>6. CASE AddEdge(c, m, n)
  BY <1>3, <1>4, <1>5, <1>6 DEF AddEdge
<1>7. CASE DeleteEdge(c, m, n)
  BY <1>3, <1>4, <1>5, <1>7 DEF DeleteEdge
<1>8. ASSUME NEW k \in LabelKeys, DeleteEdgeLabel(c, m, n, k) PROVE SInv'
  BY <1>3, <1>4, <1>5, <1>8 DEF DeleteEdgeLabel
<1>9. ASSUME NEW k \in LabelKeys, NEW v \in LabelValues, AddEdgeLabel(c, m, n, k, v) PROVE SInv'
  BY <1>3, <1>4, <1>5, <1>9 DEF AddEdgeLabel
<1> QED
  BY <1>6, <1>7, <1>8, <1>9

LEMMA StepSInv == SInv /\ [Next]_vars => SInv'
<1> SUFFICES ASSUME SInv, [Next]_vars PROVE SInv'
  OBVIOUS
<1>1. CASE gs' = gs
  BY <1>1 DEF SInv
<1>2. ASSUME NEW n \in Names, DeleteNode(n), gs' # gs PROVE SInv'
  <2>1. PICK i \in getNodeID(n) :
           gs' = [c \in Components |-> deleteNode(createWritableGraphStorage(gs[c]), i)]
    BY <1>2 DEF DeleteNode
  <2>2. ASSUME NEW c \in Components PROVE Sound(gs'[c])
    <3>1. Sound(createWritableGraphStorage(gs[c]))
      BY NewSound DEF SInv, createWritableGraphStorage
    <3>2. gs'[c] = deleteNode(createWritableGraphStorage(gs[c]), i)
      BY <2>1
    <3> QED
      BY <3>1, <3>2, NodeEdgesDeleted
  <2> QED
    BY <2>1, <2>2 DEF SInv
<1>3. ASSUME NEW c \in Components, NEW m \in Names, NEW n \in Names,
             \/ AddEdge(c, m, n) \/ DeleteEdge(c, m, n)
             \/ \E k \in LabelKeys :
                   \/ DeleteEdgeLabel(c, m, n, k)
                   \/ \E v \in LabelValues : AddEdgeLabel(c, m, n, k, v)
      PROVE  SInv'
  BY <1>3, EdgeEventSound
<1> QED
  BY <1>1, <1>2, <1>3 DEF vars, Next, Event, AddNode, AddNodeLabel, DeleteNodeLabel

LEMMA AlwaysSInv == Spec => []SInv
BY InitSInv, StepSInv, PTL DEF Spec

----------------------------------------------------------------------------
(* The events of a client that leaves the reserved keys alone.              *)

\* An event that changes the storage of one component and no node.
LEMMA StorageReplaced ==
    ASSUME GInv, NEW c \in Components, NEW g, gs' = [gs EXCEPT ![c] = g], nodeAnnos' = nodeAnnos,
           Sound(g), Started(g, nodeAnnos)
    PROVE  GInv'
<1>1. DOMAIN gs' = Components /\ \A d \in Components : gs'[d] = IF d = c THEN g ELSE gs[d]
  BY DEF GInv
<1> QED
  BY <1>1 DEF GInv

\* An event that changes labels of nodes, and no storage.
LEMMA LabelsReplaced ==
    ASSUME GInv, gs' = gs, Named(nodeAnnos'),
           \A j \in IDs : nodeAnnos.annotations[<<j, NameKey>>] # <<>>
                              => nodeAnnos'.annotations[<<j, NameKey>>] # <<>>
    PROVE  GInv'
<1>1. ASSUME NEW c \in Components PROVE Started(gs[c], nodeAnnos')
  <2>1. Sound(gs[c]) /\ Started(gs[c], nodeAnnos)
    BY DEF GInv
  <2> QED
    BY <2>1 DEF Sound, Typed, Started, Pairs
<1> QED
  BY <1>1 DEF GInv

LEMMA EdgeStart ==
    ASSUME GInv, NEW m \in Names, NEW n \in Names, NEW e \in EdgeOf(m, n)
    PROVE  e \in Pairs /\ nodeAnnos.annotations[<<e[1], NameKey>>] # <<>>
<1>1. /\ getNodeID(m) = {i \in IDs : nodeAnnos.annotations[<<i, NameKey>>] = <<m>>}
      /\ getNodeID(n) = {i \in IDs : nodeAnnos.annotations[<<i, NameKey>>] = <<n>>}
  BY NameFound DEF GInv
<1>2. <<m>> # <<>>
  OBVIOUS
<1> QED
  BY <1>1, <1>2 DEF EdgeOf, Pairs

LEMMA AddNodeKeeps ==
    ASSUME GInv, NEW n \in Names, NEW t \in Types, AddNode(n, t)
    PROVE  GInv'
<1>1. CASE nodeAnnos' = nodeAnnos
  BY <1>1 DEF AddNode, GInv
<1>2. CASE nodeAnnos' # nodeAnnos
  <2>1. PICK i \in IDs :
           /\ nextFreeNodeID(i)
           /\ nodeAnnos' = Labels!addAnnotation(
                               Labels!addAnnotation(nodeAnnos, i, NameKey, n), i, TypeKey, t)
    BY <1>2 DEF AddNode
  <2>2. getNodeID(n) = {}
    BY <1>2 DEF AddNode
  <2>3. Named(nodeAnnos)
    BY DEF GInv
  <2>4. nodeAnnos.annotations[<<i, NameKey>>] = <<>>
    BY <2>1, NameKeys DEF nextFreeNodeID, Used, Labels!Has, IDs
  <2>5. \A j \in IDs : nodeAnnos.annotations[<<j, NameKey>>] # <<n>>
    BY <2>2, <2>3, NameFound
  <2> DEFINE s == Labels!addAnnotation(nodeAnnos, i, NameKey, n)
  <2>6. /\ Named(s)
        /\ \A j \in IDs : nodeAnnos.annotations[<<j, NameKey>>] # <<>> => s.annotations[<<j, NameKey>>] # <<>>
    BY <2>3, <2>4, <2>5, NameAdded
  <2>7. nodeAnnos' = Labels!addAnnotation(s, i, TypeKey, t)
    BY <2>1
  <2> HIDE DEF s
  <2>8. t \in V /\ TypeKey \in NodeKeys /\ TypeKey # NameKey
    BY NameKeys DEF V
  <2>9. /\ Named(nodeAnnos')
        /\ \A j \in IDs : nodeAnnos'.annotations[<<j, NameKey>>] = s.annotations[<<j, NameKey>>]
    <3>1. \A k \in NodeKeys, v \in V : k # NameKey =>
             LET u == Labels!addAnnotation(s, i, k, v)
             IN  /\ Named(u)
                 /\ \A j \in IDs : u.annotations[<<j, NameKey>>] = s.annotations[<<j, NameKey>>]
      BY <2>6, OtherLabelAdded
    <3> QED
      BY <2>7, <2>8, <3>1, ZenonT(40)
  <2>10. gs' = gs
    BY DEF AddNode
  <2> QED
    BY <2>6, <2>9, <2>10, LabelsReplaced
<1> QED
  BY <1>1, <1>2

LEMMA DeleteNodeKeeps ==
    ASSUME GInv, NEW n \in Names, DeleteNode(n)
    PROVE  GInv'
<1>1. CASE nodeAnnos' = nodeAnnos /\ gs' = gs
  BY <1>1 DEF GInv
<1>2. ASSUME NEW i \in getNodeID(n), nodeAnnos' = Labels!deleteAnnotations(nodeAnnos, {i}),
             gs' = [c \in Components |-> deleteNode(createWritableGraphStorage(gs[c]), i)]
      PROVE  GInv'
  <2>1. i \in IDs /\ nodeAnnos.annotations[<<i, NameKey>>] = <<n>> /\ Named(nodeAnnos)
    BY NameFound DEF GInv
  <2>2. /\ Named(nodeAnnos')
        /\ \A j \in IDs : nodeAnnos'.annotations[<<j, NameKey>>] =
               IF j = i THEN <<>> ELSE nodeAnnos.annotations[<<j, NameKey>>]
    BY <1>2, <2>1, NodeDeleted
  <2>3. ASSUME NEW c \in Components PROVE Sound(gs'[c]) /\ Started(gs'[c], nodeAnnos')
    <3> DEFINE g == createWritableGraphStorage(gs[c])
    <3>1. Sound(g) /\ Started(g, nodeAnnos)
      BY WritableSound DEF GInv
    <3>2. gs'[c] = deleteNode(g, i)
      BY <1>2
    <3> HIDE DEF g
    <3> QED
      BY <2>1, <2>2, <3>1, <3>2, StartDeleted
  <2> QED
    BY <1>2, <2>2, <2>3 DEF GInv
<1> QED
  BY <1>1, <1>2 DEF DeleteNode

LEMMA AddNodeLabelKeeps ==
    ASSUME GInv, NEW n \in Names, NEW k \in LabelKeys, NEW v \in LabelValues, AddNodeLabel(n, k, v)
    PROVE  GInv'
<1>1. CASE nodeAnnos' = nodeAnnos
  BY <1>1 DEF AddNodeLabel, GInv
<1>2. ASSUME NEW i \in getNodeID(n), nodeAnnos' = Labels!addAnnotation(nodeAnnos, i, k, v)
      PROVE  GInv'
  <2>1. i \in IDs /\ Named(nodeAnnos) /\ k \in NodeKeys /\ k # NameKey /\ v \in V
    BY NameKeys, NameFound DEF GInv, V
  <2>2. /\ Named(nodeAnnos')
        /\ \A j \in IDs : nodeAnnos'.annotations[<<j, NameKey>>] = nodeAnnos.annotations[<<j, NameKey>>]
    BY <1>2, <2>1, OtherLabelAdded
  <2>3. gs' = gs
    BY DEF AddNodeLabel
  <2> QED
    BY <2>2, <2>3, LabelsReplaced
<1> QED
  BY <1>1, <1>2 DEF AddNodeLabel

LEMMA DeleteNodeLabelKeeps ==
    ASSUME GInv, NEW n \in Names, NEW k \in LabelKeys, DeleteNodeLabel(n, k)
    PROVE  GInv'
<1>1. CASE nodeAnnos' = nodeAnnos
  BY <1>1 DEF DeleteNodeLabel, GInv
<1>2. ASSUME NEW i \in getNodeID(n), nodeAnnos' = Labels!deleteAnnotation(nodeAnnos, i, k)
      PROVE  GInv'
  <2>1. i \in IDs /\ Named(nodeAnnos) /\ k \in NodeKeys /\ k # NameKey
    BY NameKeys, NameFound DEF GInv
  <2>2. /\ Named(nodeAnnos')
        /\ \A j \in IDs : nodeAnnos'.annotations[<<j, NameKey>>] = nodeAnnos.annotations[<<j, NameKey>>]
    BY <1>2, <2>1, OtherLabelDeleted
  <2>3. gs' = gs
    BY DEF DeleteNodeLabel
  <2> QED
    BY <2>2, <2>3, LabelsReplaced
<1> QED
  BY <1>1, <1>2 DEF DeleteNodeLabel

\* The four events about an edge change one storage, made writable.
LEMMA EdgeEventKeeps ==
    ASSUME GInv, NEW c \in Components, NEW m \in Names, NEW n \in Names,
           \/ AddEdge(c, m, n) \/ DeleteEdge(c, m, n)
           \/ \E k \in LabelKeys :
                 \/ DeleteEdgeLabel(c, m, n, k)
                 \/ \E v \in LabelValues : AddEdgeLabel(c, m, n, k, v)
    PROVE  GInv'
<1> DEFINE g == createWritableGraphStorage(gs[c])
<1>1. Sound(g) /\ Started(g, nodeAnnos)
  BY WritableSound DEF GInv
<1>2. nodeAnnos' = nodeAnnos
  BY DEF AddEdge, DeleteEdge, DeleteEdgeLabel, AddEdgeLabel
<1>3. CASE gs' = gs
  BY <1>2, <1>3 DEF GInv
<1>4. ASSUME NEW e \in EdgeOf(m, n), gs' = [gs EXCEPT ![c] = addEdge(g, e)]
      PROVE  GInv'
  <2>1. e \in Pairs /\ nodeAnnos.annotations[<<e[1], NameKey>>] # <<>>
    BY EdgeStart
  <2> HIDE DEF g
  <2>2. Sound(addEdge(g, e)) /\ Started(addEdge(g, e), nodeAnnos)
    BY <1>1, <2>1, EdgeAdded
  <2> QED
    BY <1>2, <1>4, <2>2, StorageReplaced
<1>5. ASSUME NEW e \in EdgeOf(m, n), gs' = [gs EXCEPT ![c] = deleteEdges(g, {e})]
      PROVE  GInv'
  <2>1. {e} \in SUBSET Pairs
    BY EdgeStart
  <2> HIDE DEF g
  <2>2. Sound(deleteEdges(g, {e})) /\ deleteEdges(g, {e}).edges = g.edges \ {e}
    BY <1>1, <2>1, EdgesDeleted
  <2>3. Started(deleteEdges(g, {e}), nodeAnnos)
    BY <1>1, <2>2 DEF Started
  <2> QED
    BY <1>2, <1>5, <2>2, <2>3, StorageReplaced
<1>6. ASSUME NEW k \in LabelKeys, NEW v \in LabelValues, NEW e \in EdgeOf(m, n),
             gs' = [gs EXCEPT ![c] = addLabelIfConnected(g, e, k, v)]
      PROVE  GInv'
  <2>1. e \in Pairs
    BY EdgeStart
  <2> HIDE DEF g
  <2>2. Sound(addLabelIfConnected(g, e, k, v)) /\ addLabelIfConnected(g, e, k, v).edges = g.edges
    BY <1>1, <2>1, EdgeLabelAdded
  <2>3. Started(addLabelIfConnected(g, e, k, v), nodeAnnos)
    BY <1>1, <2>2 DEF Started
  <2> QED
    BY <1>2, <1>6, <2>2, <2>3, StorageReplaced
<1>7. ASSUME NEW k \in LabelKeys, NEW e \in EdgeOf(m, n),
             gs' = [gs EXCEPT ![c] = deleteLabelIfConnected(g, e, k)]
      PROVE  GInv'
  <2>1. e \in Pairs
    BY EdgeStart
  <2> HIDE DEF g
  <2>2. Sound(deleteLabelIfConnected(g, e, k)) /\ deleteLabelIfConnected(g, e, k).edges = g.edges
    BY <1>1, <2>1, EdgeLabelDeleted
  <2>3. Started(deleteLabelIfConnected(g, e, k), nodeAnnos)
    BY <1>1, <2>2 DEF Started
  <2> QED
    BY <1>2, <1>7, <2>2, <2>3, StorageReplaced
<1>8. CASE AddEdge(c, m, n)
  BY <1>3, <1>4, <1>8 DEF AddEdge
<1>9. CASE DeleteEdge(c, m, n)
  BY <1>3, <1>5, <1>9 DEF DeleteEdge
<1>10. ASSUME NEW k \in LabelKeys, DeleteEdgeLabel(c, m, n, k) PROVE GInv'
  BY <1>3, <1>7, <1>10 DEF DeleteEdgeLabel
<1>11. ASSUME NEW k \in LabelKeys, NEW v \in LabelValues, AddEdgeLabel(c, m, n, k, v) PROVE GInv'
  BY <1>3, <1>6, <1>11 DEF AddEdgeLabel
<1> QED
  BY <1>8, <1>9, <1>10, <1>11

LEMMA StepGInv == GInv /\ KeepsReserved /\ [Next]_vars => GInv'
<1> SUFFICES ASSUME GInv, KeepsReserved, [Next]_vars PROVE GInv'
  OBVIOUS
<1>1. CASE UNCHANGED vars
  BY <1>1 DEF vars, GInv
<1>2. CASE Next
  <2>1. ASSUME NEW n \in Names, NEW t \in Types, AddNode(n, t) PROVE GInv'
    BY <2>1, AddNodeKeeps
  <2>2. ASSUME NEW n \in Names, DeleteNode(n) PROVE GInv'
    BY <2>2, DeleteNodeKeeps
  <2>3. ASSUME NEW n \in Names, NEW k \in LabelKeys, DeleteNodeLabel(n, k) PROVE GInv'
    BY <2>3, DeleteNodeLabelKeeps
  <2>4. ASSUME NEW n \in Names, NEW k \in LabelKeys, NEW v \in LabelValues, AddNodeLabel(n, k, v)
        PROVE  GInv'
    BY <2>4, AddNodeLabelKeeps
  <2>5. ASSUME NEW c \in Components, NEW m \in Names, NEW n \in Names,
               \/ AddEdge(c, m, n) \/ DeleteEdge(c, m, n)
               \/ \E k \in LabelKeys :
                     \/ DeleteEdgeLabel(c, m, n, k)
                     \/ \E v \in LabelValues : AddEdgeLabel(c, m, n, k, v)
        PROVE  GInv'
    BY <2>5, EdgeEventKeeps
  <2> QED
    BY <1>2, <2>1, <2>2, <2>3, <2>4, <2>5 DEF Next, Event, EventKeys
<1> QED
  BY <1>1, <1>2

\* A client keeps a promise, or has never given it.
LEMMA SamePromises == [Next]_vars => (KeepsReserved' <=> KeepsReserved)
BY DEF Next, vars, KeepsReserved

LEMMA AlwaysGInv == Spec => [](KeepsReserved => GInv)
BY InitGInv, StepGInv, SamePromises, PTL DEF Spec

----------------------------------------------------------------------------
(* The theorems.                                                            *)

\* The incoming and the outgoing edges of a storage are one relation, whatever
\* was deleted and whichever storage was replaced.
THEOREM EdgesHaveInverses == Spec => []MirrorEdges
<1>1. SInv => MirrorEdges
  BY DEF SInv, Sound, Mirrored, MirrorEdges
<1> QED
  BY <1>1, AlwaysSInv, PTL

\* Unless the client adds or deletes labels with the reserved keys, getNodeID
\* answers with the one node that has the name, also when ids have been used
\* again and labels of several nodes have been erased together.
THEOREM NamesLeadToNodes == Spec => []NamesFindNodes
<1>1. (KeepsReserved => GInv) => NamesFindNodes
  <2> SUFFICES ASSUME KeepsReserved, GInv, NEW n \in Names
               PROVE  /\ getNodeID(n) = {i \in IDs : nodeAnnos.annotations[<<i, NameKey>>] = <<n>>}
                      /\ Cardinality(getNodeID(n)) <= 1
    BY DEF NamesFindNodes
  <2>1. getNodeID(n) = {i \in IDs : nodeAnnos.annotations[<<i, NameKey>>] = <<n>>}
    BY NameFound DEF GInv
  <2>2. \A i, j \in getNodeID(n) : i = j
    BY <2>1 DEF GInv, Named, NamesUnique
  <2>3. getNodeID(n) = {} \/ \E i \in IDs : getNodeID(n) = {i}
    BY <2>1, <2>2
  <2>4. Cardinality(getNodeID(n)) <= 1
    <3>1. CASE getNodeID(n) = {}
      BY <3>1, FS_EmptySet
    <3>2. ASSUME NEW i, getNodeID(n) = {i} PROVE Cardinality(getNodeID(n)) = 1
      BY <3>2, FS_Singleton
    <3> QED
      BY <2>3, <3>1, <3>2
  <2> QED
    BY <2>1, <2>4
<1> QED
  BY <1>1, AlwaysGInv, PTL

\* Unless the client adds or deletes labels with the reserved keys, an edge
\* starts at a node that exists.
THEOREM EdgesStartAtNodes == Spec => []SourcesExist
<1>1. (KeepsReserved => GInv) => SourcesExist
  BY DEF GInv, Started, SourcesExist, Exists, Labels!Has
<1> QED
  BY <1>1, AlwaysGInv, PTL

\* An edge that is not there has no labels.
THEOREM LabelsDieWithEdges == Spec => []EdgeLabelsOnEdges
<1>1. SInv => EdgeLabelsOnEdges
  BY DEF SInv, Sound, OnEdges, EdgeLabelsOnEdges, EdgeLabels!Has, Pairs
<1> QED
  BY <1>1, AlwaysSInv, PTL

----------------------------------------------------------------------------
(****************************************************************************)
(* What the searches read. AnnoStorageProofs says it of any AnnoStorage; it  *)
(* is instantiated for the labels of the nodes and for those of the edges of *)
(* a component.                                                             *)
(****************************************************************************)
NodeFacts == INSTANCE AnnoStorageProofs WITH
                 Items <- IDs, Keys <- NodeKeys, Values <- Names \cup Types \cup LabelValues,
                 Multi <- FALSE
EdgeFacts == INSTANCE AnnoStorageProofs WITH
                 Items <- IDs \X IDs, Keys <- LabelKeys, Values <- LabelValues, Multi <- TRUE

\* What holds of the labels of the nodes with a client that promises p.
NodesKept(s, p) ==
    /\ s \in NodeFacts!Storages
    /\ NodeFacts!Counted(s)
    /\ NodeFacts!Single(s)
    /\ "labels" \in p => NodeFacts!IndexAgrees(s)

\* ... and of the labels of the edges of a component.
EdgesKept(s, p) ==
    /\ s \in EdgeFacts!Storages
    /\ EdgeFacts!Counted(s)
    /\ "labels" \in p \/ "edges" \in p => EdgeFacts!Single(s)
    /\ "labels" \in p => EdgeFacts!IndexAgrees(s)

StoreInv ==
    /\ NodesKept(nodeAnnos, promises)
    /\ \A c \in Components : gs[c].writable \in BOOLEAN /\ EdgesKept(gs[c].edgeAnnos, promises)
    /\ events \in 0 .. MaxEvents
    /\ promises \subseteq {"labels", "edges", "reserved"}

----------------------------------------------------------------------------
\* The calls that GraphUpdate makes are the ones the facts are about.
LEMMA NodeCalls ==
    /\ Labels!Storages = NodeFacts!Storages
    /\ Labels!Empty = NodeFacts!Empty
    /\ \A s, i, k : Labels!Has(s, i, k) <=> NodeFacts!Has(s, i, k)
    /\ \A s, k, v : Labels!Found(s, k, v) = NodeFacts!Found(s, k, v)
    /\ \A s, i, k, v : Labels!addAnnotation(s, i, k, v) = NodeFacts!addAnnotation(s, i, k, v)
    /\ \A s, i, k : Labels!deleteAnnotation(s, i, k) = NodeFacts!deleteAnnotation(s, i, k)
    /\ \A s : Labels!IndexAgrees(s) <=> NodeFacts!IndexAgrees(s)
BY DEF Labels!Storages, NodeFacts!Storages, Labels!Empty, NodeFacts!Empty, Labels!Has, NodeFacts!Has,
   Labels!Found, NodeFacts!Found, Labels!addAnnotation, NodeFacts!addAnnotation,
   Labels!deleteAnnotation, NodeFacts!deleteAnnotation, Labels!Erase, NodeFacts!Erase,
   Labels!IndexAgrees, NodeFacts!IndexAgrees

LEMMA EdgeCalls ==
    /\ EdgeLabels!Storages = EdgeFacts!Storages
    /\ EdgeLabels!Empty = EdgeFacts!Empty
    /\ \A s, i, k : EdgeLabels!Has(s, i, k) <=> EdgeFacts!Has(s, i, k)
    /\ \A s, k, v : EdgeLabels!Found(s, k, v) = EdgeFacts!Found(s, k, v)
    /\ \A s, i, k, v : EdgeLabels!addAnnotation(s, i, k, v) = EdgeFacts!addAnnotation(s, i, k, v)
    /\ \A s, i, k : EdgeLabels!deleteAnnotation(s, i, k) = EdgeFacts!deleteAnnotation(s, i, k)
    /\ \A s : EdgeLabels!IndexAgrees(s) <=> EdgeFacts!IndexAgrees(s)
BY DEF EdgeLabels!Storages, EdgeFacts!Storages, EdgeLabels!Empty, EdgeFacts!Empty,
   EdgeLabels!Has, EdgeFacts!Has, EdgeLabels!Found, EdgeFacts!Found,
   EdgeLabels!addAnnotation, EdgeFacts!addAnnotation,
   EdgeLabels!deleteAnnotation, EdgeFacts!deleteAnnotation, EdgeLabels!Erase, EdgeFacts!Erase,
   EdgeLabels!IndexAgrees, EdgeFacts!IndexAgrees

LEMMA Counts ==
    /\ \A S : (IsFiniteSet(S) <=> NodeFacts!IsFiniteSet(S)) /\ (IsFiniteSet(S) <=> EdgeFacts!IsFiniteSet(S))
    /\ \A S : Cardinality(S) = NodeFacts!Cardinality(S) /\ Cardinality(S) = EdgeFacts!Cardinality(S)
    /\ \A S : Cardinality(S) = Labels!Cardinality(S) /\ Cardinality(S) = EdgeLabels!Cardinality(S)
BY DEF IsFiniteSet, NodeFacts!IsFiniteSet, EdgeFacts!IsFiniteSet, Cardinality, NodeFacts!Cardinality,
   EdgeFacts!Cardinality, Labels!Cardinality, EdgeLabels!Cardinality

LEMMA NodeCallsAll ==
    \A s, items : Labels!deleteAnnotations(s, items) = NodeFacts!deleteAnnotations(s, items)
BY Counts DEF Labels!deleteAnnotations, NodeFacts!deleteAnnotations

LEMMA EdgeCallsAll ==
    \A s, items : EdgeLabels!deleteAnnotations(s, items) = EdgeFacts!deleteAnnotations(s, items)
BY Counts DEF EdgeLabels!deleteAnnotations, EdgeFacts!deleteAnnotations

\* There are finitely many nodes, and pairs of nodes.
LEMMA FiniteItems == NodeFacts!IsFiniteSet(IDs) /\ EdgeFacts!IsFiniteSet(IDs \X IDs)
<1>1. IsFiniteSet(IDs)
  BY FS_Interval, UpdateAssumption DEF IDs
<1>2. IsFiniteSet(IDs \X IDs)
  BY <1>1, FS_Product
<1> QED
  BY <1>1, <1>2, Counts

----------------------------------------------------------------------------
(* The labels of the nodes.                                                 *)

LEMMA NodeLabelIn ==
    ASSUME NEW p, NEW s, NodesKept(s, p), NEW i \in IDs, NEW k \in NodeKeys, NEW v \in V,
           "labels" \in p => ~Labels!Has(s, i, k)
    PROVE  NodesKept(Labels!addAnnotation(s, i, k, v), p)
<1> DEFINE t == NodeFacts!addAnnotation(s, i, k, v)
<1>1. v \in Names \cup Types \cup LabelValues
  BY DEF V
<1>2. s \in NodeFacts!Storages /\ NodeFacts!Counted(s) /\ NodeFacts!Single(s)
  BY DEF NodesKept
<1>3. t \in NodeFacts!Storages
  BY <1>1, <1>2, NodeFacts!AddTyped
<1>4. NodeFacts!Counted(t)
  BY <1>1, <1>2, NodeFacts!AddCounted, FiniteItems
<1>5. NodeFacts!Single(t)
  BY <1>1, <1>2, NodeFacts!AddSingle
<1>6. "labels" \in p => NodeFacts!IndexAgrees(t)
  BY <1>1, <1>2, NodeFacts!AddAgrees, NodeCalls DEF NodesKept
<1> QED
  BY <1>3, <1>4, <1>5, <1>6, NodeCalls DEF NodesKept

LEMMA NodeLabelOut ==
    ASSUME NEW p, NEW s, NodesKept(s, p), NEW i \in IDs, NEW k \in NodeKeys,
           "labels" \in p => NodeFacts!Unshared(s, i, k)
    PROVE  NodesKept(Labels!deleteAnnotation(s, i, k), p)
<1> DEFINE t == NodeFacts!deleteAnnotation(s, i, k)
<1>1. s \in NodeFacts!Storages /\ NodeFacts!Counted(s) /\ NodeFacts!Single(s)
  BY DEF NodesKept
<1>2. t \in NodeFacts!Storages
  BY <1>1, NodeFacts!DeleteTyped
<1>3. NodeFacts!Counted(t)
  BY <1>1, NodeFacts!DeleteCounted, FiniteItems
<1>4. NodeFacts!Single(t)
  BY <1>1, NodeFacts!DeleteSingle
<1>5. "labels" \in p => NodeFacts!IndexAgrees(t)
  BY <1>1, NodeFacts!DeleteAgrees DEF NodesKept
<1> QED
  BY <1>2, <1>3, <1>4, <1>5, NodeCalls DEF NodesKept

LEMMA NodeOut ==
    ASSUME NEW p, NEW s, NodesKept(s, p), NEW i \in IDs,
           "labels" \in p => \A k \in NodeKeys : NodeFacts!Unshared(s, i, k)
    PROVE  NodesKept(Labels!deleteAnnotations(s, {i}), p)
<1> DEFINE t == NodeFacts!deleteAnnotations(s, {i})
<1>1. s \in NodeFacts!Storages /\ NodeFacts!Counted(s) /\ NodeFacts!Single(s) /\ {i} \in SUBSET IDs
  BY DEF NodesKept
<1>2. t \in NodeFacts!Storages
  BY <1>1, NodeFacts!DeleteAllTyped, FiniteItems
<1>3. NodeFacts!Counted(t)
  BY <1>1, NodeFacts!DeleteAllCounted, FiniteItems
<1>4. NodeFacts!Single(t)
  BY <1>1, NodeFacts!DeleteAllSingle
<1>5. "labels" \in p => NodeFacts!IndexAgrees(t)
  <2>1. "labels" \in p => \A j \in {i}, k \in NodeKeys : NodeFacts!Unshared(s, j, k)
    OBVIOUS
  <2> QED
    BY <1>1, <2>1, NodeFacts!DeleteAllAgrees DEF NodesKept
<1> QED
  BY <1>2, <1>3, <1>4, <1>5, NodeCallsAll DEF NodesKept

\* A careful client's promise is the one the facts ask for.
LEMMA UnsharedIsUnshared ==
    \A i \in IDs, k \in NodeKeys : UnsharedLabel(i, k) => NodeFacts!Unshared(nodeAnnos, i, k)
BY NodeCalls DEF UnsharedLabel, NodeFacts!Unshared

\* A node with a new id has no labels, also not with other keys than its name.
LEMMA FreshNode ==
    ASSUME NEW i \in IDs, nextFreeNodeID(i), NEW k \in NodeKeys
    PROVE  ~Labels!Has(nodeAnnos, i, k)
BY DEF nextFreeNodeID, Used, IDs

LEMMA NodeIn ==
    ASSUME NEW p, NodesKept(nodeAnnos, p), NEW i \in IDs, nextFreeNodeID(i),
           NEW n \in Names, NEW t \in Types
    PROVE  NodesKept(Labels!addAnnotation(
                         Labels!addAnnotation(nodeAnnos, i, NameKey, n), i, TypeKey, t), p)
<1> DEFINE s == Labels!addAnnotation(nodeAnnos, i, NameKey, n)
<1>1. NameKey \in NodeKeys /\ TypeKey \in NodeKeys /\ NameKey # TypeKey /\ n \in V /\ t \in V
  BY NameKeys DEF V
<1>2. NodesKept(s, p)
  BY <1>1, NodeLabelIn, FreshNode
<1>3. ~Labels!Has(s, i, TypeKey)
  <2>1. ~Labels!Has(nodeAnnos, i, TypeKey)
    BY <1>1, FreshNode
  <2>2. nodeAnnos.annotations \in [IDs \X NodeKeys -> Seq(Names \cup Types \cup LabelValues)]
    BY DEF NodesKept, NodeFacts!Storages
  <2>3. s.annotations[<<i, TypeKey>>] = nodeAnnos.annotations[<<i, TypeKey>>]
    BY <1>1, <2>2 DEF Labels!addAnnotation
  <2> QED
    BY <2>1, <2>3 DEF Labels!Has
<1> HIDE DEF s
<1>4. NodesKept(Labels!addAnnotation(s, i, TypeKey, t), p)
  BY <1>1, <1>2, <1>3, NodeLabelIn
<1> QED
  BY <1>4 DEF s

----------------------------------------------------------------------------
(* The labels of the edges of a component.                                  *)

LEMMA EdgeLabelIn ==
    ASSUME NEW p, NEW s, EdgesKept(s, p), NEW e \in IDs \X IDs, NEW k \in LabelKeys,
           NEW v \in LabelValues, "labels" \in p \/ "edges" \in p => ~EdgeLabels!Has(s, e, k)
    PROVE  EdgesKept(EdgeLabels!addAnnotation(s, e, k, v), p)
<1> DEFINE t == EdgeFacts!addAnnotation(s, e, k, v)
<1>1. s \in EdgeFacts!Storages /\ EdgeFacts!Counted(s)
  BY DEF EdgesKept
<1>2. t \in EdgeFacts!Storages
  BY <1>1, EdgeFacts!AddTyped
<1>3. EdgeFacts!Counted(t)
  BY <1>1, EdgeFacts!AddCounted, FiniteItems
<1>4. "labels" \in p \/ "edges" \in p => EdgeFacts!Single(t)
  BY <1>1, EdgeFacts!AddSingle, EdgeCalls DEF EdgesKept
<1>5. "labels" \in p => EdgeFacts!IndexAgrees(t)
  BY <1>1, EdgeFacts!AddAgrees, EdgeCalls DEF EdgesKept
<1> QED
  BY <1>2, <1>3, <1>4, <1>5, EdgeCalls DEF EdgesKept

LEMMA EdgeLabelOut ==
    ASSUME NEW p, NEW s, EdgesKept(s, p), NEW e \in IDs \X IDs, NEW k \in LabelKeys,
           "labels" \in p => EdgeFacts!Unshared(s, e, k)
    PROVE  EdgesKept(EdgeLabels!deleteAnnotation(s, e, k), p)
<1> DEFINE t == EdgeFacts!deleteAnnotation(s, e, k)
<1>1. s \in EdgeFacts!Storages /\ EdgeFacts!Counted(s)
  BY DEF EdgesKept
<1>2. t \in EdgeFacts!Storages
  BY <1>1, EdgeFacts!DeleteTyped
<1>3. EdgeFacts!Counted(t)
  BY <1>1, EdgeFacts!DeleteCounted, FiniteItems
<1>4. "labels" \in p \/ "edges" \in p => EdgeFacts!Single(t)
  BY <1>1, EdgeFacts!DeleteSingle DEF EdgesKept
<1>5. "labels" \in p => EdgeFacts!IndexAgrees(t)
  BY <1>1, EdgeFacts!DeleteAgrees DEF EdgesKept
<1> QED
  BY <1>2, <1>3, <1>4, <1>5, EdgeCalls DEF EdgesKept

LEMMA EdgesOut ==
    ASSUME NEW p, NEW s, EdgesKept(s, p), NEW es \in SUBSET (IDs \X IDs),
           "labels" \in p => \A e \in es, k \in LabelKeys : EdgeFacts!Unshared(s, e, k)
    PROVE  EdgesKept(EdgeLabels!deleteAnnotations(s, es), p)
<1> DEFINE t == EdgeFacts!deleteAnnotations(s, es)
<1>1. s \in EdgeFacts!Storages /\ EdgeFacts!Counted(s)
  BY DEF EdgesKept
<1>2. t \in EdgeFacts!Storages
  BY <1>1, EdgeFacts!DeleteAllTyped, FiniteItems
<1>3. EdgeFacts!Counted(t)
  BY <1>1, EdgeFacts!DeleteAllCounted, FiniteItems
<1>4. "labels" \in p \/ "edges" \in p => EdgeFacts!Single(t)
  BY <1>1, EdgeFacts!DeleteAllSingle DEF EdgesKept
<1>5. "labels" \in p => EdgeFacts!IndexAgrees(t)
  BY <1>1, EdgeFacts!DeleteAllAgrees DEF EdgesKept
<1> QED
  BY <1>2, <1>3, <1>4, <1>5, EdgeCallsAll DEF EdgesKept

LEMMA NoEdgesKept == \A p : EdgesKept(EdgeFacts!Empty, p)
BY EdgeFacts!EmptyTyped, EdgeFacts!EmptyCounted, EdgeFacts!EmptyAgrees DEF EdgesKept

\* The storage that an event changes: the one that is there, or an empty one.
LEMMA WritableKept ==
    ASSUME NEW p, NEW g, Sound(g), EdgesKept(g.edgeAnnos, p), g.writable \in BOOLEAN
    PROVE  LET h == createWritableGraphStorage(g)
           IN  /\ Sound(h)
               /\ EdgesKept(h.edgeAnnos, p)
               /\ h.writable \in BOOLEAN
               /\ h.edges \subseteq g.edges
               /\ \A e \in Pairs, k \in LabelKeys :
                     ~EdgeLabels!Has(g.edgeAnnos, e, k) => ~EdgeLabels!Has(h.edgeAnnos, e, k)
               /\ \A e \in Pairs, k \in LabelKeys :
                     EdgeFacts!Unshared(g.edgeAnnos, e, k) => EdgeFacts!Unshared(h.edgeAnnos, e, k)
<1>1. CASE g.writable
  BY <1>1 DEF createWritableGraphStorage
<1>2. CASE ~g.writable
  <2> DEFINE h == createWritableGraphStorage(g)
  <2>1. h = NewStorage
    BY <1>2 DEF createWritableGraphStorage
  <2>2. h.writable = TRUE /\ h.edges = {} /\ h.edgeAnnos = EdgeLabels!Empty
    BY <2>1 DEF NewStorage
  <2>3. Sound(h)
    BY <2>1, NewSound
  <2> HIDE DEF h
  <2>4. EdgesKept(h.edgeAnnos, p)
    BY <2>2, NoEdgesKept, EdgeCalls
  <2>5. \A e \in Pairs, k \in LabelKeys : ~EdgeLabels!Has(h.edgeAnnos, e, k)
    BY <2>2 DEF EdgeLabels!Has, EdgeLabels!Empty, Pairs
  <2>6. \A e \in Pairs, k \in LabelKeys : EdgeFacts!Unshared(h.edgeAnnos, e, k)
    <3>1. \A k \in LabelKeys, v \in LabelValues : EdgeFacts!Found(EdgeLabels!Empty, k, v) = {}
      BY DEF EdgeFacts!Found, EdgeLabels!Empty
    <3> QED
      BY <2>2, <3>1 DEF EdgeFacts!Unshared
  <2> QED
    BY <2>2, <2>3, <2>4, <2>5, <2>6 DEF h
<1> QED
  BY <1>1, <1>2

----------------------------------------------------------------------------
(* The events, on the labels.                                               *)

\* All that StoreInv says of a storage, with the shape the events need.
Kept(g, p) == Sound(g) /\ g.writable \in BOOLEAN /\ EdgesKept(g.edgeAnnos, p)

LEMMA EdgesDeletedKept ==
    ASSUME NEW p, NEW g, Kept(g, p), NEW es \in SUBSET Pairs,
           "labels" \in p => \A e \in es, k \in LabelKeys : EdgeFacts!Unshared(g.edgeAnnos, e, k)
    PROVE  Kept(deleteEdges(g, es), p)
<1> DEFINE h == deleteEdges(g, es)
<1>1. h.writable = g.writable /\ h.edgeAnnos = EdgeLabels!deleteAnnotations(g.edgeAnnos, es)
  <2> DEFINE rest == {e \in g.inverseEdges : Opposite(e) \notin es}
             annos == EdgeLabels!deleteAnnotations(g.edgeAnnos, es)
  <2>1. h = [g EXCEPT !.edges = g.edges \ es, !.inverseEdges = rest, !.edgeAnnos = annos]
    BY DEF deleteEdges
  <2> HIDE DEF h, rest, annos
  <2>2. h.writable = g.writable /\ h.edgeAnnos = annos
    BY <2>1 DEF Kept, Sound, Typed
  <2> QED
    BY <2>2 DEF annos
<1>2. Sound(h)
  BY EdgesDeleted DEF Kept
<1> HIDE DEF h
<1>3. EdgesKept(h.edgeAnnos, p)
  <2>1. es \in SUBSET (IDs \X IDs)
    BY DEF Pairs
  <2>2. EdgesKept(g.edgeAnnos, p)
    BY DEF Kept
  <2> QED
    BY <1>1, <2>1, <2>2, EdgesOut
<1>4. Kept(h, p)
  BY <1>1, <1>2, <1>3 DEF Kept
<1> QED
  BY <1>4 DEF h

\* An inverse edge that is no edge has no label to share.
LEMMA NodeDeletedKept ==
    ASSUME NEW p, NEW g, Kept(g, p), NEW i \in IDs,
           "labels" \in p => \A e \in g.edges, k \in LabelKeys :
                                 e[1] = i => EdgeFacts!Unshared(g.edgeAnnos, e, k)
    PROVE  Kept(deleteNode(g, i), p)
<1> DEFINE es == {e \in g.edges \cup g.inverseEdges : e[1] = i}
<1>1. es \in SUBSET Pairs
  BY DEF Kept, Sound, Typed
<1>2. ASSUME "labels" \in p, NEW e \in es, NEW k \in LabelKeys
      PROVE  EdgeFacts!Unshared(g.edgeAnnos, e, k)
  <2>1. CASE e \in g.edges
    BY <1>2, <2>1
  <2>2. CASE e \notin g.edges
    <3>1. g.edgeAnnos.annotations[<<e, k>>] = <<>>
      BY <1>1, <2>2 DEF Kept, Sound, OnEdges
    <3>2. DOMAIN g.edgeAnnos.annotations[<<e, k>>] = {}
      BY <3>1
    <3>3. EdgeFacts!IndexAgrees(g.edgeAnnos)
      BY <1>2 DEF Kept, EdgesKept
    <3>4. \A v \in LabelValues : g.edgeAnnos.inverseAnnotations[<<k, v, e>>] = 0
      <4>1. e \in IDs \X IDs
        BY <1>1 DEF Pairs
      <4> QED
        BY <3>2, <3>3, <4>1 DEF EdgeFacts!IndexAgrees
    <3> QED
      BY <3>4 DEF EdgeFacts!Unshared, EdgeFacts!Found
  <2> QED
    BY <2>1, <2>2
<1>3. deleteNode(g, i) = deleteEdges(g, es)
  BY DEF deleteNode
<1> HIDE DEF es
<1> QED
  BY <1>1, <1>2, <1>3, EdgesDeletedKept

LEMMA EdgeAddedKept ==
    ASSUME NEW p, NEW g, Kept(g, p), NEW e \in Pairs PROVE Kept(addEdge(g, e), p)
<1> DEFINE h == addEdge(g, e)
<1>1. h.writable = g.writable /\ h.edgeAnnos = g.edgeAnnos
  BY DEF addEdge, Kept, Sound, Typed
<1>2. Sound(h)
  BY EdgeAddedSound DEF Kept
<1> HIDE DEF h
<1>3. Kept(h, p)
  BY <1>1, <1>2 DEF Kept
<1> QED
  BY <1>3 DEF h

LEMMA EdgeLabelAddedKept ==
    ASSUME NEW p, NEW g, Kept(g, p), NEW e \in Pairs, NEW k \in LabelKeys, NEW v \in LabelValues,
           "labels" \in p \/ "edges" \in p => ~EdgeLabels!Has(g.edgeAnnos, e, k)
    PROVE  Kept(addLabelIfConnected(g, e, k, v), p)
<1> DEFINE h == addLabelIfConnected(g, e, k, v)
           annos == EdgeLabels!addAnnotation(g.edgeAnnos, e, k, v)
<1>1. Sound(h)
  BY EdgeLabelAdded DEF Kept
<1>2. EdgesKept(annos, p)
  BY EdgeLabelIn DEF Kept, Pairs
<1>3. h = g \/ (h.writable = g.writable /\ h.edgeAnnos = annos)
  <2> HIDE DEF annos
  <2> QED
    BY DEF addLabelIfConnected, Kept, Sound, Typed, annos
<1> HIDE DEF h, annos
<1>4. Kept(h, p)
  BY <1>1, <1>2, <1>3 DEF Kept
<1> QED
  BY <1>4 DEF h

LEMMA EdgeLabelDeletedKept ==
    ASSUME NEW p, NEW g, Kept(g, p), NEW e \in Pairs, NEW k \in LabelKeys,
           "labels" \in p => EdgeFacts!Unshared(g.edgeAnnos, e, k)
    PROVE  Kept(deleteLabelIfConnected(g, e, k), p)
<1> DEFINE h == deleteLabelIfConnected(g, e, k)
           annos == EdgeLabels!deleteAnnotation(g.edgeAnnos, e, k)
<1>1. Sound(h)
  BY EdgeLabelDeleted DEF Kept
<1>2. EdgesKept(annos, p)
  BY EdgeLabelOut DEF Kept, Pairs
<1>3. h = g \/ (h.writable = g.writable /\ h.edgeAnnos = annos)
  <2> HIDE DEF annos
  <2> QED
    BY DEF deleteLabelIfConnected, Kept, Sound, Typed, annos
<1> HIDE DEF h, annos
<1>4. Kept(h, p)
  BY <1>1, <1>2, <1>3 DEF Kept
<1> QED
  BY <1>4 DEF h

----------------------------------------------------------------------------
(* The initial states.                                                      *)

LEMMA EmptyKept == \A p : NodesKept(Labels!Empty, p)
BY NodeFacts!EmptyTyped, NodeFacts!EmptyCounted, NodeFacts!EmptyAgrees, NodeCalls DEF NodesKept

LEMMA ImportFinite ==
    IsFiniteSet(DOMAIN ImportName) /\ Cardinality(DOMAIN ImportName) \in Nat
<1>1. MaxID \in Nat /\ DOMAIN ImportName \subseteq 0 .. MaxID
  BY UpdateAssumption DEF IDs
<1>2. IsFiniteSet(0 .. MaxID)
  <2>1. 0 \in Int /\ MaxID \in Int
    BY <1>1
  <2> QED
    BY <2>1, FS_Interval
<1>3. IsFiniteSet(DOMAIN ImportName)
  BY <1>1, <1>2, FS_Subset
<1> QED
  BY <1>3, FS_CardinalityType

\* The labels of an import are names and types, one each per node.
LEMMA ImportedLabels ==
    /\ ImportedAnnos \in NodeFacts!Storages
    /\ ImportedAnnos.annotations = [x \in IDs \X NodeKeys |-> Imported(x[1], x[2])]
    /\ \A i \in IDs, k \in NodeKeys :
          \/ Imported(i, k) = <<>>
          \/ /\ i \in DOMAIN ImportName /\ k \in {NameKey, TypeKey}
             /\ \E v \in V : Imported(i, k) = <<v>>
<1>1. \A i \in IDs, k \in NodeKeys :
         \/ Imported(i, k) = <<>>
         \/ /\ i \in DOMAIN ImportName /\ k \in {NameKey, TypeKey}
            /\ \E v \in V : Imported(i, k) = <<v>>
  BY UpdateAssumption DEF Imported, NodeKeys, V
<1>2. \A i \in IDs, k \in NodeKeys : Imported(i, k) \in Seq(Names \cup Types \cup LabelValues)
  <2>1. \A v \in V : <<v>> \in Seq(Names \cup Types \cup LabelValues)
    BY DEF V
  <2> QED
    BY <1>1, <2>1, EmptySeq
<1>3. Cardinality(DOMAIN ImportName) \in Nat
  BY ImportFinite
<1>4. /\ ImportedAnnos.annotations = [x \in IDs \X NodeKeys |-> Imported(x[1], x[2])]
      /\ ImportedAnnos.inverseAnnotations =
           [x \in NodeKeys \X (Names \cup Types \cup LabelValues) \X IDs |->
               IF Imported(x[3], x[1]) = <<x[2]>> THEN 1 ELSE 0]
      /\ ImportedAnnos.annoKeys = [k \in NodeKeys |->
           IF k \in {NameKey, TypeKey} THEN Cardinality(DOMAIN ImportName) ELSE 0]
      /\ ImportedAnnos = [annotations |-> ImportedAnnos.annotations,
                          inverseAnnotations |-> ImportedAnnos.inverseAnnotations,
                          annoKeys |-> ImportedAnnos.annoKeys]
  BY DEF ImportedAnnos
<1>5. ImportedAnnos.annotations \in [IDs \X NodeKeys -> Seq(Names \cup Types \cup LabelValues)]
  BY <1>2, <1>4
<1>6. ImportedAnnos.inverseAnnotations \in [NodeKeys \X (Names \cup Types \cup LabelValues) \X IDs -> Nat]
  BY <1>4
<1>7. ImportedAnnos.annoKeys \in [NodeKeys -> Nat]
  BY <1>3, <1>4
<1> QED
  BY <1>1, <1>4, <1>5, <1>6, <1>7 DEF NodeFacts!Storages

LEMMA ImportedCounted == NodeFacts!Counted(ImportedAnnos)
<1> DEFINE N == DOMAIN ImportName
<1>1. IsFiniteSet(N) /\ Cardinality(N) \in Nat
  BY ImportFinite
<1> SUFFICES ASSUME NEW k \in NodeKeys
             PROVE  Cardinality(NodeFacts!Entries(ImportedAnnos, k)) <= ImportedAnnos.annoKeys[k]
  BY Counts DEF NodeFacts!Counted
<1>2. \A i \in IDs : ImportedAnnos.annotations[<<i, k>>] = Imported(i, k)
  BY ImportedLabels
<1>3. \A i \in IDs : DOMAIN ImportedAnnos.annotations[<<i, k>>] = {}
         \/ (i \in N /\ k \in {NameKey, TypeKey} /\ DOMAIN ImportedAnnos.annotations[<<i, k>>] = {1})
  <2>1. DOMAIN <<>> = {} /\ \A v : DOMAIN <<v>> = {1}
    OBVIOUS
  <2> QED
    BY <1>2, <2>1, ImportedLabels
<1>4. CASE k \in {NameKey, TypeKey}
  <2>1. NodeFacts!Entries(ImportedAnnos, k) \subseteq N \X {1}
    <3> SUFFICES ASSUME NEW x \in NodeFacts!Entries(ImportedAnnos, k)
                 PROVE  x \in N \X {1}
      OBVIOUS
    <3>1. PICK i \in IDs : x \in {<<i, n>> : n \in DOMAIN ImportedAnnos.annotations[<<i, k>>]}
      BY DEF NodeFacts!Entries, NodeFacts!EntriesOf
    <3> QED
      BY <1>3, <3>1
  <2>2. IsFiniteSet({1}) /\ Cardinality({1}) = 1
    BY FS_Singleton
  <2>3. IsFiniteSet(N \X {1}) /\ Cardinality(N \X {1}) = Cardinality(N) * 1
    BY <1>1, <2>2, FS_Product
  <2>4. Cardinality(NodeFacts!Entries(ImportedAnnos, k)) <= Cardinality(N \X {1})
    BY <2>1, <2>3, FS_Subset
  <2>5. ImportedAnnos.annoKeys[k] = Cardinality(N)
    BY <1>4 DEF ImportedAnnos
  <2> HIDE DEF N
  <2> QED
    BY <1>1, <2>3, <2>4, <2>5
<1>5. CASE k \notin {NameKey, TypeKey}
  <2>1. \A i \in IDs : DOMAIN ImportedAnnos.annotations[<<i, k>>] = {}
    BY <1>3, <1>5
  <2>2. NodeFacts!Entries(ImportedAnnos, k) = {}
    BY <2>1 DEF NodeFacts!Entries, NodeFacts!EntriesOf
  <2>3. ImportedAnnos.annoKeys[k] = 0
    BY <1>5 DEF ImportedAnnos
  <2> QED
    BY <2>2, <2>3, FS_EmptySet
<1> QED
  BY <1>4, <1>5

LEMMA ImportedAgrees == NodeFacts!IndexAgrees(ImportedAnnos)
<1> SUFFICES ASSUME NEW i \in IDs, NEW k \in NodeKeys, NEW v \in Names \cup Types \cup LabelValues
             PROVE  ImportedAnnos.inverseAnnotations[<<k, v, i>>] =
                      IF \E n \in DOMAIN ImportedAnnos.annotations[<<i, k>>] :
                             ImportedAnnos.annotations[<<i, k>>][n] = v
                      THEN 1 ELSE 0
  BY DEF NodeFacts!IndexAgrees
<1>1. ImportedAnnos.annotations[<<i, k>>] = Imported(i, k)
  BY ImportedLabels
<1>2. ImportedAnnos.inverseAnnotations[<<k, v, i>>] = IF Imported(i, k) = <<v>> THEN 1 ELSE 0
  BY DEF ImportedAnnos
<1>3. CASE Imported(i, k) = <<>>
  <2>1. DOMAIN ImportedAnnos.annotations[<<i, k>>] = {} /\ <<v>> # <<>>
    BY <1>1, <1>3
  <2> QED
    BY <1>2, <1>3, <2>1
<1>4. ASSUME NEW w \in V, Imported(i, k) = <<w>>
      PROVE  ImportedAnnos.inverseAnnotations[<<k, v, i>>] =
               IF \E n \in DOMAIN ImportedAnnos.annotations[<<i, k>>] :
                      ImportedAnnos.annotations[<<i, k>>][n] = v
               THEN 1 ELSE 0
  <2>1. DOMAIN <<w>> = {1} /\ <<w>>[1] = w /\ (<<w>> = <<v>> <=> w = v)
    OBVIOUS
  <2> QED
    BY <1>1, <1>2, <1>4, <2>1
<1> QED
  BY <1>3, <1>4, ImportedLabels

LEMMA ImportedKept == \A p : NodesKept(ImportedAnnos, p)
<1>1. NodeFacts!Single(ImportedAnnos)
  <2>1. \A v : Len(<<v>>) <= 1
    OBVIOUS
  <2>2. Len(<<>>) <= 1
    OBVIOUS
  <2> QED
    BY <2>1, <2>2, ImportedLabels DEF NodeFacts!Single
<1> QED
  BY <1>1, ImportedLabels, ImportedCounted, ImportedAgrees DEF NodesKept

LEMMA InitStoreInv == Init => StoreInv
<1> SUFFICES ASSUME Init PROVE StoreInv
  OBVIOUS
<1>1. events \in 0 .. MaxEvents /\ promises \subseteq {"labels", "edges", "reserved"}
  BY UpdateAssumption DEF Init
<1>2. NodesKept(nodeAnnos, promises)
  BY EmptyKept, ImportedKept DEF Init
<1>3. ASSUME NEW c \in Components
      PROVE  gs[c].writable \in BOOLEAN /\ gs[c].edgeAnnos = EdgeLabels!Empty
  <2>1. CASE gs = [d \in Components |-> NewStorage]
    BY <2>1 DEF NewStorage
  <2>2. CASE \E optimised \in SUBSET Optimisable :
                gs = [d \in Components |-> ImportedStorage(d, d \notin optimised)]
    <3>1. PICK optimised \in SUBSET Optimisable :
             gs = [d \in Components |-> ImportedStorage(d, d \notin optimised)]
      BY <2>2
    <3>2. gs[c] = ImportedStorage(c, c \notin optimised)
      BY <3>1
    <3>3. gs[c].writable = (c \notin optimised) /\ gs[c].edgeAnnos = EdgeLabels!Empty
      BY <3>2 DEF ImportedStorage
    <3>4. (c \notin optimised) \in BOOLEAN
      OBVIOUS
    <3> QED
      BY <3>3, <3>4, Zenon
  <2> QED
    BY <2>1, <2>2 DEF Init
<1>4. \A c \in Components : EdgesKept(gs[c].edgeAnnos, promises)
  BY <1>3, NoEdgesKept, EdgeCalls
<1> QED
  BY <1>1, <1>2, <1>3, <1>4 DEF StoreInv

----------------------------------------------------------------------------
(* The steps.                                                               *)

\* An event that replaces the storage of one component, or none.
LEMMA OneStorageKept ==
    ASSUME SInv, StoreInv, NEW c \in Components, NEW g, gs' = [gs EXCEPT ![c] = g],
           nodeAnnos' = nodeAnnos, promises' = promises, events' \in 0 .. MaxEvents,
           Kept(g, promises)
    PROVE  StoreInv'
<1>1. \A d \in Components : gs'[d] = IF d = c THEN g ELSE gs[d]
  BY DEF SInv
<1> QED
  BY <1>1 DEF StoreInv, Kept

LEMMA NodeEventKept ==
    ASSUME SInv, StoreInv, NEW n \in Names, promises' = promises, events' \in 0 .. MaxEvents,
           \/ \E t \in Types : AddNode(n, t)
           \/ \E k \in NodeKeys :
                 DeleteNodeLabel(n, k) \/ \E v \in LabelValues : AddNodeLabel(n, k, v)
    PROVE  StoreInv'
<1> DEFINE p == promises
<1>1. gs' = gs
  BY DEF AddNode, DeleteNodeLabel, AddNodeLabel
<1>2. getNodeID(n) \subseteq IDs /\ LabelValues \subseteq V
  BY DEF getNodeID, Labels!Found, V
<1>3. NodesKept(nodeAnnos, p)
  BY DEF StoreInv
<1>4. ASSUME NEW t \in Types, AddNode(n, t) PROVE NodesKept(nodeAnnos', p)
  BY <1>3, <1>4, NodeIn DEF AddNode
<1>5. ASSUME NEW k \in NodeKeys, DeleteNodeLabel(n, k) PROVE NodesKept(nodeAnnos', p)
  <2>1. CASE nodeAnnos' = nodeAnnos
    BY <1>3, <2>1
  <2>2. ASSUME NEW i \in getNodeID(n), KeepsLabels => UnsharedLabel(i, k),
               nodeAnnos' = Labels!deleteAnnotation(nodeAnnos, i, k)
        PROVE  NodesKept(nodeAnnos', p)
    <3>1. "labels" \in p => NodeFacts!Unshared(nodeAnnos, i, k)
      BY <1>2, <2>2, UnsharedIsUnshared DEF KeepsLabels
    <3> QED
      BY <1>2, <1>3, <2>2, <3>1, NodeLabelOut
  <2> QED
    BY <1>5, <2>1, <2>2 DEF DeleteNodeLabel
<1>6. ASSUME NEW k \in NodeKeys, NEW v \in LabelValues, AddNodeLabel(n, k, v)
      PROVE  NodesKept(nodeAnnos', p)
  <2>1. CASE nodeAnnos' = nodeAnnos
    BY <1>3, <2>1
  <2>2. ASSUME NEW i \in getNodeID(n), KeepsLabels => ~Labels!Has(nodeAnnos, i, k),
               nodeAnnos' = Labels!addAnnotation(nodeAnnos, i, k, v)
        PROVE  NodesKept(nodeAnnos', p)
    BY <1>2, <1>3, <2>2, NodeLabelIn DEF KeepsLabels
  <2> QED
    BY <1>6, <2>1, <2>2 DEF AddNodeLabel
<1> QED
  BY <1>1, <1>4, <1>5, <1>6 DEF StoreInv

LEMMA DeleteNodeKept ==
    ASSUME SInv, StoreInv, NEW n \in Names, promises' = promises, events' \in 0 .. MaxEvents,
           DeleteNode(n)
    PROVE  StoreInv'
<1>1. CASE UNCHANGED <<nodeAnnos, gs>>
  BY <1>1 DEF StoreInv
<1>2. ASSUME NEW i \in getNodeID(n), MayDelete(i),
             nodeAnnos' = Labels!deleteAnnotations(nodeAnnos, {i}),
             gs' = [c \in Components |-> deleteNode(createWritableGraphStorage(gs[c]), i)]
      PROVE  StoreInv'
  <2>1. i \in IDs
    BY DEF getNodeID, Labels!Found
  <2>2. NodesKept(nodeAnnos', promises)
    <3>1. "labels" \in promises => \A k \in NodeKeys : NodeFacts!Unshared(nodeAnnos, i, k)
      BY <1>2, <2>1, UnsharedIsUnshared DEF MayDelete, KeepsLabels
    <3>2. NodesKept(nodeAnnos, promises)
      BY DEF StoreInv
    <3> QED
      BY <1>2, <2>1, <3>1, <3>2, NodeOut
  <2>3. ASSUME NEW c \in Components PROVE Kept(gs'[c], promises)
    <3> DEFINE h == createWritableGraphStorage(gs[c])
    <3>1. Sound(gs[c]) /\ EdgesKept(gs[c].edgeAnnos, promises) /\ gs[c].writable \in BOOLEAN
      BY DEF SInv, StoreInv
    <3>2. /\ Kept(h, promises) /\ h.edges \subseteq gs[c].edges
          /\ \A e \in Pairs, k \in LabelKeys :
                EdgeFacts!Unshared(gs[c].edgeAnnos, e, k) => EdgeFacts!Unshared(h.edgeAnnos, e, k)
      BY <3>1, WritableKept DEF Kept
    <3>3. "labels" \in promises => \A e \in gs[c].edges, k \in LabelKeys :
              e[1] = i => EdgeFacts!Unshared(gs[c].edgeAnnos, e, k)
      BY <1>2, EdgeCalls DEF MayDelete, KeepsLabels, UnsharedEdgeLabel, EdgeFacts!Unshared
    <3>4. gs[c].edges \subseteq Pairs
      BY <3>1 DEF Sound, Typed
    <3>5. gs'[c] = deleteNode(h, i)
      BY <1>2
    <3> HIDE DEF h
    <3>6. "labels" \in promises => \A e \in h.edges, k \in LabelKeys :
              e[1] = i => EdgeFacts!Unshared(h.edgeAnnos, e, k)
      BY <3>2, <3>3, <3>4
    <3> QED
      BY <2>1, <3>2, <3>5, <3>6, NodeDeletedKept
  <2> QED
    BY <2>2, <2>3 DEF StoreInv, Kept
<1> QED
  BY <1>1, <1>2 DEF DeleteNode

LEMMA EdgeEventKept ==
    ASSUME SInv, StoreInv, NEW c \in Components, NEW m \in Names, NEW n \in Names,
           promises' = promises, events' \in 0 .. MaxEvents,
           \/ AddEdge(c, m, n) \/ DeleteEdge(c, m, n)
           \/ \E k \in LabelKeys :
                 \/ DeleteEdgeLabel(c, m, n, k)
                 \/ \E v \in LabelValues : AddEdgeLabel(c, m, n, k, v)
    PROVE  StoreInv'
<1> DEFINE g == createWritableGraphStorage(gs[c])
           p == promises
<1>1. /\ Kept(g, p)
      /\ \A e \in Pairs, k \in LabelKeys :
            ~EdgeLabels!Has(gs[c].edgeAnnos, e, k) => ~EdgeLabels!Has(g.edgeAnnos, e, k)
      /\ \A e \in Pairs, k \in LabelKeys :
            EdgeFacts!Unshared(gs[c].edgeAnnos, e, k) => EdgeFacts!Unshared(g.edgeAnnos, e, k)
  <2>1. Sound(gs[c]) /\ EdgesKept(gs[c].edgeAnnos, promises) /\ gs[c].writable \in BOOLEAN
    BY DEF SInv, StoreInv
  <2> QED
    BY <2>1, WritableKept DEF Kept
<1>2. nodeAnnos' = nodeAnnos
  BY DEF AddEdge, DeleteEdge, DeleteEdgeLabel, AddEdgeLabel
<1>3. CASE gs' = gs
  BY <1>2, <1>3 DEF StoreInv
<1>4. EdgeOf(m, n) \subseteq Pairs
  BY EdgePairs
<1>5. \A e \in Pairs, k \in LabelKeys :
         UnsharedEdgeLabel(c, e, k) => EdgeFacts!Unshared(gs[c].edgeAnnos, e, k)
  BY EdgeCalls DEF UnsharedEdgeLabel, EdgeFacts!Unshared
<1> HIDE DEF g
<1>6. ASSUME NEW e \in EdgeOf(m, n), gs' = [gs EXCEPT ![c] = addEdge(g, e)]
      PROVE  StoreInv'
  BY <1>1, <1>2, <1>4, <1>6, EdgeAddedKept, OneStorageKept
<1>7. ASSUME NEW e \in EdgeOf(m, n), KeepsLabels => \A k \in LabelKeys : UnsharedEdgeLabel(c, e, k),
             gs' = [gs EXCEPT ![c] = deleteEdges(g, {e})]
      PROVE  StoreInv'
  <2>1. {e} \in SUBSET Pairs /\ e \in Pairs
    BY <1>4
  <2>2. "labels" \in p => \A f \in {e}, k \in LabelKeys : EdgeFacts!Unshared(g.edgeAnnos, f, k)
    BY <1>1, <1>5, <1>7, <2>1 DEF KeepsLabels
  <2>3. Kept(deleteEdges(g, {e}), p)
    BY <1>1, <2>1, <2>2, EdgesDeletedKept
  <2> QED
    BY <1>2, <1>7, <2>3, OneStorageKept
<1>8. ASSUME NEW k \in LabelKeys, NEW v \in LabelValues, NEW e \in EdgeOf(m, n),
             KeepsEdges \/ KeepsLabels => ~EdgeLabels!Has(gs[c].edgeAnnos, e, k),
             gs' = [gs EXCEPT ![c] = addLabelIfConnected(g, e, k, v)]
      PROVE  StoreInv'
  <2>1. "labels" \in p \/ "edges" \in p => ~EdgeLabels!Has(g.edgeAnnos, e, k)
    BY <1>1, <1>4, <1>8 DEF KeepsLabels, KeepsEdges
  <2>2. Kept(addLabelIfConnected(g, e, k, v), p)
    BY <1>1, <1>4, <2>1, EdgeLabelAddedKept
  <2> QED
    BY <1>2, <1>8, <2>2, OneStorageKept
<1>9. ASSUME NEW k \in LabelKeys, NEW e \in EdgeOf(m, n), KeepsLabels => UnsharedEdgeLabel(c, e, k),
             gs' = [gs EXCEPT ![c] = deleteLabelIfConnected(g, e, k)]
      PROVE  StoreInv'
  <2>1. "labels" \in p => EdgeFacts!Unshared(g.edgeAnnos, e, k)
    BY <1>1, <1>4, <1>5, <1>9 DEF KeepsLabels
  <2>2. Kept(deleteLabelIfConnected(g, e, k), p)
    BY <1>1, <1>4, <2>1, EdgeLabelDeletedKept
  <2> QED
    BY <1>2, <1>9, <2>2, OneStorageKept
<1>10. CASE AddEdge(c, m, n)
  BY <1>3, <1>6, <1>10 DEF AddEdge, g
<1>11. CASE DeleteEdge(c, m, n)
  BY <1>3, <1>7, <1>11 DEF DeleteEdge, g
<1>12. ASSUME NEW k \in LabelKeys, DeleteEdgeLabel(c, m, n, k) PROVE StoreInv'
  BY <1>3, <1>9, <1>12 DEF DeleteEdgeLabel, g
<1>13. ASSUME NEW k \in LabelKeys, NEW v \in LabelValues, AddEdgeLabel(c, m, n, k, v) PROVE StoreInv'
  BY <1>3, <1>8, <1>13 DEF AddEdgeLabel, g
<1> QED
  BY <1>10, <1>11, <1>12, <1>13

LEMMA StepStoreInv == SInv /\ StoreInv /\ [Next]_vars => StoreInv'
<1> SUFFICES ASSUME SInv, StoreInv, [Next]_vars PROVE StoreInv'
  OBVIOUS
<1>1. CASE UNCHANGED vars
  BY <1>1 DEF vars, StoreInv
<1>2. CASE Next
  <2>1. promises' = promises /\ events' \in 0 .. MaxEvents
    BY <1>2, UpdateAssumption DEF Next, StoreInv
  <2>2. ASSUME NEW n \in Names,
               \/ \E t \in Types : AddNode(n, t)
               \/ \E k \in NodeKeys :
                     DeleteNodeLabel(n, k) \/ \E v \in LabelValues : AddNodeLabel(n, k, v)
        PROVE  StoreInv'
    BY <2>1, <2>2, NodeEventKept
  <2>3. ASSUME NEW n \in Names, DeleteNode(n) PROVE StoreInv'
    BY <2>1, <2>3, DeleteNodeKept
  <2>4. ASSUME NEW c \in Components, NEW m \in Names, NEW n \in Names,
               \/ AddEdge(c, m, n) \/ DeleteEdge(c, m, n)
               \/ \E k \in LabelKeys :
                     \/ DeleteEdgeLabel(c, m, n, k)
                     \/ \E v \in LabelValues : AddEdgeLabel(c, m, n, k, v)
        PROVE  StoreInv'
    BY <2>1, <2>4, EdgeEventKept
  <2> QED
    BY <1>2, <2>2, <2>3, <2>4 DEF Next, Event, EventKeys, NodeKeys
<1> QED
  BY <1>1, <1>2

LEMMA AlwaysStoreInv == Spec => [](SInv /\ StoreInv)
  BY InitSInv, InitStoreInv, StepSInv, StepStoreInv, PTL DEF Spec

----------------------------------------------------------------------------
\* The type invariant; a node has one label per key at most.
THEOREM TypeCorrect == Spec => []TypeOK
<1>1. SInv /\ StoreInv => TypeOK
  <2> SUFFICES ASSUME SInv, StoreInv PROVE TypeOK
    OBVIOUS
  <2>1. nodeAnnos \in Labels!Storages /\ \A x \in IDs \X NodeKeys : Len(nodeAnnos.annotations[x]) <= 1
    BY NodeCalls DEF StoreInv, NodesKept, NodeFacts!Single
  <2>2. ASSUME NEW c \in Components
        PROVE  /\ gs[c].writable \in BOOLEAN
               /\ gs[c].edges \subseteq IDs \X IDs
               /\ gs[c].inverseEdges \subseteq IDs \X IDs
               /\ gs[c].edgeAnnos \in EdgeLabels!Storages
    BY EdgeCalls DEF SInv, Sound, Typed, Pairs, StoreInv, EdgesKept
  <2> QED
    BY <2>1, <2>2 DEF StoreInv, TypeOK
<1> QED
  BY <1>1, AlwaysStoreInv, PTL

\* A search by key misses no key that has labels, and with a client careful about
\* labels a search finds what the labels say, once each.
THEOREM SearchesAgree == Spec => []SearchAgrees
<1>1. StoreInv => SearchAgrees
  <2> SUFFICES ASSUME StoreInv PROVE SearchAgrees
    OBVIOUS
  <2>1. ASSUME NEW k \in NodeKeys
        PROVE  Cardinality({i \in IDs : Labels!Has(nodeAnnos, i, k)}) <= nodeAnnos.annoKeys[k]
    <3>1. Cardinality({i \in IDs : NodeFacts!Has(nodeAnnos, i, k)}) <= nodeAnnos.annoKeys[k]
      BY NodeFacts!CountedListed, FiniteItems, Counts DEF StoreInv, NodesKept
    <3>2. {i \in IDs : NodeFacts!Has(nodeAnnos, i, k)} = {i \in IDs : Labels!Has(nodeAnnos, i, k)}
      BY NodeCalls
    <3> QED
      BY <3>1, <3>2
  <2>2. ASSUME NEW c \in Components, NEW k \in LabelKeys
        PROVE  Cardinality({e \in IDs \X IDs : EdgeLabels!Has(gs[c].edgeAnnos, e, k)})
                   <= gs[c].edgeAnnos.annoKeys[k]
    <3>1. Cardinality({e \in IDs \X IDs : EdgeFacts!Has(gs[c].edgeAnnos, e, k)})
              <= gs[c].edgeAnnos.annoKeys[k]
      BY EdgeFacts!CountedListed, FiniteItems, Counts DEF StoreInv, EdgesKept
    <3>2. {e \in IDs \X IDs : EdgeFacts!Has(gs[c].edgeAnnos, e, k)} =
             {e \in IDs \X IDs : EdgeLabels!Has(gs[c].edgeAnnos, e, k)}
      BY EdgeCalls
    <3> QED
      BY <3>1, <3>2
  <2>3. KeepsLabels => /\ Labels!IndexAgrees(nodeAnnos)
                       /\ \A c \in Components : EdgeLabels!IndexAgrees(gs[c].edgeAnnos)
    BY NodeCalls, EdgeCalls DEF StoreInv, NodesKept, EdgesKept, KeepsLabels
  <2> QED
    BY <2>1, <2>2, <2>3 DEF SearchAgrees, KeysListed
<1> QED
  BY <1>1, AlwaysStoreInv, PTL

----------------------------------------------------------------------------
(****************************************************************************)
(* What the client sees of the nodes and edges, and that the events change   *)
(* it the way LabelledGraph says. A node has its name, its type and labels   *)
(* of its own, or no label at all; with a client careful about edges an edge *)
(* ends at a node, too. All this is about a client that leaves the reserved  *)
(* keys alone.                                                               *)
(****************************************************************************)
WholeNode(a, i) ==
    \/ \A k \in NodeKeys : a[<<i, k>>] = <<>>
    \/ /\ \E n \in Names : a[<<i, NameKey>>] = <<n>>
       /\ \E t \in Types : a[<<i, TypeKey>>] = <<t>>
       /\ \A k \in LabelKeys : a[<<i, k>>] = <<>> \/ \E v \in LabelValues : a[<<i, k>>] = <<v>>

Whole(a) == \A i \in IDs : WholeNode(a, i)

Ended ==
    \A c \in Components : \A e \in gs[c].edges : nodeAnnos.annotations[<<e[2], NameKey>>] # <<>>

GraphInv == GInv /\ StoreInv /\ Whole(nodeAnnos.annotations) /\ (KeepsEdges => Ended)

----------------------------------------------------------------------------
(* What an event does to the labels of the nodes.                           *)

LEMMA LabelAt ==
    ASSUME NEW s, NodeLabels(s), NEW i \in IDs, NEW k \in NodeKeys, NEW v \in V
    PROVE  /\ NodeLabels(Labels!addAnnotation(s, i, k, v))
           /\ \A j \in IDs, l \in NodeKeys :
                 Labels!addAnnotation(s, i, k, v).annotations[<<j, l>>] =
                     IF j = i /\ l = k /\ s.annotations[<<i, k>>] = <<>> THEN <<v>>
                     ELSE s.annotations[<<j, l>>]
<1> DEFINE t == Labels!addAnnotation(s, i, k, v)
<1>1. /\ NodeLabels(t)
      /\ t.annotations = [s.annotations EXCEPT ![<<i, k>>] = IF @ = <<>> THEN <<v>> ELSE @]
      /\ t.inverseAnnotations = [s.inverseAnnotations EXCEPT ![<<k, v, i>>] = @ + 1]
  BY LabelAdded
<1> HIDE DEF t
<1>2. \A j \in IDs, l \in NodeKeys : t.annotations[<<j, l>>] =
         IF j = i /\ l = k /\ s.annotations[<<i, k>>] = <<>> THEN <<v>> ELSE s.annotations[<<j, l>>]
  <2>1. s.annotations \in [IDs \X NodeKeys -> Seq(V)]
    BY DEF NodeLabels
  <2>2. t.annotations = [s.annotations EXCEPT ![<<i, k>>] =
            IF s.annotations[<<i, k>>] = <<>> THEN <<v>> ELSE s.annotations[<<i, k>>]]
    BY <1>1
  <2>3. CASE s.annotations[<<i, k>>] = <<>>
    <3>1. t.annotations = [s.annotations EXCEPT ![<<i, k>>] = <<v>>]
      BY <2>2, <2>3
    <3> QED
      BY <2>1, <2>3, <3>1
  <2>4. CASE s.annotations[<<i, k>>] # <<>>
    <3>1. t.annotations = [s.annotations EXCEPT ![<<i, k>>] = s.annotations[<<i, k>>]]
      BY <2>2, <2>4
    <3> QED
      BY <2>1, <2>4, <3>1
  <2> QED
    BY <2>3, <2>4
<1> QED
  BY <1>1, <1>2 DEF t

LEMMA NodeAdded ==
    ASSUME GInv, NEW n \in Names, NEW t \in Types, AddNode(n, t), nodeAnnos' # nodeAnnos
    PROVE  /\ \A j \in IDs : nodeAnnos.annotations[<<j, NameKey>>] # <<n>>
           /\ \E i \in IDs :
                 /\ \A k \in NodeKeys : nodeAnnos.annotations[<<i, k>>] = <<>>
                 /\ \A j \in IDs, k \in NodeKeys :
                       nodeAnnos'.annotations[<<j, k>>] =
                           IF j # i THEN nodeAnnos.annotations[<<j, k>>]
                           ELSE IF k = NameKey THEN <<n>> ELSE IF k = TypeKey THEN <<t>> ELSE <<>>
<1>1. PICK i \in IDs :
         /\ nextFreeNodeID(i)
         /\ nodeAnnos' = Labels!addAnnotation(
                             Labels!addAnnotation(nodeAnnos, i, NameKey, n), i, TypeKey, t)
  BY DEF AddNode
<1>2. \A j \in IDs : nodeAnnos.annotations[<<j, NameKey>>] # <<n>>
  BY NameFound DEF AddNode, GInv
<1>3. \A k \in NodeKeys : nodeAnnos.annotations[<<i, k>>] = <<>>
  BY <1>1, FreshNode DEF Labels!Has
<1> DEFINE s == Labels!addAnnotation(nodeAnnos, i, NameKey, n)
<1>4. NameKey \in NodeKeys /\ TypeKey \in NodeKeys /\ NameKey # TypeKey /\ n \in V /\ t \in V
  BY NameKeys DEF V
<1>5. NodeLabels(nodeAnnos)
  BY DEF GInv, Named
<1>6. /\ NodeLabels(s)
      /\ \A j \in IDs, k \in NodeKeys : s.annotations[<<j, k>>] =
             IF j = i /\ k = NameKey /\ nodeAnnos.annotations[<<i, NameKey>>] = <<>> THEN <<n>>
             ELSE nodeAnnos.annotations[<<j, k>>]
  BY <1>4, <1>5, LabelAt
<1>7. nodeAnnos' = Labels!addAnnotation(s, i, TypeKey, t)
  BY <1>1
<1> HIDE DEF s
<1>8. \A j \in IDs, k \in NodeKeys : nodeAnnos'.annotations[<<j, k>>] =
         IF j = i /\ k = TypeKey /\ s.annotations[<<i, TypeKey>>] = <<>> THEN <<t>>
         ELSE s.annotations[<<j, k>>]
  <2>1. NodeLabels(s) /\ t \in V /\ TypeKey \in NodeKeys
    BY <1>4, <1>6
  <2>2. ASSUME NEW r, NodeLabels(r), NEW j \in IDs, NEW k \in NodeKeys
        PROVE  Labels!addAnnotation(r, i, TypeKey, t).annotations[<<j, k>>] =
                   IF j = i /\ k = TypeKey /\ r.annotations[<<i, TypeKey>>] = <<>> THEN <<t>>
                   ELSE r.annotations[<<j, k>>]
    BY <2>1, <2>2, LabelAt
  <2> QED
    BY <1>7, <2>1, <2>2
<1>9. \A j \in IDs, k \in NodeKeys :
         nodeAnnos'.annotations[<<j, k>>] =
             IF j # i THEN nodeAnnos.annotations[<<j, k>>]
             ELSE IF k = NameKey THEN <<n>> ELSE IF k = TypeKey THEN <<t>> ELSE <<>>
  BY <1>3, <1>4, <1>6, <1>8
<1> QED
  BY <1>2, <1>3, <1>9

LEMMA NodeRemoved ==
    ASSUME GInv, NEW n \in Names, NEW i \in getNodeID(n),
           nodeAnnos' = Labels!deleteAnnotations(nodeAnnos, {i})
    PROVE  /\ i \in IDs /\ nodeAnnos.annotations[<<i, NameKey>>] = <<n>>
           /\ \A j \in IDs, k \in NodeKeys :
                 nodeAnnos'.annotations[<<j, k>>] =
                     IF j = i THEN <<>> ELSE nodeAnnos.annotations[<<j, k>>]
<1>1. i \in IDs /\ nodeAnnos.annotations[<<i, NameKey>>] = <<n>>
  BY NameFound DEF GInv
<1>2. nodeAnnos'.annotations =
         [x \in IDs \X NodeKeys |-> IF x[1] \in {i} THEN <<>> ELSE nodeAnnos.annotations[x]]
  BY DEF Labels!deleteAnnotations
<1> QED
  BY <1>1, <1>2

LEMMA NodeLabelled ==
    ASSUME GInv, NEW n \in Names, NEW k \in LabelKeys, NEW v \in LabelValues, AddNodeLabel(n, k, v)
    PROVE  \/ nodeAnnos'.annotations = nodeAnnos.annotations
           \/ \E i \in IDs :
                 /\ nodeAnnos.annotations[<<i, NameKey>>] = <<n>>
                 /\ nodeAnnos.annotations[<<i, k>>] = <<>>
                 /\ \A j \in IDs, l \in NodeKeys :
                       nodeAnnos'.annotations[<<j, l>>] =
                           IF j = i /\ l = k THEN <<v>> ELSE nodeAnnos.annotations[<<j, l>>]
<1>1. CASE nodeAnnos' = nodeAnnos
  BY <1>1
<1>2. ASSUME NEW i \in getNodeID(n), nodeAnnos' = Labels!addAnnotation(nodeAnnos, i, k, v)
      PROVE  \/ nodeAnnos'.annotations = nodeAnnos.annotations
             \/ /\ i \in IDs
                /\ nodeAnnos.annotations[<<i, NameKey>>] = <<n>>
                /\ nodeAnnos.annotations[<<i, k>>] = <<>>
                /\ \A j \in IDs, l \in NodeKeys :
                      nodeAnnos'.annotations[<<j, l>>] =
                          IF j = i /\ l = k THEN <<v>> ELSE nodeAnnos.annotations[<<j, l>>]
  <2>1. i \in IDs /\ nodeAnnos.annotations[<<i, NameKey>>] = <<n>>
    BY NameFound DEF GInv
  <2>2. NodeLabels(nodeAnnos) /\ k \in NodeKeys /\ v \in V
    BY NameKeys DEF GInv, Named, V
  <2>3. /\ NodeLabels(nodeAnnos')
        /\ \A j \in IDs, l \in NodeKeys : nodeAnnos'.annotations[<<j, l>>] =
               IF j = i /\ l = k /\ nodeAnnos.annotations[<<i, k>>] = <<>> THEN <<v>>
               ELSE nodeAnnos.annotations[<<j, l>>]
    BY <1>2, <2>1, <2>2, LabelAt
  <2>4. CASE nodeAnnos.annotations[<<i, k>>] = <<>>
    BY <2>1, <2>2, <2>3, <2>4 DEF NodeLabels
  <2>5. CASE nodeAnnos.annotations[<<i, k>>] # <<>>
    BY <2>1, <2>2, <2>3, <2>5 DEF NodeLabels
  <2> QED
    BY <2>4, <2>5
<1> QED
  BY <1>1, <1>2 DEF AddNodeLabel

LEMMA NodeUnlabelled ==
    ASSUME GInv, StoreInv, NEW n \in Names, NEW k \in LabelKeys, DeleteNodeLabel(n, k)
    PROVE  \/ nodeAnnos'.annotations = nodeAnnos.annotations
           \/ \E i \in IDs :
                 /\ nodeAnnos.annotations[<<i, NameKey>>] = <<n>>
                 /\ \A j \in IDs, l \in NodeKeys :
                       nodeAnnos'.annotations[<<j, l>>] =
                           IF j = i /\ l = k THEN <<>> ELSE nodeAnnos.annotations[<<j, l>>]
<1>1. CASE nodeAnnos' = nodeAnnos
  BY <1>1
<1>2. ASSUME NEW i \in getNodeID(n), nodeAnnos' = Labels!deleteAnnotation(nodeAnnos, i, k)
      PROVE  \/ nodeAnnos'.annotations = nodeAnnos.annotations
             \/ /\ i \in IDs
                /\ nodeAnnos.annotations[<<i, NameKey>>] = <<n>>
                /\ \A j \in IDs, l \in NodeKeys :
                      nodeAnnos'.annotations[<<j, l>>] =
                          IF j = i /\ l = k THEN <<>> ELSE nodeAnnos.annotations[<<j, l>>]
  <2>1. i \in IDs /\ nodeAnnos.annotations[<<i, NameKey>>] = <<n>>
    BY NameFound DEF GInv
  <2>2. NodeLabels(nodeAnnos) /\ k \in NodeKeys
    BY NameKeys DEF GInv, Named
  <2>3. nodeAnnos \in NodeFacts!Storages /\ NodeFacts!Single(nodeAnnos)
    BY DEF StoreInv, NodesKept
  <2>4. nodeAnnos'.annotations = [nodeAnnos.annotations EXCEPT ![<<i, k>>] = <<>>]
    BY <1>2, <2>1, <2>2, <2>3, NodeFacts!DeleteOnly, NodeCalls
  <2> QED
    BY <2>1, <2>2, <2>4 DEF NodeLabels
<1> QED
  BY <1>1, <1>2 DEF DeleteNodeLabel

----------------------------------------------------------------------------
(* What an event does to a storage that it may write: to the edges and to    *)
(* their labels.                                                            *)

LEMMA EdgeAddedAt ==
    ASSUME NEW g, Sound(g), NEW e \in Pairs
    PROVE  /\ addEdge(g, e).edgeAnnos = g.edgeAnnos
           /\ addEdge(g, e).edges = IF e[1] = e[2] THEN g.edges ELSE g.edges \cup {e}
BY DEF addEdge, Sound, Typed

LEMMA EdgesDeletedAt ==
    ASSUME NEW g, Sound(g), NEW es \in SUBSET Pairs
    PROVE  LET h == deleteEdges(g, es)
           IN  /\ h.edges = g.edges \ es
               /\ \A e \in Pairs, k \in LabelKeys : h.edgeAnnos.annotations[<<e, k>>] =
                      IF e \in es THEN <<>> ELSE g.edgeAnnos.annotations[<<e, k>>]
<1> DEFINE h == deleteEdges(g, es)
<1>1. h.edges = g.edges \ es
  BY EdgesDeleted
<1>2. h.edgeAnnos = EdgeLabels!deleteAnnotations(g.edgeAnnos, es)
  <2> DEFINE rest == {e \in g.inverseEdges : Opposite(e) \notin es}
             annos == EdgeLabels!deleteAnnotations(g.edgeAnnos, es)
  <2>1. h = [g EXCEPT !.edges = g.edges \ es, !.inverseEdges = rest, !.edgeAnnos = annos]
    BY DEF deleteEdges
  <2> HIDE DEF h, rest, annos
  <2>2. h.edgeAnnos = annos
    BY <2>1 DEF Sound, Typed
  <2> QED
    BY <2>2 DEF annos
<1> HIDE DEF h
<1>3. h.edgeAnnos.annotations =
         [x \in Pairs \X LabelKeys |-> IF x[1] \in es THEN <<>> ELSE g.edgeAnnos.annotations[x]]
  BY <1>2 DEF EdgeLabels!deleteAnnotations, Pairs
<1>4. \A e \in Pairs, k \in LabelKeys : h.edgeAnnos.annotations[<<e, k>>] =
         IF e \in es THEN <<>> ELSE g.edgeAnnos.annotations[<<e, k>>]
  BY <1>3
<1> QED
  BY <1>1, <1>4 DEF h

\* deleteNode of a node to which no edge leads.
LEMMA NodeDeletedAt ==
    ASSUME NEW g, Sound(g), NEW i \in IDs
    PROVE  LET h == deleteNode(g, i)
           IN  /\ h.edges = {e \in g.edges : e[1] # i}
               /\ \A e \in Pairs, k \in LabelKeys : e[1] # i =>
                      h.edgeAnnos.annotations[<<e, k>>] = g.edgeAnnos.annotations[<<e, k>>]
<1> DEFINE es == {e \in g.edges \cup g.inverseEdges : e[1] = i}
           h  == deleteEdges(g, es)
<1>1. es \in SUBSET Pairs
  BY DEF Sound, Typed
<1>2. /\ h.edges = g.edges \ es
      /\ \A e \in Pairs, k \in LabelKeys : h.edgeAnnos.annotations[<<e, k>>] =
             IF e \in es THEN <<>> ELSE g.edgeAnnos.annotations[<<e, k>>]
  <2> HIDE DEF es
  <2> QED
    BY <1>1, EdgesDeletedAt
<1>3. deleteNode(g, i) = h
  BY DEF deleteNode
<1> HIDE DEF h
<1>4. h.edges = {e \in g.edges : e[1] # i}
  BY <1>2
<1>5. \A e \in Pairs, k \in LabelKeys : e[1] # i =>
         h.edgeAnnos.annotations[<<e, k>>] = g.edgeAnnos.annotations[<<e, k>>]
  BY <1>2
<1> QED
  BY <1>3, <1>4, <1>5

LEMMA EdgeLabelAddedAt ==
    ASSUME NEW g, Sound(g), NEW e \in Pairs, NEW k \in LabelKeys, NEW v \in LabelValues,
           ~EdgeLabels!Has(g.edgeAnnos, e, k)
    PROVE  LET h == addLabelIfConnected(g, e, k, v)
           IN  /\ h.edges = g.edges
               /\ \A f \in Pairs, l \in LabelKeys : h.edgeAnnos.annotations[<<f, l>>] =
                      IF e \in g.edges /\ f = e /\ l = k THEN <<v>>
                      ELSE g.edgeAnnos.annotations[<<f, l>>]
<1> DEFINE h == addLabelIfConnected(g, e, k, v)
<1>1. h.edges = g.edges
  BY EdgeLabelAdded
<1>2. CASE e \notin g.edges
  BY <1>2 DEF addLabelIfConnected
<1>3. CASE e \in g.edges
  <2>1. h.edgeAnnos = EdgeLabels!addAnnotation(g.edgeAnnos, e, k, v)
    BY <1>3 DEF addLabelIfConnected, Sound, Typed
  <2> HIDE DEF h
  <2>2. h.edgeAnnos.annotations = [g.edgeAnnos.annotations EXCEPT ![<<e, k>>] = Append(@, v)]
    BY <2>1 DEF EdgeLabels!addAnnotation
  <2>3. g.edgeAnnos.annotations \in [Pairs \X LabelKeys -> Seq(LabelValues)]
    BY DEF Sound, Typed
  <2>4. Append(g.edgeAnnos.annotations[<<e, k>>], v) = <<v>>
    <3>1. g.edgeAnnos.annotations[<<e, k>>] = <<>> /\ Append(<<>>, v) = <<v>>
      BY DEF EdgeLabels!Has
    <3> QED
      BY <3>1
  <2>5. \A f \in Pairs, l \in LabelKeys : h.edgeAnnos.annotations[<<f, l>>] =
           IF f = e /\ l = k THEN <<v>> ELSE g.edgeAnnos.annotations[<<f, l>>]
    BY <2>2, <2>3, <2>4
  <2> QED
    BY <1>1, <1>3, <2>5 DEF h
<1> QED
  BY <1>2, <1>3

\* Each label of an edge is its only one with the key.
LEMMA EdgeLabelDeletedAt ==
    ASSUME NEW g, Sound(g), g.edgeAnnos \in EdgeFacts!Storages, EdgeFacts!Single(g.edgeAnnos),
           NEW e \in Pairs, NEW k \in LabelKeys
    PROVE  LET h == deleteLabelIfConnected(g, e, k)
           IN  /\ h.edges = g.edges
               /\ \A f \in Pairs, l \in LabelKeys : h.edgeAnnos.annotations[<<f, l>>] =
                      IF f = e /\ l = k THEN <<>> ELSE g.edgeAnnos.annotations[<<f, l>>]
<1> DEFINE h == deleteLabelIfConnected(g, e, k)
<1>1. h.edges = g.edges
  BY EdgeLabelDeleted
<1>2. g.edgeAnnos.annotations \in [Pairs \X LabelKeys -> Seq(LabelValues)]
  BY DEF Sound, Typed
<1>3. CASE e \notin g.edges
  <2>1. g.edgeAnnos.annotations[<<e, k>>] = <<>>
    BY <1>3 DEF Sound, OnEdges
  <2> QED
    BY <1>3, <2>1 DEF deleteLabelIfConnected
<1>4. CASE e \in g.edges
  <2>1. h.edgeAnnos = EdgeLabels!deleteAnnotation(g.edgeAnnos, e, k)
    BY <1>4 DEF deleteLabelIfConnected, Sound, Typed
  <2> HIDE DEF h
  <2>2. h.edgeAnnos.annotations = [g.edgeAnnos.annotations EXCEPT ![<<e, k>>] = <<>>]
    BY <2>1, EdgeCalls, EdgeFacts!DeleteOnly DEF Pairs
  <2>3. \A f \in Pairs, l \in LabelKeys : h.edgeAnnos.annotations[<<f, l>>] =
           IF f = e /\ l = k THEN <<>> ELSE g.edgeAnnos.annotations[<<f, l>>]
    BY <1>2, <2>2
  <2> QED
    BY <1>1, <2>3 DEF h
<1> QED
  BY <1>3, <1>4

----------------------------------------------------------------------------
(* GraphInv is an invariant.                                                *)

LEMMA InitGraphInv == Init => Whole(nodeAnnos.annotations) /\ Ended
<1> SUFFICES ASSUME Init PROVE Whole(nodeAnnos.annotations) /\ Ended
  OBVIOUS
<1>1. CASE nodeAnnos = Labels!Empty /\ gs = [c \in Components |-> NewStorage]
  <2>1. Whole(nodeAnnos.annotations)
    BY <1>1 DEF Labels!Empty, Whole, WholeNode
  <2>2. \A c \in Components : gs[c].edges = {}
    BY <1>1, NewSound
  <2> QED
    BY <2>1, <2>2 DEF Ended
<1>2. CASE /\ nodeAnnos = ImportedAnnos
           /\ \E optimised \in SUBSET Optimisable :
                 gs = [c \in Components |-> ImportedStorage(c, c \notin optimised)]
  <2>1. nodeAnnos.annotations = [x \in IDs \X NodeKeys |-> Imported(x[1], x[2])]
    BY <1>2, ImportedLabels
  <2>2. \A i \in IDs, k \in NodeKeys : nodeAnnos.annotations[<<i, k>>] = Imported(i, k)
    BY <2>1
  <2>3. ASSUME NEW i \in IDs
        PROVE  \/ \A k \in NodeKeys : Imported(i, k) = <<>>
               \/ /\ \E n \in Names : Imported(i, NameKey) = <<n>>
                  /\ \E t \in Types : Imported(i, TypeKey) = <<t>>
                  /\ \A k \in LabelKeys : Imported(i, k) = <<>>
    <3>1. CASE i \notin DOMAIN ImportName
      BY <3>1 DEF Imported
    <3>2. CASE i \in DOMAIN ImportName
      <4>1. ImportName[i] \in Names /\ ImportType \in Types
            /\ NameKey \notin LabelKeys /\ TypeKey \notin LabelKeys /\ NameKey # TypeKey
        BY <3>2, UpdateAssumption
      <4>2. Imported(i, NameKey) = <<ImportName[i]>> /\ Imported(i, TypeKey) = <<ImportType>>
        BY <3>2, <4>1 DEF Imported
      <4>3. \A k \in LabelKeys : Imported(i, k) = <<>>
        BY DEF Imported
      <4> QED
        BY <4>1, <4>2, <4>3
    <3> QED
      BY <3>1, <3>2
  <2>4. Whole(nodeAnnos.annotations)
    BY <2>2, <2>3, NameKeys DEF Whole, WholeNode
  <2>5. ASSUME NEW c \in Components, NEW e \in gs[c].edges
        PROVE  nodeAnnos.annotations[<<e[2], NameKey>>] # <<>>
    <3>1. gs[c].edges = ImportEdges[c]
      BY <1>2 DEF ImportedStorage
    <3>2. e[2] \in DOMAIN ImportName
      BY <2>5, <3>1, UpdateAssumption
    <3> QED
      BY <1>2, <3>2, ImportedNamed
  <2> QED
    BY <2>4, <2>5 DEF Ended
<1> QED
  BY <1>1, <1>2 DEF Init

\* An edge comes into a component or goes, and a label of an edge does.
ComesIn(c, e) ==
    \A d \in Components :
       /\ gs'[d].edges = IF d = c /\ e[1] # e[2] THEN gs[d].edges \cup {e} ELSE gs[d].edges
       /\ gs'[d].edgeAnnos = gs[d].edgeAnnos

GoesOut(c, e) ==
    \A d \in Components :
       /\ gs'[d].edges = IF d = c THEN gs[d].edges \ {e} ELSE gs[d].edges
       /\ \A f \in Pairs, l \in LabelKeys : gs'[d].edgeAnnos.annotations[<<f, l>>] =
              IF d = c /\ f = e THEN <<>> ELSE gs[d].edgeAnnos.annotations[<<f, l>>]

MarkComes(c, e, k, v) ==
    \A d \in Components :
       /\ gs'[d].edges = gs[d].edges
       /\ \A f \in Pairs, l \in LabelKeys : gs'[d].edgeAnnos.annotations[<<f, l>>] =
              IF d = c /\ f = e /\ l = k /\ e \in gs[c].edges THEN <<v>>
              ELSE gs[d].edgeAnnos.annotations[<<f, l>>]

MarkGoes(c, e, k) ==
    \A d \in Components :
       /\ gs'[d].edges = gs[d].edges
       /\ \A f \in Pairs, l \in LabelKeys : gs'[d].edgeAnnos.annotations[<<f, l>>] =
              IF d = c /\ f = e /\ l = k THEN <<>> ELSE gs[d].edgeAnnos.annotations[<<f, l>>]

LEMMA EnumeratedEdge ==
    ASSUME GInv, NEW m \in Names, NEW n \in Names, NEW e \in EdgeOf(m, n)
    PROVE  /\ e[1] \in IDs /\ e[2] \in IDs /\ e = <<e[1], e[2]>> /\ e \in Pairs
           /\ nodeAnnos.annotations[<<e[1], NameKey>>] = <<m>>
           /\ nodeAnnos.annotations[<<e[2], NameKey>>] = <<n>>
<1>1. /\ getNodeID(m) = {i \in IDs : nodeAnnos.annotations[<<i, NameKey>>] = <<m>>}
      /\ getNodeID(n) = {i \in IDs : nodeAnnos.annotations[<<i, NameKey>>] = <<n>>}
  BY NameFound DEF GInv
<1> QED
  BY <1>1 DEF EdgeOf, Pairs

LEMMA EdgeIn ==
    ASSUME GInv, KeepsEdges, NEW c \in Components, NEW m \in Names, NEW n \in Names,
           AddEdge(c, m, n), gs' # gs
    PROVE  nodeAnnos' = nodeAnnos /\ \E e \in EdgeOf(m, n) : ComesIn(c, e)
<1>1. PICK e \in EdgeOf(m, n) :
         gs[c].writable /\ gs' = [gs EXCEPT ![c] = addEdge(createWritableGraphStorage(@), e)]
  BY DEF AddEdge
<1>2. e \in Pairs /\ Sound(gs[c])
  BY EnumeratedEdge DEF GInv
<1>3. \A d \in Components : gs'[d] = IF d = c THEN addEdge(gs[c], e) ELSE gs[d]
  BY <1>1 DEF createWritableGraphStorage, GInv
<1>4. ASSUME NEW d \in Components
      PROVE  /\ gs'[d].edges = IF d = c /\ e[1] # e[2] THEN gs[d].edges \cup {e} ELSE gs[d].edges
             /\ gs'[d].edgeAnnos = gs[d].edgeAnnos
  BY <1>2, <1>3, EdgeAddedAt
<1> QED
  BY <1>4 DEF AddEdge, ComesIn

LEMMA EdgeOut ==
    ASSUME GInv, KeepsEdges, NEW c \in Components, NEW m \in Names, NEW n \in Names,
           DeleteEdge(c, m, n), gs' # gs
    PROVE  nodeAnnos' = nodeAnnos /\ \E e \in EdgeOf(m, n) : GoesOut(c, e)
<1>1. PICK e \in EdgeOf(m, n) :
         gs[c].writable /\ gs' = [gs EXCEPT ![c] = deleteEdges(createWritableGraphStorage(@), {e})]
  BY DEF DeleteEdge
<1>2. e \in Pairs /\ Sound(gs[c])
  BY EnumeratedEdge DEF GInv
<1>3. \A d \in Components : gs'[d] = IF d = c THEN deleteEdges(gs[c], {e}) ELSE gs[d]
  BY <1>1 DEF createWritableGraphStorage, GInv
<1>4. ASSUME NEW d \in Components
      PROVE  /\ gs'[d].edges = IF d = c THEN gs[d].edges \ {e} ELSE gs[d].edges
             /\ \A f \in Pairs, l \in LabelKeys : gs'[d].edgeAnnos.annotations[<<f, l>>] =
                    IF d = c /\ f = e THEN <<>> ELSE gs[d].edgeAnnos.annotations[<<f, l>>]
  <2> DEFINE h == deleteEdges(gs[c], {e})
  <2>1. {e} \in SUBSET Pairs
    BY <1>2
  <2>2. /\ h.edges = gs[c].edges \ {e}
        /\ \A f \in Pairs, l \in LabelKeys : h.edgeAnnos.annotations[<<f, l>>] =
               IF f \in {e} THEN <<>> ELSE gs[c].edgeAnnos.annotations[<<f, l>>]
    BY <1>2, <2>1, EdgesDeletedAt
  <2>3. gs'[d] = IF d = c THEN h ELSE gs[d]
    BY <1>3
  <2> HIDE DEF h
  <2> QED
    BY <2>2, <2>3
<1> QED
  BY <1>4 DEF DeleteEdge, GoesOut

LEMMA MarkIn ==
    ASSUME GInv, KeepsEdges, NEW c \in Components, NEW m \in Names, NEW n \in Names,
           NEW k \in LabelKeys, NEW v \in LabelValues, AddEdgeLabel(c, m, n, k, v), gs' # gs
    PROVE  nodeAnnos' = nodeAnnos /\ \E e \in EdgeOf(m, n) : MarkComes(c, e, k, v)
<1>1. PICK e \in EdgeOf(m, n) :
         /\ gs[c].writable /\ ~EdgeLabels!Has(gs[c].edgeAnnos, e, k)
         /\ gs' = [gs EXCEPT ![c] = addLabelIfConnected(createWritableGraphStorage(@), e, k, v)]
  BY DEF AddEdgeLabel
<1>2. e \in Pairs /\ Sound(gs[c])
  BY EnumeratedEdge DEF GInv
<1>3. \A d \in Components : gs'[d] = IF d = c THEN addLabelIfConnected(gs[c], e, k, v) ELSE gs[d]
  BY <1>1 DEF createWritableGraphStorage, GInv
<1>4. ASSUME NEW d \in Components
      PROVE  /\ gs'[d].edges = gs[d].edges
             /\ \A f \in Pairs, l \in LabelKeys : gs'[d].edgeAnnos.annotations[<<f, l>>] =
                    IF d = c /\ f = e /\ l = k /\ e \in gs[c].edges THEN <<v>>
                    ELSE gs[d].edgeAnnos.annotations[<<f, l>>]
  BY <1>1, <1>2, <1>3, EdgeLabelAddedAt
<1> QED
  BY <1>4 DEF AddEdgeLabel, MarkComes

LEMMA MarkOut ==
    ASSUME GInv, StoreInv, KeepsEdges, NEW c \in Components, NEW m \in Names, NEW n \in Names,
           NEW k \in LabelKeys, DeleteEdgeLabel(c, m, n, k), gs' # gs
    PROVE  nodeAnnos' = nodeAnnos /\ \E e \in EdgeOf(m, n) : MarkGoes(c, e, k)
<1>1. PICK e \in EdgeOf(m, n) :
         /\ gs[c].writable
         /\ gs' = [gs EXCEPT ![c] = deleteLabelIfConnected(createWritableGraphStorage(@), e, k)]
  BY DEF DeleteEdgeLabel
<1>2. e \in Pairs /\ Sound(gs[c])
  BY EnumeratedEdge DEF GInv
<1>3. gs[c].edgeAnnos \in EdgeFacts!Storages /\ EdgeFacts!Single(gs[c].edgeAnnos)
  BY DEF StoreInv, EdgesKept, KeepsEdges
<1>4. \A d \in Components : gs'[d] = IF d = c THEN deleteLabelIfConnected(gs[c], e, k) ELSE gs[d]
  BY <1>1 DEF createWritableGraphStorage, GInv
<1>5. ASSUME NEW d \in Components
      PROVE  /\ gs'[d].edges = gs[d].edges
             /\ \A f \in Pairs, l \in LabelKeys : gs'[d].edgeAnnos.annotations[<<f, l>>] =
                    IF d = c /\ f = e /\ l = k THEN <<>> ELSE gs[d].edgeAnnos.annotations[<<f, l>>]
  BY <1>2, <1>3, <1>4, EdgeLabelDeletedAt
<1> QED
  BY <1>5 DEF DeleteEdgeLabel, MarkGoes

\* No edge leads to the node, so no edge of it is left.
LEMMA NodeWithEdgesOut ==
    ASSUME GInv, KeepsEdges, NEW i \in IDs, MayDelete(i),
           gs' = [c \in Components |-> deleteNode(createWritableGraphStorage(gs[c]), i)]
    PROVE  \A c \in Components :
              /\ \A e \in gs[c].edges : e[2] # i
              /\ gs'[c].edges = {e \in gs[c].edges : e[1] # i}
              /\ \A e \in Pairs, k \in LabelKeys : e[1] # i =>
                     gs'[c].edgeAnnos.annotations[<<e, k>>] = gs[c].edgeAnnos.annotations[<<e, k>>]
<1> SUFFICES ASSUME NEW c \in Components
             PROVE  /\ \A e \in gs[c].edges : e[2] # i
                    /\ gs'[c].edges = {e \in gs[c].edges : e[1] # i}
                    /\ \A e \in Pairs, k \in LabelKeys : e[1] # i =>
                           gs'[c].edgeAnnos.annotations[<<e, k>>] = gs[c].edgeAnnos.annotations[<<e, k>>]
  OBVIOUS
<1>1. gs[c].writable /\ \A e \in gs[c].edges : e[2] # i
  BY DEF MayDelete
<1>2. gs'[c] = deleteNode(gs[c], i) /\ Sound(gs[c])
  BY <1>1 DEF createWritableGraphStorage, GInv
<1> QED
  BY <1>1, <1>2, NodeDeletedAt

\* The same labels, and a change of one label that is neither name nor type.
LEMMA WholeAt ==
    ASSUME NEW a, NEW b, NEW i \in IDs, WholeNode(a, i),
           \A k \in NodeKeys : b[<<i, k>>] = a[<<i, k>>]
    PROVE  WholeNode(b, i)
BY NameKeys DEF WholeNode

LEMMA LabelWhole ==
    ASSUME NEW a, NEW b, NEW i \in IDs, WholeNode(a, i), NEW k \in LabelKeys, NEW w,
           w = <<>> \/ (a[<<i, NameKey>>] # <<>> /\ \E v \in LabelValues : w = <<v>>),
           \A l \in NodeKeys : b[<<i, l>>] = IF l = k THEN w ELSE a[<<i, l>>]
    PROVE  WholeNode(b, i)
<1>1. NameKey \in NodeKeys /\ TypeKey \in NodeKeys
      /\ \A l \in LabelKeys : l \in NodeKeys /\ l # NameKey /\ l # TypeKey
  BY NameKeys, UpdateAssumption
<1>2. CASE \A l \in NodeKeys : a[<<i, l>>] = <<>>
  <2>1. \A l \in NodeKeys : b[<<i, l>>] = <<>>
    BY <1>1, <1>2
  <2> QED
    BY <2>1 DEF WholeNode
<1>3. CASE /\ \E n \in Names : a[<<i, NameKey>>] = <<n>>
           /\ \E t \in Types : a[<<i, TypeKey>>] = <<t>>
           /\ \A l \in LabelKeys : a[<<i, l>>] = <<>> \/ \E v \in LabelValues : a[<<i, l>>] = <<v>>
  <2>1. b[<<i, NameKey>>] = a[<<i, NameKey>>] /\ b[<<i, TypeKey>>] = a[<<i, TypeKey>>]
    BY <1>1
  <2>2. \A l \in LabelKeys : b[<<i, l>>] = <<>> \/ \E v \in LabelValues : b[<<i, l>>] = <<v>>
    BY <1>1, <1>3
  <2> QED
    BY <1>3, <2>1, <2>2 DEF WholeNode
<1> QED
  BY <1>2, <1>3 DEF WholeNode

LEMMA WholeKept ==
    ASSUME GInv, StoreInv, KeepsReserved, Whole(nodeAnnos.annotations), Event
    PROVE  Whole(nodeAnnos'.annotations)
<1> DEFINE a == nodeAnnos.annotations
           b == nodeAnnos'.annotations
<1>1. \A j \in IDs : WholeNode(a, j)
  BY DEF Whole
<1>2. CASE nodeAnnos' = nodeAnnos
  BY <1>2
<1>3. ASSUME NEW n \in Names, NEW t \in Types, AddNode(n, t), nodeAnnos' # nodeAnnos
      PROVE  Whole(b)
  <2>1. PICK i \in IDs :
           /\ \A k \in NodeKeys : a[<<i, k>>] = <<>>
           /\ \A j \in IDs, k \in NodeKeys :
                 b[<<j, k>>] = IF j # i THEN a[<<j, k>>]
                               ELSE IF k = NameKey THEN <<n>> ELSE IF k = TypeKey THEN <<t>> ELSE <<>>
    BY <1>3, NodeAdded
  <2> HIDE DEF a, b
  <2>2. \A j \in IDs : j # i => WholeNode(b, j)
    BY <1>1, <2>1, WholeAt
  <2>3. WholeNode(b, i)
    <3>1. b[<<i, NameKey>>] = <<n>> /\ b[<<i, TypeKey>>] = <<t>>
          /\ \A k \in LabelKeys : b[<<i, k>>] = <<>>
      BY <2>1, NameKeys, UpdateAssumption
    <3> QED
      BY <3>1 DEF WholeNode
  <2> QED
    BY <2>2, <2>3 DEF Whole
<1>4. ASSUME NEW n \in Names, DeleteNode(n), nodeAnnos' # nodeAnnos
      PROVE  Whole(b)
  <2>1. PICK i \in getNodeID(n) : nodeAnnos' = Labels!deleteAnnotations(nodeAnnos, {i})
    BY <1>4 DEF DeleteNode
  <2>2. \A j \in IDs, k \in NodeKeys : b[<<j, k>>] = IF j = i THEN <<>> ELSE a[<<j, k>>]
    BY <2>1, NodeRemoved
  <2> HIDE DEF a, b
  <2>3. \A j \in IDs : j # i => WholeNode(b, j)
    BY <1>1, <2>2, WholeAt
  <2>4. i \in IDs => WholeNode(b, i)
    BY <2>2 DEF WholeNode
  <2> QED
    BY <2>3, <2>4 DEF Whole
<1>5. ASSUME NEW n \in Names, NEW k \in LabelKeys, NEW w, NEW i \in IDs, a[<<i, NameKey>>] = <<n>>,
             w = <<>> \/ \E v \in LabelValues : w = <<v>>,
             \A j \in IDs, l \in NodeKeys : b[<<j, l>>] = IF j = i /\ l = k THEN w ELSE a[<<j, l>>]
      PROVE  Whole(b)
  <2> HIDE DEF a, b
  <2>1. a[<<i, NameKey>>] # <<>>
    BY <1>5
  <2>2. \A j \in IDs : j # i => WholeNode(b, j)
    BY <1>1, <1>5, WholeAt
  <2>3. \A l \in NodeKeys : b[<<i, l>>] = IF l = k THEN w ELSE a[<<i, l>>]
    BY <1>5
  <2>4. WholeNode(b, i)
    BY <1>1, <1>5, <2>1, <2>3, LabelWhole
  <2> QED
    BY <2>2, <2>4 DEF Whole
<1>6. ASSUME NEW n \in Names, NEW k \in LabelKeys, NEW v \in LabelValues, AddNodeLabel(n, k, v),
             b # a
      PROVE  Whole(b)
  <2>1. PICK i \in IDs :
           /\ a[<<i, NameKey>>] = <<n>>
           /\ a[<<i, k>>] = <<>>
           /\ \A j \in IDs, l \in NodeKeys :
                 b[<<j, l>>] = IF j = i /\ l = k THEN <<v>> ELSE a[<<j, l>>]
    BY <1>6, NodeLabelled
  <2> QED
    BY <1>5, <2>1
<1>7. ASSUME NEW n \in Names, NEW k \in LabelKeys, DeleteNodeLabel(n, k), b # a
      PROVE  Whole(b)
  <2>1. PICK i \in IDs :
           /\ a[<<i, NameKey>>] = <<n>>
           /\ \A j \in IDs, l \in NodeKeys :
                 b[<<j, l>>] = IF j = i /\ l = k THEN <<>> ELSE a[<<j, l>>]
    BY <1>7, NodeUnlabelled
  <2> QED
    BY <1>5, <2>1
<1> QED
  BY <1>2, <1>3, <1>4, <1>6, <1>7
  DEF Event, EventKeys, AddEdge, DeleteEdge, AddEdgeLabel, DeleteEdgeLabel

LEMMA EndedKept ==
    ASSUME GInv, StoreInv, KeepsReserved, KeepsEdges, Ended, Event
    PROVE  Ended'
<1>1. CASE gs' = gs /\ \A i \in IDs : nodeAnnos.annotations[<<i, NameKey>>] # <<>> =>
                                     nodeAnnos'.annotations[<<i, NameKey>>] # <<>>
  <2>1. \A c \in Components : \A e \in gs[c].edges : e[2] \in IDs
    BY DEF GInv, Sound, Typed, Pairs
  <2> QED
    BY <1>1, <2>1 DEF Ended
<1>2. ASSUME NEW n \in Names, NEW t \in Types, AddNode(n, t) PROVE Ended'
  <2>1. gs' = gs
    BY <1>2 DEF AddNode
  <2>2. CASE nodeAnnos' = nodeAnnos
    BY <1>1, <2>1, <2>2
  <2>3. CASE nodeAnnos' # nodeAnnos
    <3>1. <<n>> # <<>>
      OBVIOUS
    <3>2. \A i \in IDs : nodeAnnos.annotations[<<i, NameKey>>] # <<>> =>
             nodeAnnos'.annotations[<<i, NameKey>>] # <<>>
      BY <1>2, <2>3, <3>1, NodeAdded, NameKeys
    <3> QED
      BY <1>1, <2>1, <3>2
  <2> QED
    BY <2>2, <2>3
<1>3. ASSUME NEW n \in Names, DeleteNode(n) PROVE Ended'
  <2>1. CASE UNCHANGED <<nodeAnnos, gs>>
    BY <1>1, <2>1
  <2>2. ASSUME NEW i \in getNodeID(n), MayDelete(i),
               nodeAnnos' = Labels!deleteAnnotations(nodeAnnos, {i}),
               gs' = [c \in Components |-> deleteNode(createWritableGraphStorage(gs[c]), i)]
        PROVE  Ended'
    <3>1. i \in IDs /\ \A j \in IDs, k \in NodeKeys : nodeAnnos'.annotations[<<j, k>>] =
                          IF j = i THEN <<>> ELSE nodeAnnos.annotations[<<j, k>>]
      BY <2>2, NodeRemoved
    <3>2. \A c \in Components : /\ \A e \in gs[c].edges : e[2] # i
                                /\ gs'[c].edges = {e \in gs[c].edges : e[1] # i}
      BY <2>2, <3>1, NodeWithEdgesOut
    <3>3. \A c \in Components : \A e \in gs[c].edges : e[2] \in IDs
      BY DEF GInv, Sound, Typed, Pairs
    <3> QED
      BY <3>1, <3>2, <3>3, NameKeys DEF Ended
  <2> QED
    BY <1>3, <2>1, <2>2 DEF DeleteNode
<1>4. ASSUME NEW n \in Names, NEW k \in LabelKeys,
             DeleteNodeLabel(n, k) \/ \E v \in LabelValues : AddNodeLabel(n, k, v)
      PROVE  Ended'
  <2>1. gs' = gs
    BY <1>4 DEF DeleteNodeLabel, AddNodeLabel
  <2>2. \A i \in IDs : nodeAnnos'.annotations[<<i, NameKey>>] = nodeAnnos.annotations[<<i, NameKey>>]
    <3> DEFINE a == nodeAnnos.annotations
               b == nodeAnnos'.annotations
    <3> SUFFICES ASSUME b # a, NEW j \in IDs PROVE b[<<j, NameKey>>] = a[<<j, NameKey>>]
      OBVIOUS
    <3>1. CASE DeleteNodeLabel(n, k)
      <4>1. PICK i \in IDs :
               /\ a[<<i, NameKey>>] = <<n>>
               /\ \A h \in IDs, l \in NodeKeys :
                     b[<<h, l>>] = IF h = i /\ l = k THEN <<>> ELSE a[<<h, l>>]
        BY <3>1, NodeUnlabelled
      <4> QED
        BY <4>1, NameKeys
    <3>2. ASSUME NEW v \in LabelValues, AddNodeLabel(n, k, v)
          PROVE  b[<<j, NameKey>>] = a[<<j, NameKey>>]
      <4>1. PICK i \in IDs :
               /\ a[<<i, NameKey>>] = <<n>>
               /\ a[<<i, k>>] = <<>>
               /\ \A h \in IDs, l \in NodeKeys :
                     b[<<h, l>>] = IF h = i /\ l = k THEN <<v>> ELSE a[<<h, l>>]
        BY <3>2, NodeLabelled
      <4> QED
        BY <4>1, NameKeys
    <3> QED
      BY <1>4, <3>1, <3>2
  <2> QED
    BY <1>1, <2>1, <2>2
<1>5. ASSUME NEW c \in Components, NEW m \in Names, NEW n \in Names,
             \/ AddEdge(c, m, n) \/ DeleteEdge(c, m, n)
             \/ \E k \in LabelKeys :
                   DeleteEdgeLabel(c, m, n, k) \/ \E v \in LabelValues : AddEdgeLabel(c, m, n, k, v)
      PROVE  Ended'
  <2>1. nodeAnnos' = nodeAnnos
    BY <1>5 DEF AddEdge, DeleteEdge, DeleteEdgeLabel, AddEdgeLabel
  <2>2. CASE gs' = gs
    BY <1>1, <2>1, <2>2
  <2>3. CASE gs' # gs
    <3>1. \A e \in EdgeOf(m, n) : nodeAnnos.annotations[<<e[2], NameKey>>] # <<>>
      <4>1. <<n>> # <<>>
        OBVIOUS
      <4> QED
        BY <4>1, EnumeratedEdge
    <3>2. CASE AddEdge(c, m, n)
      <4>1. PICK e \in EdgeOf(m, n) : ComesIn(c, e)
        BY <2>3, <3>2, EdgeIn
      <4> QED
        BY <2>1, <3>1, <4>1 DEF Ended, ComesIn
    <3>3. CASE DeleteEdge(c, m, n)
      <4>1. PICK e \in EdgeOf(m, n) : GoesOut(c, e)
        BY <2>3, <3>3, EdgeOut
      <4> QED
        BY <2>1, <4>1 DEF Ended, GoesOut
    <3>4. ASSUME NEW k \in LabelKeys,
                 DeleteEdgeLabel(c, m, n, k) \/ \E v \in LabelValues : AddEdgeLabel(c, m, n, k, v)
          PROVE  Ended'
      <4>1. \A d \in Components : gs'[d].edges = gs[d].edges
        BY <2>3, <3>4, MarkIn, MarkOut DEF MarkComes, MarkGoes
      <4> QED
        BY <2>1, <4>1 DEF Ended
    <3> QED
      BY <1>5, <3>2, <3>3, <3>4
  <2> QED
    BY <2>2, <2>3
<1> QED
  BY <1>2, <1>3, <1>4, <1>5 DEF Event, EventKeys

LEMMA StepGraphInv == GraphInv /\ KeepsReserved /\ [Next]_vars => GraphInv'
<1> SUFFICES ASSUME GraphInv, KeepsReserved, [Next]_vars PROVE GraphInv'
  OBVIOUS
<1>1. GInv' /\ StoreInv'
  <2>1. SInv
    BY DEF GraphInv, GInv, SInv
  <2> QED
    BY <2>1, StepGInv, StepStoreInv DEF GraphInv
<1>2. CASE UNCHANGED vars
  BY <1>1, <1>2 DEF vars, GraphInv, Ended, KeepsEdges
<1>3. CASE Next
  <2>1. Event /\ promises' = promises
    BY <1>3 DEF Next
  <2>2. Whole(nodeAnnos'.annotations)
    BY <2>1, WholeKept DEF GraphInv
  <2>3. KeepsEdges' => Ended'
    BY <2>1, EndedKept DEF GraphInv, KeepsEdges
  <2> QED
    BY <1>1, <2>2, <2>3 DEF GraphInv
<1> QED
  BY <1>2, <1>3

LEMMA AlwaysGraphInv == Spec => [](KeepsReserved => GraphInv)
<1>1. Init => GraphInv
  BY InitGInv, InitStoreInv, InitGraphInv DEF GraphInv
<1> QED
  BY <1>1, StepGraphInv, SamePromises, PTL DEF Spec

----------------------------------------------------------------------------
(* What the client sees, read off the labels and the edges.                 *)

IsNamed(i, n) == nodeAnnos.annotations[<<i, NameKey>>] = <<n>>

ValueAt(i, k) ==
    IF nodeAnnos.annotations[<<i, k>>] = <<>> THEN None ELSE Head(nodeAnnos.annotations[<<i, k>>])

Joined(c, m, n) ==
    \E i, j \in IDs : IsNamed(i, m) /\ IsNamed(j, n) /\ <<i, j>> \in gs[c].edges

Marked(c, m, n, k, v) ==
    \E i, j \in IDs :
       IsNamed(i, m) /\ IsNamed(j, n) /\ gs[c].edgeAnnos.annotations[<<<<i, j>>, k>>] = <<v>>

SeesNodes ==
    \A n \in Names, k \in NodeKeys :
       /\ (\A i \in IDs : ~IsNamed(i, n)) => NodeLabel(n, k) = None
       /\ \A i \in IDs : IsNamed(i, n) => NodeLabel(n, k) = ValueAt(i, k)

SeesEdges ==
    /\ NamedEdges \subseteq Components \X Names \X Names
    /\ \A c \in Components, m, n \in Names : <<c, m, n>> \in NamedEdges <=> Joined(c, m, n)

SeesMarks ==
    /\ NamedEdgeLabels \subseteq Components \X Names \X Names \X LabelKeys \X LabelValues
    /\ \A c \in Components, m, n \in Names, k \in LabelKeys, v \in LabelValues :
          <<c, m, n, k, v>> \in NamedEdgeLabels <=> Marked(c, m, n, k, v)

Sees == SeesNodes /\ SeesEdges /\ SeesMarks

\* A list of one label at most has a label when it is that label.
LEMMA OneValue ==
    ASSUME NEW S, NEW w \in Seq(S), Len(w) <= 1, NEW v
    PROVE  (\E i \in DOMAIN w : w[i] = v) <=> w = <<v>>
<1>1. Len(w) \in Nat /\ DOMAIN w = 1 .. Len(w) /\ w \in [1 .. Len(w) -> S]
  BY LenProperties
<1>2. CASE w = <<>>
  BY <1>2
<1>3. CASE w # <<>>
  <2>1. Len(w) = 1
    BY <1>1, <1>3, EmptySeq
  <2>2. DOMAIN w = {1}
    BY <1>1, <2>1
  <2>3. w = <<w[1]>>
    BY <1>1, <2>1
  <2>4. w[1] = v => w = <<v>>
    BY <2>3
  <2>5. w = <<v>> => w[1] = v
    OBVIOUS
  <2> QED
    BY <2>2, <2>4, <2>5
<1> QED
  BY <1>2, <1>3

LEMMA SeeingNodes == GraphInv /\ Careful => SeesNodes
<1> SUFFICES ASSUME GraphInv, Careful, NEW n \in Names, NEW k \in NodeKeys
             PROVE  /\ (\A i \in IDs : ~IsNamed(i, n)) => NodeLabel(n, k) = None
                    /\ \A i \in IDs : IsNamed(i, n) => NodeLabel(n, k) = ValueAt(i, k)
  BY DEF SeesNodes
<1>1. getNodeID(n) = {i \in IDs : IsNamed(i, n)}
  BY NameFound DEF GraphInv, GInv, IsNamed
<1>2. (\A i \in IDs : ~IsNamed(i, n)) => NodeLabel(n, k) = None
  BY <1>1 DEF NodeLabel
<1>3. ASSUME NEW i \in IDs, IsNamed(i, n) PROVE NodeLabel(n, k) = ValueAt(i, k)
  <2>1. getNodeID(n) = {i}
    BY <1>1, <1>3 DEF GraphInv, GInv, Named, NamesUnique, IsNamed
  <2>2. (CHOOSE j \in {i} : TRUE) = i
    OBVIOUS
  <2>3. NodeLabel(n, k) = LabelOf(i, k)
    BY <2>1, <2>2 DEF NodeLabel
  <2> QED
    BY <2>3 DEF LabelOf, ValueAt, Labels!Has
<1> QED
  BY <1>2, <1>3

LEMMA SeeingEdges == GraphInv /\ Careful => SeesEdges
<1> SUFFICES ASSUME GraphInv, Careful PROVE SeesEdges
  OBVIOUS
<1>1. \A n \in Names : getNodeID(n) = {i \in IDs : IsNamed(i, n)}
  BY NameFound DEF GraphInv, GInv, IsNamed
<1>2. ASSUME NEW c \in Components, NEW m \in Names, NEW n \in Names
      PROVE  <<c, m, n>> \in NamedEdges <=> Joined(c, m, n)
  <2>1. <<c, m, n>> \in NamedEdges <=> EdgeOf(m, n) \cap gs[c].edges # {}
    BY DEF NamedEdges
  <2>2. \A i, j : <<i, j>> \in EdgeOf(m, n) <=> i \in IDs /\ j \in IDs /\ IsNamed(i, m) /\ IsNamed(j, n)
    BY <1>1 DEF EdgeOf
  <2>3. \A e \in EdgeOf(m, n) : e = <<e[1], e[2]>>
    BY DEF EdgeOf
  <2>4. EdgeOf(m, n) \cap gs[c].edges # {} <=> \E e \in EdgeOf(m, n) : e \in gs[c].edges
    OBVIOUS
  <2>5. (\E e \in EdgeOf(m, n) : e \in gs[c].edges) <=> Joined(c, m, n)
    <3>1. ASSUME NEW e \in EdgeOf(m, n), e \in gs[c].edges PROVE Joined(c, m, n)
      <4>1. <<e[1], e[2]>> \in EdgeOf(m, n) /\ <<e[1], e[2]>> \in gs[c].edges
        BY <2>3, <3>1
      <4>2. e[1] \in IDs /\ e[2] \in IDs /\ IsNamed(e[1], m) /\ IsNamed(e[2], n)
        BY <2>2, <4>1
      <4> QED
        BY <4>1, <4>2 DEF Joined
    <3>2. ASSUME Joined(c, m, n) PROVE \E e \in EdgeOf(m, n) : e \in gs[c].edges
      <4>1. PICK i \in IDs, j \in IDs : IsNamed(i, m) /\ IsNamed(j, n) /\ <<i, j>> \in gs[c].edges
        BY <3>2 DEF Joined
      <4> QED
        BY <2>2, <4>1
    <3> QED
      BY <3>1, <3>2
  <2> QED
    BY <2>1, <2>4, <2>5
<1> QED
  BY <1>2 DEF SeesEdges, NamedEdges

LEMMA SeeingMarks == GraphInv /\ Careful => SeesMarks
<1> SUFFICES ASSUME GraphInv, Careful PROVE SeesMarks
  OBVIOUS
<1>1. \A n \in Names : getNodeID(n) = {i \in IDs : IsNamed(i, n)}
  BY NameFound DEF GraphInv, GInv, IsNamed
<1>2. ASSUME NEW c \in Components, NEW m \in Names, NEW n \in Names,
             NEW k \in LabelKeys, NEW v \in LabelValues
      PROVE  <<c, m, n, k, v>> \in NamedEdgeLabels <=> Marked(c, m, n, k, v)
  <2> DEFINE w(e) == gs[c].edgeAnnos.annotations[<<e, k>>]
  <2>1. <<c, m, n, k, v>> \in NamedEdgeLabels <=> \E e \in EdgeOf(m, n) : \E i \in DOMAIN w(e) : w(e)[i] = v
    BY DEF NamedEdgeLabels
  <2>2. \A i, j : <<i, j>> \in EdgeOf(m, n) <=> i \in IDs /\ j \in IDs /\ IsNamed(i, m) /\ IsNamed(j, n)
    BY <1>1 DEF EdgeOf
  <2>3. \A e \in EdgeOf(m, n) : e = <<e[1], e[2]>>
    BY DEF EdgeOf
  <2>4. ASSUME NEW e \in EdgeOf(m, n) PROVE (\E i \in DOMAIN w(e) : w(e)[i] = v) <=> w(e) = <<v>>
    <3>1. e \in Pairs
      BY <2>2, <2>3 DEF Pairs
    <3>2. w(e) \in Seq(LabelValues)
      BY <3>1 DEF GraphInv, GInv, Sound, Typed
    <3>3. Len(w(e)) <= 1
      BY <3>1 DEF GraphInv, StoreInv, EdgesKept, EdgeFacts!Single, Pairs, Careful, KeepsEdges
    <3> HIDE DEF w
    <3> QED
      BY <3>2, <3>3, OneValue
  <2>5. <<c, m, n, k, v>> \in NamedEdgeLabels <=> \E e \in EdgeOf(m, n) : w(e) = <<v>>
    <3> HIDE DEF w
    <3> QED
      BY <2>1, <2>4
  <2>6. Marked(c, m, n, k, v) <=> \E i, j \in IDs : IsNamed(i, m) /\ IsNamed(j, n) /\ w(<<i, j>>) = <<v>>
    BY DEF Marked
  <2> HIDE DEF w
  <2>7. (\E e \in EdgeOf(m, n) : w(e) = <<v>>) <=>
           \E i, j \in IDs : IsNamed(i, m) /\ IsNamed(j, n) /\ w(<<i, j>>) = <<v>>
    <3>1. ASSUME NEW e \in EdgeOf(m, n), w(e) = <<v>>
          PROVE  \E i, j \in IDs : IsNamed(i, m) /\ IsNamed(j, n) /\ w(<<i, j>>) = <<v>>
      <4>1. <<e[1], e[2]>> \in EdgeOf(m, n) /\ w(<<e[1], e[2]>>) = <<v>>
        BY <2>3, <3>1
      <4>2. e[1] \in IDs /\ e[2] \in IDs /\ IsNamed(e[1], m) /\ IsNamed(e[2], n)
        BY <2>2, <4>1
      <4> QED
        BY <4>1, <4>2
    <3>2. ASSUME NEW i \in IDs, NEW j \in IDs, IsNamed(i, m), IsNamed(j, n), w(<<i, j>>) = <<v>>
          PROVE  \E e \in EdgeOf(m, n) : w(e) = <<v>>
      BY <2>2, <3>2
    <3> QED
      BY <3>1, <3>2
  <2> QED
    BY <2>5, <2>6, <2>7
<1> QED
  BY <1>2 DEF SeesMarks, NamedEdgeLabels

LEMMA Seeing == GraphInv /\ Careful => Sees
BY SeeingNodes, SeeingEdges, SeeingMarks DEF Sees

LEMMA SeeingNext == GraphInv' /\ Careful' => Sees'
BY Seeing, PTL

----------------------------------------------------------------------------
(* The events, as the client sees them.                                     *)

LEMMA Triples ==
    ASSUME NEW A, NEW B, NEW C, NEW S \in SUBSET (A \X B \X C), NEW T \in SUBSET (A \X B \X C),
           \A a \in A, b \in B, c \in C : <<a, b, c>> \in S <=> <<a, b, c>> \in T
    PROVE  S = T
<1>1. \A x \in A \X B \X C : x = <<x[1], x[2], x[3]>> /\ x[1] \in A /\ x[2] \in B /\ x[3] \in C
  OBVIOUS
<1>2. \A x \in A \X B \X C : x \in S <=> x \in T
  BY <1>1
<1> QED
  BY <1>2

LEMMA Quintuples ==
    ASSUME NEW A, NEW B, NEW C, NEW D, NEW E, NEW S \in SUBSET (A \X B \X C \X D \X E),
           NEW T \in SUBSET (A \X B \X C \X D \X E),
           \A a \in A, b \in B, c \in C, d \in D, e \in E :
              <<a, b, c, d, e>> \in S <=> <<a, b, c, d, e>> \in T
    PROVE  S = T
<1>1. \A x \in A \X B \X C \X D \X E :
         /\ x = <<x[1], x[2], x[3], x[4], x[5]>>
         /\ x[1] \in A /\ x[2] \in B /\ x[3] \in C /\ x[4] \in D /\ x[5] \in E
  OBVIOUS
<1>2. \A x \in A \X B \X C \X D \X E : x \in S <=> x \in T
  BY <1>1
<1> QED
  BY <1>2

LEMMA SameEdges ==
    ASSUME SeesEdges, SeesEdges',
           \A c \in Components, m, n \in Names : Joined(c, m, n)' <=> Joined(c, m, n)
    PROVE  NamedEdges' = NamedEdges
<1>1. NamedEdges' \in SUBSET (Components \X Names \X Names)
      /\ NamedEdges \in SUBSET (Components \X Names \X Names)
  BY DEF SeesEdges
<1>2. \A c \in Components, m, n \in Names : <<c, m, n>> \in NamedEdges' <=> <<c, m, n>> \in NamedEdges
  BY DEF SeesEdges
<1> QED
  BY <1>1, <1>2, Triples

LEMMA SameMarks ==
    ASSUME SeesMarks, SeesMarks',
           \A c \in Components, m, n \in Names, k \in LabelKeys, v \in LabelValues :
              Marked(c, m, n, k, v)' <=> Marked(c, m, n, k, v)
    PROVE  NamedEdgeLabels' = NamedEdgeLabels
<1>1. /\ NamedEdgeLabels' \in SUBSET (Components \X Names \X Names \X LabelKeys \X LabelValues)
      /\ NamedEdgeLabels \in SUBSET (Components \X Names \X Names \X LabelKeys \X LabelValues)
  BY DEF SeesMarks
<1>2. \A c \in Components, m, n \in Names, k \in LabelKeys, v \in LabelValues :
         <<c, m, n, k, v>> \in NamedEdgeLabels' <=> <<c, m, n, k, v>> \in NamedEdgeLabels
  BY DEF SeesMarks
<1> QED
  BY <1>1, <1>2, Quintuples

\* After an event, they are what Joined and Marked say.
LEMMA EdgesAre ==
    ASSUME SeesEdges', NEW T \in SUBSET (Components \X Names \X Names),
           \A c \in Components, m, n \in Names : Joined(c, m, n)' <=> <<c, m, n>> \in T
    PROVE  NamedEdges' = T
<1>1. NamedEdges' \in SUBSET (Components \X Names \X Names)
  BY DEF SeesEdges
<1>2. \A c \in Components, m, n \in Names : <<c, m, n>> \in NamedEdges' <=> <<c, m, n>> \in T
  BY DEF SeesEdges
<1> QED
  BY <1>1, <1>2, Triples

LEMMA MarksAre ==
    ASSUME SeesMarks', NEW T \in SUBSET (Components \X Names \X Names \X LabelKeys \X LabelValues),
           \A c \in Components, m, n \in Names, k \in LabelKeys, v \in LabelValues :
              Marked(c, m, n, k, v)' <=> <<c, m, n, k, v>> \in T
    PROVE  NamedEdgeLabels' = T
<1>1. NamedEdgeLabels' \in SUBSET (Components \X Names \X Names \X LabelKeys \X LabelValues)
  BY DEF SeesMarks
<1>2. \A c \in Components, m, n \in Names, k \in LabelKeys, v \in LabelValues :
         <<c, m, n, k, v>> \in NamedEdgeLabels' <=> <<c, m, n, k, v>> \in T
  BY DEF SeesMarks
<1> QED
  BY <1>1, <1>2, Quintuples

\* A name names one node, an edge joins nodes with names, a label is one of an edge.
LEMMA Seen ==
    ASSUME GraphInv, Careful
    PROVE  /\ \A i, j \in IDs, n \in Names : IsNamed(i, n) /\ IsNamed(j, n) => i = j
           /\ \A i \in IDs : \A m, n : IsNamed(i, m) /\ IsNamed(i, n) => m = n
           /\ \A c \in Components, i, j \in IDs : <<i, j>> \in gs[c].edges =>
                 /\ nodeAnnos.annotations[<<i, NameKey>>] # <<>>
                 /\ nodeAnnos.annotations[<<j, NameKey>>] # <<>>
           /\ \A c \in Components, i, j \in IDs, k \in LabelKeys : \A v :
                 gs[c].edgeAnnos.annotations[<<<<i, j>>, k>>] = <<v>> => <<i, j>> \in gs[c].edges
<1>1. \A i, j \in IDs, n \in Names : IsNamed(i, n) /\ IsNamed(j, n) => i = j
  BY DEF GraphInv, GInv, Named, NamesUnique, IsNamed
<1>2. \A i \in IDs : \A m, n : IsNamed(i, m) /\ IsNamed(i, n) => m = n
  BY DEF IsNamed
<1>3. ASSUME NEW c \in Components, NEW i \in IDs, NEW j \in IDs, <<i, j>> \in gs[c].edges
      PROVE  /\ nodeAnnos.annotations[<<i, NameKey>>] # <<>>
             /\ nodeAnnos.annotations[<<j, NameKey>>] # <<>>
  BY <1>3 DEF GraphInv, GInv, Started, Ended, Careful
<1>4. ASSUME NEW c \in Components, NEW i \in IDs, NEW j \in IDs, NEW k \in LabelKeys, NEW v,
             gs[c].edgeAnnos.annotations[<<<<i, j>>, k>>] = <<v>>
      PROVE  <<i, j>> \in gs[c].edges
  <2>1. <<i, j>> \in Pairs /\ <<v>> # <<>>
    BY DEF Pairs
  <2> QED
    BY <1>4, <2>1 DEF GraphInv, GInv, Sound, OnEdges
<1> QED
  BY <1>1, <1>2, <1>3, <1>4

\* The labels of the nodes are as before.
LEMMA SameNodes ==
    ASSUME SeesNodes, SeesNodes',
           \A i \in IDs, k \in NodeKeys :
              nodeAnnos'.annotations[<<i, k>>] = nodeAnnos.annotations[<<i, k>>]
    PROVE  /\ \A i \in IDs : \A n : IsNamed(i, n)' <=> IsNamed(i, n)
           /\ \A n \in Names, k \in NodeKeys : NodeLabel(n, k)' = NodeLabel(n, k)
<1>1. \A i \in IDs : \A n : IsNamed(i, n)' <=> IsNamed(i, n)
  BY NameKeys DEF IsNamed
<1>2. \A i \in IDs, k \in NodeKeys : ValueAt(i, k)' = ValueAt(i, k)
  BY DEF ValueAt
<1>3. ASSUME NEW n \in Names, NEW k \in NodeKeys PROVE NodeLabel(n, k)' = NodeLabel(n, k)
  BY <1>1, <1>2 DEF SeesNodes
<1> QED
  BY <1>1, <1>3

\* With the same storages and names, the edges and their labels are, too.
LEMMA SameGraph ==
    ASSUME Sees, Sees', gs' = gs, \A i \in IDs : \A n : IsNamed(i, n)' <=> IsNamed(i, n)
    PROVE  NamedEdges' = NamedEdges /\ NamedEdgeLabels' = NamedEdgeLabels
<1>1. \A c \in Components, m, n \in Names : Joined(c, m, n)' <=> Joined(c, m, n)
  BY DEF Joined
<1>2. \A c \in Components, m, n \in Names, k \in LabelKeys, v \in LabelValues :
         Marked(c, m, n, k, v)' <=> Marked(c, m, n, k, v)
  BY DEF Marked
<1> QED
  BY <1>1, <1>2, SameEdges, SameMarks DEF Sees

\* What Graph sees of the nodes.
LEMMA GraphNodes ==
    /\ (\A n \in Names, k \in NodeKeys : NodeLabel(n, k)' = NodeLabel(n, k)) =>
          /\ [n \in Names |-> NodeLabel(n, TypeKey)]' = [n \in Names |-> NodeLabel(n, TypeKey)]
          /\ [x \in Names \X LabelKeys |-> NodeLabel(x[1], x[2])]' =
                [x \in Names \X LabelKeys |-> NodeLabel(x[1], x[2])]
BY NameKeys

LEMMA Unseen ==
    ASSUME Sees, Sees', gs' = gs, nodeAnnos'.annotations = nodeAnnos.annotations
    PROVE  UNCHANGED Graph!vars
<1>1. /\ \A i \in IDs : \A n : IsNamed(i, n)' <=> IsNamed(i, n)
      /\ \A n \in Names, k \in NodeKeys : NodeLabel(n, k)' = NodeLabel(n, k)
  BY SameNodes DEF Sees
<1>2. NamedEdges' = NamedEdges /\ NamedEdgeLabels' = NamedEdgeLabels
  BY <1>1, SameGraph
<1> QED
  BY <1>1, <1>2, GraphNodes DEF Graph!vars

\* A node with a name has a type.
LEMMA TypeSeen ==
    ASSUME GraphInv, NEW i \in IDs, NEW n, IsNamed(i, n)
    PROVE  ValueAt(i, TypeKey) # None
<1>1. WholeNode(nodeAnnos.annotations, i) /\ nodeAnnos.annotations[<<i, NameKey>>] # <<>>
  BY DEF GraphInv, Whole, IsNamed
<1>2. PICK t \in Types : nodeAnnos.annotations[<<i, TypeKey>>] = <<t>>
  BY <1>1, NameKeys DEF WholeNode
<1>3. <<t>> # <<>> /\ Head(<<t>>) = t
  OBVIOUS
<1> QED
  BY <1>2, <1>3, UpdateAssumption DEF ValueAt

LEMMA NodeAddedSeen ==
    ASSUME GraphInv, Careful, Sees, Sees', NEW n \in Names, NEW t \in Types,
           AddNode(n, t), nodeAnnos' # nodeAnnos
    PROVE  Graph!Next
<1> DEFINE a == nodeAnnos.annotations
           b == nodeAnnos'.annotations
<1>1. (\A j \in IDs : a[<<j, NameKey>>] # <<n>>) /\ gs' = gs
  BY NodeAdded DEF GraphInv, AddNode
<1>2. PICK i \in IDs :
         /\ \A k \in NodeKeys : a[<<i, k>>] = <<>>
         /\ \A j \in IDs, k \in NodeKeys :
               b[<<j, k>>] = IF j # i THEN a[<<j, k>>]
                             ELSE IF k = NameKey THEN <<n>> ELSE IF k = TypeKey THEN <<t>> ELSE <<>>
  BY NodeAdded DEF GraphInv
<1>3. NameKey \in NodeKeys /\ TypeKey \in NodeKeys /\ NameKey # TypeKey
      /\ \A k \in LabelKeys : k \in NodeKeys /\ k # NameKey /\ k # TypeKey
  BY NameKeys, UpdateAssumption
<1>4. \A j \in IDs : \A m : IsNamed(j, m) => j # i
  BY <1>2, <1>3 DEF IsNamed
<1>5. \A j \in IDs : \A m : j # i => (IsNamed(j, m)' <=> IsNamed(j, m))
  BY <1>2, <1>3 DEF IsNamed
<1>6. \A m : IsNamed(i, m)' <=> m = n
  BY <1>2, <1>3 DEF IsNamed
<1>7. \A j \in IDs : ~IsNamed(j, n)
  BY <1>1 DEF IsNamed
<1>8. \A j \in IDs, k \in NodeKeys : j # i => ValueAt(j, k)' = ValueAt(j, k)
  BY <1>2 DEF ValueAt
<1>9. ValueAt(i, TypeKey)' = t /\ \A k \in LabelKeys : ValueAt(i, k)' = None
  BY <1>2, <1>3 DEF ValueAt
<1>10. \A k \in NodeKeys : NodeLabel(n, k) = None /\ NodeLabel(n, k)' = ValueAt(i, k)'
  BY <1>6, <1>7 DEF Sees, SeesNodes
<1>11. ASSUME NEW m \in Names, m # n, NEW k \in NodeKeys PROVE NodeLabel(m, k)' = NodeLabel(m, k)
  <2>1. CASE \A j \in IDs : ~IsNamed(j, m)
    <3>1. \A j \in IDs : ~IsNamed(j, m)'
      BY <1>5, <1>6, <1>11, <2>1
    <3> QED
      BY <2>1, <3>1 DEF Sees, SeesNodes
  <2>2. ASSUME NEW j \in IDs, IsNamed(j, m) PROVE NodeLabel(m, k)' = NodeLabel(m, k)
    <3>1. j # i /\ IsNamed(j, m)'
      BY <1>4, <1>5, <2>2
    <3>2. NodeLabel(m, k) = ValueAt(j, k) /\ NodeLabel(m, k)' = ValueAt(j, k)'
      BY <2>2, <3>1 DEF Sees, SeesNodes
    <3> QED
      BY <1>8, <3>1, <3>2
  <2> QED
    BY <2>1, <2>2
<1>12. \A c \in Components, h, j \in IDs : <<h, j>> \in gs[c].edges => h # i /\ j # i
  <2> SUFFICES ASSUME NEW c \in Components, NEW h \in IDs, NEW j \in IDs, <<h, j>> \in gs[c].edges
               PROVE  h # i /\ j # i
    OBVIOUS
  <2>1. a[<<h, NameKey>>] # <<>> /\ a[<<j, NameKey>>] # <<>>
    BY Seen
  <2> QED
    BY <1>2, <1>3, <2>1
<1>13. NamedEdges' = NamedEdges
  <2>1. \A c \in Components, m1, m2 \in Names : Joined(c, m1, m2)' <=> Joined(c, m1, m2)
    BY <1>1, <1>5, <1>12 DEF Joined
  <2> QED
    BY <2>1, SameEdges DEF Sees
<1>14. NamedEdgeLabels' = NamedEdgeLabels
  <2>1. \A c \in Components, h, j \in IDs, k \in LabelKeys : \A v :
           gs[c].edgeAnnos.annotations[<<<<h, j>>, k>>] = <<v>> => h # i /\ j # i
    BY <1>12, Seen
  <2>2. \A c \in Components, m1, m2 \in Names, k \in LabelKeys, v \in LabelValues :
           Marked(c, m1, m2, k, v)' <=> Marked(c, m1, m2, k, v)
    <3> SUFFICES ASSUME NEW c \in Components, NEW m1 \in Names, NEW m2 \in Names,
                        NEW k \in LabelKeys, NEW v \in LabelValues
                 PROVE  Marked(c, m1, m2, k, v)' <=> Marked(c, m1, m2, k, v)
      OBVIOUS
    <3>1. \A h, j \in IDs : gs[c].edgeAnnos.annotations[<<<<h, j>>, k>>] = <<v>> =>
             /\ IsNamed(h, m1)' <=> IsNamed(h, m1)
             /\ IsNamed(j, m2)' <=> IsNamed(j, m2)
      BY <1>5, <2>1
    <3> QED
      BY <1>1, <3>1 DEF Marked
  <2> QED
    BY <2>2, SameMarks DEF Sees
<1>15. [m \in Names |-> NodeLabel(m, TypeKey)]' =
          [[m \in Names |-> NodeLabel(m, TypeKey)] EXCEPT ![n] = t]
  <2>1. \A m \in Names : NodeLabel(m, TypeKey)' = IF m = n THEN t ELSE NodeLabel(m, TypeKey)
    BY <1>3, <1>9, <1>10, <1>11
  <2> QED
    BY <2>1
<1>16. [x \in Names \X LabelKeys |-> NodeLabel(x[1], x[2])]' =
          [x \in Names \X LabelKeys |-> NodeLabel(x[1], x[2])]
  <2>1. \A m \in Names, k \in LabelKeys : NodeLabel(m, k)' = NodeLabel(m, k)
    BY <1>3, <1>9, <1>10, <1>11
  <2> QED
    BY <2>1
<1>17. Graph!AddNode(n, t)
  BY <1>3, <1>10, <1>15, <1>16 DEF Graph!AddNode, Graph!Exists
<1> QED
  BY <1>13, <1>14, <1>17 DEF Graph!Next, Graph!NodeEvent

LEMMA NodeLabelledSeen ==
    ASSUME GraphInv, Careful, Sees, Sees', NEW n \in Names, NEW k \in LabelKeys,
           NEW v \in LabelValues, AddNodeLabel(n, k, v)
    PROVE  Graph!Next \/ UNCHANGED Graph!vars
<1> DEFINE a == nodeAnnos.annotations
           b == nodeAnnos'.annotations
<1>1. gs' = gs
  BY DEF AddNodeLabel
<1>2. CASE b = a
  BY <1>1, <1>2, Unseen
<1>3. CASE b # a
  <2>1. PICK i \in IDs :
           /\ a[<<i, NameKey>>] = <<n>>
           /\ a[<<i, k>>] = <<>>
           /\ \A j \in IDs, l \in NodeKeys :
                 b[<<j, l>>] = IF j = i /\ l = k THEN <<v>> ELSE a[<<j, l>>]
    BY <1>3, NodeLabelled DEF GraphInv
  <2>2. NameKey \in NodeKeys /\ TypeKey \in NodeKeys
        /\ \A l \in LabelKeys : l \in NodeKeys /\ l # NameKey /\ l # TypeKey
    BY NameKeys, UpdateAssumption
  <2>3. \A j \in IDs : \A m : IsNamed(j, m)' <=> IsNamed(j, m)
    BY <2>1, <2>2 DEF IsNamed
  <2>4. IsNamed(i, n)
    BY <2>1 DEF IsNamed
  <2>5. \A j \in IDs, l \in NodeKeys : ValueAt(j, l)' = IF j = i /\ l = k THEN v ELSE ValueAt(j, l)
    <3>1. <<v>> # <<>> /\ Head(<<v>>) = v
      OBVIOUS
    <3> QED
      BY <2>1, <3>1 DEF ValueAt
  <2>6. ValueAt(i, k) = None
    BY <2>1 DEF ValueAt
  <2>7. ValueAt(i, TypeKey) # None
    BY <2>4, TypeSeen
  <2>8. ASSUME NEW m \in Names, NEW l \in NodeKeys
        PROVE  NodeLabel(m, l)' = IF m = n /\ l = k THEN v ELSE NodeLabel(m, l)
    <3>1. CASE \A j \in IDs : ~IsNamed(j, m)
      <4>1. m # n /\ \A j \in IDs : ~IsNamed(j, m)'
        BY <2>3, <2>4, <3>1
      <4> QED
        BY <3>1, <4>1 DEF Sees, SeesNodes
    <3>2. ASSUME NEW j \in IDs, IsNamed(j, m)
          PROVE  NodeLabel(m, l)' = IF m = n /\ l = k THEN v ELSE NodeLabel(m, l)
      <4>1. NodeLabel(m, l) = ValueAt(j, l) /\ NodeLabel(m, l)' = ValueAt(j, l)'
        BY <2>3, <3>2 DEF Sees, SeesNodes
      <4>2. j = i <=> m = n
        BY <2>4, <3>2, Seen
      <4> QED
        BY <2>5, <4>1, <4>2
    <3> QED
      BY <3>1, <3>2
  <2>9. NodeLabel(n, TypeKey) # None /\ NodeLabel(n, k) = None
    BY <2>2, <2>4, <2>6, <2>7 DEF Sees, SeesNodes
  <2>10. [m \in Names |-> NodeLabel(m, TypeKey)]' = [m \in Names |-> NodeLabel(m, TypeKey)]
    BY <2>2, <2>8
  <2>11. [x \in Names \X LabelKeys |-> NodeLabel(x[1], x[2])]' =
            [[x \in Names \X LabelKeys |-> NodeLabel(x[1], x[2])] EXCEPT ![<<n, k>>] = v]
    <3>1. ASSUME NEW x \in Names \X LabelKeys
          PROVE  NodeLabel(x[1], x[2])' = IF x = <<n, k>> THEN v ELSE NodeLabel(x[1], x[2])
      <4>1. x[1] \in Names /\ x[2] \in NodeKeys /\ (x = <<n, k>> <=> x[1] = n /\ x[2] = k)
        BY <2>2
      <4>2. NodeLabel(x[1], x[2])' = IF x[1] = n /\ x[2] = k THEN v ELSE NodeLabel(x[1], x[2])
        BY <2>8, <4>1
      <4> QED
        BY <4>1, <4>2
    <3> QED
      BY <3>1
  <2>12. Graph!AddNodeLabel(n, k, v)
    BY <2>9, <2>10, <2>11 DEF Graph!AddNodeLabel, Graph!Exists
  <2>13. NamedEdges' = NamedEdges /\ NamedEdgeLabels' = NamedEdgeLabels
    BY <1>1, <2>3, SameGraph
  <2> QED
    BY <2>12, <2>13 DEF Graph!Next, Graph!NodeEvent
<1> QED
  BY <1>2, <1>3

LEMMA NodeUnlabelledSeen ==
    ASSUME GraphInv, Careful, Sees, Sees', NEW n \in Names, NEW k \in LabelKeys,
           DeleteNodeLabel(n, k)
    PROVE  Graph!Next \/ UNCHANGED Graph!vars
<1> DEFINE a == nodeAnnos.annotations
           b == nodeAnnos'.annotations
<1>1. gs' = gs
  BY DEF DeleteNodeLabel
<1>2. CASE b = a
  BY <1>1, <1>2, Unseen
<1>3. CASE b # a
  <2>1. PICK i \in IDs :
           /\ a[<<i, NameKey>>] = <<n>>
           /\ \A j \in IDs, l \in NodeKeys :
                 b[<<j, l>>] = IF j = i /\ l = k THEN <<>> ELSE a[<<j, l>>]
    BY <1>3, NodeUnlabelled DEF GraphInv
  <2>2. NameKey \in NodeKeys /\ TypeKey \in NodeKeys
        /\ \A l \in LabelKeys : l \in NodeKeys /\ l # NameKey /\ l # TypeKey
    BY NameKeys, UpdateAssumption
  <2>3. \A j \in IDs : \A m : IsNamed(j, m)' <=> IsNamed(j, m)
    BY <2>1, <2>2 DEF IsNamed
  <2>4. IsNamed(i, n)
    BY <2>1 DEF IsNamed
  <2>5. \A j \in IDs, l \in NodeKeys : ValueAt(j, l)' = IF j = i /\ l = k THEN None ELSE ValueAt(j, l)
    BY <2>1 DEF ValueAt
  <2>6. ASSUME NEW m \in Names, NEW l \in NodeKeys
        PROVE  NodeLabel(m, l)' = IF m = n /\ l = k THEN None ELSE NodeLabel(m, l)
    <3>1. CASE \A j \in IDs : ~IsNamed(j, m)
      <4>1. m # n /\ \A j \in IDs : ~IsNamed(j, m)'
        BY <2>3, <2>4, <3>1
      <4> QED
        BY <3>1, <4>1 DEF Sees, SeesNodes
    <3>2. ASSUME NEW j \in IDs, IsNamed(j, m)
          PROVE  NodeLabel(m, l)' = IF m = n /\ l = k THEN None ELSE NodeLabel(m, l)
      <4>1. NodeLabel(m, l) = ValueAt(j, l) /\ NodeLabel(m, l)' = ValueAt(j, l)'
        BY <2>3, <3>2 DEF Sees, SeesNodes
      <4>2. j = i <=> m = n
        BY <2>4, <3>2, Seen
      <4> QED
        BY <2>5, <4>1, <4>2
    <3> QED
      BY <3>1, <3>2
  <2>7. [m \in Names |-> NodeLabel(m, TypeKey)]' = [m \in Names |-> NodeLabel(m, TypeKey)]
    BY <2>2, <2>6
  <2>8. [x \in Names \X LabelKeys |-> NodeLabel(x[1], x[2])]' =
            [[x \in Names \X LabelKeys |-> NodeLabel(x[1], x[2])] EXCEPT ![<<n, k>>] = None]
    <3>1. ASSUME NEW x \in Names \X LabelKeys
          PROVE  NodeLabel(x[1], x[2])' = IF x = <<n, k>> THEN None ELSE NodeLabel(x[1], x[2])
      <4>1. x[1] \in Names /\ x[2] \in NodeKeys /\ (x = <<n, k>> <=> x[1] = n /\ x[2] = k)
        BY <2>2
      <4>2. NodeLabel(x[1], x[2])' = IF x[1] = n /\ x[2] = k THEN None ELSE NodeLabel(x[1], x[2])
        BY <2>6, <4>1
      <4> QED
        BY <4>1, <4>2
    <3> QED
      BY <3>1
  <2>9. Graph!DeleteNodeLabel(n, k)
    BY <2>7, <2>8 DEF Graph!DeleteNodeLabel
  <2>10. NamedEdges' = NamedEdges /\ NamedEdgeLabels' = NamedEdgeLabels
    BY <1>1, <2>3, SameGraph
  <2> QED
    BY <2>9, <2>10 DEF Graph!Next, Graph!NodeEvent
<1> QED
  BY <1>2, <1>3

LEMMA NodeRemovedSeen ==
    ASSUME GraphInv, Careful, Sees, Sees', NEW n \in Names, NEW i \in getNodeID(n),
           MayDelete(i), nodeAnnos' = Labels!deleteAnnotations(nodeAnnos, {i}),
           gs' = [c \in Components |-> deleteNode(createWritableGraphStorage(gs[c]), i)]
    PROVE  Graph!Next
<1> DEFINE a == nodeAnnos.annotations
           b == nodeAnnos'.annotations
<1>1. /\ i \in IDs /\ a[<<i, NameKey>>] = <<n>>
      /\ \A j \in IDs, k \in NodeKeys : b[<<j, k>>] = IF j = i THEN <<>> ELSE a[<<j, k>>]
  BY NodeRemoved DEF GraphInv
<1>2. \A c \in Components :
         /\ \A e \in gs[c].edges : e[2] # i
         /\ gs'[c].edges = {e \in gs[c].edges : e[1] # i}
         /\ \A e \in Pairs, k \in LabelKeys : e[1] # i =>
                gs'[c].edgeAnnos.annotations[<<e, k>>] = gs[c].edgeAnnos.annotations[<<e, k>>]
  BY <1>1, NodeWithEdgesOut DEF GraphInv, Careful
<1>3. \A j \in IDs, m \in Names : IsNamed(j, m) => (j = i <=> m = n)
  <2>1. IsNamed(i, n)
    BY <1>1 DEF IsNamed
  <2> QED
    BY <1>1, <2>1, Seen
<1>4. \A j \in IDs, m \in Names : IsNamed(j, m)' <=> j # i /\ IsNamed(j, m)
  <2>1. \A m : <<m>> # <<>>
    OBVIOUS
  <2> QED
    BY <1>1, <2>1, NameKeys DEF IsNamed
<1>5. \A j \in IDs, k \in NodeKeys : j # i => ValueAt(j, k)' = ValueAt(j, k)
  BY <1>1 DEF ValueAt
<1>6. ASSUME NEW m \in Names, NEW k \in NodeKeys
      PROVE  NodeLabel(m, k)' = IF m = n THEN None ELSE NodeLabel(m, k)
  <2>1. CASE m = n
    <3>1. \A j \in IDs : ~IsNamed(j, m)'
      BY <1>3, <1>4, <2>1
    <3> QED
      BY <2>1, <3>1 DEF Sees, SeesNodes
  <2>2. CASE m # n /\ \A j \in IDs : ~IsNamed(j, m)
    <3>1. \A j \in IDs : ~IsNamed(j, m)'
      BY <1>4, <2>2
    <3> QED
      BY <2>2, <3>1 DEF Sees, SeesNodes
  <2>3. ASSUME m # n, NEW j \in IDs, IsNamed(j, m)
        PROVE  NodeLabel(m, k)' = NodeLabel(m, k)
    <3>1. j # i /\ IsNamed(j, m)'
      BY <1>3, <1>4, <2>3
    <3>2. NodeLabel(m, k) = ValueAt(j, k) /\ NodeLabel(m, k)' = ValueAt(j, k)'
      BY <2>3, <3>1 DEF Sees, SeesNodes
    <3> QED
      BY <1>5, <3>1, <3>2
  <2> QED
    BY <2>1, <2>2, <2>3
<1>7. NodeLabel(n, TypeKey) # None
  <2>1. IsNamed(i, n)
    BY <1>1 DEF IsNamed
  <2> QED
    BY <1>1, <2>1, TypeSeen, NameKeys DEF Sees, SeesNodes
<1>8. [m \in Names |-> NodeLabel(m, TypeKey)]' =
         [[m \in Names |-> NodeLabel(m, TypeKey)] EXCEPT ![n] = None]
  BY <1>6, NameKeys
<1>9. [x \in Names \X LabelKeys |-> NodeLabel(x[1], x[2])]' =
         [x \in Names \X LabelKeys |-> IF x[1] = n THEN None
                                       ELSE [y \in Names \X LabelKeys |-> NodeLabel(y[1], y[2])][x]]
  <2>1. ASSUME NEW x \in Names \X LabelKeys
        PROVE  NodeLabel(x[1], x[2])' = IF x[1] = n THEN None ELSE NodeLabel(x[1], x[2])
    <3>1. x[1] \in Names /\ x[2] \in NodeKeys
      BY NameKeys
    <3> QED
      BY <1>6, <3>1
  <2> QED
    BY <2>1
<1>10. NamedEdges' = {e \in NamedEdges : n \notin {e[2], e[3]}}
  <2>1. ASSUME NEW c \in Components, NEW m1 \in Names, NEW m2 \in Names
        PROVE  Joined(c, m1, m2)' <=> Joined(c, m1, m2) /\ m1 # n /\ m2 # n
    <3>1. \A h, j \in IDs : <<h, j>> \in gs'[c].edges <=> <<h, j>> \in gs[c].edges /\ h # i
      <4>1. \A h, j \in IDs : <<h, j>>[1] = h
        OBVIOUS
      <4>2. gs'[c].edges = {f \in gs[c].edges : f[1] # i}
        BY <1>2
      <4> QED
        BY <4>1, <4>2
    <3>2. \A h, j \in IDs : <<h, j>> \in gs[c].edges => j # i
      BY <1>2
    <3>3. Joined(c, m1, m2)' => Joined(c, m1, m2) /\ m1 # n /\ m2 # n
      BY <1>3, <1>4, <3>1 DEF Joined
    <3>4. Joined(c, m1, m2) /\ m1 # n /\ m2 # n => Joined(c, m1, m2)'
      BY <1>3, <1>4, <3>1 DEF Joined
    <3> QED
      BY <3>3, <3>4
  <2> DEFINE T == {e \in NamedEdges : n \notin {e[2], e[3]}}
  <2>2. T \in SUBSET (Components \X Names \X Names)
    BY DEF Sees, SeesEdges
  <2>3. \A c \in Components, m1, m2 \in Names :
           <<c, m1, m2>> \in T <=> <<c, m1, m2>> \in NamedEdges /\ m1 # n /\ m2 # n
    OBVIOUS
  <2> HIDE DEF T
  <2>4. \A c \in Components, m1, m2 \in Names : Joined(c, m1, m2)' <=> <<c, m1, m2>> \in T
    BY <2>1, <2>3 DEF Sees, SeesEdges
  <2>5. NamedEdges' = T
    BY <2>2, <2>4, EdgesAre DEF Sees
  <2> QED
    BY <2>5 DEF T
<1>11. NamedEdgeLabels' = {e \in NamedEdgeLabels : n \notin {e[2], e[3]}}
  <2>1. ASSUME NEW c \in Components, NEW m1 \in Names, NEW m2 \in Names,
               NEW k \in LabelKeys, NEW v \in LabelValues
        PROVE  Marked(c, m1, m2, k, v)' <=> Marked(c, m1, m2, k, v) /\ m1 # n /\ m2 # n
    <3>1. \A h, j \in IDs : h # i => gs'[c].edgeAnnos.annotations[<<<<h, j>>, k>>] =
                                        gs[c].edgeAnnos.annotations[<<<<h, j>>, k>>]
      <4> SUFFICES ASSUME NEW h \in IDs, NEW j \in IDs, h # i
                   PROVE  gs'[c].edgeAnnos.annotations[<<<<h, j>>, k>>] =
                             gs[c].edgeAnnos.annotations[<<<<h, j>>, k>>]
        OBVIOUS
      <4>1. <<h, j>> \in Pairs /\ <<h, j>>[1] = h
        BY DEF Pairs
      <4> QED
        BY <1>2, <4>1
    <3>2. Marked(c, m1, m2, k, v)' => Marked(c, m1, m2, k, v) /\ m1 # n /\ m2 # n
      BY <1>3, <1>4, <3>1 DEF Marked
    <3>3. Marked(c, m1, m2, k, v) /\ m1 # n /\ m2 # n => Marked(c, m1, m2, k, v)'
      BY <1>3, <1>4, <3>1 DEF Marked
    <3> QED
      BY <3>2, <3>3
  <2> DEFINE T == {e \in NamedEdgeLabels : n \notin {e[2], e[3]}}
  <2>2. T \in SUBSET (Components \X Names \X Names \X LabelKeys \X LabelValues)
    BY DEF Sees, SeesMarks
  <2>3. \A c \in Components, m1, m2 \in Names, k \in LabelKeys, v \in LabelValues :
           <<c, m1, m2, k, v>> \in T <=> <<c, m1, m2, k, v>> \in NamedEdgeLabels /\ m1 # n /\ m2 # n
    OBVIOUS
  <2> HIDE DEF T
  <2>4. \A c \in Components, m1, m2 \in Names, k \in LabelKeys, v \in LabelValues :
           Marked(c, m1, m2, k, v)' <=> <<c, m1, m2, k, v>> \in T
    BY <2>1, <2>3 DEF Sees, SeesMarks
  <2>5. NamedEdgeLabels' = T
    BY <2>2, <2>4, MarksAre DEF Sees
  <2> QED
    BY <2>5 DEF T
<1>12. Graph!DeleteNode(n)
  BY <1>7, <1>8, <1>9, <1>10, <1>11 DEF Graph!DeleteNode, Graph!Exists
<1> QED
  BY <1>12 DEF Graph!Next

LEMMA EdgeEventSeen ==
    ASSUME GraphInv, Careful, Sees, Sees', NEW c \in Components, NEW m \in Names, NEW n \in Names,
           \/ AddEdge(c, m, n) \/ DeleteEdge(c, m, n)
           \/ \E k \in LabelKeys :
                 \/ DeleteEdgeLabel(c, m, n, k)
                 \/ \E v \in LabelValues : AddEdgeLabel(c, m, n, k, v)
    PROVE  Graph!Next \/ UNCHANGED Graph!vars
<1>1. nodeAnnos' = nodeAnnos
  BY DEF AddEdge, DeleteEdge, DeleteEdgeLabel, AddEdgeLabel
<1>2. CASE gs' = gs
  BY <1>1, <1>2, Unseen
<1>3. /\ \A i \in IDs : \A m1 : IsNamed(i, m1)' <=> IsNamed(i, m1)
      /\ \A m1 \in Names, l \in NodeKeys : NodeLabel(m1, l)' = NodeLabel(m1, l)
  BY <1>1, SameNodes DEF Sees
<1>4. \A e \in EdgeOf(m, n) :
         /\ e[1] \in IDs /\ e[2] \in IDs /\ e = <<e[1], e[2]>> /\ e \in Pairs
         /\ IsNamed(e[1], m) /\ IsNamed(e[2], n)
  BY EnumeratedEdge DEF GraphInv, IsNamed
\* The ids of an edge are those of the nodes with its names.
<1>5. ASSUME NEW e \in EdgeOf(m, n), NEW i \in IDs, NEW j \in IDs, NEW m1 \in Names, NEW m2 \in Names,
             IsNamed(i, m1), IsNamed(j, m2)
      PROVE  <<i, j>> = e <=> m1 = m /\ m2 = n
  <2>1. <<i, j>> = e <=> i = e[1] /\ j = e[2]
    BY <1>4
  <2>2. i = e[1] <=> m1 = m
    BY <1>4, <1>5, Seen
  <2>3. j = e[2] <=> m2 = n
    BY <1>4, <1>5, Seen
  <2> QED
    BY <2>1, <2>2, <2>3
<1>6. ASSUME AddEdge(c, m, n), gs' # gs PROVE Graph!Next \/ UNCHANGED Graph!vars
  <2>1. PICK e \in EdgeOf(m, n) : ComesIn(c, e)
    BY <1>6, EdgeIn DEF GraphInv, Careful
  <2>2. NamedEdgeLabels' = NamedEdgeLabels
    <3>1. \A d \in Components, m1, m2 \in Names, k \in LabelKeys, v \in LabelValues :
             Marked(d, m1, m2, k, v)' <=> Marked(d, m1, m2, k, v)
      BY <1>3, <2>1 DEF Marked, ComesIn
    <3> QED
      BY <3>1, SameMarks DEF Sees
  <2>3. CASE e[1] = e[2]
    <3>1. \A d \in Components, m1, m2 \in Names : Joined(d, m1, m2)' <=> Joined(d, m1, m2)
      BY <1>3, <2>1, <2>3 DEF Joined, ComesIn
    <3>2. NamedEdges' = NamedEdges
      BY <3>1, SameEdges DEF Sees
    <3> QED
      BY <1>3, <2>2, <3>2, GraphNodes DEF Graph!vars
  <2>4. CASE e[1] # e[2]
    <3> DEFINE T == NamedEdges \cup {<<c, m, n>>}
    <3>1. ASSUME NEW d \in Components, NEW m1 \in Names, NEW m2 \in Names
          PROVE  Joined(d, m1, m2)' <=> Joined(d, m1, m2) \/ (d = c /\ m1 = m /\ m2 = n)
      <4>1. \A i, j \in IDs : <<i, j>> \in gs'[d].edges <=> <<i, j>> \in gs[d].edges \/ (d = c /\ <<i, j>> = e)
        BY <2>1, <2>4 DEF ComesIn
      <4>2. Joined(d, m1, m2)' => Joined(d, m1, m2) \/ (d = c /\ m1 = m /\ m2 = n)
        BY <1>3, <1>5, <4>1 DEF Joined
      <4>3. Joined(d, m1, m2) => Joined(d, m1, m2)'
        BY <1>3, <4>1 DEF Joined
      <4>4. d = c /\ m1 = m /\ m2 = n => Joined(d, m1, m2)'
        BY <1>3, <1>4, <4>1 DEF Joined
      <4> QED
        BY <4>2, <4>3, <4>4
    <3>2. T \in SUBSET (Components \X Names \X Names)
      BY DEF Sees, SeesEdges
    <3>3. \A d \in Components, m1, m2 \in Names :
             <<d, m1, m2>> \in T <=> <<d, m1, m2>> \in NamedEdges \/ (d = c /\ m1 = m /\ m2 = n)
      OBVIOUS
    <3> HIDE DEF T
    <3>4. \A d \in Components, m1, m2 \in Names : Joined(d, m1, m2)' <=> <<d, m1, m2>> \in T
      BY <3>1, <3>3 DEF Sees, SeesEdges
    <3>5. NamedEdges' = NamedEdges \cup {<<c, m, n>>}
      BY <3>2, <3>4, EdgesAre DEF Sees, T
    <3>6. m # n
      BY <1>4, <2>4, Seen
    <3>7. NodeLabel(m, TypeKey) # None /\ NodeLabel(n, TypeKey) # None
      BY <1>4, TypeSeen, NameKeys DEF Sees, SeesNodes
    <3>8. Graph!AddEdge(c, m, n)
      BY <3>5, <3>6, <3>7 DEF Graph!AddEdge, Graph!Exists
    <3> QED
      BY <1>3, <2>2, <3>8, GraphNodes DEF Graph!Next, Graph!EdgeEvent
  <2> QED
    BY <2>3, <2>4
<1>7. ASSUME DeleteEdge(c, m, n), gs' # gs PROVE Graph!Next
  <2>1. PICK e \in EdgeOf(m, n) : GoesOut(c, e)
    BY <1>7, EdgeOut DEF GraphInv, Careful
  <2>2. NamedEdges' = NamedEdges \ {<<c, m, n>>}
    <3> DEFINE T == NamedEdges \ {<<c, m, n>>}
    <3>1. ASSUME NEW d \in Components, NEW m1 \in Names, NEW m2 \in Names
          PROVE  Joined(d, m1, m2)' <=> Joined(d, m1, m2) /\ ~(d = c /\ m1 = m /\ m2 = n)
      <4>1. \A i, j \in IDs : <<i, j>> \in gs'[d].edges <=> <<i, j>> \in gs[d].edges /\ ~(d = c /\ <<i, j>> = e)
        BY <2>1 DEF GoesOut
      <4> QED
        BY <1>3, <1>5, <4>1 DEF Joined
    <3>2. T \in SUBSET (Components \X Names \X Names)
      BY DEF Sees, SeesEdges
    <3>3. \A d \in Components, m1, m2 \in Names :
             <<d, m1, m2>> \in T <=> <<d, m1, m2>> \in NamedEdges /\ ~(d = c /\ m1 = m /\ m2 = n)
      OBVIOUS
    <3> HIDE DEF T
    <3>4. \A d \in Components, m1, m2 \in Names : Joined(d, m1, m2)' <=> <<d, m1, m2>> \in T
      BY <3>1, <3>3 DEF Sees, SeesEdges
    <3> QED
      BY <3>2, <3>4, EdgesAre DEF Sees, T
  <2>3. NamedEdgeLabels' = NamedEdgeLabels \ Graph!LabelsOf(c, m, n)
    <3> DEFINE T == NamedEdgeLabels \ {x \in NamedEdgeLabels : x[1] = c /\ x[2] = m /\ x[3] = n}
    <3>1. ASSUME NEW d \in Components, NEW m1 \in Names, NEW m2 \in Names,
                 NEW k \in LabelKeys, NEW v \in LabelValues
          PROVE  Marked(d, m1, m2, k, v)' <=> Marked(d, m1, m2, k, v) /\ ~(d = c /\ m1 = m /\ m2 = n)
      <4>1. \A i, j \in IDs : gs'[d].edgeAnnos.annotations[<<<<i, j>>, k>>] =
               IF d = c /\ <<i, j>> = e THEN <<>> ELSE gs[d].edgeAnnos.annotations[<<<<i, j>>, k>>]
        BY <2>1 DEF GoesOut, Pairs
      <4>2. <<v>> # <<>>
        OBVIOUS
      <4>3. ASSUME NEW i \in IDs, NEW j \in IDs, IsNamed(i, m1), IsNamed(j, m2)
            PROVE  gs'[d].edgeAnnos.annotations[<<<<i, j>>, k>>] = <<v>> <=>
                     /\ gs[d].edgeAnnos.annotations[<<<<i, j>>, k>>] = <<v>>
                     /\ ~(d = c /\ m1 = m /\ m2 = n)
        BY <1>5, <4>1, <4>2, <4>3
      <4> QED
        BY <1>3, <4>3 DEF Marked
    <3>2. T \in SUBSET (Components \X Names \X Names \X LabelKeys \X LabelValues)
      BY DEF Sees, SeesMarks
    <3>3. \A d \in Components, m1, m2 \in Names, k \in LabelKeys, v \in LabelValues :
             <<d, m1, m2, k, v>> \in T <=>
                <<d, m1, m2, k, v>> \in NamedEdgeLabels /\ ~(d = c /\ m1 = m /\ m2 = n)
      OBVIOUS
    <3> HIDE DEF T
    <3>4. \A d \in Components, m1, m2 \in Names, k \in LabelKeys, v \in LabelValues :
             Marked(d, m1, m2, k, v)' <=> <<d, m1, m2, k, v>> \in T
      BY <3>1, <3>3 DEF Sees, SeesMarks
    <3>5. NamedEdgeLabels' = T
      BY <3>2, <3>4, MarksAre DEF Sees
    <3> QED
      BY <3>5 DEF T, Graph!LabelsOf
  <2>4. Graph!DeleteEdge(c, m, n)
    BY <2>2, <2>3 DEF Graph!DeleteEdge
  <2> QED
    BY <1>3, <2>4, GraphNodes DEF Graph!Next, Graph!EdgeEvent
<1>8. ASSUME NEW k \in LabelKeys, NEW v \in LabelValues, AddEdgeLabel(c, m, n, k, v), gs' # gs
      PROVE  Graph!Next \/ UNCHANGED Graph!vars
  <2>1. PICK e \in EdgeOf(m, n) : MarkComes(c, e, k, v)
    BY <1>8, MarkIn DEF GraphInv, Careful
  <2>2. NamedEdges' = NamedEdges
    <3>1. \A d \in Components, m1, m2 \in Names : Joined(d, m1, m2)' <=> Joined(d, m1, m2)
      BY <1>3, <2>1 DEF Joined, MarkComes
    <3> QED
      BY <3>1, SameEdges DEF Sees
  <2>3. CASE e \notin gs[c].edges
    <3>1. \A d \in Components, i, j \in IDs, l \in LabelKeys :
             gs'[d].edgeAnnos.annotations[<<<<i, j>>, l>>] = gs[d].edgeAnnos.annotations[<<<<i, j>>, l>>]
      BY <2>1, <2>3 DEF MarkComes, Pairs
    <3>2. \A d \in Components, m1, m2 \in Names, l \in LabelKeys, w \in LabelValues :
             Marked(d, m1, m2, l, w)' <=> Marked(d, m1, m2, l, w)
      <4> SUFFICES ASSUME NEW d \in Components, NEW m1 \in Names, NEW m2 \in Names,
                          NEW l \in LabelKeys, NEW w \in LabelValues
                   PROVE  Marked(d, m1, m2, l, w)' <=> Marked(d, m1, m2, l, w)
        OBVIOUS
      <4>1. \A i, j \in IDs : gs'[d].edgeAnnos.annotations[<<<<i, j>>, l>>] =
               gs[d].edgeAnnos.annotations[<<<<i, j>>, l>>]
        BY <3>1
      <4> QED
        BY <1>3, <4>1 DEF Marked
    <3>3. NamedEdgeLabels' = NamedEdgeLabels
      BY <3>2, SameMarks DEF Sees
    <3> QED
      BY <1>3, <2>2, <3>3, GraphNodes DEF Graph!vars
  <2>4. CASE e \in gs[c].edges
    <3> DEFINE T == NamedEdgeLabels \cup {<<c, m, n, k, v>>}
    <3>0. gs[c].edgeAnnos.annotations[<<e, k>>] = <<>>
      <4>1. PICK f \in EdgeOf(m, n) : ~EdgeLabels!Has(gs[c].edgeAnnos, f, k)
        BY <1>8 DEF AddEdgeLabel, Careful
      <4>2. f = e
        <5>1. f = <<f[1], f[2]>> /\ f[1] \in IDs /\ f[2] \in IDs /\ IsNamed(f[1], m) /\ IsNamed(f[2], n)
          BY <1>4
        <5> QED
          BY <1>5, <5>1
      <4> QED
        BY <4>1, <4>2 DEF EdgeLabels!Has
    <3>1. ASSUME NEW d \in Components, NEW m1 \in Names, NEW m2 \in Names,
                 NEW l \in LabelKeys, NEW w \in LabelValues
          PROVE  Marked(d, m1, m2, l, w)' <=>
                    Marked(d, m1, m2, l, w) \/ (d = c /\ m1 = m /\ m2 = n /\ l = k /\ w = v)
      <4>1. \A i, j \in IDs : gs'[d].edgeAnnos.annotations[<<<<i, j>>, l>>] =
               IF d = c /\ <<i, j>> = e /\ l = k THEN <<v>>
               ELSE gs[d].edgeAnnos.annotations[<<<<i, j>>, l>>]
        BY <2>1, <2>4 DEF MarkComes, Pairs
      <4>2. <<v>> # <<>> /\ <<w>> # <<>> /\ (<<v>> = <<w>> <=> v = w)
        OBVIOUS
      <4>3. \A i, j \in IDs : gs'[d].edgeAnnos.annotations[<<<<i, j>>, l>>] = <<w>> <=>
               \/ gs[d].edgeAnnos.annotations[<<<<i, j>>, l>>] = <<w>>
               \/ d = c /\ <<i, j>> = e /\ l = k /\ w = v
        BY <3>0, <4>1, <4>2
      <4>4. ASSUME Marked(d, m1, m2, l, w)'
            PROVE  Marked(d, m1, m2, l, w) \/ (d = c /\ m1 = m /\ m2 = n /\ l = k /\ w = v)
        <5>1. PICK i \in IDs, j \in IDs :
                 /\ IsNamed(i, m1) /\ IsNamed(j, m2)
                 /\ gs'[d].edgeAnnos.annotations[<<<<i, j>>, l>>] = <<w>>
          BY <1>3, <4>4 DEF Marked
        <5>2. <<i, j>> = e => m1 = m /\ m2 = n
          BY <1>5, <5>1
        <5> QED
          BY <4>3, <5>1, <5>2 DEF Marked
      <4>5. Marked(d, m1, m2, l, w) => Marked(d, m1, m2, l, w)'
        BY <1>3, <4>3 DEF Marked
      <4>6. ASSUME d = c, m1 = m, m2 = n, l = k, w = v PROVE Marked(d, m1, m2, l, w)'
        <5>1. /\ e[1] \in IDs /\ e[2] \in IDs /\ <<e[1], e[2]>> = e
              /\ IsNamed(e[1], m) /\ IsNamed(e[2], n)
          BY <1>4
        <5>2. IsNamed(e[1], m)' /\ IsNamed(e[2], n)'
          BY <1>3, <5>1
        <5>3. gs'[d].edgeAnnos.annotations[<<<<e[1], e[2]>>, l>>] = <<w>>
          BY <4>3, <4>6, <5>1
        <5> QED
          BY <4>6, <5>1, <5>2, <5>3 DEF Marked
      <4> QED
        BY <4>4, <4>5, <4>6
    <3>2. T \in SUBSET (Components \X Names \X Names \X LabelKeys \X LabelValues)
      BY DEF Sees, SeesMarks
    <3>3. \A d \in Components, m1, m2 \in Names, l \in LabelKeys, w \in LabelValues :
             <<d, m1, m2, l, w>> \in T <=>
                \/ <<d, m1, m2, l, w>> \in NamedEdgeLabels
                \/ d = c /\ m1 = m /\ m2 = n /\ l = k /\ w = v
      OBVIOUS
    <3> HIDE DEF T
    <3>4. ASSUME NEW d \in Components, NEW m1 \in Names, NEW m2 \in Names,
                 NEW l \in LabelKeys, NEW w \in LabelValues
          PROVE  Marked(d, m1, m2, l, w)' <=> <<d, m1, m2, l, w>> \in T
      <4>1. <<d, m1, m2, l, w>> \in NamedEdgeLabels <=> Marked(d, m1, m2, l, w)
        BY DEF Sees, SeesMarks
      <4>2. <<d, m1, m2, l, w>> \in T <=>
               Marked(d, m1, m2, l, w) \/ (d = c /\ m1 = m /\ m2 = n /\ l = k /\ w = v)
        BY <3>3, <4>1
      <4> HIDE DEF Marked
      <4> QED
        BY <3>1, <4>2
    <3>5. NamedEdgeLabels' = NamedEdgeLabels \cup {<<c, m, n, k, v>>}
      BY <3>2, <3>4, MarksAre DEF Sees, T
    <3>6. <<c, m, n>> \in NamedEdges
      <4>1. /\ e[1] \in IDs /\ e[2] \in IDs /\ <<e[1], e[2]>> \in gs[c].edges
            /\ IsNamed(e[1], m) /\ IsNamed(e[2], n)
        BY <1>4, <2>4
      <4>2. Joined(c, m, n)
        BY <4>1 DEF Joined
      <4> QED
        BY <4>2 DEF Sees, SeesEdges
    <3>7. Graph!AddEdgeLabel(c, m, n, k, v)
      BY <3>5, <3>6 DEF Graph!AddEdgeLabel
    <3> QED
      BY <1>3, <2>2, <3>7, GraphNodes DEF Graph!Next, Graph!EdgeEvent
  <2> QED
    BY <2>3, <2>4
<1>9. ASSUME NEW k \in LabelKeys, DeleteEdgeLabel(c, m, n, k), gs' # gs PROVE Graph!Next
  <2>1. PICK e \in EdgeOf(m, n) : MarkGoes(c, e, k)
    BY <1>9, MarkOut DEF GraphInv, Careful
  <2>2. NamedEdges' = NamedEdges
    <3>1. \A d \in Components, m1, m2 \in Names : Joined(d, m1, m2)' <=> Joined(d, m1, m2)
      BY <1>3, <2>1 DEF Joined, MarkGoes
    <3> QED
      BY <3>1, SameEdges DEF Sees
  <2>3. NamedEdgeLabels' = NamedEdgeLabels \ {x \in Graph!LabelsOf(c, m, n) : x[4] = k}
    <3> DEFINE T == NamedEdgeLabels \ {x \in {y \in NamedEdgeLabels : y[1] = c /\ y[2] = m /\ y[3] = n} : x[4] = k}
    <3>1. ASSUME NEW d \in Components, NEW m1 \in Names, NEW m2 \in Names,
                 NEW l \in LabelKeys, NEW w \in LabelValues
          PROVE  Marked(d, m1, m2, l, w)' <=>
                    Marked(d, m1, m2, l, w) /\ ~(d = c /\ m1 = m /\ m2 = n /\ l = k)
      <4>1. \A i, j \in IDs : gs'[d].edgeAnnos.annotations[<<<<i, j>>, l>>] =
               IF d = c /\ <<i, j>> = e /\ l = k THEN <<>>
               ELSE gs[d].edgeAnnos.annotations[<<<<i, j>>, l>>]
        BY <2>1 DEF MarkGoes, Pairs
      <4>2. <<w>> # <<>>
        OBVIOUS
      <4>3. ASSUME NEW i \in IDs, NEW j \in IDs, IsNamed(i, m1), IsNamed(j, m2)
            PROVE  gs'[d].edgeAnnos.annotations[<<<<i, j>>, l>>] = <<w>> <=>
                     /\ gs[d].edgeAnnos.annotations[<<<<i, j>>, l>>] = <<w>>
                     /\ ~(d = c /\ m1 = m /\ m2 = n /\ l = k)
        BY <1>5, <4>1, <4>2, <4>3
      <4> QED
        BY <1>3, <4>3 DEF Marked
    <3>2. T \in SUBSET (Components \X Names \X Names \X LabelKeys \X LabelValues)
      BY DEF Sees, SeesMarks
    <3>3. \A d \in Components, m1, m2 \in Names, l \in LabelKeys, w \in LabelValues :
             <<d, m1, m2, l, w>> \in T <=>
                <<d, m1, m2, l, w>> \in NamedEdgeLabels /\ ~(d = c /\ m1 = m /\ m2 = n /\ l = k)
      OBVIOUS
    <3> HIDE DEF T
    <3>4. ASSUME NEW d \in Components, NEW m1 \in Names, NEW m2 \in Names,
                 NEW l \in LabelKeys, NEW w \in LabelValues
          PROVE  Marked(d, m1, m2, l, w)' <=> <<d, m1, m2, l, w>> \in T
      <4>1. <<d, m1, m2, l, w>> \in NamedEdgeLabels <=> Marked(d, m1, m2, l, w)
        BY DEF Sees, SeesMarks
      <4>2. <<d, m1, m2, l, w>> \in T <=>
               Marked(d, m1, m2, l, w) /\ ~(d = c /\ m1 = m /\ m2 = n /\ l = k)
        BY <3>3, <4>1
      <4> HIDE DEF Marked
      <4> QED
        BY <3>1, <4>2
    <3>5. NamedEdgeLabels' = T
      BY <3>2, <3>4, MarksAre DEF Sees
    <3> QED
      BY <3>5 DEF T, Graph!LabelsOf
  <2>4. Graph!DeleteEdgeLabel(c, m, n, k)
    BY <2>3 DEF Graph!DeleteEdgeLabel
  <2> QED
    BY <1>3, <2>2, <2>4, GraphNodes DEF Graph!Next, Graph!EdgeEvent
<1> QED
  BY <1>2, <1>6, <1>7, <1>8, <1>9

----------------------------------------------------------------------------
(* The theorem.                                                             *)

LEMMA StepSeen ==
    ASSUME Careful => GraphInv, Careful' => GraphInv', [Next]_vars
    PROVE  Graph!Next \/ UNCHANGED Graph!vars
<1>1. CASE ~Careful
  <2>1. ~Careful'
    BY <1>1 DEF Next, vars, Careful, KeepsEdges, KeepsReserved
  <2>2. /\ \A n, k : NodeLabel(n, k) = None /\ NodeLabel(n, k)' = None
        /\ NamedEdges = {} /\ NamedEdges' = {} /\ NamedEdgeLabels = {} /\ NamedEdgeLabels' = {}
    BY <1>1, <2>1 DEF NodeLabel, NamedEdges, NamedEdgeLabels
  <2> QED
    BY <2>2, GraphNodes DEF Graph!vars
<1>2. CASE Careful
  <2>1. Careful'
    BY <1>2 DEF Next, vars, Careful, KeepsEdges, KeepsReserved
  <2>2. GraphInv /\ Sees /\ Sees'
    BY <1>2, <2>1, Seeing, SeeingNext
  <2>3. CASE nodeAnnos' = nodeAnnos /\ gs' = gs
    BY <2>2, <2>3, Unseen
  <2>4. ASSUME NEW n \in Names, NEW t \in Types, AddNode(n, t)
        PROVE  Graph!Next \/ UNCHANGED Graph!vars
    <3>1. gs' = gs
      BY <2>4 DEF AddNode
    <3> QED
      BY <1>2, <2>2, <2>3, <2>4, <3>1, NodeAddedSeen
  <2>5. ASSUME NEW n \in Names, DeleteNode(n) PROVE Graph!Next \/ UNCHANGED Graph!vars
    BY <1>2, <2>2, <2>3, <2>5, NodeRemovedSeen DEF DeleteNode
  <2>6. ASSUME NEW n \in Names, NEW k \in LabelKeys,
               DeleteNodeLabel(n, k) \/ \E v \in LabelValues : AddNodeLabel(n, k, v)
        PROVE  Graph!Next \/ UNCHANGED Graph!vars
    BY <1>2, <2>2, <2>6, NodeLabelledSeen, NodeUnlabelledSeen
  <2>7. ASSUME NEW c \in Components, NEW m \in Names, NEW n \in Names,
               \/ AddEdge(c, m, n) \/ DeleteEdge(c, m, n)
               \/ \E k \in LabelKeys :
                     \/ DeleteEdgeLabel(c, m, n, k)
                     \/ \E v \in LabelValues : AddEdgeLabel(c, m, n, k, v)
        PROVE  Graph!Next \/ UNCHANGED Graph!vars
    BY <1>2, <2>2, <2>7, EdgeEventSeen
  <2>8. EventKeys = LabelKeys
    BY <1>2 DEF EventKeys, Careful
  <2> QED
    BY <2>3, <2>4, <2>5, <2>6, <2>7, <2>8 DEF Next, Event, vars
<1> QED
  BY <1>1, <1>2

\* What an imported corpus, or an empty one, looks like.
LEMMA InitNodesSeen ==
    ASSUME GraphInv, Careful, NEW n \in Names
    PROVE  /\ NodeLabel(n, TypeKey) \in Types \cup {None}
           /\ \A k \in LabelKeys : /\ NodeLabel(n, k) \in LabelValues \cup {None}
                                   /\ NodeLabel(n, k) # None => NodeLabel(n, TypeKey) # None
<1>1. SeesNodes
  BY Seeing DEF Sees
<1>2. TypeKey \in NodeKeys /\ \A k \in LabelKeys : k \in NodeKeys
  BY NameKeys
<1>3. CASE \A i \in IDs : ~IsNamed(i, n)
  BY <1>1, <1>2, <1>3 DEF SeesNodes
<1>4. ASSUME NEW i \in IDs, IsNamed(i, n)
      PROVE  /\ NodeLabel(n, TypeKey) \in Types \cup {None}
             /\ \A k \in LabelKeys : /\ NodeLabel(n, k) \in LabelValues \cup {None}
                                     /\ NodeLabel(n, k) # None => NodeLabel(n, TypeKey) # None
  <2> DEFINE a == nodeAnnos.annotations
  <2>1. \A k \in NodeKeys : NodeLabel(n, k) = ValueAt(i, k)
    BY <1>1, <1>4 DEF SeesNodes
  <2>2. ValueAt(i, TypeKey) # None
    BY <1>4, TypeSeen
  <2>3. WholeNode(a, i) /\ a[<<i, NameKey>>] # <<>>
    BY <1>4 DEF GraphInv, Whole, IsNamed
  <2>4. PICK t \in Types : a[<<i, TypeKey>>] = <<t>>
    BY <2>3, NameKeys DEF WholeNode
  <2>5. \A k \in LabelKeys : a[<<i, k>>] = <<>> \/ \E v \in LabelValues : a[<<i, k>>] = <<v>>
    BY <2>3, NameKeys DEF WholeNode
  <2>6. \A v : <<v>> # <<>> /\ Head(<<v>>) = v
    OBVIOUS
  <2>7. ValueAt(i, TypeKey) = t
    BY <2>4, <2>6 DEF ValueAt
  <2>8. ASSUME NEW k \in LabelKeys PROVE ValueAt(i, k) \in LabelValues \cup {None}
    <3>1. CASE a[<<i, k>>] = <<>>
      BY <3>1 DEF ValueAt
    <3>2. ASSUME NEW v \in LabelValues, a[<<i, k>>] = <<v>>
          PROVE  ValueAt(i, k) \in LabelValues \cup {None}
      BY <2>6, <3>2 DEF ValueAt
    <3> QED
      BY <2>5, <3>1, <3>2
  <2> QED
    BY <1>2, <2>1, <2>2, <2>7, <2>8
<1> QED
  BY <1>3, <1>4

LEMMA InitEdgesSeen ==
    ASSUME Init, GraphInv, Careful
    PROVE  /\ NamedEdges \subseteq Components \X Names \X Names
           /\ \A c \in Components, m, n \in Names : <<c, m, n>> \in NamedEdges =>
                 NodeLabel(m, TypeKey) # None /\ NodeLabel(n, TypeKey) # None
           /\ NamedEdgeLabels = {}
<1>1. Sees
  BY Seeing
<1>2. ASSUME NEW n \in Names, NEW i \in IDs, IsNamed(i, n) PROVE NodeLabel(n, TypeKey) # None
  BY <1>1, <1>2, TypeSeen, NameKeys DEF Sees, SeesNodes
<1>3. \A c \in Components : gs[c].edgeAnnos = EdgeLabels!Empty
  <2>1. CASE gs = [c \in Components |-> NewStorage]
    BY <2>1 DEF NewStorage
  <2>2. ASSUME NEW optimised,
               gs = [c \in Components |-> ImportedStorage(c, c \notin optimised)]
        PROVE  \A c \in Components : gs[c].edgeAnnos = EdgeLabels!Empty
    BY <2>2 DEF ImportedStorage
  <2> QED
    BY <2>1, <2>2 DEF Init
<1>4. ASSUME NEW c \in Components, NEW m \in Names, NEW n \in Names,
             NEW k \in LabelKeys, NEW v \in LabelValues
      PROVE  <<c, m, n, k, v>> \notin NamedEdgeLabels
  <2>1. \A i, j \in IDs : gs[c].edgeAnnos.annotations[<<<<i, j>>, k>>] = <<>>
    BY <1>3 DEF EdgeLabels!Empty
  <2>2. <<>> # <<v>>
    OBVIOUS
  <2>3. ~Marked(c, m, n, k, v)
    BY <2>1, <2>2 DEF Marked
  <2> QED
    BY <1>1, <2>3 DEF Sees, SeesMarks
<1>5. NamedEdgeLabels = {}
  <2>1. NamedEdgeLabels \in SUBSET (Components \X Names \X Names \X LabelKeys \X LabelValues)
    BY <1>1 DEF Sees, SeesMarks
  <2> HIDE DEF NamedEdgeLabels
  <2>2. {} \in SUBSET (Components \X Names \X Names \X LabelKeys \X LabelValues)
    OBVIOUS
  <2>3. \A c \in Components, m, n \in Names, k \in LabelKeys, v \in LabelValues :
           <<c, m, n, k, v>> \in NamedEdgeLabels <=> <<c, m, n, k, v>> \in {}
    BY <1>4
  <2> QED
    BY <2>1, <2>2, <2>3, Quintuples
<1>6. NamedEdges \subseteq Components \X Names \X Names
  BY <1>1 DEF Sees, SeesEdges
<1>7. ASSUME NEW c \in Components, NEW m \in Names, NEW n \in Names, <<c, m, n>> \in NamedEdges
      PROVE  NodeLabel(m, TypeKey) # None /\ NodeLabel(n, TypeKey) # None
  <2>1. Joined(c, m, n)
    BY <1>1, <1>7 DEF Sees, SeesEdges
  <2> QED
    BY <1>2, <2>1 DEF Joined
<1> QED
  BY <1>5, <1>6, <1>7

LEMMA InitSeen == Init /\ (Careful => GraphInv) => Graph!Init
<1> SUFFICES ASSUME Init, Careful => GraphInv PROVE Graph!Init
  OBVIOUS
<1> DEFINE type  == [n \in Names |-> NodeLabel(n, TypeKey)]
           label == [x \in Names \X LabelKeys |-> NodeLabel(x[1], x[2])]
<1>1. /\ \A n \in Names : NodeLabel(n, TypeKey) \in Types \cup {None}
      /\ \A n \in Names, k \in LabelKeys :
            /\ NodeLabel(n, k) \in LabelValues \cup {None}
            /\ NodeLabel(n, k) # None => NodeLabel(n, TypeKey) # None
      /\ NamedEdges \subseteq Components \X Names \X Names
      /\ \A c \in Components, m, n \in Names : <<c, m, n>> \in NamedEdges =>
            NodeLabel(m, TypeKey) # None /\ NodeLabel(n, TypeKey) # None
      /\ NamedEdgeLabels = {}
  <2>1. CASE Careful
    <3>1. \A n \in Names :
             /\ NodeLabel(n, TypeKey) \in Types \cup {None}
             /\ \A k \in LabelKeys : /\ NodeLabel(n, k) \in LabelValues \cup {None}
                                     /\ NodeLabel(n, k) # None => NodeLabel(n, TypeKey) # None
      BY <2>1, InitNodesSeen
    <3> QED
      BY <2>1, <3>1, InitEdgesSeen
  <2>2. CASE ~Careful
    BY <2>2 DEF NodeLabel, NamedEdges, NamedEdgeLabels
  <2> QED
    BY <2>1, <2>2
<1>2. type \in [Names -> Types \cup {None}]
  BY <1>1
<1>3. label \in [Names \X LabelKeys -> LabelValues \cup {None}]
  BY <1>1
<1>4. ASSUME NEW x \in Names \X LabelKeys, label[x] # None PROVE type[x[1]] # None
  BY <1>1, <1>4
<1>5. NamedEdges \subseteq {e \in Components \X Names \X Names :
                              type[e[2]] # None /\ type[e[3]] # None}
  <2>1. ASSUME NEW e \in NamedEdges PROVE type[e[2]] # None /\ type[e[3]] # None
    <3>1. e[1] \in Components /\ e[2] \in Names /\ e[3] \in Names /\ e = <<e[1], e[2], e[3]>>
      BY <1>1
    <3> QED
      BY <1>1, <3>1
  <2> QED
    BY <1>1, <2>1
<1> QED
  BY <1>1, <1>2, <1>3, <1>4, <1>5 DEF Graph!Init, Graph!Exists

\* For a client careful about edges and the reserved keys the events do, to nodes and edges known by
\* their names, what the comments of graphupdate.h say: DB::update, over its
\* inverse index, its mirrored storages and its ids that are used again,
\* implements the plain labelled graph.
THEOREM Refinement == Spec => ImplementsGraph
<1>1. /\ Careful => GraphInv
      /\ Careful' => GraphInv'
      /\ [Next]_vars
      => [Graph!Next]_(Graph!vars)
  BY StepSeen
<1>2. Init /\ (Careful => GraphInv) => Graph!Init
  BY InitSeen
<1>3. (KeepsReserved => GraphInv) => (Careful => GraphInv)
  BY DEF Careful
<1> QED
  BY <1>1, <1>2, <1>3, AlwaysGraphInv, PTL DEF Spec, ImplementsGraph, Graph!Spec
=============================================================================
