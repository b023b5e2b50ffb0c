---------------------------- MODULE MCQueryPlan ----------------------------
(* Small queries over a corpus of two nodes for TLC. *)
EXTENDS QueryPlan

Anno(k)  == [kind |-> "value", key |-> k, wrap |-> FALSE, unbound |-> FALSE, token |-> FALSE]
Token    == [kind |-> "key", key |-> "tok", wrap |-> TRUE, unbound |-> FALSE, token |-> TRUE]
Regex(u) == [kind |-> "regex", key |-> "meta", wrap |-> TRUE, unbound |-> u, token |-> FALSE]

\* Dominance, Pointing or Precedence; Inclusion; IdenticalCoverage or Overlap; IdenticalNode.
Op(name, l, r, reflexive, commutative) ==
    [name |-> name, lhs |-> l, rhs |-> r, reflexive |-> reflexive, commutative |-> commutative,
     edge |-> name = "edge", force |-> FALSE]
Edge(l, r)     == Op("edge", l, r, TRUE, FALSE)
Subcorpus(l, r) == Op("edge", l, r, FALSE, FALSE)
Coverage(l, r) == Op("coverage", l, r, FALSE, TRUE)
Identical(l, r) == Op("identity", l, r, TRUE, TRUE)
Forced(op)     == [op EXCEPT !.force = TRUE]

Alt(searches, ops) == [searches |-> searches, ops |-> ops]

A == Anno("a")   B == Anno("b")

One      == Alt(<<A>>, <<>>)
Edges    == Alt(<<A, Token>>, <<Edge(1, 2)>>)
TokEdge  == Alt(<<Token, B>>, <<Forced(Edge(1, 2))>>)
Chain    == Alt(<<A, B, A>>, <<Edge(1, 2), Coverage(3, 2)>>)
Bushy    == Alt(<<A, B, Token, A>>, <<Edge(1, 2), Coverage(3, 4), Coverage(2, 3)>>)
Round    == Alt(<<A, A, B>>, <<Edge(1, 2), Edge(2, 3), Edge(1, 3)>>)
Triangle == Alt(<<A, A, A>>, <<Coverage(1, 3), Coverage(2, 3), Coverage(1, 2)>>)
TokChain == Alt(<<A, Token, B>>, <<Edge(1, 2), Edge(2, 3)>>)
Metadata == Alt(<<A, Regex(FALSE), [A EXCEPT !.wrap = TRUE]>>, <<Subcorpus(1, 2), Identical(2, 3)>>)
Unbound  == Alt(<<A, Regex(TRUE)>>, <<Coverage(1, 2)>>)
Parted   == Alt(<<A, B>>, <<>>)

(* Corpora: which nodes have which annotation; meta has two namespaces. *)
Has(S, k) == {<<n, k>> : n \in S}
Used(alt, k) == \E i \in DOMAIN alt.searches : alt.searches[i].key = k
Found(alt, k) == IF Used(alt, k) THEN {Has({1}, k), Has(Nodes, k)} ELSE {{}}
FoundB(alt) == IF Len(alt.searches) = 4 THEN {Has(Nodes, "b")} ELSE Found(alt, "b") \cup {{}}
FoundMeta(alt) == IF Used(alt, "meta")
    THEN {Has({2}, "x::meta"), Has({2}, "x::meta") \cup Has(Nodes, "y::meta")} ELSE {{}}

MCContents(alt) ==
    {[hits   |-> [i \in DOMAIN alt.searches |->
                    CASE alt.searches[i].key = "a"   -> f[1] [] alt.searches[i].key = "b" -> f[2]
                      [] alt.searches[i].key = "tok" -> Has(Nodes, "tok") [] OTHER -> f[3]],
      tokens |-> f[4],
      rel    |-> [o \in DOMAIN alt.ops |-> CASE alt.ops[o].name = "edge" -> f[5]
                                             [] alt.ops[o].name = "coverage" -> f[6]
                                             [] OTHER -> {<<n, n>> : n \in Nodes}]] :
        f \in Found(alt, "a") \X FoundB(alt) \X FoundMeta(alt)
              \X (IF Used(alt, "tok") THEN {{2}, Nodes} ELSE {Nodes})
              \X {{<<1, 2>>}, {<<1, 2>>, <<2, 1>>, <<2, 2>>}}
              \X {{<<1, 1>>, <<2, 2>>}, Nodes \X Nodes}}

MCNodes   == {1, 2}

Configs == {[optimize |-> TRUE, numOfBackgroundTasks |-> n] : n \in {0, 3, 4}}
              \cup {[optimize |-> FALSE, numOfBackgroundTasks |-> 4]}
Pages   == {<<0, 0>>, <<1, 2>>, <<3, 1>>}
Paged   == {<<One>>, <<Edges>>, <<Parted>>, <<One, Metadata>>, <<Edges, TokEdge>>}
Planned == {<<q>> : q \in {TokEdge, Chain, Bushy, Round, Metadata, Triangle, TokChain, Unbound}}

MCCalls == [corpora : {2}, query : Paged, page : Pages, config : Configs]
              \cup [corpora : {1}, query : Planned, page : {<<0, 0>>}, config : Configs]
Alone(query, tasks) == [corpora : {1}, query : {<<query>>}, page : {<<0, 0>>},
                        config : {[optimize |-> TRUE, numOfBackgroundTasks |-> tasks]}]
TriangleCalls == Alone(Triangle, 0)
TokenCalls    == Alone(TokChain, 0)
UnboundCalls  == Alone(Unbound, 0)
MetadataCalls == Alone(Metadata, 0)
OddCalls      == Alone(Chain, 3)
=============================================================================
