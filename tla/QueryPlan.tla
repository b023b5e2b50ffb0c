----------------------------- MODULE QueryPlan -----------------------------
(****************************************************************************)
(* A find over several corpora: JSONQueryParser's query, the optimisations  *)
(* of SingleAlternativeQuery::internalInit, createPlan and Plan::join, the  *)
(* mapping of background tasks, Query::next and the page of                 *)
(* CorpusStorageManager::find.  The configuration is QueryConfig's default  *)
(* except for optimize and numOfBackgroundTasks.  Costs are statistics: any *)
(* plan can be the cheapest.  A match is <<node, annotation key>>; a stream *)
(* is the set of what an iterator will return, no iterator here returns a   *)
(* match twice; positions count from 1.                                     *)
(****************************************************************************)
EXTENDS Integers, Sequences, FiniteSets

CONSTANTS
    Nodes,           \* the nodes of a corpus
    Calls,           \* [corpora, query, page, config]: how many corpora, a sequence of
                     \* alternatives [searches, ops], <<offset, limit>>, and
                     \* [optimize, numOfBackgroundTasks] of QueryConfig
    Contents(_),     \* what the searches and operators of an alternative find
    SizeMax,         \* numeric_limits<size_t>::max
    ConstAnno        \* the key of setConstAnnoValue

None == [type |-> "none"]

ASSUME CallsAssumption ==
    /\ SizeMax \in Nat /\ SizeMax % 2 = 1
    /\ \A c \in Calls :
          /\ c.corpora \in Nat /\ c.config.numOfBackgroundTasks \in 0..SizeMax
          /\ c.page[1] \in Nat /\ c.page[2] \in Nat
          /\ Len(c.query) \in Nat /\ DOMAIN c.query = 1..Len(c.query)
          /\ \A a \in DOMAIN c.query : LET I == DOMAIN c.query[a].searches IN
                /\ IsFiniteSet(I) /\ 1 \in I
                /\ \A o \in DOMAIN c.query[a].ops : {c.query[a].ops[o].lhs, c.query[a].ops[o].rhs} \subseteq I

\* A hit is a node of the corpus and the key of an annotation.  Only a regex
\* search can be unbound; a commutative operator (none of an edge) gives the
\* same result when its arguments are exchanged (operator.h:45).
ASSUME ContentsAssumption ==
    /\ IsFiniteSet(Nodes)
    /\ \A c \in Calls : \A a \in DOMAIN c.query : LET alt == c.query[a] IN
          /\ Len(alt.searches) \in Nat /\ DOMAIN alt.searches = 1..Len(alt.searches)
          /\ Len(alt.ops) \in Nat /\ DOMAIN alt.ops = 1..Len(alt.ops)
          /\ \A i \in DOMAIN alt.searches : LET s == alt.searches[i] IN
                s.kind # "edge" /\ (s.unbound => s.kind = "regex")
          /\ \A o \in DOMAIN alt.ops : alt.ops[o].edge => ~alt.ops[o].commutative
          /\ \A found \in Contents(alt) :
                /\ found # None
                /\ \A i \in DOMAIN alt.searches :
                      /\ IsFiniteSet(found.hits[i])
                      /\ \A h \in found.hits[i] : h[1] \in Nodes /\ h = <<h[1], h[2]>>
                /\ \A o \in DOMAIN alt.ops : alt.ops[o].commutative =>
                      \A m, n \in Nodes : <<m, n>> \in found.rel[o] => <<n, m>> \in found.rel[o]

VARIABLES
    phase,
    call,                                       \* the arguments of find, and the configuration
    corporaLeft, counter, shown,                \* find
    alternative, pending, uniqueResultSet,      \* currentAlternativeIdx, what the plan has left
    content, nodes, operators,                  \* SingleAlternativeQuery
    operatorIdx, node2component, component2exec, \* createPlan
    bestPlan,
    largest, available, mapping,                \* getOptimizedParallelizationMapping
    expected, total, tame                       \* history: what the query asks for

finding  == <<corporaLeft, counter, shown>>
asking   == <<alternative, pending, uniqueResultSet>>
parsed   == <<content, nodes, operators>>
creating == <<operatorIdx, node2component, component2exec>>
tasking  == <<largest, available, mapping>>
history  == <<expected, total, tame>>
vars     == <<phase, call, finding, asking, parsed, creating, bestPlan, tasking, history>>

----------------------------------------------------------------------------
(* The search of a query node, as an iterator and as the filter of an index join. *)

Search(s, hits, tokens) ==
    [kind |-> s.kind, wrap |-> s.wrap, hits |-> hits, sources |-> Nodes,
     pass |-> IF s.token THEN tokens ELSE Nodes,
     returnsNothing |-> s.kind # "regex" /\ hits = {}]

optimizeUnboundRegex(s, search) ==
    IF s.unbound THEN [search EXCEPT !.kind = "key", !.wrap = FALSE, !.returnsNothing = search.hits = {}]
                 ELSE search

\* NodeByEdgeAnnoSearch, or the NodeIt of a graph storage.
createAnnoSearch(search, rel) == [search EXCEPT !.kind = "edge", !.sources = {e[1] : e \in rel}]

MatchesOf(search, n) ==
    LET own == {h \in search.hits : h[1] = n}
    IN  IF search.wrap /\ own # {} THEN {<<n, ConstAnno>>} ELSE own

\* RegexAnnoSearch::next lets the further hits of a node through, unwrapped.
RegexMatches(search, n) ==
    LET own == {h \in search.hits : h[1] = n}
    IN  MatchesOf(search, n) \cup {h \in own : h # CHOOSE g \in own : TRUE}

Iterated(search) ==
    UNION {IF search.kind = "regex" /\ search.wrap THEN RegexMatches(search, n) ELSE MatchesOf(search, n) :
              n \in search.sources \cap search.pass}

\* The generator of an edge search was made before the output filter was set.
createSearchFilter(search, n) ==
    IF search.kind # "edge" /\ n \notin search.pass THEN {} ELSE MatchesOf(search, n)

----------------------------------------------------------------------------
(* Plan::join and the joins.  An operator carries what it relates, op.rel. *)

Holds(op, l, r) == <<l[1], r[1]>> \in op.rel

\* "Same" matches: the node and the key of the annotation.
Include(op, l, r) == op.reflexive \/ l # r

BinaryFilter(op, lhs, l, r) == {t \in lhs.tuples : Holds(op, t[l], t[r])}

IndexJoin(op, lhs, l, search) ==
    UNION {{Append(t, m) : m \in {m \in UNION {createSearchFilter(search, n) : n \in Nodes} :
                                    Holds(op, t[l], m) /\ Include(op, t[l], m)}} : t \in lhs.tuples}

NestedLoopJoin(op, lhs, l, rhs, r) ==
    {p[1] \o p[2] : p \in {p \in lhs.tuples \X rhs.tuples :
                             Include(op, p[1][l], p[2][r]) /\ Holds(op, p[1][l], p[2][r])}}

BaseNode(i, search) ==
    [type |-> "base", search |-> search, nodePos |-> [n \in {i} |-> 1], componentNr |-> i,
     tuples |-> {<<m>> : m \in Iterated(search)}, operatorIdx |-> 0, joins |-> {}, parallel |-> {}]

\* Mutant: the positions are merged without the offset.
MergedPosNoOffset(lhs, rhs) ==
    [n \in (DOMAIN lhs) \cup (DOMAIN rhs) |-> IF n \in DOMAIN lhs THEN lhs[n] ELSE rhs[n]]

\* The positions of the right hand side move behind those of the left one.
MergedPos(lhs, rhs) ==
    [n \in (DOMAIN lhs) \cup (DOMAIN rhs) |->
        IF n \in DOMAIN lhs THEN lhs[n] ELSE rhs[n] + Cardinality(DOMAIN lhs)]

ExecutionNode(type, idx, lhs, rhs, tuples, tasks) ==
    [type |-> type, search |-> None, nodePos |-> MergedPos(lhs.nodePos, rhs.nodePos),
     componentNr |-> lhs.componentNr, tuples |-> tuples, operatorIdx |-> idx,
     joins |-> lhs.joins \cup rhs.joins \cup (IF type \in {"nested_loop", "index_join"} THEN {idx} ELSE {}),
     parallel |-> lhs.parallel \cup rhs.parallel
                     \cup (IF type \in {"nested_loop", "index_join"} /\ tasks > 0 THEN {<<idx, tasks>>} ELSE {})]

Indexed(op, l, r, idx, lhs, rhs, tasks) ==
    IF rhs.search.returnsNothing THEN ExecutionNode("do_nothing", idx, lhs, rhs, {}, tasks)
    ELSE ExecutionNode("index_join", idx, lhs, rhs, IndexJoin(op, lhs, lhs.nodePos[l], rhs.search), tasks)

PlanJoin(op, idx, lhs, rhs, tasks) ==
    IF lhs.componentNr = rhs.componentNr
      THEN ExecutionNode("filter", idx, lhs, rhs,
                         BinaryFilter(op, lhs, lhs.nodePos[op.lhs], rhs.nodePos[op.rhs]), tasks)
    ELSE IF rhs.type = "base" /\ ~op.force
      THEN Indexed(op, op.lhs, op.rhs, idx, lhs, rhs, tasks)
    ELSE IF lhs.type = "base" /\ ~op.force /\ op.commutative
      THEN Indexed(op, op.rhs, op.lhs, idx, rhs, lhs, tasks)
    ELSE ExecutionNode("nested_loop", idx, lhs, rhs,
             NestedLoopJoin(op, lhs, lhs.nodePos[op.lhs], rhs, rhs.nodePos[op.rhs]), tasks)

----------------------------------------------------------------------------
(* What a query asks for, from its text alone. *)

Wanted(alt, c) ==
    LET matches(i) == {<<h[1], IF alt.searches[i].wrap THEN ConstAnno ELSE h[2]>> :
                          h \in {m \in c.hits[i] : alt.searches[i].token => m[1] \in c.tokens}}
        I == DOMAIN alt.searches
    IN  {a \in [I -> UNION {matches(i) : i \in I}] :
            /\ \A i \in I : a[i] \in matches(i)
            /\ \A o \in DOMAIN alt.ops : LET op == alt.ops[o] IN
                  /\ <<a[op.lhs][1], a[op.rhs][1]>> \in c.rel[o]
                  /\ op.reflexive \/ a[op.lhs] # a[op.rhs]}

\* The operators reach every query node from the first one.
Connected(alt) ==
    \A S \in SUBSET DOMAIN alt.searches :
        S # {} /\ (\A o \in DOMAIN alt.ops : alt.ops[o].lhs \in S <=> alt.ops[o].rhs \in S)
            => S = DOMAIN alt.searches

\* The queries whose answer does not depend on the plan.
Tame(alt, c) ==
    /\ Connected(alt)
    /\ \/ Len(alt.ops) < Len(alt.searches)
       \/ \A o \in DOMAIN alt.ops : alt.ops[o].reflexive
    /\ \A o \in DOMAIN alt.ops : alt.ops[o].edge /\ alt.searches[alt.ops[o].lhs].token => Len(alt.ops) = 1
    /\ \A i \in DOMAIN alt.searches : alt.searches[i].wrap /\ alt.searches[i].kind = "regex" =>
          ~alt.searches[i].unbound /\ \A g, h \in c.hits[i] : g[1] = h[1] => g = h

----------------------------------------------------------------------------
Query == call.query

Init ==
    /\ phase = "corpus"
    /\ call \in Calls
    /\ corporaLeft = call.corpora /\ counter = 0 /\ shown = 0
    /\ alternative = 0 /\ pending = {} /\ uniqueResultSet = {}
    /\ content = None /\ nodes = <<>> /\ operators = <<>>
    /\ operatorIdx = 1 /\ node2component = <<>> /\ component2exec = <<>>
    /\ bestPlan = None /\ largest = 0 /\ available = 0 /\ mapping = <<>>
    /\ expected = {} /\ total = 0 /\ tame = TRUE

\* The next corpus: its loader and the parsed query, or no loader.
OpenCorpus ==
    /\ phase = "corpus" /\ corporaLeft > 0
    /\ \/ phase' = "find" /\ alternative' = 1 /\ UNCHANGED corporaLeft
       \/ corporaLeft' = corporaLeft - 1 /\ UNCHANGED <<phase, alternative>>
    /\ UNCHANGED <<call, counter, shown, pending, uniqueResultSet, parsed, creating, bestPlan, tasking, history>>

\* The state of a query that was just parsed, and of none.
Released ==
    /\ pending' = {} /\ content' = None /\ nodes' = <<>> /\ operators' = <<>>
    /\ operatorIdx' = 1 /\ node2component' = <<>> /\ component2exec' = <<>>
    /\ bestPlan' = None /\ largest' = 0 /\ available' = 0 /\ mapping' = <<>>

CloseCorpus ==
    /\ phase' = "corpus" /\ corporaLeft' = corporaLeft - 1
    /\ alternative' = 0 /\ uniqueResultSet' = {} /\ Released
    /\ expected' = {} /\ total' = total + Cardinality(expected)

\* Mutant: the page ends after limit answers, whatever its offset.
PageIsFullEarly(page) == page[2] > 0 /\ counter >= page[2]

PageIsFull(page) == page[2] > 0 /\ counter >= page[1] + page[2]

StopAtPage ==
    /\ phase = "find" /\ PageIsFull(call.page)
    /\ CloseCorpus
    /\ UNCHANGED <<call, counter, shown, tame>>

CallNext ==
    /\ phase = "find" /\ ~PageIsFull(call.page)
    /\ phase' = "next"
    /\ UNCHANGED <<call, finding, asking, parsed, creating, bestPlan, tasking, history>>

\* Query::next has no further alternative.
QueryEnds ==
    /\ phase = "next" /\ alternative \notin DOMAIN Query
    /\ CloseCorpus
    /\ UNCHANGED <<call, counter, shown, tame>>

Finish ==
    /\ phase = "corpus" /\ corporaLeft = 0
    /\ phase' = "done"
    /\ UNCHANGED <<call, finding, asking, parsed, creating, bestPlan, tasking, history>>

----------------------------------------------------------------------------
(* SingleAlternativeQuery::internalInit *)

StartPlan(searches) ==
    /\ operatorIdx' = 1
    /\ node2component' = [n \in DOMAIN searches |-> n]
    /\ component2exec' = [n \in DOMAIN searches |-> BaseNode(n, searches[n])]

\* Orders of the operators and of the operands of commutative ones, and the
\* operators that replace the search of their left operand.
Orders(I, optimize) == IF optimize THEN {f \in [I -> I] : \A i, j \in I : f[i] = f[j] => i = j}
                                  ELSE {[i \in I |-> i]}
Switches(ops, optimize) == IF optimize THEN SUBSET {o \in DOMAIN ops : ops[o].commutative} ELSE {{}}
EdgeSearches(ops, optimize) ==
    {R \in SUBSET {o \in DOMAIN ops : optimize /\ ops[o].edge} :
        \A o, p \in R : ops[o].lhs = ops[p].lhs => o = p}

Operator(op, rel, switch) ==
    [rel |-> rel, reflexive |-> op.reflexive, commutative |-> op.commutative, force |-> op.force,
     lhs |-> IF switch THEN op.rhs ELSE op.lhs, rhs |-> IF switch THEN op.lhs ELSE op.rhs]

Searches(alt, c, R, optimize) ==
    [i \in DOMAIN alt.searches |->
        LET s  == alt.searches[i]
            s1 == Search(s, c.hits[i], c.tokens)
            s2 == IF optimize THEN optimizeUnboundRegex(s, s1) ELSE s1
            by == {o \in R : alt.ops[o].lhs = i}
        IN  IF by = {} THEN s2 ELSE createAnnoSearch(s2, c.rel[CHOOSE o \in by : TRUE])]

InternalInit ==
    /\ phase = "next" /\ alternative \in DOMAIN Query /\ content = None
    /\ LET alt == Query[alternative] IN
       \E c \in Contents(alt), order \in Orders(DOMAIN alt.ops, call.config.optimize),
          switched \in Switches(alt.ops, call.config.optimize), R \in EdgeSearches(alt.ops, call.config.optimize) :
          /\ content' = c
          /\ nodes' = Searches(alt, c, R, call.config.optimize)
          /\ operators' = [k \in DOMAIN alt.ops |->
                LET o == order[k] IN Operator(alt.ops[o], c.rel[o], o \in switched)]
          /\ StartPlan(nodes')
          /\ expected' = expected \cup Wanted(alt, c)
          /\ tame' = (tame /\ Tame(alt, c))
    /\ phase' = "create"
    /\ UNCHANGED <<call, finding, asking, bestPlan, tasking, total>>

TasksOf(idx) == IF idx \in DOMAIN mapping THEN mapping[idx] ELSE 0

JoinOperator ==
    /\ phase = "create" /\ operatorIdx \in DOMAIN operators
    /\ LET op == operators[operatorIdx]
           componentLeft  == node2component[op.lhs]
           componentRight == node2component[op.rhs]
           exec == PlanJoin(op, operatorIdx, component2exec[componentLeft],
                            component2exec[componentRight], TasksOf(operatorIdx))
       IN  /\ node2component' = [n \in DOMAIN node2component |->
                 IF node2component[n] \in {componentLeft, componentRight}
                   THEN exec.componentNr ELSE node2component[n]]
           /\ component2exec' = [component2exec EXCEPT ![exec.componentNr] = exec]
    /\ operatorIdx' = operatorIdx + 1
    /\ UNCHANGED <<phase, call, finding, asking, parsed, bestPlan, tasking, history>>

OneComponent == \A m, n \in DOMAIN node2component : node2component[m] = node2component[n]

\* What findLargestProcessedInStep considers: the nested loops and index joins
\* anywhere in the tree. The recursive calls leave includeSeed out, which is then
\* true (plan.h:145); at the root it is enableThreadIndexJoin, true by default.
ParallelJoins(plan) == plan.joins

PlanCreated ==
    /\ phase = "create" /\ operatorIdx \notin DOMAIN operators /\ OneComponent
    /\ bestPlan' = component2exec[node2component[1]] /\ pending' = bestPlan'.tuples
    /\ IF call.config.optimize /\ call.config.numOfBackgroundTasks >= 2 /\ bestPlan = None
         THEN /\ phase' = "tasks" /\ available' = call.config.numOfBackgroundTasks
              /\ largest' \in {0} \cup ParallelJoins(bestPlan')
              /\ mapping' = [k \in DOMAIN operators |-> 0]
         ELSE phase' = "next" /\ UNCHANGED tasking
    /\ UNCHANGED <<call, finding, alternative, uniqueResultSet, parsed, creating, history>>

\* No plan: next is false, or the cost of the plan that does not exist is
\* asked for (undefined behaviour, here the end of the process).
PlanFailed ==
    /\ phase = "create" /\ operatorIdx \notin DOMAIN operators /\ ~OneComponent
    /\ IF call.config.optimize
         THEN phase' = "crashed" /\ UNCHANGED <<alternative, pending, parsed, creating, bestPlan, tasking>>
         ELSE phase' = "next" /\ alternative' = alternative + 1 /\ Released
    /\ UNCHANGED <<call, finding, uniqueResultSet, history>>

\* Mutant: joins that have got tasks count as smaller.
LargestForTasks == {k \in ParallelJoins(bestPlan) : \A j \in ParallelJoins(bestPlan) : mapping[k] <= mapping[j]}

\* The plan, and with it its estimates, are the same in every turn.
Largest == {largest}

\* Mutant: the loop does not count.
AllLeft == available

\* available -= 2
TwoLess == IF available >= 2 THEN available - 2 ELSE available - 2 + SizeMax + 1

AssignTasks ==
    /\ phase = "tasks" /\ available > 0 /\ largest # 0
    /\ \E k \in Largest : mapping' = [mapping EXCEPT ![k] = (mapping[k] + 2) % (SizeMax + 1)]
    /\ available' = TwoLess
    /\ UNCHANGED <<phase, call, finding, asking, parsed, creating, bestPlan, largest, history>>

RecreatePlan ==
    /\ phase = "tasks" /\ (available = 0 \/ largest = 0)
    /\ phase' = "create" /\ StartPlan(nodes)
    /\ UNCHANGED <<call, finding, asking, parsed, bestPlan, tasking, history>>

----------------------------------------------------------------------------
(* Plan::executeStep, Query::next and the body of find's loop. *)

\* Mutant: the matches stay in the order of the plan.
executeStepAsPlanned(tuple) == [n \in DOMAIN bestPlan.nodePos |-> tuple[n]]

\* The matches in the order of the query.
executeStep(tuple) == [n \in DOMAIN bestPlan.nodePos |-> tuple[bestPlan.nodePos[n]]]

proxyMode == Len(Query) = 1

Answer ==
    /\ phase = "next" /\ pending # {}
    /\ LET tuple  == CHOOSE t \in pending : TRUE
           answer == executeStep(tuple)
       IN  /\ pending' = pending \ {tuple}
           /\ IF proxyMode \/ answer \notin uniqueResultSet
                THEN /\ uniqueResultSet' = IF proxyMode THEN {} ELSE uniqueResultSet \cup {answer}
                     /\ counter' = counter + 1
                     /\ shown' = IF counter >= call.page[1] THEN shown + 1 ELSE shown
                     /\ phase' = "find"
                ELSE UNCHANGED <<uniqueResultSet, counter, shown, phase>>
    /\ UNCHANGED <<call, corporaLeft, alternative, parsed, creating, bestPlan, tasking, history>>

NextAlternative ==
    /\ phase = "next" /\ bestPlan # None /\ pending = {}
    /\ alternative' = alternative + 1 /\ Released
    /\ UNCHANGED <<phase, call, finding, uniqueResultSet, history>>

Terminated == phase \in {"done", "crashed"} /\ UNCHANGED vars

Next ==
    \/ OpenCorpus \/ StopAtPage \/ CallNext \/ QueryEnds \/ Finish
    \/ InternalInit \/ JoinOperator \/ PlanCreated \/ PlanFailed \/ AssignTasks \/ RecreatePlan
    \/ Answer \/ NextAlternative
    \/ Terminated

Spec == Init /\ [][Next]_vars

\* Everything runs in the thread that called find.
FairSpec == Spec /\ WF_vars(Next)

----------------------------------------------------------------------------
\* The answers of the current plan, as a query node sees them.
RightAnswers ==
    LET answers == {executeStep(t) : t \in bestPlan.tuples}
    IN  /\ answers = Wanted(Query[alternative], content)
        /\ Cardinality(answers) = Cardinality(bestPlan.tuples)

\* The positions of a component's execution node are a numbering of its query
\* nodes, so that Plan::join always finds both operands (its early return of
\* an empty node is not reached) and no iterator is read at a position that
\* its tuples do not have.
PositionsNumberNodes ==
    \A m \in DOMAIN node2component :
        LET exec == component2exec[node2component[m]]
            own  == {n \in DOMAIN node2component : node2component[n] = node2component[m]}
        IN  /\ exec.componentNr = node2component[m]
            /\ DOMAIN exec.nodePos = own
            /\ \A n \in own : exec.nodePos[n] \in 1..Cardinality(own)
            /\ \A n, k \in own : exec.nodePos[n] = exec.nodePos[k] => n = k
            /\ \A t \in exec.tuples : Len(t) = Cardinality(own)

\* Whatever the order of the operators and operands, the replaced searches and
\* the kinds of the joins, a plan returns every answer once, and nothing else,
\* unless the query is one of those that Tame leaves out.
AnswersAreTheQuery ==
    phase = "next" /\ bestPlan # None /\ Tame(Query[alternative], content) => RightAnswers

\* The same for every query whose nodes are connected (not so: see Tame).
EveryPlanIsRight ==
    phase = "next" /\ bestPlan # None /\ Connected(Query[alternative]) => RightAnswers

\* What operator.h:37-43 says: the result of an operator that is not reflexive
\* does not have the same match on both sides.  A BinaryFilter does not look.
NotTheSameMatch ==
    phase = "next" /\ bestPlan # None =>
        \A t \in bestPlan.tuples, o \in DOMAIN operators :
            Include(operators[o], executeStep(t)[operators[o].lhs], executeStep(t)[operators[o].rhs])

\* At most one join of a plan runs in the background, with no more tasks than
\* are configured: a task never waits in the next() of a join whose own tasks
\* wait for a thread of the same pool.
OneParallelJoin ==
    phase = "next" /\ bestPlan # None =>
        /\ Cardinality(bestPlan.parallel) <= 1
        /\ \A p \in bestPlan.parallel : p[2] <= call.config.numOfBackgroundTasks

\* find shows the answers from offset on, limit of them if there are as many,
\* counted over all corpora and over the distinct answers of all alternatives.
PageIsRight ==
    phase = "done" /\ tame =>
        LET rest  == IF total > call.page[1] THEN total - call.page[1] ELSE 0
            limit == call.page[2]
        IN  shown = IF limit > 0 /\ limit < rest THEN limit ELSE rest

\* An odd number of tasks never counts down to 0 while there is a join to give
\* them to, and the plan is never made.
Endless == phase = "tasks" /\ largest # 0 /\ available % 2 = 1

\* The cost of a plan that does not exist was asked for.
Crashed == phase = "crashed" /\ call.config.optimize /\ ~Connected(Query[alternative])

\* A find comes to the end of its corpora, unless it has an odd number of tasks for
\* the joins of a plan, or a query whose parts no operator connects, optimized.
FindEnds == <>(phase = "done" \/ Endless \/ Crashed)

\* Without the exception of the odd number (not so).
FindEndsWithAnyTasks == <>(phase = "done" \/ Crashed)
=============================================================================
