---------------------------- MODULE ParallelJoin ----------------------------
(****************************************************************************)
(* ThreadIndexJoin on a ThreadPool and a SharedQueue. The tasks share the   *)
(* left-hand side, each of them looks up the matches of the tuples it gets  *)
(* and pushes the results into one queue, from which the caller of next()   *)
(* pops; the last task shuts the queue down. ThreadNestedLoop has the same  *)
(* shell: its source of tuples (nextTuple) is module NestedLoop.            *)
(****************************************************************************)
EXTENDS Naturals, Sequences, FiniteSets

CONSTANTS
    NumLHS,       \* number of tuples of the left-hand side
    Nodes,        \* what an operator may find
    Matches,      \* Matches[i]: the candidates for the i-th tuple
    Self,         \* Self[i]: the candidate equal to the i-th tuple itself
    Reflexive,    \* isReflexive of the operator
    NumTasks,     \* numOfTasks
    Workers,      \* threads of the pool
    MaxResets,    \* bound on the calls of reset()
    None

LHS   == 1 .. NumLHS
Tasks == 1 .. NumTasks

ASSUME JoinAssumption ==
    /\ NumLHS \in Nat /\ MaxResets \in Nat /\ NumTasks \in Nat \ {0}
    /\ Matches \in [LHS -> SUBSET Nodes] /\ Self \in [LHS -> Nodes]
    /\ Reflexive \in BOOLEAN
    /\ None \notin Tasks

VARIABLES
    lhs,          \* tuples fetched from the left-hand side
    run,          \* runBackgroundThreads
    active,       \* activeBackgroundTasks
    tasks,        \* the tasks the pool has not started
    worker,       \* worker[w]: the task a thread of the pool runs
    tpc, item, candidates,   \* the tasks: where, with which tuple and matches
    queue, isShutdown,       \* the SharedQueue results
    cpc,          \* where the caller is
    enqueued,     \* tasks handed to the pool by this next()
    received, ended,         \* what the caller got since the last reset()
    resets

pool   == <<tasks, worker>>
shared == <<queue, isShutdown>>
got    == <<received, ended, resets>>
vars   == <<lhs, run, active, pool, tpc, item, candidates, shared, cpc, enqueued, got>>

Included(i, n) == Reflexive \/ n # Self[i]

Results == {r \in LHS \X Nodes : r[2] \in Matches[r[1]] /\ Included(r[1], r[2])}

Init ==
    /\ lhs = 0 /\ run = FALSE /\ active = 0
    /\ tasks = <<>> /\ worker = [w \in Workers |-> None]
    /\ tpc = [t \in Tasks |-> "none"]
    /\ item = [t \in Tasks |-> 0]
    /\ candidates = [t \in Tasks |-> {}]
    /\ queue = <<>> /\ isShutdown = FALSE
    /\ cpc = "idle" /\ enqueued = 0
    /\ received = {} /\ ended = FALSE /\ resets = 0

TaskGoto(t, label) == tpc' = [tpc EXCEPT ![t] = label]

\* notify_one and notify_all on addedCondition, on which only the caller waits
WakeCaller == cpc' = IF cpc = "waiting" THEN "pop" ELSE cpc

----------------------------------------------------------------------------
(* The caller.                                                              *)

\* Mutant: one task too few is counted.
CallNextMiscounts ==
    /\ cpc = "idle"
    /\ IF run
       THEN cpc' = "pop" /\ UNCHANGED <<run, active, enqueued>>
       ELSE cpc' = "enqueue" /\ run' = TRUE /\ active' = NumTasks - 1 /\ enqueued' = 0
    /\ UNCHANGED <<lhs, pool, tpc, item, candidates, shared, got>>

\* The first next() after a start or a reset: the number of tasks is set before
\* any of them runs.
CallNext ==
    /\ cpc = "idle"
    /\ IF run
       THEN cpc' = "pop" /\ UNCHANGED <<run, active, enqueued>>
       ELSE cpc' = "enqueue" /\ run' = TRUE /\ active' = NumTasks /\ enqueued' = 0
    /\ UNCHANGED <<lhs, pool, tpc, item, candidates, shared, got>>

Enqueue ==
    /\ cpc = "enqueue"
    /\ IF enqueued < NumTasks
       THEN /\ enqueued' = enqueued + 1
            /\ tasks' = Append(tasks, enqueued + 1)
            /\ TaskGoto(enqueued + 1, "queued")
            /\ UNCHANGED cpc
       ELSE /\ cpc' = "pop"
            /\ UNCHANGED <<enqueued, tasks, tpc>>
    /\ UNCHANGED <<lhs, run, active, worker, item, candidates, shared, got>>

\* pop: a result, the end, or wait for one of them
Pop ==
    /\ cpc = "pop"
    /\ \/ /\ queue # <<>>
          /\ received' = received \cup {Head(queue)}
          /\ queue' = Tail(queue)
          /\ cpc' = "idle"
          /\ UNCHANGED ended
       \/ /\ queue = <<>> /\ isShutdown
          /\ ended' = TRUE
          /\ cpc' = "idle"
          /\ UNCHANGED <<queue, received>>
       \/ /\ queue = <<>> /\ ~isShutdown
          /\ cpc' = "waiting"
          /\ UNCHANGED <<queue, received, ended>>
    /\ UNCHANGED <<lhs, run, active, pool, tpc, item, candidates, isShutdown, enqueued, resets>>

TasksReady == \A t \in Tasks : tpc[t] \in {"none", "done"}

\* reset() and the destructor stop the tasks and wait for all of their futures.
Stop ==
    /\ cpc = "idle"
    /\ \/ cpc' = "reset" /\ resets < MaxResets
       \/ cpc' = "destroy"
    /\ run' = FALSE
    /\ UNCHANGED <<lhs, active, pool, tpc, item, candidates, shared, enqueued, got>>

\* Mutants: reset() keeps the queue; the destructor does not wait.
ResetKeepsQueue ==
    /\ cpc = "reset" /\ TasksReady
    /\ lhs' = 0 /\ isShutdown' = FALSE
    /\ received' = {} /\ ended' = FALSE /\ resets' = resets + 1
    /\ cpc' = "idle"
    /\ UNCHANGED <<run, active, pool, tpc, item, candidates, queue, enqueued>>

DestroyAtOnce ==
    /\ cpc = "destroy"
    /\ cpc' = "gone"
    /\ UNCHANGED <<lhs, run, active, pool, tpc, item, candidates, shared, enqueued, got>>

Reset ==
    /\ cpc = "reset" /\ TasksReady
    /\ lhs' = 0
    /\ queue' = <<>> /\ isShutdown' = FALSE
    /\ received' = {} /\ ended' = FALSE /\ resets' = resets + 1
    /\ cpc' = "idle"
    /\ UNCHANGED <<run, active, pool, tpc, item, candidates, enqueued>>

Destroy ==
    /\ cpc = "destroy" /\ TasksReady
    /\ cpc' = "gone"
    /\ UNCHANGED <<lhs, run, active, pool, tpc, item, candidates, shared, enqueued, got>>

----------------------------------------------------------------------------
(* The pool and the tasks (lhsFetchLoop).                                   *)

TakeTask(w) ==
    /\ worker[w] = None /\ tasks # <<>>
    /\ worker' = [worker EXCEPT ![w] = Head(tasks)]
    /\ tasks' = Tail(tasks)
    /\ TaskGoto(Head(tasks), "check")
    /\ UNCHANGED <<lhs, run, active, item, candidates, shared, cpc, enqueued, got>>

CheckRun(t) ==
    /\ tpc[t] = "check"
    /\ TaskGoto(t, IF run THEN "fetch" ELSE "finish")
    /\ UNCHANGED <<lhs, run, active, pool, item, candidates, shared, cpc, enqueued, got>>

\* nextLHS, under mutex_lhs, and retrieveMatches
NextLHS(t) ==
    /\ tpc[t] = "fetch"
    /\ IF lhs < NumLHS
       THEN /\ lhs' = lhs + 1
            /\ item' = [item EXCEPT ![t] = lhs + 1]
            /\ candidates' = [candidates EXCEPT ![t] = Matches[lhs + 1]]
            /\ TaskGoto(t, "match")
       ELSE TaskGoto(t, "finish") /\ UNCHANGED <<lhs, item, candidates>>
    /\ UNCHANGED <<run, active, pool, shared, cpc, enqueued, got>>

\* Mutant: no candidate is left out.
MatchAll(t) ==
    /\ tpc[t] = "match"
    /\ \E n \in candidates[t] :
          /\ candidates' = [candidates EXCEPT ![t] = @ \ {n}]
          /\ queue' = Append(queue, <<item[t], n>>) /\ TaskGoto(t, "notify")
    /\ UNCHANGED <<lhs, run, active, pool, item, isShutdown, cpc, enqueued, got>>

\* The next candidate, pushed if it is not to be left out.
Match(t) ==
    /\ tpc[t] = "match"
    /\ \E n \in candidates[t] :
          /\ candidates' = [candidates EXCEPT ![t] = @ \ {n}]
          /\ IF Included(item[t], n) /\ ~isShutdown
             THEN queue' = Append(queue, <<item[t], n>>) /\ TaskGoto(t, "notify")
             ELSE UNCHANGED <<queue, tpc>>
    /\ UNCHANGED <<lhs, run, active, pool, item, isShutdown, cpc, enqueued, got>>

Notify(t) ==
    /\ tpc[t] = "notify"
    /\ WakeCaller
    /\ TaskGoto(t, "match")
    /\ UNCHANGED <<lhs, run, active, pool, item, candidates, shared, enqueued, got>>

MatchesEnd(t) ==
    /\ tpc[t] = "match" /\ candidates[t] = {}
    /\ TaskGoto(t, "check")
    /\ UNCHANGED <<lhs, run, active, pool, item, candidates, shared, cpc, enqueued, got>>

Release(t) == worker' = [w \in Workers |-> IF worker[w] = t THEN None ELSE worker[w]]

\* Mutant: the first task that ends shuts the queue down.
FinishShutsDown(t) ==
    /\ tpc[t] = "finish"
    /\ active' = active - 1
    /\ isShutdown' = TRUE /\ TaskGoto(t, "shutdown")
    /\ UNCHANGED <<lhs, run, tasks, worker, item, candidates, queue, cpc, enqueued, got>>

\* The last task that ends shuts the queue down.
Finish(t) ==
    /\ tpc[t] = "finish"
    /\ active' = active - 1
    /\ IF active' = 0
       THEN isShutdown' = TRUE /\ TaskGoto(t, "shutdown") /\ UNCHANGED worker
       ELSE TaskGoto(t, "done") /\ Release(t) /\ UNCHANGED isShutdown
    /\ UNCHANGED <<lhs, run, tasks, item, candidates, queue, cpc, enqueued, got>>

\* Mutant: the shutdown wakes nobody.
NotifyAllForgotten(t) ==
    /\ tpc[t] = "shutdown"
    /\ TaskGoto(t, "done") /\ Release(t)
    /\ UNCHANGED <<lhs, run, active, tasks, item, candidates, shared, cpc, enqueued, got>>

NotifyAll(t) ==
    /\ tpc[t] = "shutdown"
    /\ WakeCaller
    /\ TaskGoto(t, "done") /\ Release(t)
    /\ UNCHANGED <<lhs, run, active, tasks, item, candidates, shared, enqueued, got>>

TaskStep(t) ==
    CheckRun(t) \/ NextLHS(t) \/ Match(t) \/ Notify(t) \/ MatchesEnd(t) \/ Finish(t) \/ NotifyAll(t)

CallerStep == Enqueue \/ Pop \/ Reset \/ Destroy

\* The caller has destroyed the join, and rests.
Gone == cpc = "gone" /\ UNCHANGED vars

Next ==
    \/ CallNext \/ Stop \/ CallerStep
    \/ \E w \in Workers : TakeTask(w)
    \/ \E t \in Tasks : TaskStep(t)
    \/ Gone

Spec == Init /\ [][Next]_vars

\* The scheduler runs every thread; the caller is free in what it calls.
FairSpec ==
    /\ Spec /\ WF_vars(CallerStep)
    /\ \A w \in Workers : WF_vars(TakeTask(w))
    /\ \A t \in Tasks : WF_vars(TaskStep(t))

----------------------------------------------------------------------------
Item(s) == {s[i] : i \in DOMAIN s}

\* The type invariant.
TypeOK ==
    /\ lhs \in 0 .. NumLHS
    /\ run \in BOOLEAN /\ isShutdown \in BOOLEAN /\ ended \in BOOLEAN
    /\ active \in 0 .. NumTasks /\ enqueued \in 0 .. NumTasks
    /\ tasks \in Seq(Tasks) /\ worker \in [Workers -> Tasks \cup {None}]
    /\ tpc \in [Tasks -> {"none", "queued", "check", "fetch", "match", "notify", "finish",
                          "shutdown", "done"}]
    /\ item \in [Tasks -> 0 .. NumLHS] /\ candidates \in [Tasks -> SUBSET Nodes]
    /\ queue \in Seq(Results) /\ received \subseteq Results
    /\ cpc \in {"idle", "enqueue", "pop", "waiting", "reset", "destroy", "gone"}
    /\ resets \in Nat

\* next() reports the end when every result has been handed out, although tasks
\* run in any number and order, start late, or find nothing to do.
EndIsComplete == ended => received = Results

\* A result is handed out once: none is in the queue twice, or again.
EachOnce ==
    /\ \A i, j \in DOMAIN queue : queue[i] = queue[j] => i = j
    /\ Item(queue) \cap received = {}

\* No task is left that could use the destroyed join, or push into the queue of
\* the pass before.
NoTaskOutlives ==
    (cpc = "gone" \/ (cpc = "idle" /\ ~run)) =>
        tasks = <<>> /\ \A t \in Tasks : tpc[t] \in {"none", "done"}

\* The join implements an iterator.
Stream == INSTANCE ResultStream WITH delivered <- received
ImplementsIterator == Stream!Spec

\* next(), reset() and the destructor return, with fewer workers than tasks, too.
CallsReturn == (cpc # "idle") ~> (cpc \in {"idle", "gone"})
=============================================================================
