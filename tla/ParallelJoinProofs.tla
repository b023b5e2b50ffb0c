------------------------ MODULE ParallelJoinProofs ------------------------
(****************************************************************************)
(* For any left-hand side, any number of tasks and of pool threads, and any *)
(* number of resets: the join hands out every result once and only then the *)
(* end. A result is, at any time, in one place: not fetched yet, among the  *)
(* candidates of one task, in the queue, or with the caller.                *)
(****************************************************************************)
EXTENDS ParallelJoin, FiniteSetTheorems, TLAPS

NoDuplicates(s) == \A i, j \in DOMAIN s : s[i] = s[j] => i = j

\* What is true of the caller, and when no pass is under way.
CallerInv ==
    /\ cpc \in {"enqueue", "pop", "waiting"} => run
    /\ cpc \in {"reset", "destroy", "gone"} => ~run
    /\ run /\ cpc # "enqueue" => enqueued = NumTasks
    /\ cpc = "gone" => TasksReady
    /\ cpc = "idle" /\ ~run => /\ TasksReady /\ ~isShutdown /\ ~ended
                              /\ lhs = 0 /\ queue = <<>> /\ received = {}

\* The tasks in the pool's list, and the ones not handed to it yet.
PoolInv ==
    /\ NoDuplicates(tasks)
    /\ \A i \in DOMAIN tasks : tpc[tasks[i]] = "queued"
    /\ \A t \in Tasks : t > enqueued => tpc[t] \in {"none", "done"}
    /\ \A t \in Tasks : t <= enqueued => tpc[t] # "none"

\* A pass has been begun at least once.
Started == run \/ enqueued = NumTasks

Unfinished == {t \in Tasks : t > enqueued \/ tpc[t] \notin {"none", "done", "shutdown"}}

CountInv ==
    /\ Started => active = Cardinality(Unfinished)
    /\ ~Started => \A t \in Tasks : tpc[t] = "none"

ShutInv == isShutdown => active = 0 /\ Started

\* A task ends by itself when the left-hand side is exhausted, only.
ExhaustedInv ==
    run => \A t \in Tasks :
        t <= enqueued /\ tpc[t] \in {"finish", "shutdown", "done"} => lhs = NumLHS

CandidatesInv ==
    /\ \A t \in Tasks : candidates[t] # {} =>
           /\ tpc[t] \in {"match", "notify"}
           /\ item[t] \in 1 .. lhs /\ candidates[t] \subseteq Matches[item[t]]
    /\ \A t \in Tasks : tpc[t] \in {"match", "notify"} => item[t] \in 1 .. lhs
    /\ \A t, u \in Tasks :
           t # u /\ candidates[t] # {} /\ candidates[u] # {} => item[t] # item[u]

Held(r, t) == item[t] = r[1] /\ r[2] \in candidates[t]

PartitionInv ==
    /\ \A r \in Results : \/ r[1] > lhs \/ r \in received \/ r \in Item(queue)
                          \/ \E t \in Tasks : Held(r, t)
    /\ \A r \in received \cup Item(queue) : r[1] <= lhs /\ \A t \in Tasks : ~Held(r, t)
    /\ EachOnce

IInv == /\ TypeOK /\ CallerInv /\ PoolInv /\ CountInv /\ ShutInv /\ ExhaustedInv
        /\ CandidatesInv /\ PartitionInv /\ EndIsComplete

----------------------------------------------------------------------------
(* Sequences without duplicates.                                            *)

\* Appending adds one element.
LEMMA AppendItem ==
    ASSUME NEW S, NEW s \in Seq(S), NEW x \in S
    PROVE  /\ Append(s, x) \in Seq(S)
           /\ Item(Append(s, x)) = Item(s) \cup {x}
           /\ NoDuplicates(s) /\ x \notin Item(s) => NoDuplicates(Append(s, x))
<1>1. /\ Append(s, x) \in Seq(S) /\ DOMAIN Append(s, x) = 1 .. Len(s) + 1
      /\ DOMAIN s = 1 .. Len(s) /\ Len(s) \in Nat
      /\ \A i \in 1 .. Len(s) : Append(s, x)[i] = s[i]
      /\ Append(s, x)[Len(s) + 1] = x
  OBVIOUS
<1>2. Item(Append(s, x)) = Item(s) \cup {x}
  BY <1>1 DEF Item
<1>3. NoDuplicates(s) /\ x \notin Item(s) => NoDuplicates(Append(s, x))
  BY <1>1 DEF Item, NoDuplicates
<1> QED
  BY <1>1, <1>2, <1>3

\* Taking the head leaves the others.
LEMMA TailItem ==
    ASSUME NEW S, NEW s \in Seq(S), s # <<>>
    PROVE  /\ Head(s) \in S /\ Tail(s) \in Seq(S)
           /\ Item(s) = Item(Tail(s)) \cup {Head(s)}
           /\ \A i \in DOMAIN Tail(s) : i + 1 \in DOMAIN s /\ Tail(s)[i] = s[i + 1]
           /\ NoDuplicates(s) => NoDuplicates(Tail(s)) /\ Head(s) \notin Item(Tail(s))
<1>1. /\ Tail(s) \in Seq(S) /\ DOMAIN Tail(s) = 1 .. Len(s) - 1
      /\ DOMAIN s = 1 .. Len(s) /\ Len(s) \in Nat \ {0}
      /\ \A i \in 1 .. Len(s) - 1 : Tail(s)[i] = s[i + 1]
      /\ Head(s) = s[1] /\ s[1] \in S
  OBVIOUS
<1>2. Item(s) \subseteq Item(Tail(s)) \cup {Head(s)}
  <2> SUFFICES ASSUME NEW i \in 1 .. Len(s) PROVE s[i] \in Item(Tail(s)) \cup {Head(s)}
    BY <1>1 DEF Item
  <2>1. CASE i = 1
    BY <1>1, <2>1
  <2>2. CASE i # 1
    <3>1. i - 1 \in 1 .. Len(s) - 1 /\ Tail(s)[i - 1] = s[i]
      BY <1>1, <2>2
    <3> QED
      BY <1>1, <3>1 DEF Item
  <2> QED
    BY <2>1, <2>2
<1>3. Item(Tail(s)) \cup {Head(s)} \subseteq Item(s)
  BY <1>1 DEF Item
<1>4. NoDuplicates(s) => NoDuplicates(Tail(s)) /\ Head(s) \notin Item(Tail(s))
  BY <1>1 DEF Item, NoDuplicates
<1> QED
  BY <1>1, <1>2, <1>3, <1>4

LEMMA EmptyItem == Item(<<>>) = {} /\ NoDuplicates(<<>>)
  BY DEF Item, NoDuplicates

\* The number of unfinished tasks.
LEMMA CountTasks ==
    /\ IsFiniteSet(Tasks) /\ Cardinality(Tasks) = NumTasks
    /\ IsFiniteSet(Unfinished) /\ Cardinality(Unfinished) \in 0 .. NumTasks
    /\ Cardinality(Unfinished) = 0 <=> Unfinished = {}
<1>1. IsFiniteSet(Tasks) /\ Cardinality(Tasks) = NumTasks
  BY FS_Interval, JoinAssumption DEF Tasks
<1>2. Unfinished \subseteq Tasks
  BY DEF Unfinished
<1> QED
  BY <1>1, <1>2, FS_Subset, FS_CardinalityType, FS_EmptySet, JoinAssumption

\* A task that is at work is unfinished, so the queue is open.
LEMMA NotYetShut ==
    ASSUME IInv, NEW t \in Tasks, tpc[t] = "match" PROVE ~isShutdown
<1>1. t \in Unfinished
  BY DEF Unfinished
<1>2. Started
  BY DEF IInv, CountInv
<1>3. active # 0
  BY <1>1, <1>2, CountTasks DEF IInv, CountInv
<1> QED
  BY <1>3 DEF IInv, ShutInv

\* What a task pushes is a result.
LEMMA MatchIsResult ==
    ASSUME IInv, NEW t \in Tasks, tpc[t] = "match", NEW n \in candidates[t], Included(item[t], n)
    PROVE  <<item[t], n>> \in Results
<1>1. item[t] \in 1 .. lhs /\ n \in Matches[item[t]]
  BY DEF IInv, CandidatesInv
<1>2. item[t] \in LHS
  BY <1>1, JoinAssumption DEF IInv, TypeOK, LHS
<1>3. n \in Nodes
  BY <1>1, <1>2, JoinAssumption
<1> QED
  BY <1>1, <1>2, <1>3 DEF Results

----------------------------------------------------------------------------
LEMMA InitHolds == Init => IInv
<1> SUFFICES ASSUME Init PROVE IInv
  OBVIOUS
<1> USE JoinAssumption DEF Init
<1>1. TypeOK
  <2>1. /\ lhs \in 0 .. NumLHS /\ active \in 0 .. NumTasks /\ enqueued \in 0 .. NumTasks
        /\ item \in [Tasks -> 0 .. NumLHS]
    OBVIOUS
  <2>2. tasks \in Seq(Tasks) /\ queue \in Seq(Results) /\ received \subseteq Results
    OBVIOUS
  <2>3. worker \in [Workers -> Tasks \cup {None}] /\ candidates \in [Tasks -> SUBSET Nodes]
    OBVIOUS
  <2>4. tpc \in [Tasks -> {"none", "queued", "check", "fetch", "match", "notify", "finish",
                           "shutdown", "done"}]
    OBVIOUS
  <2>5. /\ run \in BOOLEAN /\ isShutdown \in BOOLEAN /\ ended \in BOOLEAN /\ resets \in Nat
        /\ cpc \in {"idle", "enqueue", "pop", "waiting", "reset", "destroy", "gone"}
    OBVIOUS
  <2> QED
    BY <2>1, <2>2, <2>3, <2>4, <2>5 DEF TypeOK
<1>2. CallerInv /\ PoolInv /\ CountInv /\ ShutInv
  BY DEF CallerInv, PoolInv, CountInv, ShutInv, TasksReady, NoDuplicates, Started, Tasks
<1>3. ExhaustedInv /\ CandidatesInv /\ EndIsComplete
  BY DEF ExhaustedInv, CandidatesInv, EndIsComplete
<1>4. PartitionInv
  BY EmptyItem DEF PartitionInv, EachOnce, NoDuplicates, Results, LHS
<1> QED
  BY <1>1, <1>2, <1>3, <1>4 DEF IInv

\* A new pass counts all tasks, and starts with none.
LEMMA CallNextHolds ==
    ASSUME IInv, CallNext PROVE IInv'
<1> USE JoinAssumption
<1>1. TypeOK'
  <2>1. lhs' \in 0 .. NumLHS /\ active' \in 0 .. NumTasks /\ enqueued' \in 0 .. NumTasks /\ resets' \in Nat
    BY DEF IInv, TypeOK, CallNext, got
  <2>2. tasks' \in Seq(Tasks) /\ queue' \in Seq(Results) /\ received' \subseteq Results
    BY DEF IInv, TypeOK, CallNext, pool, shared, got
  <2>3. /\ run' \in BOOLEAN /\ isShutdown' \in BOOLEAN /\ ended' \in BOOLEAN
        /\ worker' \in [Workers -> Tasks \cup {None}]
        /\ tpc' \in [Tasks -> {"none", "queued", "check", "fetch", "match", "notify", "finish",
                              "shutdown", "done"}]
        /\ cpc' \in {"idle", "enqueue", "pop", "waiting", "reset", "destroy", "gone"}
    BY DEF IInv, TypeOK, CallNext, pool, shared, got
  <2>4. item' \in [Tasks -> 0 .. NumLHS] /\ candidates' \in [Tasks -> SUBSET Nodes]
    BY DEF IInv, TypeOK, CallNext, pool, shared, got
  <2> QED
    BY <2>1, <2>2, <2>3, <2>4 DEF TypeOK
<1>2. CallerInv'
  BY DEF IInv, TypeOK, CallerInv, TasksReady, CallNext, pool, shared, got
<1>3. PoolInv'
  BY DEF IInv, TypeOK, CallerInv, PoolInv, TasksReady, Tasks, CallNext, pool, shared, got
<1>4. CountInv'
  <2>1. CASE run
    BY <2>1 DEF IInv, TypeOK, CountInv, Started, Unfinished, CallNext, got
  <2>2. CASE ~run
    <3>1. Unfinished' = Tasks
      BY <2>2 DEF CallNext, Unfinished, Tasks
    <3> QED
      BY <2>2, <3>1, CountTasks DEF CallNext, CountInv, Started
  <2> QED
    BY <2>1, <2>2
<1>5. ShutInv'
  BY DEF IInv, TypeOK, CallerInv, CountInv, ShutInv, Started, CallNext, pool, shared, got
<1>6. ExhaustedInv'
  <2>1. CASE run
    BY <2>1 DEF IInv, ExhaustedInv, CallNext
  <2>2. CASE ~run
    BY <2>2 DEF CallNext, ExhaustedInv, Tasks
  <2> QED
    BY <2>1, <2>2
<1>7. CandidatesInv'
  BY DEF IInv, TypeOK, CallerInv, PoolInv, CandidatesInv, TasksReady, CallNext, pool, shared, got
<1>8. PartitionInv'
  BY DEF IInv, TypeOK, CallerInv, CandidatesInv, PartitionInv, EachOnce, Held, CallNext, pool, shared, got
<1>9. EndIsComplete'
  BY DEF IInv, TypeOK, CallerInv, EndIsComplete, CallNext, pool, shared, got
<1> QED
  BY <1>1, <1>2, <1>3, <1>4, <1>5, <1>6, <1>7, <1>8, <1>9 DEF IInv

\* The next task is counted already.
LEMMA EnqueueHolds ==
    ASSUME IInv, Enqueue PROVE IInv'
<1> USE JoinAssumption
<1>1. TypeOK'
  <2>1. lhs' \in 0 .. NumLHS /\ active' \in 0 .. NumTasks /\ enqueued' \in 0 .. NumTasks /\ resets' \in Nat
    BY DEF IInv, TypeOK, Enqueue, got
  <2>2. tasks' \in Seq(Tasks) /\ queue' \in Seq(Results) /\ received' \subseteq Results
    <3>1. CASE enqueued < NumTasks
      <4>1. enqueued + 1 \in Tasks /\ tasks' = Append(tasks, enqueued + 1)
        BY <3>1 DEF IInv, TypeOK, Enqueue, Tasks
      <4> QED
        BY <4>1, AppendItem DEF IInv, TypeOK, Enqueue, shared, got
    <3>2. CASE ~(enqueued < NumTasks)
      BY <3>2 DEF IInv, TypeOK, Enqueue, shared, got
    <3> QED
      BY <3>1, <3>2
  <2>3. /\ run' \in BOOLEAN /\ isShutdown' \in BOOLEAN /\ ended' \in BOOLEAN
        /\ worker' \in [Workers -> Tasks \cup {None}]
        /\ tpc' \in [Tasks -> {"none", "queued", "check", "fetch", "match", "notify", "finish",
                              "shutdown", "done"}]
        /\ cpc' \in {"idle", "enqueue", "pop", "waiting", "reset", "destroy", "gone"}
    BY DEF IInv, TypeOK, Enqueue, pool, shared, got, TaskGoto
  <2>4. item' \in [Tasks -> 0 .. NumLHS] /\ candidates' \in [Tasks -> SUBSET Nodes]
    BY DEF IInv, TypeOK, Enqueue, pool, shared, got, TaskGoto
  <2> QED
    BY <2>1, <2>2, <2>3, <2>4 DEF TypeOK
<1>2. CallerInv'
  BY DEF IInv, TypeOK, CallerInv, TasksReady, Enqueue, pool, shared, got, TaskGoto
<1>3. PoolInv'
  <2>1. CASE enqueued < NumTasks
    <3>1. /\ enqueued + 1 \in Tasks /\ tasks' = Append(tasks, enqueued + 1) /\ enqueued' = enqueued + 1
          /\ tpc' = [tpc EXCEPT ![enqueued + 1] = "queued"] /\ tpc[enqueued + 1] \in {"none", "done"}
      BY <2>1 DEF IInv, TypeOK, PoolInv, Enqueue, TaskGoto, Tasks
    <3>2. \A i \in DOMAIN tasks : tasks[i] \in Tasks /\ tpc[tasks[i]] = "queued"
      BY DEF IInv, TypeOK, PoolInv
    <3>3. enqueued + 1 \notin Item(tasks)
      BY <3>1, <3>2 DEF Item
    <3>4. NoDuplicates(tasks') /\ Item(tasks') = Item(tasks) \cup {enqueued + 1}
      BY <3>1, <3>3, AppendItem DEF IInv, TypeOK, PoolInv
    <3>5. \A u \in Item(tasks') : tpc'[u] = "queued"
      BY <3>1, <3>2, <3>4 DEF IInv, TypeOK, Item
    <3>6. \A i \in DOMAIN tasks' : tpc'[tasks'[i]] = "queued"
      BY <3>5 DEF Item
    <3>7. \A u \in Tasks : /\ u > enqueued' => tpc'[u] \in {"none", "done"}
                           /\ u <= enqueued' => tpc'[u] # "none"
      BY <3>1 DEF IInv, TypeOK, PoolInv, Tasks
    <3> QED
      BY <3>4, <3>6, <3>7 DEF PoolInv
  <2>2. CASE ~(enqueued < NumTasks)
    BY <2>2 DEF IInv, PoolInv, Enqueue
  <2> QED
    BY <2>1, <2>2
<1>4. CountInv'
  <2>1. Unfinished' = Unfinished
    BY DEF IInv, TypeOK, CallerInv, PoolInv, Unfinished, Enqueue, TaskGoto, Tasks
  <2>2. active' = active /\ Started' = Started
    BY DEF IInv, TypeOK, CallerInv, CountInv, Started, Enqueue, got, TaskGoto
  <2>3. Started
    BY DEF IInv, TypeOK, CallerInv, CountInv, Started, Enqueue, Tasks
  <2> QED
    BY <2>1, <2>2, <2>3 DEF IInv, CountInv
<1>5. ShutInv'
  BY DEF IInv, TypeOK, CallerInv, CountInv, ShutInv, Started, Enqueue, pool, shared, got, TaskGoto
<1>6. ExhaustedInv'
  <2>1. CASE enqueued < NumTasks
    <3>1. enqueued' = enqueued + 1 /\ tpc' = [tpc EXCEPT ![enqueued + 1] = "queued"] /\ UNCHANGED <<run, lhs>>
      BY <2>1 DEF Enqueue, TaskGoto
    <3>2. \A u \in Tasks : u <= enqueued + 1 /\ u # enqueued + 1 => u <= enqueued
      BY DEF IInv, TypeOK, Tasks
    <3> QED
      BY <3>1, <3>2 DEF IInv, TypeOK, ExhaustedInv
  <2>2. CASE ~(enqueued < NumTasks)
    BY <2>2 DEF IInv, ExhaustedInv, Enqueue
  <2> QED
    BY <2>1, <2>2
<1>7. CandidatesInv'
  <2>1. UNCHANGED <<lhs, item, candidates>>
    BY DEF Enqueue
  <2>2. CASE enqueued < NumTasks
    <3>1. enqueued + 1 \in Tasks /\ tpc' = [tpc EXCEPT ![enqueued + 1] = "queued"]
      BY <2>2 DEF IInv, TypeOK, Enqueue, Tasks, TaskGoto
    <3>2. tpc[enqueued + 1] \in {"none", "done"}
      BY <3>1 DEF IInv, TypeOK, PoolInv, Tasks
    <3>3. \A u \in Tasks : tpc'[u] \in {"match", "notify"} <=> tpc[u] \in {"match", "notify"}
      BY <3>1, <3>2 DEF IInv, TypeOK
    <3> QED
      BY <2>1, <3>3 DEF IInv, CandidatesInv
  <2>3. CASE ~(enqueued < NumTasks)
    BY <2>1, <2>3 DEF IInv, CandidatesInv, Enqueue
  <2> QED
    BY <2>2, <2>3
<1>8. PartitionInv'
  BY DEF IInv, TypeOK, CallerInv, CandidatesInv, PartitionInv, EachOnce, Held, Enqueue, pool, shared, got, TaskGoto
<1>9. EndIsComplete'
  BY DEF IInv, TypeOK, CallerInv, EndIsComplete, Enqueue, pool, shared, got, TaskGoto
<1> QED
  BY <1>1, <1>2, <1>3, <1>4, <1>5, <1>6, <1>7, <1>8, <1>9 DEF IInv

\* A result moves from the queue to the caller, or the end is reported.
LEMMA PopHolds ==
    ASSUME IInv, Pop PROVE IInv'
<1> USE JoinAssumption
<1>1. TypeOK'
  <2>1. lhs' \in 0 .. NumLHS /\ active' \in 0 .. NumTasks /\ enqueued' \in 0 .. NumTasks /\ resets' \in Nat
    BY DEF IInv, TypeOK, Pop, got
  <2>2. tasks' \in Seq(Tasks) /\ queue' \in Seq(Results) /\ received' \subseteq Results
    <3>1. CASE queue # <<>>
      <4>1. tasks' = tasks /\ queue' = Tail(queue) /\ received' = received \cup {Head(queue)}
        BY <3>1 DEF Pop, pool
      <4>2. queue \in Seq(Results) /\ received \subseteq Results /\ tasks \in Seq(Tasks)
        BY DEF IInv, TypeOK
      <4>3. Tail(queue) \in Seq(Results) /\ Head(queue) \in Results
        BY <3>1, <4>2, TailItem
      <4> QED
        BY <4>1, <4>2, <4>3
    <3>2. CASE queue = <<>>
      BY <3>2 DEF IInv, TypeOK, Pop, pool
    <3> QED
      BY <3>1, <3>2
  <2>3. /\ run' \in BOOLEAN /\ isShutdown' \in BOOLEAN /\ ended' \in BOOLEAN
        /\ worker' \in [Workers -> Tasks \cup {None}]
        /\ tpc' \in [Tasks -> {"none", "queued", "check", "fetch", "match", "notify", "finish",
                              "shutdown", "done"}]
        /\ cpc' \in {"idle", "enqueue", "pop", "waiting", "reset", "destroy", "gone"}
    BY DEF IInv, TypeOK, Pop, pool, shared, got
  <2>4. item' \in [Tasks -> 0 .. NumLHS] /\ candidates' \in [Tasks -> SUBSET Nodes]
    BY DEF IInv, TypeOK, Pop, pool, shared, got
  <2> QED
    BY <2>1, <2>2, <2>3, <2>4 DEF TypeOK
<1>2. CallerInv'
  BY DEF IInv, TypeOK, CallerInv, TasksReady, Pop, pool, shared, got
<1>3. PoolInv'
  BY DEF IInv, TypeOK, CallerInv, PoolInv, TasksReady, Tasks, Pop, pool, shared, got
<1>4. CountInv'
  BY DEF IInv, TypeOK, CallerInv, PoolInv, CountInv, Started, Unfinished, TasksReady, Pop, pool, shared, got
<1>5. ShutInv'
  BY DEF IInv, TypeOK, CallerInv, CountInv, ShutInv, Started, Pop, pool, shared, got
<1>6. ExhaustedInv'
  BY DEF IInv, TypeOK, CallerInv, PoolInv, ExhaustedInv, Pop, pool, shared, got
<1>7. CandidatesInv'
  BY DEF IInv, TypeOK, CallerInv, PoolInv, CandidatesInv, TasksReady, Pop, pool, shared, got
<1>8. PartitionInv'
  <2>1. UNCHANGED <<lhs, item, candidates>>
    BY DEF Pop
  <2>2. CASE queue # <<>>
    <3>1. received' = received \cup {Head(queue)} /\ queue' = Tail(queue)
      BY <2>2 DEF Pop
    <3>2. NoDuplicates(queue) /\ queue \in Seq(Results)
      BY DEF IInv, TypeOK, PartitionInv, EachOnce, NoDuplicates
    <3>3. /\ Item(queue) = Item(Tail(queue)) \cup {Head(queue)}
          /\ NoDuplicates(Tail(queue)) /\ Head(queue) \notin Item(Tail(queue))
      BY <2>2, <3>2, TailItem
    <3>4. received' \cup Item(queue') = received \cup Item(queue)
      BY <3>1, <3>3
    <3>5. EachOnce'
      BY <3>1, <3>3 DEF IInv, PartitionInv, EachOnce, NoDuplicates
    <3> QED
      BY <2>1, <3>4, <3>5 DEF IInv, PartitionInv, Held
  <2>3. CASE queue = <<>>
    BY <2>1, <2>3 DEF IInv, PartitionInv, EachOnce, Held, Pop
  <2> QED
    BY <2>2, <2>3
<1>9. EndIsComplete'
  <2>1. CASE queue # <<>>
    <3>1. ended' = ended /\ received' = received \cup {Head(queue)} /\ Head(queue) \in Results
      BY <2>1, TailItem DEF Pop, IInv, TypeOK
    <3> QED
      BY <3>1 DEF IInv, EndIsComplete
  <2>2. CASE queue = <<>> /\ ~isShutdown
    BY <2>2 DEF IInv, EndIsComplete, Pop
  <2>3. CASE queue = <<>> /\ isShutdown
    <3>1. run /\ enqueued = NumTasks
      BY DEF IInv, CallerInv, Pop
    <3>2. Unfinished = {}
      BY <2>3, CountTasks DEF IInv, ShutInv, CountInv
    <3>3. \A u \in Tasks : u <= enqueued /\ tpc[u] \in {"done", "shutdown"}
      BY <3>1, <3>2 DEF IInv, PoolInv, Unfinished, Tasks
    <3>4. lhs = NumLHS
      BY <3>1, <3>3, 1 \in Tasks DEF IInv, ExhaustedInv, Tasks
    <3>5. \A r \in Results, u \in Tasks : ~Held(r, u)
      BY <3>3 DEF IInv, CandidatesInv, Held
    <3>6. \A r \in Results : ~(r[1] > lhs)
      BY <3>4 DEF Results, LHS
    <3>7. Results \subseteq received
      BY <2>3, <3>5, <3>6, EmptyItem DEF IInv, PartitionInv
    <3> QED
      BY <2>3, <3>7 DEF IInv, TypeOK, EndIsComplete, Pop
  <2> QED
    BY <2>1, <2>2, <2>3
<1> QED
  BY <1>1, <1>2, <1>3, <1>4, <1>5, <1>6, <1>7, <1>8, <1>9 DEF IInv

\* From now on nobody relies on the left-hand side.
LEMMA StopHolds ==
    ASSUME IInv, Stop PROVE IInv'
<1> USE JoinAssumption
<1>1. TypeOK'
  BY DEF IInv, TypeOK, Tasks, Stop, pool, shared, got
<1>2. CallerInv'
  BY DEF IInv, TypeOK, CallerInv, TasksReady, Stop, pool, shared, got
<1>3. PoolInv'
  BY DEF IInv, TypeOK, CallerInv, PoolInv, TasksReady, Tasks, Stop, pool, shared, got
<1>4. CountInv'
  BY DEF IInv, TypeOK, CallerInv, PoolInv, CountInv, Started, Unfinished, TasksReady, Stop, pool, shared, got
<1>5. ShutInv'
  BY DEF IInv, TypeOK, CallerInv, CountInv, ShutInv, Started, Stop, pool, shared, got
<1>6. ExhaustedInv'
  BY DEF IInv, TypeOK, CallerInv, PoolInv, ExhaustedInv, Stop, pool, shared, got
<1>7. CandidatesInv'
  BY DEF IInv, TypeOK, CallerInv, PoolInv, CandidatesInv, TasksReady, Stop, pool, shared, got
<1>8. PartitionInv'
  BY DEF IInv, TypeOK, CallerInv, CandidatesInv, PartitionInv, EachOnce, Held, Stop, pool, shared, got
<1>9. EndIsComplete'
  BY DEF IInv, TypeOK, CallerInv, EndIsComplete, Stop, pool, shared, got
<1> QED
  BY <1>1, <1>2, <1>3, <1>4, <1>5, <1>6, <1>7, <1>8, <1>9 DEF IInv

\* All tasks are done; a new pass may begin.
LEMMA ResetHolds ==
    ASSUME IInv, Reset PROVE IInv'
<1> USE JoinAssumption
<1>1. TypeOK'
  <2>1. lhs' \in 0 .. NumLHS /\ active' \in 0 .. NumTasks /\ enqueued' \in 0 .. NumTasks /\ resets' \in Nat
    BY DEF IInv, TypeOK, Reset
  <2>2. tasks' \in Seq(Tasks) /\ queue' \in Seq(Results) /\ received' \subseteq Results
    BY DEF IInv, TypeOK, Reset, pool, shared, got, TasksReady
  <2>3. /\ run' \in BOOLEAN /\ isShutdown' \in BOOLEAN /\ ended' \in BOOLEAN
        /\ worker' \in [Workers -> Tasks \cup {None}]
        /\ tpc' \in [Tasks -> {"none", "queued", "check", "fetch", "match", "notify", "finish",
                              "shutdown", "done"}]
        /\ cpc' \in {"idle", "enqueue", "pop", "waiting", "reset", "destroy", "gone"}
    BY DEF IInv, TypeOK, Reset, pool, shared, got, TasksReady
  <2>4. item' \in [Tasks -> 0 .. NumLHS] /\ candidates' \in [Tasks -> SUBSET Nodes]
    BY DEF IInv, TypeOK, Reset, pool, shared, got, TasksReady
  <2> QED
    BY <2>1, <2>2, <2>3, <2>4 DEF TypeOK
<1>2. CallerInv'
  BY DEF IInv, TypeOK, CallerInv, TasksReady, Reset, pool, shared, got, TasksReady
<1>3. PoolInv'
  BY DEF IInv, TypeOK, CallerInv, PoolInv, TasksReady, Tasks, Reset, pool, shared, got, TasksReady
<1>4. CountInv'
  BY DEF IInv, TypeOK, CallerInv, PoolInv, CountInv, Started, Unfinished, TasksReady, Reset, pool, shared, got, TasksReady
<1>5. ShutInv'
  BY DEF IInv, TypeOK, CallerInv, CountInv, ShutInv, Started, Reset, pool, shared, got, TasksReady
<1>6. ExhaustedInv'
  BY DEF IInv, TypeOK, CallerInv, PoolInv, ExhaustedInv, Reset, pool, shared, got, TasksReady
<1>7. CandidatesInv'
  BY DEF IInv, TypeOK, CallerInv, PoolInv, CandidatesInv, TasksReady, Reset, pool, shared, got, TasksReady
<1>8. PartitionInv'
  <2>1. lhs' = 0 /\ queue' = <<>> /\ received' = {} /\ Item(queue') = {}
    BY EmptyItem DEF Reset
  <2>2. \A r \in Results : r[1] > 0
    BY DEF Results, LHS
  <2> QED
    BY <2>1, <2>2 DEF PartitionInv, EachOnce
<1>9. EndIsComplete'
  BY DEF IInv, TypeOK, CallerInv, EndIsComplete, Reset, pool, shared, got, TasksReady
<1> QED
  BY <1>1, <1>2, <1>3, <1>4, <1>5, <1>6, <1>7, <1>8, <1>9 DEF IInv

\* All tasks are done.
LEMMA DestroyHolds ==
    ASSUME IInv, Destroy PROVE IInv'
<1> USE JoinAssumption
<1>1. TypeOK'
  BY DEF IInv, TypeOK, Tasks, Destroy, pool, shared, got, TasksReady
<1>2. CallerInv'
  BY DEF IInv, TypeOK, CallerInv, TasksReady, Destroy, pool, shared, got, TasksReady
<1>3. PoolInv'
  BY DEF IInv, TypeOK, CallerInv, PoolInv, TasksReady, Tasks, Destroy, pool, shared, got, TasksReady
<1>4. CountInv'
  BY DEF IInv, TypeOK, CallerInv, PoolInv, CountInv, Started, Unfinished, TasksReady, Destroy, pool, shared, got, TasksReady
<1>5. ShutInv'
  BY DEF IInv, TypeOK, CallerInv, CountInv, ShutInv, Started, Destroy, pool, shared, got, TasksReady
<1>6. ExhaustedInv'
  BY DEF IInv, TypeOK, CallerInv, PoolInv, ExhaustedInv, Destroy, pool, shared, got, TasksReady
<1>7. CandidatesInv'
  BY DEF IInv, TypeOK, CallerInv, PoolInv, CandidatesInv, TasksReady, Destroy, pool, shared, got, TasksReady
<1>8. PartitionInv'
  BY DEF IInv, TypeOK, CallerInv, CandidatesInv, PartitionInv, EachOnce, Held, Destroy, pool, shared, got, TasksReady
<1>9. EndIsComplete'
  BY DEF IInv, TypeOK, CallerInv, EndIsComplete, Destroy, pool, shared, got, TasksReady
<1> QED
  BY <1>1, <1>2, <1>3, <1>4, <1>5, <1>6, <1>7, <1>8, <1>9 DEF IInv

\* A thread of the pool starts the first task.
LEMMA TakeTaskHolds ==
    ASSUME IInv, NEW w \in Workers, TakeTask(w) PROVE IInv'
<1> USE JoinAssumption
<1>0. /\ Head(tasks) \in Tasks /\ tpc[Head(tasks)] = "queued"
      /\ Tail(tasks) \in Seq(Tasks) /\ NoDuplicates(Tail(tasks))
      /\ \A i \in DOMAIN Tail(tasks) :
             i + 1 \in DOMAIN tasks /\ Tail(tasks)[i] = tasks[i + 1] /\ Tail(tasks)[i] # Head(tasks)
  <2>1. tasks \in Seq(Tasks) /\ tasks # <<>>
    BY DEF IInv, TypeOK, TakeTask
  <2>2. /\ Tail(tasks) \in Seq(Tasks) /\ NoDuplicates(Tail(tasks)) /\ Head(tasks) \notin Item(Tail(tasks))
        /\ \A i \in DOMAIN Tail(tasks) : i + 1 \in DOMAIN tasks /\ Tail(tasks)[i] = tasks[i + 1]
    BY <2>1, TailItem DEF IInv, PoolInv
  <2>3. 1 \in DOMAIN tasks /\ Head(tasks) = tasks[1] /\ Head(tasks) \in Tasks
    BY <2>1
  <2> QED
    BY <2>2, <2>3 DEF IInv, PoolInv, Item
<1>1. TypeOK'
  BY DEF IInv, TypeOK, Tasks, TakeTask, pool, shared, got, TaskGoto
<1>2. CallerInv'
  <2>1. ~TasksReady
    BY <1>0 DEF TasksReady
  <2> QED
    BY <2>1 DEF IInv, TypeOK, CallerInv, TakeTask, got, shared
<1>3. PoolInv'
  <2>1. tpc' = [tpc EXCEPT ![Head(tasks)] = "check"] /\ tasks' = Tail(tasks) /\ enqueued' = enqueued
    BY DEF TakeTask, TaskGoto
  <2>2. \A i \in DOMAIN tasks' : tasks'[i] \in Tasks /\ tpc'[tasks'[i]] = "queued"
    <3> SUFFICES ASSUME NEW i \in DOMAIN Tail(tasks)
                 PROVE  Tail(tasks)[i] \in Tasks /\ tpc'[Tail(tasks)[i]] = "queued"
      BY <2>1
    <3>1. Tail(tasks)[i] \in Tasks
      BY <1>0
    <3>2. tpc[tasks[i + 1]] = "queued" /\ Tail(tasks)[i] = tasks[i + 1] /\ Tail(tasks)[i] # Head(tasks)
      BY <1>0 DEF IInv, PoolInv
    <3> QED
      BY <2>1, <3>1, <3>2 DEF IInv, TypeOK
  <2>3. \A u \in Tasks : /\ u > enqueued' => tpc'[u] \in {"none", "done"}
                         /\ u <= enqueued' => tpc'[u] # "none"
    BY <1>0, <2>1 DEF IInv, TypeOK, PoolInv
  <2> QED
    BY <1>0, <2>1, <2>2, <2>3 DEF PoolInv
<1>4. CountInv'
  <2>1. Unfinished' = Unfinished
    BY <1>0 DEF IInv, TypeOK, PoolInv, Unfinished, TakeTask, TaskGoto, got
  <2>2. active' = active /\ Started' = Started
    BY DEF IInv, TypeOK, CallerInv, CountInv, Started, TakeTask, got, TaskGoto
  <2>3. Started
    BY <1>0 DEF IInv, TypeOK, CallerInv, CountInv, Started, TakeTask, Tasks
  <2> QED
    BY <2>1, <2>2, <2>3 DEF IInv, CountInv
<1>5. ShutInv'
  BY DEF IInv, TypeOK, CallerInv, CountInv, ShutInv, Started, TakeTask, pool, shared, got, TaskGoto
<1>6. ExhaustedInv'
  BY DEF IInv, TypeOK, CallerInv, PoolInv, ExhaustedInv, TakeTask, pool, shared, got, TaskGoto
<1>7. CandidatesInv'
  <2>1. UNCHANGED <<lhs, item, candidates>>
    BY DEF TakeTask
  <2>2. \A u \in Tasks : tpc'[u] \in {"match", "notify"} <=> tpc[u] \in {"match", "notify"}
    BY <1>0 DEF IInv, TypeOK, PoolInv, CallerInv, TakeTask, Tasks, TaskGoto
  <2> QED
    BY <2>1, <2>2 DEF IInv, CandidatesInv
<1>8. PartitionInv'
  BY DEF IInv, TypeOK, CallerInv, CandidatesInv, PartitionInv, EachOnce, Held, TakeTask, pool, shared, got, TaskGoto
<1>9. EndIsComplete'
  BY DEF IInv, TypeOK, CallerInv, EndIsComplete, TakeTask, pool, shared, got, TaskGoto
<1> QED
  BY <1>1, <1>2, <1>3, <1>4, <1>5, <1>6, <1>7, <1>8, <1>9 DEF IInv

\* A task goes on, or ends.
LEMMA CheckRunHolds ==
    ASSUME IInv, NEW t \in Tasks, CheckRun(t) PROVE IInv'
<1> USE JoinAssumption
<1>1. TypeOK'
  BY DEF IInv, TypeOK, Tasks, CheckRun, pool, shared, got, TaskGoto
<1>2. CallerInv'
  BY DEF IInv, TypeOK, CallerInv, TasksReady, CheckRun, pool, shared, got, TaskGoto
<1>3. PoolInv'
  <2>1. UNCHANGED <<tasks, enqueued>> /\ tpc[t] \notin {"none", "queued", "done"} /\ tpc'[t] \notin {"none", "queued"}
    BY DEF IInv, TypeOK, CheckRun, pool, TaskGoto
  <2>2. \A u \in Tasks : u # t => tpc'[u] = tpc[u]
    BY DEF IInv, TypeOK, CheckRun, TaskGoto
  <2>3. t <= enqueued
    BY <2>1 DEF IInv, TypeOK, PoolInv, Tasks
  <2>4. \A u \in Tasks : /\ u > enqueued' => tpc'[u] \in {"none", "done"}
                         /\ u <= enqueued' => tpc'[u] # "none"
    BY <2>1, <2>2, <2>3 DEF IInv, TypeOK, PoolInv, Tasks
  <2>5. \A i \in DOMAIN tasks' : tpc'[tasks'[i]] = "queued"
    <3> SUFFICES ASSUME NEW i \in DOMAIN tasks PROVE tpc'[tasks[i]] = "queued"
      BY <2>1
    <3>1. tasks[i] \in Tasks /\ tpc[tasks[i]] = "queued"
      BY DEF IInv, TypeOK, PoolInv
    <3> QED
      BY <2>1, <2>2, <3>1
  <2> QED
    BY <2>1, <2>4, <2>5 DEF IInv, PoolInv
<1>4. CountInv'
  <2>1. Unfinished' = Unfinished
    BY DEF IInv, TypeOK, PoolInv, Unfinished, CheckRun, TaskGoto
  <2>2. active' = active /\ Started' = Started
    BY DEF IInv, TypeOK, CallerInv, CountInv, Started, CheckRun, got, TaskGoto
  <2>3. Started
    BY DEF IInv, TypeOK, CallerInv, CountInv, Started, CheckRun, Tasks
  <2> QED
    BY <2>1, <2>2, <2>3 DEF IInv, CountInv
<1>5. ShutInv'
  BY DEF IInv, TypeOK, CallerInv, CountInv, ShutInv, Started, CheckRun, pool, shared, got, TaskGoto
<1>6. ExhaustedInv'
  BY DEF IInv, TypeOK, CallerInv, PoolInv, ExhaustedInv, CheckRun, pool, shared, got, TaskGoto
<1>7. CandidatesInv'
  <2>1. UNCHANGED <<lhs, item, candidates>>
    BY DEF CheckRun
  <2>2. \A u \in Tasks : tpc'[u] \in {"match", "notify"} <=> tpc[u] \in {"match", "notify"}
    BY DEF IInv, TypeOK, PoolInv, CallerInv, CheckRun, Tasks, TaskGoto
  <2> QED
    BY <2>1, <2>2 DEF IInv, CandidatesInv
<1>8. PartitionInv'
  BY DEF IInv, TypeOK, CallerInv, CandidatesInv, PartitionInv, EachOnce, Held, CheckRun, pool, shared, got, TaskGoto
<1>9. EndIsComplete'
  BY DEF IInv, TypeOK, CallerInv, EndIsComplete, CheckRun, pool, shared, got, TaskGoto
<1> QED
  BY <1>1, <1>2, <1>3, <1>4, <1>5, <1>6, <1>7, <1>8, <1>9 DEF IInv

\* The candidates of the next tuple are nobody else's.
LEMMA NextLHSHolds ==
    ASSUME IInv, NEW t \in Tasks, NextLHS(t) PROVE IInv'
<1> USE JoinAssumption
<1>1. TypeOK'
  <2>1. lhs' \in 0 .. NumLHS /\ active' \in 0 .. NumTasks /\ enqueued' \in 0 .. NumTasks /\ resets' \in Nat
    BY DEF IInv, TypeOK, NextLHS, got
  <2>2. tasks' \in Seq(Tasks) /\ queue' \in Seq(Results) /\ received' \subseteq Results
    BY DEF IInv, TypeOK, NextLHS, pool, shared, got, TaskGoto
  <2>3. /\ run' \in BOOLEAN /\ isShutdown' \in BOOLEAN /\ ended' \in BOOLEAN
        /\ worker' \in [Workers -> Tasks \cup {None}]
        /\ tpc' \in [Tasks -> {"none", "queued", "check", "fetch", "match", "notify", "finish",
                              "shutdown", "done"}]
        /\ cpc' \in {"idle", "enqueue", "pop", "waiting", "reset", "destroy", "gone"}
    BY DEF IInv, TypeOK, NextLHS, pool, shared, got, TaskGoto
  <2>4. item' \in [Tasks -> 0 .. NumLHS] /\ candidates' \in [Tasks -> SUBSET Nodes]
    <3>1. CASE lhs < NumLHS
      <4>1. lhs + 1 \in 0 .. NumLHS /\ lhs + 1 \in LHS /\ Matches[lhs + 1] \in SUBSET Nodes
        BY <3>1 DEF IInv, TypeOK, LHS
      <4> QED
        BY <3>1, <4>1 DEF IInv, TypeOK, NextLHS
    <3>2. CASE ~(lhs < NumLHS)
      BY <3>2 DEF IInv, TypeOK, NextLHS
    <3> QED
      BY <3>1, <3>2
  <2> QED
    BY <2>1, <2>2, <2>3, <2>4 DEF TypeOK
<1>2. CallerInv'
  BY DEF IInv, TypeOK, CallerInv, TasksReady, NextLHS, pool, shared, got, TaskGoto
<1>3. PoolInv'
  <2>1. UNCHANGED <<tasks, enqueued>> /\ tpc[t] \notin {"none", "queued", "done"} /\ tpc'[t] \notin {"none", "queued"}
    BY DEF IInv, TypeOK, NextLHS, pool, TaskGoto
  <2>2. \A u \in Tasks : u # t => tpc'[u] = tpc[u]
    BY DEF IInv, TypeOK, NextLHS, TaskGoto
  <2>3. t <= enqueued
    BY <2>1 DEF IInv, TypeOK, PoolInv, Tasks
  <2>4. \A u \in Tasks : /\ u > enqueued' => tpc'[u] \in {"none", "done"}
                         /\ u <= enqueued' => tpc'[u] # "none"
    BY <2>1, <2>2, <2>3 DEF IInv, TypeOK, PoolInv, Tasks
  <2>5. \A i \in DOMAIN tasks' : tpc'[tasks'[i]] = "queued"
    <3> SUFFICES ASSUME NEW i \in DOMAIN tasks PROVE tpc'[tasks[i]] = "queued"
      BY <2>1
    <3>1. tasks[i] \in Tasks /\ tpc[tasks[i]] = "queued"
      BY DEF IInv, TypeOK, PoolInv
    <3> QED
      BY <2>1, <2>2, <3>1
  <2> QED
    BY <2>1, <2>4, <2>5 DEF IInv, PoolInv
<1>4. CountInv'
  <2>1. Unfinished' = Unfinished
    BY DEF IInv, TypeOK, PoolInv, Unfinished, NextLHS, TaskGoto
  <2>2. active' = active /\ Started' = Started
    BY DEF IInv, TypeOK, CallerInv, CountInv, Started, NextLHS, got, TaskGoto
  <2>3. Started
    BY DEF IInv, TypeOK, CallerInv, CountInv, Started, NextLHS, Tasks
  <2> QED
    BY <2>1, <2>2, <2>3 DEF IInv, CountInv
<1>5. ShutInv'
  BY DEF IInv, TypeOK, CallerInv, CountInv, ShutInv, Started, NextLHS, pool, shared, got, TaskGoto
<1>6. ExhaustedInv'
  BY DEF IInv, TypeOK, CallerInv, PoolInv, ExhaustedInv, NextLHS, pool, shared, got, TaskGoto
<1>7. CandidatesInv'
  <2>1. CASE lhs < NumLHS
    <3>1. /\ lhs' = lhs + 1 /\ item' = [item EXCEPT ![t] = lhs + 1]
          /\ candidates' = [candidates EXCEPT ![t] = Matches[lhs + 1]] /\ tpc' = [tpc EXCEPT ![t] = "match"]
      BY <2>1 DEF NextLHS, TaskGoto
    <3>2. lhs \in Nat /\ lhs + 1 \in 1 .. lhs'
      BY <3>1 DEF IInv, TypeOK
    <3>3. \A u \in Tasks : item[u] \in 1 .. lhs => item[u] \in 1 .. lhs' /\ item[u] # lhs + 1
      BY <3>1, <3>2
    <3>4. \A u \in Tasks : u # t => item'[u] = item[u] /\ candidates'[u] = candidates[u] /\ tpc'[u] = tpc[u]
      BY <3>1 DEF IInv, TypeOK
    <3>5. item'[t] = lhs + 1 /\ candidates'[t] = Matches[lhs + 1] /\ tpc'[t] = "match"
      BY <3>1 DEF IInv, TypeOK
    <3> QED
      BY <3>2, <3>3, <3>4, <3>5 DEF IInv, CandidatesInv
  <2>2. CASE ~(lhs < NumLHS)
    <3>1. UNCHANGED <<lhs, item, candidates>> /\ tpc' = [tpc EXCEPT ![t] = "finish"] /\ tpc[t] = "fetch"
      BY <2>2 DEF NextLHS, TaskGoto
    <3> QED
      BY <3>1 DEF IInv, TypeOK, CandidatesInv
  <2> QED
    BY <2>1, <2>2
<1>8. PartitionInv'
  <2>1. UNCHANGED <<queue, received>> /\ EachOnce'
    BY DEF IInv, PartitionInv, EachOnce, NextLHS, shared, got
  <2>2. CASE lhs < NumLHS
    <3>1. /\ lhs' = lhs + 1 /\ item' = [item EXCEPT ![t] = lhs + 1]
          /\ candidates' = [candidates EXCEPT ![t] = Matches[lhs + 1]]
      BY <2>2 DEF NextLHS
    <3>2. \A r : Held(r, t)' <=> r[1] = lhs + 1 /\ r[2] \in Matches[lhs + 1]
      BY <3>1 DEF IInv, TypeOK, Held
    <3>3. \A r, u : u \in Tasks /\ u # t => (Held(r, u)' <=> Held(r, u))
      BY <3>1 DEF IInv, TypeOK, Held
    <3>4. \A r : ~Held(r, t)
      BY DEF IInv, CandidatesInv, NextLHS, Held
    <3>5. \A r \in Results : \/ r[1] > lhs' \/ r \in received' \/ r \in Item(queue')
                             \/ \E u \in Tasks : Held(r, u)'
      <4> SUFFICES ASSUME NEW r \in Results
                   PROVE  \/ r[1] > lhs' \/ r \in received \/ r \in Item(queue)
                          \/ \E u \in Tasks : Held(r, u)'
        BY <2>1
      <4>1. r[1] \in Nat /\ r[2] \in Matches[r[1]] /\ lhs \in Nat
        BY DEF Results, LHS, IInv, TypeOK
      <4>2. CASE r[1] = lhs + 1
        BY <3>2, <4>1, <4>2
      <4>3. CASE r[1] # lhs + 1 /\ r[1] > lhs
        BY <3>1, <4>1, <4>3
      <4>4. CASE ~(r[1] > lhs)
        BY <3>3, <3>4, <4>4 DEF IInv, PartitionInv
      <4> QED
        BY <4>2, <4>3, <4>4
    <3>6. \A r \in received' \cup Item(queue') : r[1] <= lhs' /\ \A u \in Tasks : ~Held(r, u)'
      <4> SUFFICES ASSUME NEW r \in received \cup Item(queue)
                   PROVE  r[1] <= lhs' /\ \A u \in Tasks : ~Held(r, u)'
        BY <2>1
      <4>1. r[1] <= lhs /\ \A u \in Tasks : ~Held(r, u)
        BY DEF IInv, PartitionInv
      <4>2. r \in Results
        BY DEF IInv, TypeOK, Item
      <4>3. r[1] \in Nat /\ lhs \in Nat
        BY <4>2 DEF Results, LHS, IInv, TypeOK
      <4> QED
        BY <3>1, <3>2, <3>3, <4>1, <4>3
    <3> QED
      BY <2>1, <3>5, <3>6 DEF PartitionInv
  <2>3. CASE ~(lhs < NumLHS)
    BY <2>3 DEF IInv, PartitionInv, EachOnce, Held, NextLHS, shared, got
  <2> QED
    BY <2>2, <2>3
<1>9. EndIsComplete'
  BY DEF IInv, TypeOK, CallerInv, EndIsComplete, NextLHS, pool, shared, got, TaskGoto
<1> QED
  BY <1>1, <1>2, <1>3, <1>4, <1>5, <1>6, <1>7, <1>8, <1>9 DEF IInv

\* A candidate moves into the queue.
LEMMA MatchHolds ==
    ASSUME IInv, NEW t \in Tasks, Match(t) PROVE IInv'
<1> USE JoinAssumption
<1>0. PICK n \in candidates[t] :
         /\ candidates' = [candidates EXCEPT ![t] = @ \ {n}]
         /\ IF Included(item[t], n) /\ ~isShutdown
            THEN queue' = Append(queue, <<item[t], n>>) /\ tpc' = [tpc EXCEPT ![t] = "notify"]
            ELSE UNCHANGED <<queue, tpc>>
  BY DEF Match, TaskGoto
<1>1. TypeOK'
  <2>1. lhs' \in 0 .. NumLHS /\ active' \in 0 .. NumTasks /\ enqueued' \in 0 .. NumTasks /\ resets' \in Nat
    BY DEF IInv, TypeOK, Match, got
  <2>2. tasks' \in Seq(Tasks) /\ queue' \in Seq(Results) /\ received' \subseteq Results
    <3>1. queue' = IF Included(item[t], n) /\ ~isShutdown THEN Append(queue, <<item[t], n>>) ELSE queue
      BY <1>0
    <3>2. Included(item[t], n) => <<item[t], n>> \in Results
      BY MatchIsResult DEF IInv, TypeOK, Match
    <3>3. queue' \in Seq(Results)
      BY <3>1, <3>2, AppendItem DEF IInv, TypeOK
    <3> QED
      BY <3>3 DEF IInv, TypeOK, Match, pool, got
  <2>3. /\ run' \in BOOLEAN /\ isShutdown' \in BOOLEAN /\ ended' \in BOOLEAN
        /\ worker' \in [Workers -> Tasks \cup {None}]
        /\ tpc' \in [Tasks -> {"none", "queued", "check", "fetch", "match", "notify", "finish",
                              "shutdown", "done"}]
        /\ cpc' \in {"idle", "enqueue", "pop", "waiting", "reset", "destroy", "gone"}
    BY DEF IInv, TypeOK, Match, pool, shared, got, TaskGoto
  <2>4. item' \in [Tasks -> 0 .. NumLHS] /\ candidates' \in [Tasks -> SUBSET Nodes]
    BY DEF IInv, TypeOK, Match, pool, shared, got, TaskGoto
  <2> QED
    BY <2>1, <2>2, <2>3, <2>4 DEF TypeOK
<1>2. CallerInv'
  BY DEF IInv, TypeOK, CallerInv, TasksReady, Match, pool, shared, got, TaskGoto
<1>3. PoolInv'
  <2>1. UNCHANGED <<tasks, enqueued>> /\ tpc[t] \notin {"none", "queued", "done"} /\ tpc'[t] \notin {"none", "queued"}
    BY DEF IInv, TypeOK, Match, pool, TaskGoto
  <2>2. \A u \in Tasks : u # t => tpc'[u] = tpc[u]
    BY DEF IInv, TypeOK, Match, TaskGoto
  <2>3. t <= enqueued
    BY <2>1 DEF IInv, TypeOK, PoolInv, Tasks
  <2>4. \A u \in Tasks : /\ u > enqueued' => tpc'[u] \in {"none", "done"}
                         /\ u <= enqueued' => tpc'[u] # "none"
    BY <2>1, <2>2, <2>3 DEF IInv, TypeOK, PoolInv, Tasks
  <2>5. \A i \in DOMAIN tasks' : tpc'[tasks'[i]] = "queued"
    <3> SUFFICES ASSUME NEW i \in DOMAIN tasks PROVE tpc'[tasks[i]] = "queued"
      BY <2>1
    <3>1. tasks[i] \in Tasks /\ tpc[tasks[i]] = "queued"
      BY DEF IInv, TypeOK, PoolInv
    <3> QED
      BY <2>1, <2>2, <3>1
  <2> QED
    BY <2>1, <2>4, <2>5 DEF IInv, PoolInv
<1>4. CountInv'
  <2>1. Unfinished' = Unfinished
    BY DEF IInv, TypeOK, PoolInv, Unfinished, Match, TaskGoto
  <2>2. active' = active /\ Started' = Started
    BY DEF IInv, TypeOK, CallerInv, CountInv, Started, Match, got, TaskGoto
  <2>3. Started
    BY DEF IInv, TypeOK, CallerInv, CountInv, Started, Match, Tasks
  <2> QED
    BY <2>1, <2>2, <2>3 DEF IInv, CountInv
<1>5. ShutInv'
  BY DEF IInv, TypeOK, CallerInv, CountInv, ShutInv, Started, Match, pool, shared, got, TaskGoto
<1>6. ExhaustedInv'
  BY DEF IInv, TypeOK, CallerInv, PoolInv, ExhaustedInv, Match, pool, shared, got, TaskGoto
<1>7. CandidatesInv'
  <2>1. UNCHANGED <<lhs, item>> /\ tpc[t] = "match" /\ tpc'[t] \in {"match", "notify"}
    BY <1>0 DEF IInv, TypeOK, Match
  <2>2. candidates'[t] \subseteq candidates[t]
    BY <1>0 DEF IInv, TypeOK
  <2>3. \A u \in Tasks : u # t => candidates'[u] = candidates[u] /\ tpc'[u] = tpc[u]
    BY <1>0 DEF IInv, TypeOK
  <2> QED
    BY <2>1, <2>2, <2>3 DEF IInv, CandidatesInv
<1>8. PartitionInv'
  <2>0. PICK r0 : r0 = <<item[t], n>>
    OBVIOUS
  <2>1. UNCHANGED <<lhs, item, received>> /\ item[t] \in 1 .. lhs
    BY DEF IInv, CandidatesInv, Match, got
  <2>2. \A r : Held(r, t)' <=> Held(r, t) /\ r[2] # n
    BY <1>0, <2>1 DEF IInv, TypeOK, Held
  <2>3. \A r, u : u \in Tasks /\ u # t => (Held(r, u)' <=> Held(r, u))
    BY <1>0, <2>1 DEF IInv, TypeOK, Held
  <2>4. ~isShutdown
    BY NotYetShut DEF Match
  <2>5. \A u \in Tasks : u # t => ~Held(r0, u)
    BY <1>0, <2>0 DEF IInv, CandidatesInv, Held
  <2>6. CASE Included(item[t], n)
    <3>1. r0 \in Results /\ Held(r0, t)
      BY <2>0, <2>6, MatchIsResult DEF IInv, Match, Held
    <3>2. queue \in Seq(Results) /\ queue' = Append(queue, r0)
      BY <1>0, <2>0, <2>4, <2>6 DEF IInv, TypeOK
    <3>3. r0 \notin received /\ r0 \notin Item(queue)
      BY <3>1 DEF IInv, PartitionInv
    <3>4. Item(queue') = Item(queue) \cup {r0} /\ NoDuplicates(queue')
      <4>1. NoDuplicates(queue)
        BY DEF IInv, PartitionInv, EachOnce, NoDuplicates
      <4> QED
        BY <3>1, <3>2, <3>3, <4>1, AppendItem
    <3>5. \A r \in Results : Held(r, t) => r = r0 \/ Held(r, t)'
      BY <2>0, <2>2 DEF Held, Results
    <3>6. ~Held(r0, t)' /\ \A u \in Tasks : ~Held(r0, u)'
      <4>1. ~Held(r0, t)'
        BY <2>0, <2>2
      <4>2. ASSUME NEW u \in Tasks, u # t PROVE ~Held(r0, u)'
        BY <2>3, <2>5, <4>2
      <4> QED
        BY <4>1, <4>2
    <3>7. EachOnce'
      BY <2>1, <3>3, <3>4 DEF IInv, PartitionInv, EachOnce, NoDuplicates
    <3>8. \A r \in Results : \/ r[1] > lhs' \/ r \in received' \/ r \in Item(queue')
                             \/ \E u \in Tasks : Held(r, u)'
      BY <2>1, <2>3, <3>4, <3>5 DEF IInv, PartitionInv
    <3>9. \A r \in received' \cup Item(queue') : r[1] <= lhs' /\ \A u \in Tasks : ~Held(r, u)'
      <4> SUFFICES ASSUME NEW r \in received \cup Item(queue) \cup {r0}
                   PROVE  r[1] <= lhs /\ \A u \in Tasks : ~Held(r, u)'
        BY <2>1, <3>4
      <4>1. CASE r = r0
        <5>1. r[1] = item[t] /\ item[t] <= lhs
          BY <2>0, <2>1, <4>1 DEF IInv, TypeOK
        <5> QED
          BY <3>6, <4>1, <5>1
      <4>2. CASE r # r0
        BY <2>2, <2>3, <4>2 DEF IInv, PartitionInv
      <4> QED
        BY <4>1, <4>2
    <3> QED
      BY <3>7, <3>8, <3>9 DEF PartitionInv
  <2>7. CASE ~Included(item[t], n)
    <3>1. UNCHANGED queue
      BY <1>0, <2>7
    <3>2. \A r \in Results : Held(r, t) => Held(r, t)'
      BY <2>2, <2>7 DEF Held, Results
    <3>3. EachOnce'
      BY <2>1, <3>1 DEF IInv, PartitionInv, EachOnce
    <3>4. \A r \in Results : \/ r[1] > lhs' \/ r \in received' \/ r \in Item(queue')
                             \/ \E u \in Tasks : Held(r, u)'
      BY <2>1, <2>3, <3>1, <3>2 DEF IInv, PartitionInv
    <3>5. \A r \in received' \cup Item(queue') : r[1] <= lhs' /\ \A u \in Tasks : ~Held(r, u)'
      BY <2>1, <2>2, <2>3, <3>1 DEF IInv, PartitionInv
    <3> QED
      BY <3>3, <3>4, <3>5 DEF PartitionInv
  <2> QED
    BY <2>6, <2>7
<1>9. EndIsComplete'
  BY DEF IInv, TypeOK, CallerInv, EndIsComplete, Match, pool, shared, got, TaskGoto
<1> QED
  BY <1>1, <1>2, <1>3, <1>4, <1>5, <1>6, <1>7, <1>8, <1>9 DEF IInv

\* The caller is woken.
LEMMA NotifyHolds ==
    ASSUME IInv, NEW t \in Tasks, Notify(t) PROVE IInv'
<1> USE JoinAssumption
<1>1. TypeOK'
  BY DEF IInv, TypeOK, Tasks, Notify, pool, shared, got, TaskGoto, WakeCaller
<1>2. CallerInv'
  BY DEF IInv, TypeOK, CallerInv, TasksReady, Notify, pool, shared, got, TaskGoto, WakeCaller
<1>3. PoolInv'
  <2>1. UNCHANGED <<tasks, enqueued>> /\ tpc[t] \notin {"none", "queued", "done"} /\ tpc'[t] \notin {"none", "queued"}
    BY DEF IInv, TypeOK, Notify, pool, TaskGoto, WakeCaller
  <2>2. \A u \in Tasks : u # t => tpc'[u] = tpc[u]
    BY DEF IInv, TypeOK, Notify, TaskGoto, WakeCaller
  <2>3. t <= enqueued
    BY <2>1 DEF IInv, TypeOK, PoolInv, Tasks
  <2>4. \A u \in Tasks : /\ u > enqueued' => tpc'[u] \in {"none", "done"}
                         /\ u <= enqueued' => tpc'[u] # "none"
    BY <2>1, <2>2, <2>3 DEF IInv, TypeOK, PoolInv, Tasks
  <2>5. \A i \in DOMAIN tasks' : tpc'[tasks'[i]] = "queued"
    <3> SUFFICES ASSUME NEW i \in DOMAIN tasks PROVE tpc'[tasks[i]] = "queued"
      BY <2>1
    <3>1. tasks[i] \in Tasks /\ tpc[tasks[i]] = "queued"
      BY DEF IInv, TypeOK, PoolInv
    <3> QED
      BY <2>1, <2>2, <3>1
  <2> QED
    BY <2>1, <2>4, <2>5 DEF IInv, PoolInv
<1>4. CountInv'
  <2>1. Unfinished' = Unfinished
    BY DEF IInv, TypeOK, PoolInv, Unfinished, Notify, TaskGoto, WakeCaller
  <2>2. active' = active /\ Started' = Started
    BY DEF IInv, TypeOK, CallerInv, CountInv, Started, Notify, got, TaskGoto, WakeCaller
  <2>3. Started
    BY DEF IInv, TypeOK, CallerInv, CountInv, Started, Notify, Tasks
  <2> QED
    BY <2>1, <2>2, <2>3 DEF IInv, CountInv
<1>5. ShutInv'
  BY DEF IInv, TypeOK, CallerInv, CountInv, ShutInv, Started, Notify, pool, shared, got, TaskGoto, WakeCaller
<1>6. ExhaustedInv'
  BY DEF IInv, TypeOK, CallerInv, PoolInv, ExhaustedInv, Notify, pool, shared, got, TaskGoto, WakeCaller
<1>7. CandidatesInv'
  BY DEF IInv, TypeOK, CallerInv, PoolInv, CandidatesInv, TasksReady, Notify, pool, shared, got, TaskGoto, WakeCaller
<1>8. PartitionInv'
  BY DEF IInv, TypeOK, CallerInv, CandidatesInv, PartitionInv, EachOnce, Held, Notify, pool, shared, got, TaskGoto, WakeCaller
<1>9. EndIsComplete'
  BY DEF IInv, TypeOK, CallerInv, EndIsComplete, Notify, pool, shared, got, TaskGoto, WakeCaller
<1> QED
  BY <1>1, <1>2, <1>3, <1>4, <1>5, <1>6, <1>7, <1>8, <1>9 DEF IInv

\* All candidates are looked at.
LEMMA MatchesEndHolds ==
    ASSUME IInv, NEW t \in Tasks, MatchesEnd(t) PROVE IInv'
<1> USE JoinAssumption
<1>1. TypeOK'
  BY DEF IInv, TypeOK, Tasks, MatchesEnd, pool, shared, got, TaskGoto
<1>2. CallerInv'
  BY DEF IInv, TypeOK, CallerInv, TasksReady, MatchesEnd, pool, shared, got, TaskGoto
<1>3. PoolInv'
  <2>1. UNCHANGED <<tasks, enqueued>> /\ tpc[t] \notin {"none", "queued", "done"} /\ tpc'[t] \notin {"none", "queued"}
    BY DEF IInv, TypeOK, MatchesEnd, pool, TaskGoto
  <2>2. \A u \in Tasks : u # t => tpc'[u] = tpc[u]
    BY DEF IInv, TypeOK, MatchesEnd, TaskGoto
  <2>3. t <= enqueued
    BY <2>1 DEF IInv, TypeOK, PoolInv, Tasks
  <2>4. \A u \in Tasks : /\ u > enqueued' => tpc'[u] \in {"none", "done"}
                         /\ u <= enqueued' => tpc'[u] # "none"
    BY <2>1, <2>2, <2>3 DEF IInv, TypeOK, PoolInv, Tasks
  <2>5. \A i \in DOMAIN tasks' : tpc'[tasks'[i]] = "queued"
    <3> SUFFICES ASSUME NEW i \in DOMAIN tasks PROVE tpc'[tasks[i]] = "queued"
      BY <2>1
    <3>1. tasks[i] \in Tasks /\ tpc[tasks[i]] = "queued"
      BY DEF IInv, TypeOK, PoolInv
    <3> QED
      BY <2>1, <2>2, <3>1
  <2> QED
    BY <2>1, <2>4, <2>5 DEF IInv, PoolInv
<1>4. CountInv'
  BY DEF IInv, TypeOK, CallerInv, PoolInv, CountInv, Started, Unfinished, TasksReady, MatchesEnd, pool, shared, got, TaskGoto
<1>5. ShutInv'
  BY DEF IInv, TypeOK, CallerInv, CountInv, ShutInv, Started, MatchesEnd, pool, shared, got, TaskGoto
<1>6. ExhaustedInv'
  BY DEF IInv, TypeOK, CallerInv, PoolInv, ExhaustedInv, MatchesEnd, pool, shared, got, TaskGoto
<1>7. CandidatesInv'
  BY DEF IInv, TypeOK, CallerInv, PoolInv, CandidatesInv, TasksReady, MatchesEnd, pool, shared, got, TaskGoto
<1>8. PartitionInv'
  BY DEF IInv, TypeOK, CallerInv, CandidatesInv, PartitionInv, EachOnce, Held, MatchesEnd, pool, shared, got, TaskGoto
<1>9. EndIsComplete'
  BY DEF IInv, TypeOK, CallerInv, EndIsComplete, MatchesEnd, pool, shared, got, TaskGoto
<1> QED
  BY <1>1, <1>2, <1>3, <1>4, <1>5, <1>6, <1>7, <1>8, <1>9 DEF IInv

\* The task is counted down; the last one shuts down.
LEMMA FinishHolds ==
    ASSUME IInv, NEW t \in Tasks, Finish(t) PROVE IInv'
<1> USE JoinAssumption
<1>0. active = Cardinality(Unfinished) /\ active # 0 /\ Unfinished' = Unfinished \ {t} /\ Started /\ t <= enqueued
  <2>1. Started
    BY DEF IInv, CountInv, Finish
  <2>2. t <= enqueued
    <3>1. t \in Nat /\ enqueued \in Nat /\ tpc[t] = "finish"
      BY DEF IInv, TypeOK, Finish, Tasks
    <3>2. ~(t > enqueued)
      BY <3>1 DEF IInv, PoolInv
    <3> QED
      BY <3>1, <3>2
  <2>3. t \in Unfinished
    BY DEF Unfinished, Finish
  <2>4. active = Cardinality(Unfinished) /\ active # 0
    BY <2>1, <2>3, CountTasks DEF IInv, CountInv
  <2>5. tpc' = [tpc EXCEPT ![t] = IF active' = 0 THEN "shutdown" ELSE "done"] /\ UNCHANGED enqueued
    BY DEF Finish, TaskGoto
  <2>6. Unfinished' = Unfinished \ {t}
    BY <2>2, <2>5 DEF IInv, TypeOK, Unfinished, Tasks
  <2> QED
    BY <2>1, <2>2, <2>4, <2>6
<1>1. TypeOK'
  <2>1. lhs' \in 0 .. NumLHS /\ active' \in 0 .. NumTasks /\ enqueued' \in 0 .. NumTasks /\ resets' \in Nat
    <3>1. active \in 1 .. NumTasks
      BY <1>0 DEF IInv, TypeOK
    <3> QED
      BY <3>1 DEF IInv, TypeOK, Finish, got
  <2>2. tasks' \in Seq(Tasks) /\ queue' \in Seq(Results) /\ received' \subseteq Results
    BY DEF IInv, TypeOK, Finish, pool, shared, got, TaskGoto, Release
  <2>3. /\ run' \in BOOLEAN /\ isShutdown' \in BOOLEAN /\ ended' \in BOOLEAN
        /\ worker' \in [Workers -> Tasks \cup {None}]
        /\ tpc' \in [Tasks -> {"none", "queued", "check", "fetch", "match", "notify", "finish",
                              "shutdown", "done"}]
        /\ cpc' \in {"idle", "enqueue", "pop", "waiting", "reset", "destroy", "gone"}
    BY DEF IInv, TypeOK, Finish, pool, shared, got, TaskGoto, Release
  <2>4. item' \in [Tasks -> 0 .. NumLHS] /\ candidates' \in [Tasks -> SUBSET Nodes]
    BY DEF IInv, TypeOK, Finish, pool, shared, got, TaskGoto, Release
  <2> QED
    BY <2>1, <2>2, <2>3, <2>4 DEF TypeOK
<1>2. CallerInv'
  BY DEF IInv, TypeOK, CallerInv, TasksReady, Finish, pool, shared, got, TaskGoto, Release
<1>3. PoolInv'
  <2>1. UNCHANGED <<tasks, enqueued>> /\ tpc[t] \notin {"none", "queued", "done"} /\ tpc'[t] \notin {"none", "queued"}
    BY DEF IInv, TypeOK, Finish, pool, TaskGoto, Release
  <2>2. \A u \in Tasks : u # t => tpc'[u] = tpc[u]
    BY DEF IInv, TypeOK, Finish, TaskGoto, Release
  <2>3. t <= enqueued
    BY <2>1 DEF IInv, TypeOK, PoolInv, Tasks
  <2>4. \A u \in Tasks : /\ u > enqueued' => tpc'[u] \in {"none", "done"}
                         /\ u <= enqueued' => tpc'[u] # "none"
    BY <2>1, <2>2, <2>3 DEF IInv, TypeOK, PoolInv, Tasks
  <2>5. \A i \in DOMAIN tasks' : tpc'[tasks'[i]] = "queued"
    <3> SUFFICES ASSUME NEW i \in DOMAIN tasks PROVE tpc'[tasks[i]] = "queued"
      BY <2>1
    <3>1. tasks[i] \in Tasks /\ tpc[tasks[i]] = "queued"
      BY DEF IInv, TypeOK, PoolInv
    <3> QED
      BY <2>1, <2>2, <3>1
  <2> QED
    BY <2>1, <2>4, <2>5 DEF IInv, PoolInv
<1>4. CountInv'
  <2>1. t \in Unfinished
    BY DEF Finish, Unfinished
  <2>3. Cardinality(Unfinished \ {t}) = Cardinality(Unfinished) - 1
    BY <2>1, CountTasks, FS_RemoveElement
  <2>4. active' = active - 1
    BY DEF Finish
  <2>2. Started' = Started
    BY DEF Started, Finish
  <2> QED
    BY <1>0, <2>2, <2>3, <2>4 DEF CountInv
<1>5. ShutInv'
  <2>1. isShutdown => active = 0
    BY DEF IInv, ShutInv
  <2>2. Started'
    BY <1>0 DEF Started, Finish
  <2> QED
    BY <1>0, <2>1, <2>2 DEF ShutInv, Finish
<1>6. ExhaustedInv'
  BY DEF IInv, TypeOK, CallerInv, PoolInv, ExhaustedInv, Finish, pool, shared, got, TaskGoto, Release
<1>7. CandidatesInv'
  <2>1. UNCHANGED <<lhs, item, candidates>> /\ tpc[t] = "finish"
    BY DEF Finish
  <2>2. tpc'[t] \in {"shutdown", "done"} /\ \A u \in Tasks : u # t => tpc'[u] = tpc[u]
    BY DEF IInv, TypeOK, Finish, TaskGoto
  <2> QED
    BY <2>1, <2>2 DEF IInv, CandidatesInv
<1>8. PartitionInv'
  BY DEF IInv, TypeOK, CallerInv, CandidatesInv, PartitionInv, EachOnce, Held, Finish, pool, shared, got, TaskGoto, Release
<1>9. EndIsComplete'
  BY DEF IInv, TypeOK, CallerInv, EndIsComplete, Finish, pool, shared, got, TaskGoto, Release
<1> QED
  BY <1>1, <1>2, <1>3, <1>4, <1>5, <1>6, <1>7, <1>8, <1>9 DEF IInv

\* The caller is woken for the last time.
LEMMA NotifyAllHolds ==
    ASSUME IInv, NEW t \in Tasks, NotifyAll(t) PROVE IInv'
<1> USE JoinAssumption
<1>1. TypeOK'
  BY DEF IInv, TypeOK, Tasks, NotifyAll, pool, shared, got, TaskGoto, WakeCaller, Release
<1>2. CallerInv'
  BY DEF IInv, TypeOK, CallerInv, TasksReady, NotifyAll, pool, shared, got, TaskGoto, WakeCaller, Release
<1>3. PoolInv'
  <2>1. UNCHANGED <<tasks, enqueued>> /\ tpc[t] \notin {"none", "queued", "done"} /\ tpc'[t] \notin {"none", "queued"}
    BY DEF IInv, TypeOK, NotifyAll, pool, TaskGoto, WakeCaller, Release
  <2>2. \A u \in Tasks : u # t => tpc'[u] = tpc[u]
    BY DEF IInv, TypeOK, NotifyAll, TaskGoto, WakeCaller, Release
  <2>3. t <= enqueued
    BY <2>1 DEF IInv, TypeOK, PoolInv, Tasks
  <2>4. \A u \in Tasks : /\ u > enqueued' => tpc'[u] \in {"none", "done"}
                         /\ u <= enqueued' => tpc'[u] # "none"
    BY <2>1, <2>2, <2>3 DEF IInv, TypeOK, PoolInv, Tasks
  <2>5. \A i \in DOMAIN tasks' : tpc'[tasks'[i]] = "queued"
    <3> SUFFICES ASSUME NEW i \in DOMAIN tasks PROVE tpc'[tasks[i]] = "queued"
      BY <2>1
    <3>1. tasks[i] \in Tasks /\ tpc[tasks[i]] = "queued"
      BY DEF IInv, TypeOK, PoolInv
    <3> QED
      BY <2>1, <2>2, <3>1
  <2> QED
    BY <2>1, <2>4, <2>5 DEF IInv, PoolInv
<1>4. CountInv'
  <2>1. Unfinished' = Unfinished
    BY DEF IInv, TypeOK, PoolInv, Unfinished, NotifyAll, TaskGoto, WakeCaller, Release
  <2>2. active' = active /\ Started' = Started
    BY DEF IInv, TypeOK, CallerInv, CountInv, Started, NotifyAll, got, TaskGoto, WakeCaller, Release
  <2>3. Started
    BY DEF IInv, TypeOK, CallerInv, CountInv, Started, NotifyAll, Tasks
  <2> QED
    BY <2>1, <2>2, <2>3 DEF IInv, CountInv
<1>5. ShutInv'
  BY DEF IInv, TypeOK, CallerInv, CountInv, ShutInv, Started, NotifyAll, pool, shared, got, TaskGoto, WakeCaller, Release
<1>6. ExhaustedInv'
  BY DEF IInv, TypeOK, CallerInv, PoolInv, ExhaustedInv, NotifyAll, pool, shared, got, TaskGoto, WakeCaller, Release
<1>7. CandidatesInv'
  <2>1. UNCHANGED <<lhs, item, candidates>>
    BY DEF NotifyAll
  <2>2. \A u \in Tasks : tpc'[u] \in {"match", "notify"} <=> tpc[u] \in {"match", "notify"}
    BY DEF IInv, TypeOK, PoolInv, CallerInv, NotifyAll, Tasks, TaskGoto, WakeCaller, Release
  <2> QED
    BY <2>1, <2>2 DEF IInv, CandidatesInv
<1>8. PartitionInv'
  BY DEF IInv, TypeOK, CallerInv, CandidatesInv, PartitionInv, EachOnce, Held, NotifyAll, pool, shared, got, TaskGoto, WakeCaller, Release
<1>9. EndIsComplete'
  BY DEF IInv, TypeOK, CallerInv, EndIsComplete, NotifyAll, pool, shared, got, TaskGoto, WakeCaller, Release
<1> QED
  BY <1>1, <1>2, <1>3, <1>4, <1>5, <1>6, <1>7, <1>8, <1>9 DEF IInv

\* The invariant is inductive.
LEMMA NextHolds == IInv /\ [Next]_vars => IInv'
<1> SUFFICES ASSUME IInv, [Next]_vars PROVE IInv'
  OBVIOUS
<1>1. CASE UNCHANGED vars
  <2> USE <1>1 DEF IInv, vars, pool, shared, got
  <2>1. TypeOK' /\ CallerInv' /\ EndIsComplete'
    BY DEF TypeOK, CallerInv, EndIsComplete, TasksReady
  <2>2. PoolInv' /\ ExhaustedInv'
    BY DEF PoolInv, ExhaustedInv
  <2>3. CountInv' /\ ShutInv'
    BY DEF CountInv, ShutInv, Started, Unfinished
  <2>4. CandidatesInv'
    BY DEF CandidatesInv
  <2>5. PartitionInv'
    BY DEF PartitionInv, EachOnce, Held
  <2> QED
    BY <2>1, <2>2, <2>3, <2>4, <2>5
<1>2. CASE Gone
  BY <1>1, <1>2 DEF Gone
<1>3. CASE CallNext \/ Stop \/ CallerStep
  BY <1>3, CallNextHolds, StopHolds, EnqueueHolds, PopHolds, ResetHolds, DestroyHolds
     DEF CallerStep
<1>4. ASSUME NEW w \in Workers, TakeTask(w) PROVE IInv'
  BY <1>4, TakeTaskHolds
<1>5. ASSUME NEW t \in Tasks, TaskStep(t) PROVE IInv'
  BY <1>5, CheckRunHolds, NextLHSHolds, MatchHolds, NotifyHolds, MatchesEndHolds, FinishHolds,
     NotifyAllHolds DEF TaskStep
<1> QED
  BY <1>1, <1>2, <1>3, <1>4, <1>5 DEF Next

LEMMA InvariantHolds == Spec => []IInv
  BY InitHolds, NextHolds, PTL DEF Spec

----------------------------------------------------------------------------
\* The types of the join's state.
THEOREM TypeCorrect == Spec => []TypeOK
<1>1. IInv => TypeOK
  BY DEF IInv
<1> QED
  BY <1>1, InvariantHolds, PTL

\* The end is reported when all results have been handed out.
THEOREM NoResultIsLost == Spec => []EndIsComplete
<1>1. IInv => EndIsComplete
  BY DEF IInv
<1> QED
  BY <1>1, InvariantHolds, PTL

\* No result is handed out twice.
THEOREM NoResultIsDoubled == Spec => []EachOnce
<1>1. IInv => EachOnce
  BY DEF IInv, PartitionInv
<1> QED
  BY <1>1, InvariantHolds, PTL

\* Where the join is gone, or reset, no task of it is left.
THEOREM TasksAreJoined == Spec => []NoTaskOutlives
<1>1. IInv => NoTaskOutlives
  <2> SUFFICES ASSUME IInv, TasksReady, tasks # <<>> PROVE FALSE
    BY DEF NoTaskOutlives, IInv, CallerInv, TasksReady
  <2>1. 1 \in DOMAIN tasks /\ tasks[1] \in Tasks
    BY DEF IInv, TypeOK
  <2> QED
    BY <2>1 DEF IInv, PoolInv, TasksReady
<1> QED
  BY <1>1, InvariantHolds, PTL

\* The join implements ResultStream.
THEOREM Refinement == Spec => ImplementsIterator
<1>1. Init => Stream!Init
  BY DEF Init, Stream!Init
<1>2. IInv /\ [Next]_vars => [Stream!Next]_<<received, ended>>
  <2> SUFFICES ASSUME IInv, Next, <<received, ended>>' # <<received, ended>>
               PROVE  Stream!Next
    BY DEF vars, got
  <2>1. CASE Pop
    <3>1. CASE queue # <<>>
      <4>1. Head(queue) \in Results /\ Head(queue) \in Item(queue)
        BY <3>1, TailItem DEF IInv, TypeOK
      <4>2. Head(queue) \notin received
        BY <4>1 DEF IInv, PartitionInv, EachOnce
      <4>3. ~ended
        BY <4>1, <4>2 DEF IInv, EndIsComplete
      <4> QED
        BY <2>1, <3>1, <4>1, <4>2, <4>3 DEF Pop, Stream!Next, Stream!Deliver
    <3>2. CASE queue = <<>>
      <4>1. ended' = TRUE /\ UNCHANGED received
        BY <2>1, <3>2 DEF Pop
      <4>2. received = Results
        BY <2>1, <4>1, PopHolds DEF IInv, EndIsComplete
      <4> QED
        BY <4>1, <4>2 DEF Stream!Next, Stream!End
    <3> QED
      BY <3>1, <3>2
  <2>2. CASE Reset
    BY <2>2 DEF Reset, Stream!Next, Stream!Restart
  <2>3. Pop \/ Reset
    BY DEF Next, CallerStep, TaskStep, CallNext, Stop, Enqueue, Destroy, TakeTask, CheckRun,
       NextLHS, Match, Notify, MatchesEnd, Finish, NotifyAll, Gone, vars, got
  <2> QED
    BY <2>1, <2>2, <2>3
<1> QED
  BY <1>1, <1>2, InvariantHolds, PTL DEF Spec, ImplementsIterator, Stream!Spec
=============================================================================
