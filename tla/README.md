# graphANNIS in TLA+

graphANNIS (ANNIS 4) keeps linguistic corpora as graphs: nodes with labels, and
edges grouped into *components*, each held by a *graph storage*. The C++ library
under `src/src/lib/annis` answers queries on them, applies updates, and saves
every corpus to a directory of its own. The modules in this directory model the
parts of the library whose correctness depends on order: persistence and
crashes, locks, threads, the update of redundant indexes, the three
implementations of a graph storage, and the plans of queries.

## 1. The system: an inventory

| Component | State | Operations | What is hard |
|---|---|---|---|
| `CorpusStorageManager` (`api/corpusstoragemanager.*`) | `corpusCache` (name → `DBLoader`), `writerThreads` (name → thread), one mutex each | `applyUpdate`, `importCorpus`, `importRelANNIS`, `exportCorpus`, `deleteCorpus`, `info`, `count`, `find`, `subgraph*`, `list`; the background writer; the garbage collection callback | several API threads and writers per corpus; kills between any two file operations; lock order |
| `DBLoader` (`dbloader.h`) | `dbLoaded`, a `DB`, a shared/upgrade/exclusive lock | `get`, `getFullyLoaded`, `unload`, `status` | lazy loading under different lock modes; the `onload` callback runs while the lock is held |
| `DB` (`db.*`) | strings, node labels, graph storages, `notLoadedLocations`, `currentChangeID` | `load`, `save`, `update`, `createWritableGraphStorage`, `convertComponent` | recovery from backup and log; updates keep several indexes consistent |
| `AnnoStorage`, `StringStorage` | labels by item, items by label, counts; string ids | add, delete, look up, estimate | redundant indexes must agree |
| Graph storages (`graphstorage/*`) | edges, inverse edges, edge labels; pre/post orders; chains | `addEdge`, `deleteEdge`, `deleteNode`, `copy`, `isConnected`, `distance`, `findConnected` | two directions must agree; three implementations of one meaning |
| Joins (`join/*`) | two iterators, caches, result queue, tasks | `next`, `reset`, destruction | background tasks, a blocking queue, a shared pool |
| `ThreadPool`, `SharedQueue` (`util/*`) | task list, workers; queue, shut-down flag | `enqueue`, destruction; `push`, `pop`, `shutdown` | blocking, wake-ups, end of work |
| `Plan`, `Query`, `SingleAlternativeQuery` | plan tree, current result | joining of sub-plans, cost estimates, parallelisation | which node is at which position; how many tasks run |
| Operators (`operators/*`), searches (`annosearch/*`) | none or an iterator | `filter`, `retrieveMatches`, `next` | agreement of `filter` and `retrieveMatches` |
| `DBCache` (`dbcache.*`) | corpora by key, sizes, last access | `get`, `release`, `cleanup` | limit on the total size |
| `JSONQueryParser`, `RelANNISLoader` | none | parse, load | lazy loading of components under an upgraded lock |
| `wrapper.*`, `runner/`, `benchmarks/`, Java binding | none | forwarding, console, measurement | nothing of their own |

How they interact. An API call asks the manager for the `DBLoader` of a corpus
(under `mutex_corpusCache`), locks it in the mode it needs, and calls `get` or
`getFullyLoaded`, which may load the corpus and then runs the garbage collection
callback (under `mutex_corpusCache` again), which may unload other corpora whose
lock it gets without waiting. `applyUpdate` first stops the corpus's background
writer (under `mutex_writerThreads`), changes the `DB` under the exclusive lock,
writes a log file and starts a new writer thread, which queues for the same
lock, moves `current` to `backup`, saves, and deletes the backup. `DB::load`
prefers a backup, replays a log, and repairs `current`.

What makes each component correct:

* persistence: whatever the process was doing when it was killed, the next load
  finds a complete corpus, with every update that had returned;
* locking: no call waits for ever; no corpus is read while it is loaded or changed;
* the caches: what is in memory equals what was loaded and applied;
* the graph: labels and their inverse index, edges and inverse edges agree, and
  an update means the same on every implementation of a graph storage;
* joins: every result exactly once, then the end, for any number of tasks;
* plans: the parallel plan has the results of the sequential one and never needs
  more threads than there are.

## 2. The modules

| Module | Models | Kind |
|---|---|---|
| `CorpusPersistence` | one corpus directory, its backup and log, `applyUpdate`, the background writer, `DB::load` and `DB::save`, imports, unloading, kills | component |
| `CorpusLocking` | `mutex_corpusCache`, `mutex_writerThreads`, the lock and the load status of every `DBLoader`; queries, updates with their background writers, exports, imports, `info`, the garbage collection | component |
| `ParallelJoin` | `ThreadIndexJoin` on a `ThreadPool` and a `SharedQueue` | component |
| `ResultStream` | what an iterator over results promises | abstract; implemented by `ParallelJoin` |
| `NestedLoop` | `NestedLoopJoin::next`, `ThreadNestedLoop::nextTuple` (the source of tuples of the threaded nested loop) | component |
| `GraphUpdate` | `DB::update` on node labels and graph storages | component, uses `AnnoStorage` twice |
| `AnnoStorage` | labels, their inverse index, counts | operators, taken in by `INSTANCE ... WITH` |
| `LabelledGraph` | what `graphupdate.h` says of an update | abstract; implemented by `GraphUpdate` |
| `DFS` | `CycleSafeDFS` and `UniqueDFS`, step by step | component, extended by `GraphStorages` |
| `GraphStorages` | one component: statistics, the choice of an implementation, the copy, and what each implementation answers | composes `DFS` with three storages |
| `QueryPlan` | `find`: the query as parsed, the optimisations, `Plan::join`, background tasks, alternatives, the page | component |
| `AnnoStorageProofs` | lemmas about the operators of `AnnoStorage`, for `GraphUpdateProofs` | TLAPS |
| the other `...Proofs` | theorems about the module they extend | TLAPS |
| `MC...` | values of the constants for TLC | model checking |

In the modules, an operator that is named in a comment as a *mutant* is a
plausible slip in the code (a dropped guard, a forgotten reset). It is not part
of any specification: it replaces the definition it stands before to show that
a property notices.

### CorpusPersistence

The content of a corpus is the set of updates and imports it reflects. A
directory (`current`, `backup`) has a content, a log of at most one update, and
a flag for a save that is not complete. `role`, `subject` and `phase` say who
holds the `DBLoader` lock and what it does next; everything below that lock is
sequential, and every file operation is a step of its own, so that a kill falls
between any two. `call`, `writer`, `handle`, `joiner` and `interrupted` are the
API calls, the writer threads, the entry of `writerThreads`, the call that joins
it (and owns `mutex_writerThreads`) and boost's pending interruptions.

| In the module | In the code |
|---|---|
| `NoWriterToKill`, `InterruptWriter`, `JoinWriter` | `killBackgroundWriter` |
| `UpdateLock` .. `FlushLog`, `UpdateFails`, `LogWriteFails`, `StartWriterFails` | `applyUpdate`, and its handler after each of the three steps that may throw |
| `WriterLock`, `MoveToBackup`, `PurgeBegins`, `PurgeEnds`, `WriterInterrupted` | `startBackgroundWriter` |
| `LoadCurrent`, `LoadBackup`, `LoadThrows`, `DropBackup` | `DB::load`, `DBLoader::get` |
| `CreateCurrent` .. `CloseData` | `DB::save` |
| `ImportLock`, `ImportLoad`, `ImportReturns` | `importCorpus`, `importRelANNIS` |
| `ReadLock`, `ReadReturns`, `Unload` | a query that loads the corpus, the collector |

`served` (operations that returned), `checkpoint` (the content of the last save
that was complete) and `atRisk` are history variables. `atRisk` names precisely
the updates a crash may undo although they returned: the log is overwritten by
the next update before any save completed, it is written next to a backup that
`DB::load` prefers, or it is skipped because change ids restart at 1 while
`currentChangeID` survives `clear()`.

`spoiled` says that a kill fell into one of the `Windows`, or that the archive
threw after the old log had been truncated (`LogWriteFails`): then a torn log lies
where `DB::load` looks, and `RecoveryIntact`, `CheckpointSurvives`,
`LostOnlyIfAtRisk` and `MemoryServes` promise nothing more. `RepairableByHand` does.

Assumed: a kill of the process, not a loss of power (what was written and closed
stays); an imported corpus directory is whole and has no log; an update has at
least one change; files other than the log are written without errors.
`CrashPoints` names the places where a kill may fall; `MaxEvents` bounds calls,
kills and unloads together.

### CorpusLocking

`pc` walks a call through lookup, lock, load, callback (the collector), use and
unlock. `LockExclusive`, `LockUpgrade`, `LockShared`, `UpgradeToExclusive`,
`Unlock` and `blocked` are `boost::shared_mutex`, modelled from its use and its
documented behaviour (external).

| Kind of call | Lock | Loads with | Besides |
|---|---|---|---|
| `query` (`count`, `find`, `subgraph`) | upgrade | `get` | upgrades to load a component (`NeedComponent`, `BeginExtend`, `EndExtend`) |
| `update` (`applyUpdate`) | exclusive | `getFullyLoaded` | first `KillWriter`, `JoinWriter`; then `Change`, `StartWriter`, or the exception that leads past it |
| `write` (the background writer) | exclusive | `getFullyLoaded` | started with `lock` as its first step; may end early while it is joined (`Interrupted`) |
| `export` (`exportCorpus`) | exclusive | `getFullyLoaded` | |
| `import` (`importCorpus`, `importRelANNIS`) | exclusive | `get` | `Change` replaces the content |
| `info` | shared, under `mutex_corpusCache` | nothing | |

A writer is a thread of its own, `handle` the entry of `writerThreads`, and
`writersMutex` is held from `KillWriter` to `JoinWriter`, as the code holds it over
`join()`. The collector measures, sorts and unloads with `try_lock` as the code
does; sizes are small numbers per corpus and status. `Rest` stutters after the
bounded number of calls. `deleteCorpus` is not in the module (section 5).

`CircularWait` says that threads wait for each other for ever, one of them with a
mutex of the manager: `info` (line 514) for a corpus whose holder wants the map, or
`killBackgroundWriter` (line 574) for a writer that waits for a corpus whose holder
wants `mutex_writerThreads` (line 526). Both happen, see section 3 and
`PersistenceJoin.cfg`; `AllReturn` says that nothing else keeps a call.

### ParallelJoin, ResultStream, NestedLoop

The caller, the pool's workers and the tasks are interleaved between any two
critical sections: `CallNext`/`Enqueue` start the tasks, `Pop` is `SharedQueue::pop`
with its wait, `NextLHS` runs under `mutex_lhs`, `Match`/`Notify` are `push`, and
`Finish`/`NotifyAll` the countdown of `activeBackgroundTasks` with `shutdown`.
`Stop`, `Reset` and `Destroy` are `reset()` and the destructor. The pool lives
longer than its join; operators do not throw.

`NestedLoop` is sequential: in `ThreadNestedLoop` it runs under `mutex_fetch`. A
materializing `NestedLoopJoin` is reset at its end only, as the loop around it does.

### GraphUpdate, AnnoStorage, LabelledGraph

One action per event of a `GraphUpdate`. A node has an id; its name is a label,
and `getNodeID` goes through the inverse index, as in the code. `gs[c]` is the
graph storage of component `c`: edges, inverse edges, edge labels, and whether it
is writable. An `AnnoStorage` is a value; its operators return the storage after
the call. Strings are model values. `promises` is chosen at the start: what the
client is careful about. The code asks for none of it, so each promise is the
condition of the properties that need it, which name it:

| Promise | Means | Condition of |
|---|---|---|
| `reserved` | no event about a label of a node is about `annis::node_name` or `annis::node_type` (`EventKeys`) | `NamesFindNodes`, `SourcesExist`, `ImplementsGraph` |
| `edges` | a node is deleted when no edge leads to it, a component that was optimised is left alone, an edge has one label with a key | `ImplementsGraph` |
| `labels` | a label is added where there is none with its key, and deleted where no other item has the same | the second half of `SearchAgrees` |

`TypeOK`, `MirrorEdges`, `EdgeLabelsOnEdges` and the first half of `SearchAgrees`
hold for every client, also for one that renames nodes by label events: among the
values of labels in the runs are a type (`T`) and a name (`b`).

### DFS, GraphStorages

`DFS` has the iterator's fields; `Enter` is a turn of `next` that enters a node
and `RejectCycle` one that does not. `GraphStorages` uses it wherever the code
does: to calculate statistics, to copy a component and to answer questions on an
adjacency list. `storage` is what `DB` holds for the component.

| In the module | In the code |
|---|---|
| `convertComponent`, `BeginStatistics` .. `EndStatistics` | `DB::convertComponent`, `AdjacencyListStorage::calculateStatistics` |
| `getImplByHeuristics`, `getPrePostOrderBySize`, `LinearBySize` | `GraphStorageRegistry` |
| `BeginCopy`, `CopyRoot`, `Copy`, `EndCopy` | `PrePostOrderStorage::copy`, `LinearStorage::copy`, `AdjacencyListStorage::copy` |
| `findConnected`, `isConnected`, `distanceOf`, `Search` .. `EndSearch` | the operations of these names |
| `deleteEdge` | an event that deletes an edge and leaves `stat.valid` as it was |

Orders, levels and positions wrap around at the width of the template parameter
that the registry chose; the widths are constants, so that an instance of five
nodes can fill an integer type. `measured` is a history variable: the edges the
statistics were taken of, and how many deletions had happened by then. `Informed`
says that they still describe the component: nothing was deleted since, or the
roots led to everything that was measured.

Assumed (`WidthsAssumption`): the widest types are wide enough for the nodes of a
corpus, since the code checks none of them. No distance reaches `Far`, and
`Uint32Max` holds twice the visits of all nodes at the ratio of visits up to which
an order is chosen at all, because the copy gives two numbers to every way to a
node.

### QueryPlan

A stream of results is the set of what an iterator will return; what a module
wants to know of a join is which tuples it lets through and where the match of
a query node stands in them. `InternalInit` makes every choice the optimiser may
make (the order of the operators, switched operands of commutative ones, searches
replaced by edge label searches), because costs are estimates and any plan can be
the cheapest. `JoinOperator` is one turn of `createPlan` with `Plan::join`,
`AssignTasks` one of `getOptimizedParallelizationMapping`, with a `size_t` that
wraps around at `SizeMax`; it chooses among the nested loops and index joins anywhere
in the tree, since the recursive calls of `findLargestProcessedInStep` leave
`includeSeed` at its default (`plan.h:145`). `Answer` is `Query::next` with `executeStep`, and
`StopAtPage`, `CallNext`, `OpenCorpus` are the loops of `find`.

`Wanted` says what a query asks for, from its text alone. `total` counts the
answers of the alternatives that were begun, so that `PageIsRight` is about the count
of what they return; that alternatives are begun in turn is the shape of `QueryEnds`
and `NextAlternative`. `Tame` names the queries
whose answer does not depend on the plan; what happens with the others is in
section 5. Assumed: that `filter` and `retrieveMatches` of an operator agree, and
that an alternative has a query node.

## 3. What the runs show

Every run is exhaustive within its bounds. The bounds are the smallest with which
all the interleavings named as hazards happen: two calls that race, an update
before and one after a kill, a task more than there are threads, a value that
does not fit its integer type.

| Run | Instance | Shows |
|---|---|---|
| `persistence` | three updates (one, two and one changes), one import, two kills anywhere, one unload; any five of these; logs that cannot be written | `RecoveryIntact`, `CheckpointSurvives`: unless a kill fell into `Windows` (or the log could not be written), the disk is recoverable and the last complete save is not lost; `LostOnlyIfAtRisk`, `MemoryServes`: updates are lost only if at risk, memory serves the others; `RepairableByHand`: wherever the first kill falls, one of the directories is whole; `BackupRemovedLate`: the backup goes when its content is elsewhere; `WritersFinish`, `BackupGoesAway`: writers end and backups disappear, unless three updates run into `CircularWait` (`PersistenceJoin.cfg`) or the corpus cannot be loaded any more (`spoiled`) |
| `locking` | two threads with three calls together, three corpora of different sizes; one is queried, updated and asked for `info`, one queried, imported and asked for `info`, one queried and exported; updates start writers | `LoadedWhileUsed`, `OneAtATime`, `InfoSeesNoChange`: a corpus in use stays loaded, its users take turns, `info` sees no change but the first loading; `OthersFit`, `NoNeedlessUnload`: a collection nobody disturbs ends within the limit and unloads nothing it need not; `AllReturn`: every call returns and every writer ends, the two circular waits aside |
| `join` | two left tuples, three tasks, two workers, a reset, a destruction at any time | `EndIsComplete`, `EachOnce`: every result once, then the end; `NoTaskOutlives`: no task outlives the join; `ImplementsIterator`: it is a `ResultStream`; `CallsReturn`: every call returns |
| `nested_loop` | up to three tuples on both sides, two resets, threaded or not, with and without the cache | `InOrder`, `CacheIsComplete`, `FalseIsTheEnd`: all combinations, in order, each once |
| `graph_update` | three names, from nothing and from an imported path, optimised or not; four events, label events also on `annis::node_name` and `annis::node_type`; every set of promises | `MirrorEdges`, `NamesFindNodes`, `SourcesExist`, `EdgeLabelsOnEdges`, `SearchAgrees`: indexes and edges are consistent; `ImplementsGraph`: the update is what the documentation says; each under the promises in section 2 |
| `storages` | all components of three nodes, nine shapes of up to five; one deletion, two conversions; the widest of the small types holds 7, the narrowest 2 | `ConversionKeepsEdges`: a conversion keeps the edges, also with statistics from before a deletion (unless they missed a cycle that was opened since, see `StoragesStaleStatistics.cfg`); `AnswersAgree`: under the same condition the implementations answer alike; `PathIsSimple`: the cycle check's two containers hold one simple path |
| `query_plan` | twelve queries of up to four nodes, over contents in which searches find nothing, one node or all; optimised or not, none, three or four background tasks; pages over two corpora | `PositionsNumberNodes`: no join reads past a tuple; `AnswersAreTheQuery`: every plan answers the query, once, if it is tame; `OneParallelJoin`: no two parallel joins, wherever they are in the tree, share the pool; `PageIsRight`: offset and limit count the distinct answers; `FindEnds`: `find` ends, but for an odd number of tasks with a join to give them to (`Endless`, `QueryOddTasks.cfg`) and for the cost of a plan that does not exist (`Crashed`) |

Findings: runs that TLC must find violated, each a statement of the repository.

| Run | Statement | What happens |
|---|---|---|
| `half_deleted_backup` | the backup is there to recover from | `remove_all` of the backup is not atomic, and a kill within leaves a part of it, which the next load prefers to the complete `current` |
| `locking_deadlock` | the map is locked before the corpus "to avoid any deadlock" | `info` does; the `onload` callback locks the map with its corpus locked |
| `dangling_edge` | "delete all edges pointing to this node either as source or target" | `deleteNode` hands inverse edges to `deleteEdge` unreversed: incoming edges stay, and the id is given to the next node |
| `repeated_label` | "there is already a label ..., nothing is done" | the index and the count take the new value |
| `plan_order` | "Reflexive means that the result can contain the same match as LHS and RHS" (`operator.h:37`) | joins leave the same match out for an operator that is not reflexive, but `BinaryFilter` does not look: the operator that closes a circle lets it through, and which one that is depends on the chosen order |

Fairness. `CorpusPersistence`: whoever holds the lock goes on, and a thread that
can join or lock eventually does (weak fairness); nobody has to call, query,
collect or crash. A thread that waits for a lock may lose it to another whenever it
is free. The calls being finitely many, it gets the lock in the end, unless the
corpus cannot be loaded and readers try again and again (`spoiled`).
`CorpusLocking`: weak fairness of every thread, writers included; strong fairness
of `Return` stands for a query needing finitely many components. `ParallelJoin`:
weak fairness of workers, tasks and of a caller inside a call. The kernel's
scheduler and boost's locks give no more than that, and the code needs no more.
`QueryPlan`: weak fairness of its next step; all of it runs in the thread that
called `find`. `NestedLoop`, `GraphUpdate` and `GraphStorages` state safety only.

Deadlock is checked where the model has a resting state (`Rest`, `Gone`) and
switched off where calls are simply bounded.

## 4. What is proved

TLAPS proves, for every value of the constants that satisfies the assumptions:

| Module | Theorems | From |
|---|---|---|
| `CorpusPersistenceProofs` | `TypeCorrect`, `RecoveryIsIntact`, `CheckpointIsDurable`, `LossIsConfined`, `MemoryIsComplete`, `BackupIsRemovedLate`, `OneOfTheTwoIsWhole` | `IInv`: where a thread holds the lock (`HolderOK`), that the writer finds a directory to move (`PresenceInv`), which directory is whole in which phase (`DiskInv`), what memory holds (`LoadInv`), that the log is whole (`LogInv`), and where checkpoint and served operations are (`CheckpointInv`, `RiskInv`). `LogInv` and `RiskInv` are lost with a log that could not be written, the others (`DataInv`) not. All theorems but the first and the last are about behaviours without a kill in `Windows`, the places of the finding, of an unflushed log and of an import, and without such a log (`spoiled`); the last assumes no more than that a kill has not happened before and that no import is being saved |
| `CorpusLockingProofs` | `TypeCorrect`, `LoadedWhileInUse`, `WorkersAreAlone`, `InfoIsUndisturbed`, `CollectionSuffices`, `NoMoreThanNeeded` | `IInv`: each program counter owns the lock it should (`HoldInv`), a shared mutex excludes (`MutexInv`), and the status a thread loads from is the one it found (`FirstLoadInv`); writers are threads like the callers; `CollectInv`: while no other thread has called, a collector has measured or will measure all that is loaded beside its own corpus, with the sizes they have, and `overall` is their sum |
| `ParallelJoinProofs` | `TypeCorrect`, `NoResultIsLost`, `NoResultIsDoubled`, `TasksAreJoined`, `Refinement` | `PartitionInv`: a result is, at any time, not fetched yet, or a candidate of one task, or in the queue, or with the caller; `CountInv`: `active` is the number of tasks that have not ended |
| `NestedLoopProofs` | `CombinationsInOrder`, `CacheAlwaysComplete`, `EndIsTheLast` | where the two iterators and the iterator into the cache stand relative to the number of pairs handed out, in each phase of the cache |
| `GraphUpdateProofs` | `TypeCorrect`, `EdgesHaveInverses`, `NamesLeadToNodes`, `EdgesStartAtNodes`, `LabelsDieWithEdges`, `SearchesAgree`, `Refinement` | `SInv`, for every client: each storage is typed, mirrored and has labels on edges only (`Sound`). `GInv`, for a client that leaves the reserved keys alone: besides, labels and inverse index agree on the key of names, names are unique (`Named`), and edges start at nodes that have a name (`Started`). `StoreInv`: no count is below the number of its labels, a node has one value per key, and, for a client that repeats no label, so has an edge, and the inverse index has what the labels say; `GraphInv`: besides, a node has a name and a type or nothing at all (`Whole`), and, for a client that deletes edges before nodes, edges end at nodes (`Ended`). Assumed of the import: names are unique and edges lie between its nodes |
| `GraphStoragesProofs` | `PathAlwaysSimple`, `ReportedCyclesExist` of any traversal; `TraversalsStaySimple`, `StoragesReportRealCycles`, `StoragesAnswerAlike`, `ConversionsKeepEdges` of a component | `IInv` of a traversal: the two containers of the path agree, it has one node per distance without gaps, each is a child of the one before, and the stack rises from its bottom to its top. `StoragesInv` of a component: while `Informed`, there are edges `E` that the storage, of whatever implementation, holds exactly (`StorageInv`), that descend from what the statistics were taken of (`StatInv`), and that the measuring, the copy or the search in progress is working through (`PhaseInv`). `TravInv` needs no `Informed`: every traversal of a component is in `IInv` |
| `QueryPlanProofs` | `PlansNumberTheirNodes`, `NoNestedBackgroundJoins`, `PlansAnswerTheQuery`, `FindShowsThePage` | `PlanInv`: the execution nodes fit a partition of the query nodes into components, and a merge of two numberings is a numbering; `TaskInv`: tasks assigned and tasks available are, together, those configured, or the rest is odd and the loop never left; only the largest join gets tasks; `AnswerInv` and `PageInv`, see below |

A property alone is not inductive: that the backup is whole, say, is preserved by
`MoveToBackup` only if `current` was whole before, which depends on the phases in
which a log is written. Likewise the path of a traversal stays simple only because
the two containers are erased alike, also after a node was rejected. TLC checks
the same properties first on small instances.

The longer arguments:

* *A collection ends within the limit* (`CollectionSuffices`). A sum over a set is
  the cardinality of a set of memory units (`Units` in `CorpusLocking`), so that
  adding and removing a corpus is a fact of finite sets and no induction is
  needed. `Account` says what the collector knows as long as nobody else has
  called; `Sizes` what is true of its numbers in any case.
* *An update is what the documentation says* (`Refinement`). `AnnoStorageProofs`
  has the lemmas: what adding and deleting a label does to the labels, the index
  and the counts. `GraphUpdateProofs` maps each handler to the event of
  `LabelledGraph` or to a stutter. `Whole` is needed because a node exists, for the
  client, when it has a name, and `Ended` because `deleteNode` leaves incoming
  edges behind (finding `dangling_edge`).
* *Every plan answers the query* (`PlansAnswerTheQuery`). Invariant of the loop of
  `createPlan`: in each component, a tuple has a hit for each of its query nodes and
  satisfies the operators applied so far (`Sound`), every answer of the whole query
  has a tuple there (`Complete`), and an operator that was applied lies within one
  component (`Closed`). Both joins and the filter keep this: with switched
  arguments because the operator is symmetric, with a replaced search because it
  yields the same hits. The joins leave out the same match on both sides of an
  operator that is not reflexive, the filter does not (finding `plan_order`). So
  the argument counts (`Counted`): components and operators applied are, together,
  at least as many as the query nodes, and more once a filter was made; a query
  with fewer operators than nodes, whose nodes are connected, therefore ends in
  one component without any filter, and the other tame queries have reflexive
  operators only.
* *Offset and limit count the distinct answers* (`FindShowsThePage`). `Balance`: the
  counter is the number of answers of the corpora before plus that of the answers
  this corpus has returned, which are those that are not ahead any more. In proxy
  mode nothing is kept of what was returned, and `Returned` says what it was.

* *Implementations answer alike, and conversions keep the edges*
  (`StoragesAnswerAlike`, `ConversionsKeepEdges`). Paths are functions from
  `0..k` to the nodes. That a depth-first search is complete is an invariant: every
  node it has to reach was entered, or the rest of a walk to it starts on the
  stack (`Waits`), so that nothing is missing when the stack is empty
  (`MeasureOK`, `SearchOK`). What was measured therefore bounds every walk from a
  root, in length and in number (`Measured`), and a deletion can only lower the
  bounds (`Descends`): the width that the registry chooses is never exceeded. Of
  a chain, the position of a node is its distance from the root (`LinearCopy`). Of
  pre- and post-orders (`PrePostCopy`), an entry that lies below another has, one
  level up, a parent that an edge leads from (`ParentsOK`), and an entry has a child
  for every edge of its node (`ChildrenOK`); what is on `nodeStack` is open, its
  post-order still to come. There are never more entries than ways from the roots
  (`Counted`), so that the orders do not wrap around either. Where an
  argument needs an induction it takes the least element of a set of numbers, or
  the sets of finite cardinality, so that no theorem with an operator as its
  parameter is used.

Assumptions on the constants, with their reasons in the code: `CallsAssumption`
(a page is two natural numbers; `size_t` has an odd maximum; an operator's
arguments are nodes of its alternative, which has one) and `ContentsAssumption` (only a
`RegexAnnoSearch` is unbound; a commutative operator is symmetric, as
`operator.h:45` demands and the three that override `isCommutative`,
`IdenticalNode`, `IdenticalCoverage` and `Overlap`, are; an operator that reads an
edge's labels is not commutative), `StoragesAssumption` (nodes are finitely many
numbers, no edge leads from a node to itself, windows of distances begin at 1) and
`WidthsAssumption` (section 2). `Tame` is a hypothesis of the properties, as in
the run, and not of the theorems alone. TLC evaluates the assumptions.

Model-checked only: liveness (`WritersFinish`, `BackupGoesAway`, `AllReturn`,
`CallsReturn`, `FindEnds`), which rests on fairness and ENABLED, out of the
prover's reach. All safety properties of the runs that pass are stated by a
theorem.

## 5. Further configurations

Not part of the regular runs; each ends with a counterexample to a statement that
one would expect of the code, except the four that hold.

| Configuration | Property | Shows |
|---|---|---|
| `PersistenceThree.cfg` | the safety properties of `persistence` | hold with all three updates, the import, both kills and the unload in one behaviour (2.4 million states); liveness is checked by the run `persistence` only |
| `PersistenceTornLog.cfg` | `LogReadable` | a kill while the log is in the stream's buffer leaves a log that cannot be read, and no corpus is loaded |
| `PersistenceLogOverwritten.cfg` | `AckedSurvive` | a second update truncates the log of the first before its writer has saved |
| `PersistenceShadowedLog.cfg` | `BackupHoldsLastVersion` | an interrupted writer leaves a backup, and the log of the next update is written next to it, where no load looks |
| `PersistenceStaleChangeID.cfg` | `AckedServed` | after unloading, the same process skips the log, because its `currentChangeID` is not below that of the log |
| `PersistenceImport.cfg` | `ImportSaved` | an import next to a leftover backup is undone by the next load |
| `PersistenceJoin.cfg` | `NoCircularWait` | a call joins a writer under `mutex_writerThreads` while the holder of the corpus waits for that mutex (two concurrent updates) |
| `LockingLimit.cfg` | `SizeLimitInTheEnd` | a corpus that was locked during the last collection stays beyond the limit |
| `LockingFourCalls.cfg` | the safety properties of `locking` | hold with four calls together (1.4 million states) |
| `LockingThreeCallers.cfg` | as `locking` | holds, with `AllReturn`, for three threads with four updates and `info` of one corpus, where both circular waits occur (67201 states) |
| `GraphTwoComponents.cfg` | as `graph_update` | holds with two components (three events) |
| `StoragesMissedCycle.cfg` | `ConversionKeepsAllEdges` | a cycle beside a root that does not lead to it is not noticed (`adjacencyliststorage.cpp:356`), and the conversion drops it |
| `StoragesLoneToken.cfg` | `DistanceToItself` | a linear storage does not know a node without edges and says -1, where `overlap.cpp:92` asks for the distance of a token to itself |
| `StoragesCyclicAnswers.cfg` | `FindIsConnected` | on a cyclic graph `findConnected` follows walks and `isConnected` paths, so that they differ |
| `StoragesStaleStatistics.cfg` | `ConversionKeepsRootedEdges` | a deletion opens a cycle that the statistics missed; they stay valid, the chain is longer than they say, its positions wrap around in the type chosen by them, and edges are lost |
| `QueryTokenFilter.cfg` | `EveryPlanIsRight` | a token search replaced by an edge label search loses its filter as the right side of an index join (`singlealternativequery.cpp:138`) |
| `QueryUnboundRegex.cfg` | `EveryPlanIsRight` | the search that replaces an unbound regular expression has lost its constant annotation (`singlealternativequery.cpp:283`) |
| `QueryMetadata.cfg` | `EveryPlanIsRight` | `RegexAnnoSearch::next` returns the further hits of a node without the constant annotation (`regexannosearch.cpp:138`), so that a document is found once per namespace |
| `QueryOddTasks.cfg` | `FindEndsWithAnyTasks` | an odd number of background tasks, which the console can configure, never counts down to 0 (`plan.cpp:288`) |

Further deviations, from reading, the first four visible in the models:

* `addNodeLabel` and `deleteNodeLabel` accept `annis::node_name` (`db.cpp:696-716`),
  which no documentation reserves: a second name enters the inverse index only
  (`annostorage.h:73`), so that `getNodeID` finds a node by a name it does not have,
  and a node without its name keeps its edges, out of reach of any event;
* a component that was optimised (`PrePostOrderStorage`, `LinearStorage`) loses its
  edges when an event touches it, because `createWritableGraphStorage` starts an
  empty storage;
* deleting one of two equal labels hides the other one from the searches, which
  the type of every deleted node does;
* all background tasks go to one join: `findLargestProcessedInStep` sees the same
  plan in every turn (`OneParallelJoin` depends on it);
* `createPlan` returns no plan for a query whose nodes are not connected, and the
  optimiser asks it for its cost (`singlealternativequery.cpp:366` and `395`); an
  alternative without nodes dereferences an optional that is not set (`260`);
* `IndexJoin::nextLeftMatch` takes a missing iterator for the end of the join, where
  it is one left tuple without a partner (`identicalcoverage.cpp:84` returns none);
* the parameter `all_permutations_threshold` is declared `bool`;
* `deleteCorpus` looks up both maps by the path of the corpus
  (`corpusstoragemanager.cpp:462`) where they are keyed by its name: it stops no
  writer and locks another `DBLoader`, so that a writer may recreate what was
  deleted, and an entry for the path stays in the cache.

## 6. Plan and what is not modelled

Next, in this order:

1. `CorpusLifecycle`: `deleteCorpus` against writers and queries; the destruction
   of a thread pool with tasks left.
2. Operators: `filter` against `retrieveMatches`, which `QueryPlan` assumes equal.
3. `DurableCorpus`, an abstract corpus with atomic updates that may lose what is
   at risk, implemented by `CorpusPersistence`.
4. `DBCache`, `StringStorage`; the subgraph that is copied out of a `DB`.
5. Proofs: the refinement of item 3.

Not modelled, for good: parsing of JSON and of relANNIS files (sequential, no
state between calls), serialisation formats, cost estimates and histograms
(floating-point statistics that change the order of joins, not their results),
the SIMD variant of the index join (off by default), the console, benchmarks, the
Java binding, and the vendored libraries, which are most of the lines of the
repository.
