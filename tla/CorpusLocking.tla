---------------------------- MODULE CorpusLocking ----------------------------
(****************************************************************************)
(* The locks of CorpusStorageManager: mutex_corpusCache,                    *)
(* mutex_writerThreads, and the shared/upgrade/exclusive lock of every      *)
(* DBLoader, as they are taken by queries (count, find, subgraph), by       *)
(* applyUpdate and the background writer it starts, by exportCorpus, the    *)
(* imports and info, with the lazy loading they trigger and the garbage     *)
(* collection that runs as the onload callback of every load.               *)
(****************************************************************************)
EXTENDS Naturals, FiniteSets, Functions, FiniteSetsExt

CONSTANTS
    Callers,      \* the threads that call the API
    Writers,      \* background writers: each is started at most once
    Corpora,
    Kinds,        \* the kinds of calls made on each corpus
    NodesSize,    \* memory of a corpus without its graph storages
    FullSize,     \* memory of a corpus with all of them
    Limit,        \* maxAllowedCacheSize
    MaxCalls,     \* bound on the calls of all callers together
    None

Threads == Callers \cup Writers

AllKinds == {"query", "update", "export", "import", "info"}

\* Those that call getFullyLoaded(), not get(), and lock exclusively as imports do.
NeedAll   == {"update", "export", "write"}
Exclusive == NeedAll \cup {"import"}

ASSUME LockingAssumption ==
    /\ Callers \cap Writers = {}
    /\ IsFiniteSet(Writers) /\ Cardinality(Writers) >= MaxCalls
    /\ Kinds \in [Corpora -> SUBSET AllKinds]
    /\ NodesSize \in [Corpora -> Nat] /\ FullSize \in [Corpora -> Nat]
    /\ \A c \in Corpora : NodesSize[c] <= FullSize[c]
    /\ Limit \in Nat /\ MaxCalls \in Nat
    /\ None \notin Threads /\ None \notin Corpora

VARIABLES
    cached,       \* the keys of corpusCache
    status,       \* LoadStatus of each DBLoader
    cacheMutex,   \* owner of mutex_corpusCache
    writersMutex, \* owner of mutex_writerThreads
    handle,       \* per corpus, the thread stored in writerThreads
    exclusive,    \* per corpus, the owner of the exclusive lock
    upgrade,      \* per corpus, the owner of the upgrade lock
    shared,       \* per corpus, the owners of shared locks
    blocked,      \* per corpus, a waiting exclusive lock keeps others out
    pc, kind, corpus, calls,        \* per thread; calls counts its calls or starts
    toMeasure,    \* the collector's loop over corpusCache
    measured,     \* corpusSizes: corpora to be unloaded, with their sizes
    overall       \* overallSize

locks   == <<exclusive, upgrade, shared, blocked>>
collect == <<toMeasure, measured, overall>>
writers == <<writersMutex, handle>>
vars    == <<cached, status, cacheMutex, writers, locks, pc, kind, corpus, calls, collect>>

Statuses == {"NOT_LOADED", "NODES_LOADED", "FULLY_LOADED"}

estimateMemorySize(c) ==
    CASE status[c] = "NOT_LOADED"   -> 0
      [] status[c] = "NODES_LOADED" -> NodesSize[c]
      [] status[c] = "FULLY_LOADED" -> FullSize[c]

Init ==
    /\ cached = {}
    /\ status = [c \in Corpora |-> "NOT_LOADED"]
    /\ cacheMutex = None /\ writersMutex = None
    /\ handle = [c \in Corpora |-> None]
    /\ exclusive = [c \in Corpora |-> None]
    /\ upgrade = [c \in Corpora |-> None]
    /\ shared = [c \in Corpora |-> {}]
    /\ blocked = [c \in Corpora |-> FALSE]
    /\ pc = [t \in Threads |-> "idle"]
    /\ kind = [t \in Threads |-> None]
    /\ corpus = [t \in Threads |-> None]
    /\ calls = [t \in Threads |-> 0]
    /\ toMeasure = {} /\ measured = <<>> /\ overall = 0

Goto(t, label) == pc' = [pc EXCEPT ![t] = label]

----------------------------------------------------------------------------
(* boost::shared_mutex. An exclusive request that has to wait blocks new    *)
(* shared and upgrade locks until the lock is next released.                *)

Unlocked(c) == exclusive[c] = None /\ upgrade[c] = None /\ shared[c] = {}

CanLockShared(c)  == exclusive[c] = None /\ ~blocked[c]
CanLockUpgrade(c) == CanLockShared(c) /\ upgrade[c] = None

LockExclusive(t, c) ==
    /\ Unlocked(c)
    /\ exclusive' = [exclusive EXCEPT ![c] = t]
    /\ UNCHANGED <<upgrade, shared, blocked>>

\* lock(): the lock is taken, so the request waits and blocks the others.
AwaitExclusive(c) ==
    /\ ~Unlocked(c) /\ ~blocked[c]
    /\ blocked' = [blocked EXCEPT ![c] = TRUE]
    /\ UNCHANGED <<exclusive, upgrade, shared>>

LockUpgrade(t, c) ==
    /\ CanLockUpgrade(c)
    /\ upgrade' = [upgrade EXCEPT ![c] = t]
    /\ UNCHANGED <<exclusive, shared, blocked>>

LockShared(t, c) ==
    /\ CanLockShared(c)
    /\ shared' = [shared EXCEPT ![c] = @ \cup {t}]
    /\ UNCHANGED <<exclusive, upgrade, blocked>>

\* upgrade_to_unique_lock waits for the shared owners and admits new ones.
UpgradeToExclusive(t, c) ==
    /\ upgrade[c] = t /\ shared[c] = {}
    /\ exclusive' = [exclusive EXCEPT ![c] = t]
    /\ upgrade' = [upgrade EXCEPT ![c] = None]
    /\ UNCHANGED <<shared, blocked>>

BackToUpgrade(t, c) ==
    /\ exclusive' = [exclusive EXCEPT ![c] = None]
    /\ upgrade' = [upgrade EXCEPT ![c] = t]
    /\ blocked' = [blocked EXCEPT ![c] = FALSE]
    /\ UNCHANGED shared

\* The last owner to leave lets everybody compete again.
Unlock(t, c) ==
    /\ exclusive' = IF exclusive[c] = t THEN [exclusive EXCEPT ![c] = None] ELSE exclusive
    /\ upgrade' = IF upgrade[c] = t THEN [upgrade EXCEPT ![c] = None] ELSE upgrade
    /\ shared' = [shared EXCEPT ![c] = @ \ {t}]
    /\ blocked' = IF shared[c] \subseteq {t} /\ upgrade[c] \in {t, None}
                  THEN [blocked EXCEPT ![c] = FALSE] ELSE blocked

----------------------------------------------------------------------------
(* A call: look the corpus up, lock it, load it, use it, unlock it.         *)

CallsMade == SumFunctionOnSet(calls, Callers)

Call(t) ==
    /\ pc[t] = "idle" /\ CallsMade < MaxCalls
    /\ \E c \in Corpora : \E k \in Kinds[c] :
          /\ kind' = [kind EXCEPT ![t] = k]
          /\ corpus' = [corpus EXCEPT ![t] = c]
          /\ Goto(t, CASE k = "info"   -> "info"
                       [] k = "update" -> "kill"
                       [] OTHER        -> "lookup")
    /\ calls' = [calls EXCEPT ![t] = @ + 1]
    /\ UNCHANGED <<cached, status, cacheMutex, writers, locks, collect>>

\* getCorpusFromCache, which holds the mutex for its duration
Lookup(t) ==
    /\ pc[t] = "lookup" /\ cacheMutex = None
    /\ cached' = cached \cup {corpus[t]}
    /\ Goto(t, "lock")
    /\ UNCHANGED <<status, cacheMutex, writers, locks, kind, corpus, calls, collect>>

\* Mutant: queries among themselves share the corpus.
LockShares(t) ==
    /\ pc[t] = "lock"
    /\ \/ kind[t] = "query" /\ LockShared(t, corpus[t])
       \/ kind[t] \in Exclusive /\ LockExclusive(t, corpus[t])
    /\ Goto(t, "get")
    /\ UNCHANGED <<cached, status, cacheMutex, writers, kind, corpus, calls, collect>>

Lock(t) ==
    /\ pc[t] = "lock"
    /\ \/ kind[t] = "query" /\ LockUpgrade(t, corpus[t])
       \/ kind[t] \in Exclusive /\ LockExclusive(t, corpus[t])
    /\ Goto(t, "get")
    /\ UNCHANGED <<cached, status, cacheMutex, writers, kind, corpus, calls, collect>>

Await(t) ==
    /\ pc[t] = "lock" /\ kind[t] \in Exclusive
    /\ AwaitExclusive(corpus[t])
    /\ UNCHANGED <<cached, status, cacheMutex, writers, pc, kind, corpus, calls, collect>>

\* get() and getFullyLoaded() find enough in memory ...
NeedNotLoad(t) ==
    /\ pc[t] = "get"
    /\ status[corpus[t]] # "NOT_LOADED"
    /\ kind[t] \in NeedAll => status[corpus[t]] = "FULLY_LOADED"
    /\ Goto(t, "use")
    /\ UNCHANGED <<cached, status, cacheMutex, writers, locks, kind, corpus, calls, collect>>

\* ... or load. dbLoaded is set, and the graph storages are there, at the end.
BeginLoad(t) ==
    /\ pc[t] = "get"
    /\ \/ status[corpus[t]] = "NOT_LOADED"
       \/ kind[t] \in NeedAll /\ status[corpus[t]] = "NODES_LOADED"
    /\ Goto(t, "load")
    /\ UNCHANGED <<cached, status, cacheMutex, writers, locks, kind, corpus, calls, collect>>

\* A corpus with a log or a backup, or without components, is loaded fully.
EndLoad(t) ==
    /\ pc[t] = "load"
    /\ \E s \in {"NODES_LOADED", "FULLY_LOADED"} :
          /\ kind[t] \in NeedAll => s = "FULLY_LOADED"
          /\ status' = [status EXCEPT ![corpus[t]] = s]
    /\ Goto(t, "callback")
    /\ UNCHANGED <<cached, cacheMutex, writers, locks, kind, corpus, calls, collect>>

\* A query that needs a component that is not loaded yet upgrades its lock; it
\* may need several, one after the other. The callback is not run.
NeedComponent(t) ==
    /\ pc[t] = "use" /\ kind[t] = "query" /\ status[corpus[t]] = "NODES_LOADED"
    /\ Goto(t, "upgrade")
    /\ UNCHANGED <<cached, status, cacheMutex, writers, locks, kind, corpus, calls, collect>>

BeginExtend(t) ==
    /\ pc[t] = "upgrade"
    /\ UpgradeToExclusive(t, corpus[t])
    /\ Goto(t, "extend")
    /\ UNCHANGED <<cached, status, cacheMutex, writers, kind, corpus, calls, collect>>

EndExtend(t) ==
    /\ pc[t] = "extend"
    /\ \E s \in {"NODES_LOADED", "FULLY_LOADED"} :
          status' = [status EXCEPT ![corpus[t]] = s]
    /\ BackToUpgrade(t, corpus[t])
    /\ Goto(t, "use")
    /\ UNCHANGED <<cached, cacheMutex, writers, kind, corpus, calls, collect>>

\* An update is applied and logged, or fails and reloads the corpus; an import
\* replaces what get() has loaded. Either way all graph storages are there.
Change(t) ==
    /\ pc[t] = "use" /\ kind[t] \in {"update", "import"}
    /\ status' = [status EXCEPT ![corpus[t]] = "FULLY_LOADED"]
    /\ \/ Goto(t, "finish")
       \/ kind[t] = "update" /\ Goto(t, "start")
    /\ UNCHANGED <<cached, cacheMutex, writers, locks, kind, corpus, calls, collect>>

Return(t) ==
    /\ \/ pc[t] = "use" /\ kind[t] \notin {"update", "import"}
       \/ pc[t] = "finish"
    /\ Unlock(t, corpus[t])
    /\ Goto(t, "idle")
    /\ UNCHANGED <<cached, status, cacheMutex, writers, kind, corpus, calls, collect>>

----------------------------------------------------------------------------
(* The background writer. Its thread is started with the corpus locked and  *)
(* locks it again itself; killBackgroundWriter joins it under the mutex.    *)

KillWriter(t) ==
    /\ pc[t] = "kill" /\ writersMutex = None
    /\ IF handle[corpus[t]] = None
       THEN Goto(t, "lookup") /\ UNCHANGED writersMutex
       ELSE Goto(t, "join") /\ writersMutex' = t
    /\ UNCHANGED <<cached, status, cacheMutex, handle, locks, kind, corpus, calls, collect>>

JoinWriter(t) ==
    /\ pc[t] = "join" /\ pc[handle[corpus[t]]] = "idle"
    /\ writersMutex' = None
    /\ handle' = [handle EXCEPT ![corpus[t]] = None]
    /\ Goto(t, "lookup")
    /\ UNCHANGED <<cached, status, cacheMutex, locks, kind, corpus, calls, collect>>

FreshWriter == CHOOSE w \in Writers : calls[w] = 0

\* A thread that is still in the map is detached. There is always a fresh writer:
\* Writers has as many as there are calls.
StartWriter(t) ==
    /\ pc[t] = "start" /\ writersMutex = None
    /\ \E w \in Writers : calls[w] = 0
    /\ handle' = [handle EXCEPT ![corpus[t]] = FreshWriter]
    /\ pc' = [pc EXCEPT ![t] = "finish", ![FreshWriter] = "lock"]
    /\ kind' = [kind EXCEPT ![FreshWriter] = "write"]
    /\ corpus' = [corpus EXCEPT ![FreshWriter] = corpus[t]]
    /\ calls' = [calls EXCEPT ![FreshWriter] = 1]
    /\ UNCHANGED <<cached, status, cacheMutex, writersMutex, locks, collect>>

\* A writer that somebody joins was interrupted, and may end at the points where
\* boost looks: with the lock just taken, saving, or saving a loaded backup.
Interrupted(t) ==
    /\ \E u \in Callers : pc[u] = "join" /\ handle[corpus[u]] = t
    /\ \/ pc[t] \in {"get", "use"}
       \/ pc[t] = "load" /\ status[corpus[t]] = "NOT_LOADED"
    /\ Unlock(t, corpus[t])
    /\ Goto(t, "idle")
    /\ UNCHANGED <<cached, status, cacheMutex, writers, kind, corpus, calls, collect>>

----------------------------------------------------------------------------
(* The onload callback, under mutex_corpusCache, with the corpus locked.    *)

BeginCollect(t) ==
    /\ pc[t] = "callback" /\ cacheMutex = None
    /\ cacheMutex' = t
    /\ toMeasure' = cached \ {corpus[t]}
    /\ measured' = <<>> /\ overall' = 0
    /\ Goto(t, "measure")
    /\ UNCHANGED <<cached, status, writers, locks, kind, corpus, calls>>

\* try_lock_shared: a corpus locked exclusively is not counted.
Measure(t) ==
    /\ pc[t] = "measure"
    /\ \E c \in toMeasure :
          /\ toMeasure' = toMeasure \ {c}
          /\ IF CanLockShared(c)
             THEN /\ measured' = [x \in DOMAIN measured \cup {c} |->
                                    IF x = c THEN estimateMemorySize(c) ELSE measured[x]]
                  /\ overall' = overall + estimateMemorySize(c)
             ELSE UNCHANGED <<measured, overall>>
    /\ UNCHANGED <<cached, status, cacheMutex, writers, locks, pc, kind, corpus, calls>>

EndMeasure(t) ==
    /\ pc[t] = "measure" /\ toMeasure = {}
    /\ Goto(t, "evict")
    /\ UNCHANGED <<cached, status, cacheMutex, writers, locks, kind, corpus, calls, collect>>

Largest(c) == \A d \in DOMAIN measured : measured[d] <= measured[c]

\* Mutants: what unloading a corpus may get wrong.
Unload(t, c, mayUnload, left, forget) ==
    /\ pc[t] = "evict" /\ overall > Limit
    /\ c \in DOMAIN measured /\ Largest(c)
    /\ measured' = IF forget THEN Restrict(measured, DOMAIN measured \ {c}) ELSE measured
    /\ status' = IF mayUnload THEN [status EXCEPT ![c] = "NOT_LOADED"] ELSE status
    /\ overall' = left
    /\ UNCHANGED <<cached, cacheMutex, writers, locks, pc, kind, corpus, calls, toMeasure>>

EvictWithoutLock(t)  == \E c \in Corpora : Unload(t, c, TRUE, overall - measured[c], TRUE)
EvictWithoutPop(t)   == \E c \in Corpora : Unload(t, c, Unlocked(c), overall - measured[c], FALSE)
EvictOnlyFull(t)     == \E c \in Corpora :
                            Unload(t, c, status[c] = "FULLY_LOADED", overall - measured[c], TRUE)
EvictAll(t)          == \E c \in Corpora : Unload(t, c, Unlocked(c), overall, TRUE)
EvictSpins(t)        == \E c \in Corpora :
                            Unload(t, c, Unlocked(c),
                                   IF Unlocked(c) THEN overall - measured[c] ELSE overall,
                                   Unlocked(c))

\* try_lock: a corpus that is locked stays in memory, and is not looked at again.
Evict(t) ==
    /\ pc[t] = "evict" /\ overall > Limit
    /\ \E c \in DOMAIN measured :
          /\ Largest(c)
          /\ measured' = Restrict(measured, DOMAIN measured \ {c})
          /\ IF Unlocked(c)
             THEN /\ status' = [status EXCEPT ![c] = "NOT_LOADED"]
                  /\ overall' = overall - measured[c]
             ELSE UNCHANGED <<status, overall>>
    /\ UNCHANGED <<cached, cacheMutex, writers, locks, pc, kind, corpus, calls, toMeasure>>

CollectionEnds == overall <= Limit \/ DOMAIN measured = {}

EndCollect(t) ==
    /\ pc[t] = "evict" /\ CollectionEnds
    /\ cacheMutex' = None
    /\ toMeasure' = {} /\ measured' = <<>> /\ overall' = 0
    /\ Goto(t, "use")
    /\ UNCHANGED <<cached, status, writers, locks, kind, corpus, calls>>

----------------------------------------------------------------------------
(* info holds mutex_corpusCache while it waits for the corpus.              *)

InfoBegin(t) ==
    /\ pc[t] = "info" /\ cacheMutex = None
    /\ IF corpus[t] \in cached
       THEN cacheMutex' = t /\ Goto(t, "infoLock")
       ELSE Goto(t, "idle") /\ UNCHANGED cacheMutex
    /\ UNCHANGED <<cached, status, writers, locks, kind, corpus, calls, collect>>

\* Mutant: info reads the status without a lock.
InfoLockNot(t) ==
    /\ pc[t] = "infoLock"
    /\ Goto(t, "infoUse")
    /\ UNCHANGED <<cached, status, cacheMutex, writers, locks, kind, corpus, calls, collect>>

InfoLock(t) ==
    /\ pc[t] = "infoLock"
    /\ LockShared(t, corpus[t])
    /\ Goto(t, "infoUse")
    /\ UNCHANGED <<cached, status, cacheMutex, writers, kind, corpus, calls, collect>>

InfoReturn(t) ==
    /\ pc[t] = "infoUse"
    /\ Unlock(t, corpus[t])
    /\ cacheMutex' = None
    /\ Goto(t, "idle")
    /\ UNCHANGED <<cached, status, writers, kind, corpus, calls, collect>>

----------------------------------------------------------------------------
Step(t) ==
    \/ Lookup(t) \/ Lock(t) \/ Await(t)
    \/ NeedNotLoad(t) \/ BeginLoad(t) \/ EndLoad(t)
    \/ BeginExtend(t) \/ EndExtend(t) \/ Change(t) \/ Return(t)
    \/ KillWriter(t) \/ JoinWriter(t) \/ StartWriter(t) \/ Interrupted(t)
    \/ BeginCollect(t) \/ Measure(t) \/ EndMeasure(t) \/ Evict(t) \/ EndCollect(t)
    \/ InfoBegin(t) \/ InfoLock(t) \/ InfoReturn(t)

Quiet == \A t \in Threads : pc[t] = "idle"

Finished == CallsMade = MaxCalls /\ Quiet

\* After its bounded number of calls the system rests, which is no deadlock.
Rest == Finished /\ UNCHANGED vars

Next ==
    \/ \E t \in Callers : Call(t)
    \/ \E t \in Threads : NeedComponent(t) \/ Step(t)
    \/ Rest

Spec == Init /\ [][Next]_vars

\* A thread that can go on does. Nobody has to call, or to need a component; a
\* query needs finitely many components, so that it comes to its end.
FairSpec ==
    /\ Spec
    /\ \A t \in Threads : WF_vars(Step(t))
    /\ \A t \in Callers : SF_vars(Return(t))

----------------------------------------------------------------------------
Labels == {"idle", "lookup", "lock", "get", "load", "use", "upgrade", "extend", "callback",
           "measure", "evict", "info", "infoLock", "infoUse",
           "kill", "join", "start", "finish"}

\* The type invariant. overallSize is unsigned: it must not fall below zero.
TypeOK ==
    /\ cached \subseteq Corpora
    /\ status \in [Corpora -> Statuses]
    /\ cacheMutex \in Threads \cup {None}
    /\ writersMutex \in Callers \cup {None}
    /\ handle \in [Corpora -> Writers \cup {None}]
    /\ exclusive \in [Corpora -> Threads \cup {None}]
    /\ upgrade \in [Corpora -> Threads \cup {None}]
    /\ shared \in [Corpora -> SUBSET Threads]
    /\ blocked \in [Corpora -> BOOLEAN]
    /\ pc \in [Threads -> Labels]
    /\ kind \in [Threads -> AllKinds \cup {"write", None}]
    /\ corpus \in [Threads -> Corpora \cup {None}]
    /\ calls \in [Threads -> Nat]
    /\ toMeasure \subseteq Corpora
    /\ DOMAIN measured \subseteq Corpora
    /\ overall \in Nat

\* The DB& a call got from its loader stays a loaded database until the call
\* returns, although other calls' garbage collections unload what they can: all
\* of it for an update, an export and the background writer.
Using == {"callback", "measure", "evict", "use", "upgrade", "start", "finish"}

LoadedWhileUsed ==
    \A t \in Threads : pc[t] \in Using =>
        /\ status[corpus[t]] # "NOT_LOADED"
        /\ kind[t] \in NeedAll => status[corpus[t]] = "FULLY_LOADED"

Working == Using \cup {"get", "load", "extend"}

\* While a thread adds to or changes a DB no other thread is using it: queries
\* among themselves, too, take turns on the same corpus.
OneAtATime ==
    \A t, u \in Threads :
        (t # u /\ pc[t] \in Working /\ pc[u] \in Working) => corpus[t] # corpus[u]

\* info sees a corpus as it is between two steps of those who load or unload.
InfoSeesNoChange ==
    [][\A t \in Threads : pc[t] = "infoUse" =>
          \/ status'[corpus[t]] = status[corpus[t]]
          \/ status[corpus[t]] = "NOT_LOADED"]_vars

Others(t) == Corpora \ {corpus[t]}

\* The memory that the corpora in S take, with the given sizes, unit by unit.
Units(size, S) == UNION {{c} \X (1 .. size[c]) : c \in S}

Memory(S) == Cardinality(Units([c \in Corpora |-> estimateMemorySize(c)], S))

Undisturbed(t) == \A u \in Threads \ {t} : calls[u] = 0

\* While nobody else has called, the collection ends with all corpora but the
\* caller's own within the limit (no lock can fail, no size is out of date).
OthersFit ==
    \A t \in Threads : (pc[t] = "evict" /\ CollectionEnds /\ Undisturbed(t)) =>
        Memory(Others(t)) <= Limit

\* ... and unloads no more than that takes: had the corpus it unloads now stayed,
\* the limit would have been exceeded.
NoNeedlessUnload ==
    [][\A c \in Corpora : (status[c] # "NOT_LOADED" /\ status'[c] = "NOT_LOADED") =>
          \E t \in Threads :
              pc[t] = "evict" /\ (Undisturbed(t) => Memory(Others(t)) > Limit)]_vars

\* A thread never waits for mutex_corpusCache with a corpus locked while the
\* mutex's owner waits for that corpus (corpusstoragemanager.cpp:465: take the map
\* before the database "to avoid any deadlock").
NoCircularWait ==
    ~ \E t, u \in Threads :
        /\ pc[t] = "callback" /\ cacheMutex = u
        /\ pc[u] = "infoLock" /\ ~CanLockShared(corpus[u]) /\ corpus[u] = corpus[t]

Owners(c) == shared[c] \cup ({exclusive[c], upgrade[c]} \ {None})

\* t cannot go on before u has.
WaitsFor(t, u) ==
    \/ pc[t] \in {"lookup", "callback", "info"} /\ cacheMutex = u
    \/ pc[t] \in {"kill", "start"} /\ writersMutex = u
    \/ pc[t] = "join" /\ handle[corpus[t]] = u /\ pc[u] # "idle"
    \/ /\ \/ pc[t] = "lock" /\ kind[t] = "query" /\ ~CanLockUpgrade(corpus[t])
          \/ pc[t] = "lock" /\ kind[t] # "query"
          \/ pc[t] = "infoLock" /\ ~CanLockShared(corpus[t])
       /\ u \in Owners(corpus[t])
    \/ pc[t] = "upgrade" /\ u \in shared[corpus[t]]

\* Threads that wait for each other, one of them with a mutex of the manager: info
\* for a corpus (line 514), or killBackgroundWriter for a writer (line 574).
CircularWait ==
    \E S \in SUBSET Threads :
        /\ \E t \in S : pc[t] \in {"infoLock", "join"}
        /\ \A t \in S : \E u \in S : WaitsFor(t, u)

\* These are the only ways to get stuck: unless one of them happens, the calls that
\* were made return and the background writers end. Both last for ever.
AllReturn == ~Quiet ~> (Quiet \/ CircularWait)

\* "there will always be another garbage collection run which will ensure that
\* the overall size limits are not exceeded in the end": when nobody works, all
\* corpora but the one loaded last, whichever that was, are within the limit.
SizeLimitInTheEnd ==
    Quiet => \E c \in Corpora : Memory(Corpora \ {c}) <= Limit

============================================================================
