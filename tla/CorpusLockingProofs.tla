------------------------ MODULE CorpusLockingProofs ------------------------
(****************************************************************************)
(* What the locks of CorpusStorageManager guarantee, for any number of      *)
(* threads, corpora and calls. The invariant ties every program counter to  *)
(* the lock its thread owns.                                                *)
(****************************************************************************)
EXTENDS CorpusLocking, FiniteSetTheorems, TLAPS

TypeInv ==
    /\ pc \in [Threads -> Labels]
    /\ kind \in [Threads -> AllKinds \cup {"write", None}]
    /\ corpus \in [Threads -> Corpora \cup {None}]
    /\ status \in [Corpora -> Statuses]
    /\ exclusive \in [Corpora -> Threads \cup {None}]
    /\ upgrade \in [Corpora -> Threads \cup {None}]
    /\ shared \in [Corpora -> SUBSET Threads]

\* What a boost::shared_mutex promises.
MutexInv == \A c \in Corpora : exclusive[c] # None => upgrade[c] = None /\ shared[c] = {}

\* What a thread is at, and which lock it owns.
HoldInv ==
    \A t \in Threads :
        /\ pc[t] # "idle" => corpus[t] \in Corpora
        /\ pc[t] \in Working \cup {"lookup", "lock"} => kind[t] \in Exclusive \cup {"query"}
        /\ pc[t] \in {"upgrade", "extend"} => kind[t] = "query"
        /\ pc[t] \in {"kill", "join", "start", "finish"} => kind[t] \in Exclusive
        /\ pc[t] \in Working \ {"extend"} /\ kind[t] = "query" => upgrade[corpus[t]] = t
        /\ pc[t] \in Working /\ kind[t] \in Exclusive => exclusive[corpus[t]] = t
        /\ pc[t] = "extend" => exclusive[corpus[t]] = t
        /\ pc[t] = "infoUse" => t \in shared[corpus[t]]

\* The status that get() loads from is still the one it found.
FirstLoadInv ==
    \A t \in Threads :
        pc[t] = "load" /\ kind[t] \notin NeedAll => status[corpus[t]] = "NOT_LOADED"

IInv == TypeInv /\ MutexInv /\ HoldInv /\ FirstLoadInv /\ LoadedWhileUsed

----------------------------------------------------------------------------
\* Two threads at work on one corpus would both own its upgrade lock, or an
\* exclusive lock next to another one.
LEMMA Alone ==
    ASSUME TypeInv, MutexInv, HoldInv PROVE OneAtATime
<1> SUFFICES ASSUME NEW t \in Threads, NEW u \in Threads, t # u,
                    pc[t] \in Working, pc[u] \in Working, corpus[t] = corpus[u]
             PROVE  FALSE
  BY DEF OneAtATime
<1>1. corpus[t] \in Corpora /\ kind[t] \in Exclusive \cup {"query"} /\ kind[u] \in Exclusive \cup {"query"}
  BY DEF HoldInv, Working, Using, Exclusive, NeedAll
<1>2. t # None /\ u # None
  BY LockingAssumption
<1>3. exclusive[corpus[t]] = t \/ upgrade[corpus[t]] = t
  BY <1>1 DEF HoldInv
<1>4. exclusive[corpus[t]] = u \/ upgrade[corpus[t]] = u
  BY <1>1 DEF HoldInv
<1> QED
  BY <1>1, <1>2, <1>3, <1>4 DEF MutexInv

LEMMA InitHolds == Init => IInv
<1> SUFFICES ASSUME Init PROVE IInv
  OBVIOUS
<1>1. TypeInv
  BY DEF Init, TypeInv, Labels, Statuses
<1>2. MutexInv /\ HoldInv /\ FirstLoadInv /\ LoadedWhileUsed
  BY DEF Init, MutexInv, HoldInv, FirstLoadInv, LoadedWhileUsed, Working, Using, Exclusive, NeedAll
<1> QED
  BY <1>1, <1>2 DEF IInv

\* A call begins with its kind and its corpus.
LEMMA CallHolds ==
    ASSUME IInv, NEW t \in Callers, Call(t) PROVE IInv'
<1> USE LockingAssumption
<1> t \in Threads
  BY DEF Threads
<1>1. TypeInv'
  BY DEF IInv, TypeInv, Call, locks, collect, Goto, Labels
<1>2. MutexInv'
  BY DEF IInv, MutexInv, Call, locks
<1>3. HoldInv'
  BY DEF IInv, TypeInv, HoldInv, Call, locks, Goto, Working, AllKinds, Using, Exclusive, NeedAll
<1>4. FirstLoadInv' /\ LoadedWhileUsed'
  BY DEF IInv, TypeInv, FirstLoadInv, LoadedWhileUsed, Call, locks, Goto, Using, Exclusive, NeedAll
<1> QED
  BY <1>1, <1>2, <1>3, <1>4 DEF IInv

\* The map changes, and no lock.
LEMMA LookupHolds ==
    ASSUME IInv, NEW t \in Threads, Lookup(t) PROVE IInv'
<1> USE LockingAssumption
<1>1. TypeInv'
  BY DEF IInv, TypeInv, Lookup, locks, collect, Goto, Labels, Statuses
<1>2. MutexInv'
  BY DEF IInv, TypeInv, MutexInv, HoldInv, Lookup, locks, Working, Using, Exclusive, NeedAll
<1>3. HoldInv'
  BY DEF IInv, TypeInv, MutexInv, HoldInv, Lookup, locks, Goto, Working, Using, Exclusive, NeedAll
<1>4. FirstLoadInv'
  BY DEF IInv, TypeInv, HoldInv, FirstLoadInv, Lookup, locks, Goto, Working, Using, Exclusive, NeedAll
<1>5. LoadedWhileUsed'
  BY DEF IInv, TypeInv, HoldInv, LoadedWhileUsed, Lookup, locks, Goto, Working, Statuses, Using, Exclusive, NeedAll
<1> QED
  BY <1>1, <1>2, <1>3, <1>4, <1>5 DEF IInv

\* A call gets its lock only where no other owner is in the way.
LEMMA LockHolds ==
    ASSUME IInv, NEW t \in Threads, Lock(t) PROVE IInv'
<1> USE LockingAssumption
<1>1. TypeInv'
  BY DEF IInv, TypeInv, Lock, locks, collect, Goto, Labels, Statuses, LockUpgrade, LockExclusive, CanLockUpgrade, CanLockShared, Unlocked
<1>2. MutexInv'
  BY DEF IInv, TypeInv, MutexInv, HoldInv, Lock, locks, Working, LockUpgrade, LockExclusive, CanLockUpgrade, CanLockShared, Unlocked, Using, Exclusive, NeedAll
<1>3. HoldInv'
  BY DEF IInv, TypeInv, MutexInv, HoldInv, Lock, locks, Goto, Working, LockUpgrade, LockExclusive, CanLockUpgrade, CanLockShared, Unlocked, Using, Exclusive, NeedAll
<1>4. FirstLoadInv'
  BY DEF IInv, TypeInv, HoldInv, FirstLoadInv, Lock, locks, Goto, Working, LockUpgrade, LockExclusive, CanLockUpgrade, CanLockShared, Unlocked, Using, Exclusive, NeedAll
<1>5. LoadedWhileUsed'
  BY DEF IInv, TypeInv, HoldInv, LoadedWhileUsed, Lock, locks, Goto, Working, Statuses, LockUpgrade, LockExclusive, CanLockUpgrade, CanLockShared, Unlocked, Using, Exclusive, NeedAll
<1> QED
  BY <1>1, <1>2, <1>3, <1>4, <1>5 DEF IInv

\* Waiting changes no owner.
LEMMA AwaitHolds ==
    ASSUME IInv, NEW t \in Threads, Await(t) PROVE IInv'
<1> USE LockingAssumption
<1>1. TypeInv'
  BY DEF IInv, TypeInv, Await, locks, collect, Goto, Labels, Statuses, AwaitExclusive
<1>2. MutexInv'
  BY DEF IInv, TypeInv, MutexInv, HoldInv, Await, locks, Working, AwaitExclusive, Using, Exclusive, NeedAll
<1>3. HoldInv'
  BY DEF IInv, TypeInv, MutexInv, HoldInv, Await, locks, Goto, Working, AwaitExclusive, Using, Exclusive, NeedAll
<1>4. FirstLoadInv'
  BY DEF IInv, TypeInv, HoldInv, FirstLoadInv, Await, locks, Goto, Working, AwaitExclusive, Using, Exclusive, NeedAll
<1>5. LoadedWhileUsed'
  BY DEF IInv, TypeInv, HoldInv, LoadedWhileUsed, Await, locks, Goto, Working, Statuses, AwaitExclusive, Using, Exclusive, NeedAll
<1> QED
  BY <1>1, <1>2, <1>3, <1>4, <1>5 DEF IInv

\* What the call needs is loaded.
LEMMA NeedNotLoadHolds ==
    ASSUME IInv, NEW t \in Threads, NeedNotLoad(t) PROVE IInv'
<1> USE LockingAssumption
<1>1. TypeInv'
  BY DEF IInv, TypeInv, NeedNotLoad, locks, collect, Goto, Labels, Statuses
<1>2. MutexInv'
  BY DEF IInv, TypeInv, MutexInv, HoldInv, NeedNotLoad, locks, Working, Using, Exclusive, NeedAll
<1>3. HoldInv'
  BY DEF IInv, TypeInv, MutexInv, HoldInv, NeedNotLoad, locks, Goto, Working, Using, Exclusive, NeedAll
<1>4. FirstLoadInv'
  BY DEF IInv, TypeInv, HoldInv, FirstLoadInv, NeedNotLoad, locks, Goto, Working, Using, Exclusive, NeedAll
<1>5. LoadedWhileUsed'
  BY DEF IInv, TypeInv, HoldInv, LoadedWhileUsed, NeedNotLoad, locks, Goto, Working, Statuses, Using, Exclusive, NeedAll
<1> QED
  BY <1>1, <1>2, <1>3, <1>4, <1>5 DEF IInv

\* A query loads only what is not loaded at all.
LEMMA BeginLoadHolds ==
    ASSUME IInv, NEW t \in Threads, BeginLoad(t) PROVE IInv'
<1> USE LockingAssumption
<1>1. TypeInv'
  BY DEF IInv, TypeInv, BeginLoad, locks, collect, Goto, Labels, Statuses
<1>2. MutexInv'
  BY DEF IInv, TypeInv, MutexInv, HoldInv, BeginLoad, locks, Working, Using, Exclusive, NeedAll
<1>3. HoldInv'
  BY DEF IInv, TypeInv, MutexInv, HoldInv, BeginLoad, locks, Goto, Working, Using, Exclusive, NeedAll
<1>4. FirstLoadInv'
  BY DEF IInv, TypeInv, HoldInv, FirstLoadInv, BeginLoad, locks, Goto, Working, Using, Exclusive, NeedAll
<1>5. LoadedWhileUsed'
  BY DEF IInv, TypeInv, HoldInv, LoadedWhileUsed, BeginLoad, locks, Goto, Working, Statuses, Using, Exclusive, NeedAll
<1> QED
  BY <1>1, <1>2, <1>3, <1>4, <1>5 DEF IInv

\* The loader is alone with its corpus, so nobody is disturbed.
LEMMA EndLoadHolds ==
    ASSUME IInv, NEW t \in Threads, EndLoad(t) PROVE IInv'
<1> USE LockingAssumption
<1>0. OneAtATime
  BY Alone DEF IInv
<1>1. TypeInv'
  BY DEF IInv, TypeInv, EndLoad, locks, collect, Goto, Labels, Statuses
<1>2. MutexInv'
  BY DEF IInv, TypeInv, MutexInv, HoldInv, EndLoad, locks, Working, Using, Exclusive, NeedAll
<1>3. HoldInv'
  BY DEF IInv, TypeInv, MutexInv, HoldInv, EndLoad, locks, Goto, Working, Using, Exclusive, NeedAll
<1>4. FirstLoadInv'
  BY <1>0 DEF IInv, TypeInv, HoldInv, FirstLoadInv, EndLoad, locks, Goto, Working, OneAtATime, Using, Exclusive, NeedAll
<1>5. LoadedWhileUsed'
  BY <1>0 DEF IInv, TypeInv, HoldInv, LoadedWhileUsed, EndLoad, locks, Goto, Working, Statuses, OneAtATime, Using, Exclusive, NeedAll
<1> QED
  BY <1>1, <1>2, <1>3, <1>4, <1>5 DEF IInv

\* The query keeps its upgrade lock while it waits.
LEMMA NeedComponentHolds ==
    ASSUME IInv, NEW t \in Threads, NeedComponent(t) PROVE IInv'
<1> USE LockingAssumption
<1>1. TypeInv'
  BY DEF IInv, TypeInv, NeedComponent, locks, collect, Goto, Labels, Statuses
<1>2. MutexInv'
  BY DEF IInv, TypeInv, MutexInv, HoldInv, NeedComponent, locks, Working, Using, Exclusive, NeedAll
<1>3. HoldInv'
  BY DEF IInv, TypeInv, MutexInv, HoldInv, NeedComponent, locks, Goto, Working, Using, Exclusive, NeedAll
<1>4. FirstLoadInv'
  BY DEF IInv, TypeInv, HoldInv, FirstLoadInv, NeedComponent, locks, Goto, Working, Using, Exclusive, NeedAll
<1>5. LoadedWhileUsed'
  BY DEF IInv, TypeInv, HoldInv, LoadedWhileUsed, NeedComponent, locks, Goto, Working, Statuses, Using, Exclusive, NeedAll
<1> QED
  BY <1>1, <1>2, <1>3, <1>4, <1>5 DEF IInv

\* The upgrade lock becomes the exclusive one.
LEMMA BeginExtendHolds ==
    ASSUME IInv, NEW t \in Threads, BeginExtend(t) PROVE IInv'
<1> USE LockingAssumption
<1>1. TypeInv'
  BY DEF IInv, TypeInv, BeginExtend, locks, collect, Goto, Labels, Statuses, UpgradeToExclusive
<1>2. MutexInv'
  BY DEF IInv, TypeInv, MutexInv, HoldInv, BeginExtend, locks, Working, UpgradeToExclusive, Using, Exclusive, NeedAll
<1>3. HoldInv'
  BY DEF IInv, TypeInv, MutexInv, HoldInv, BeginExtend, locks, Goto, Working, UpgradeToExclusive, Using, Exclusive, NeedAll
<1>4. FirstLoadInv'
  BY DEF IInv, TypeInv, HoldInv, FirstLoadInv, BeginExtend, locks, Goto, Working, UpgradeToExclusive, Using, Exclusive, NeedAll
<1>5. LoadedWhileUsed'
  BY DEF IInv, TypeInv, HoldInv, LoadedWhileUsed, BeginExtend, locks, Goto, Working, Statuses, UpgradeToExclusive, Using, Exclusive, NeedAll
<1> QED
  BY <1>1, <1>2, <1>3, <1>4, <1>5 DEF IInv

\* The exclusive lock becomes the upgrade lock; the corpus stays loaded.
LEMMA EndExtendHolds ==
    ASSUME IInv, NEW t \in Threads, EndExtend(t) PROVE IInv'
<1> USE LockingAssumption
<1>0. OneAtATime
  BY Alone DEF IInv
<1>1. TypeInv'
  BY DEF IInv, TypeInv, EndExtend, locks, collect, Goto, Labels, Statuses, BackToUpgrade
<1>2. MutexInv'
  BY DEF IInv, TypeInv, MutexInv, HoldInv, EndExtend, locks, Working, BackToUpgrade, Using, Exclusive, NeedAll
<1>3. HoldInv'
  BY DEF IInv, TypeInv, MutexInv, HoldInv, EndExtend, locks, Goto, Working, BackToUpgrade, Using, Exclusive, NeedAll
<1>4. FirstLoadInv'
  BY <1>0 DEF IInv, TypeInv, HoldInv, FirstLoadInv, EndExtend, locks, Goto, Working, OneAtATime, BackToUpgrade, Using, Exclusive, NeedAll
<1>5. LoadedWhileUsed'
  BY <1>0 DEF IInv, TypeInv, HoldInv, LoadedWhileUsed, EndExtend, locks, Goto, Working, Statuses, OneAtATime, BackToUpgrade, Using, Exclusive, NeedAll
<1> QED
  BY <1>1, <1>2, <1>3, <1>4, <1>5 DEF IInv

\* Who changes a corpus is alone with it and leaves it fully loaded.
LEMMA ChangeHolds ==
    ASSUME IInv, NEW t \in Threads, Change(t) PROVE IInv'
<1> USE LockingAssumption
<1>0. OneAtATime
  BY Alone DEF IInv
<1>1. TypeInv'
  BY DEF IInv, TypeInv, Change, locks, collect, Goto, Labels, Statuses, AllKinds
<1>2. MutexInv'
  BY DEF IInv, TypeInv, MutexInv, HoldInv, Change, locks, Working, Using, Exclusive, NeedAll
<1>3. HoldInv'
  BY DEF IInv, TypeInv, MutexInv, HoldInv, Change, locks, Goto, Working, Using, Exclusive, NeedAll
<1>4. FirstLoadInv'
  BY <1>0 DEF IInv, TypeInv, HoldInv, FirstLoadInv, Change, locks, Goto, Working, OneAtATime, Using, Exclusive, NeedAll
<1>5. LoadedWhileUsed'
  BY <1>0 DEF IInv, TypeInv, HoldInv, LoadedWhileUsed, Change, locks, Goto, Working, Statuses, OneAtATime, Using, Exclusive, NeedAll
<1> QED
  BY <1>1, <1>2, <1>3, <1>4, <1>5 DEF IInv

\* A thread gives back only what is its own.
LEMMA ReturnHolds ==
    ASSUME IInv, NEW t \in Threads, Return(t) PROVE IInv'
<1> USE LockingAssumption
<1>1. TypeInv'
  BY DEF IInv, TypeInv, Return, locks, collect, Goto, Labels, Statuses, Unlock
<1>2. MutexInv'
  BY DEF IInv, TypeInv, MutexInv, HoldInv, Return, locks, Working, Unlock, Using, Exclusive, NeedAll
<1>3. HoldInv'
  BY DEF IInv, TypeInv, MutexInv, HoldInv, Return, locks, Goto, Working, Unlock, Using, Exclusive, NeedAll
<1>4. FirstLoadInv'
  BY DEF IInv, TypeInv, HoldInv, FirstLoadInv, Return, locks, Goto, Working, Unlock, Using, Exclusive, NeedAll
<1>5. LoadedWhileUsed'
  BY DEF IInv, TypeInv, HoldInv, LoadedWhileUsed, Return, locks, Goto, Working, Statuses, Unlock, Using, Exclusive, NeedAll
<1> QED
  BY <1>1, <1>2, <1>3, <1>4, <1>5 DEF IInv

\* Who stops the writer of a corpus owns no lock of it yet ...
LEMMA KillWriterHolds ==
    ASSUME IInv, NEW t \in Threads, KillWriter(t) PROVE IInv'
<1> USE LockingAssumption
<1>1. TypeInv'
  BY DEF IInv, TypeInv, KillWriter, locks, collect, Goto, Labels, Statuses, AllKinds
<1>2. MutexInv'
  BY DEF IInv, TypeInv, MutexInv, HoldInv, KillWriter, locks, Working, Using, Exclusive, NeedAll
<1>3. HoldInv'
  BY DEF IInv, TypeInv, MutexInv, HoldInv, KillWriter, locks, Goto, Working, Using, Exclusive, NeedAll
<1>4. FirstLoadInv'
  BY DEF IInv, TypeInv, HoldInv, FirstLoadInv, KillWriter, locks, Goto, Working, Using, Exclusive, NeedAll
<1>5. LoadedWhileUsed'
  BY DEF IInv, TypeInv, HoldInv, LoadedWhileUsed, KillWriter, locks, Goto, Working, Statuses, Using, Exclusive, NeedAll
<1> QED
  BY <1>1, <1>2, <1>3, <1>4, <1>5 DEF IInv

\* ... nor when the writer has ended.
LEMMA JoinWriterHolds ==
    ASSUME IInv, NEW t \in Threads, JoinWriter(t) PROVE IInv'
<1> USE LockingAssumption
<1>1. TypeInv'
  BY DEF IInv, TypeInv, JoinWriter, locks, collect, Goto, Labels, Statuses, AllKinds
<1>2. MutexInv'
  BY DEF IInv, TypeInv, MutexInv, HoldInv, JoinWriter, locks, Working, Using, Exclusive, NeedAll
<1>3. HoldInv'
  BY DEF IInv, TypeInv, MutexInv, HoldInv, JoinWriter, locks, Goto, Working, Using, Exclusive, NeedAll
<1>4. FirstLoadInv'
  BY DEF IInv, TypeInv, HoldInv, FirstLoadInv, JoinWriter, locks, Goto, Working, Using, Exclusive, NeedAll
<1>5. LoadedWhileUsed'
  BY DEF IInv, TypeInv, HoldInv, LoadedWhileUsed, JoinWriter, locks, Goto, Working, Statuses, Using, Exclusive, NeedAll
<1> QED
  BY <1>1, <1>2, <1>3, <1>4, <1>5 DEF IInv

\* The writer begins with its corpus and without a lock.
LEMMA StartWriterHolds ==
    ASSUME IInv, NEW t \in Threads, StartWriter(t) PROVE IInv'
<1> USE LockingAssumption
<1> DEFINE w == FreshWriter
<1>a. w \in Writers /\ calls[w] = 0 /\ w \in Threads
  BY DEF StartWriter, FreshWriter, Threads
<1>b. corpus[t] \in Corpora
  BY DEF StartWriter, IInv, HoldInv
<1>c. /\ pc' = [pc EXCEPT ![t] = "finish", ![w] = "lock"]
      /\ kind' = [kind EXCEPT ![w] = "write"] /\ corpus' = [corpus EXCEPT ![w] = corpus[t]]
      /\ pc[t] = "start" /\ UNCHANGED <<status, locks>>
  BY DEF StartWriter
<1> HIDE DEF w
<1>1. TypeInv'
  BY <1>a, <1>b, <1>c DEF IInv, TypeInv, locks, collect, Goto, Labels, Statuses, AllKinds
<1>2. MutexInv'
  BY <1>a, <1>b, <1>c DEF IInv, TypeInv, MutexInv, HoldInv, locks, Working, Using, Exclusive, NeedAll
<1>3. HoldInv'
  BY <1>a, <1>b, <1>c DEF IInv, TypeInv, MutexInv, HoldInv, locks, Goto, Working, Using, Exclusive, NeedAll
<1>4. FirstLoadInv'
  BY <1>a, <1>b, <1>c DEF IInv, TypeInv, HoldInv, FirstLoadInv, locks, Goto, Working, Using, Exclusive, NeedAll
<1>5. LoadedWhileUsed'
  BY <1>a, <1>b, <1>c DEF IInv, TypeInv, HoldInv, LoadedWhileUsed, locks, Goto, Working, Statuses, Using, Exclusive, NeedAll
<1> QED
  BY <1>1, <1>2, <1>3, <1>4, <1>5 DEF IInv

\* An interrupted writer gives its lock back.
LEMMA InterruptedHolds ==
    ASSUME IInv, NEW t \in Threads, Interrupted(t) PROVE IInv'
<1> USE LockingAssumption
<1>1. TypeInv'
  BY DEF IInv, TypeInv, Interrupted, locks, collect, Goto, Labels, Statuses, AllKinds, Unlock
<1>2. MutexInv'
  BY DEF IInv, TypeInv, MutexInv, HoldInv, Interrupted, locks, Working, Unlock, Using, Exclusive, NeedAll
<1>3. HoldInv'
  BY DEF IInv, TypeInv, MutexInv, HoldInv, Interrupted, locks, Goto, Working, Unlock, Using, Exclusive, NeedAll
<1>4. FirstLoadInv'
  BY DEF IInv, TypeInv, HoldInv, FirstLoadInv, Interrupted, locks, Goto, Working, Unlock, Using, Exclusive, NeedAll
<1>5. LoadedWhileUsed'
  BY DEF IInv, TypeInv, HoldInv, LoadedWhileUsed, Interrupted, locks, Goto, Working, Statuses, Unlock, Using, Exclusive, NeedAll
<1> QED
  BY <1>1, <1>2, <1>3, <1>4, <1>5 DEF IInv

\* The collector keeps the lock on its corpus.
LEMMA BeginCollectHolds ==
    ASSUME IInv, NEW t \in Threads, BeginCollect(t) PROVE IInv'
<1> USE LockingAssumption
<1>1. TypeInv'
  BY DEF IInv, TypeInv, BeginCollect, locks, collect, Goto, Labels, Statuses
<1>2. MutexInv'
  BY DEF IInv, TypeInv, MutexInv, HoldInv, BeginCollect, locks, Working, Using, Exclusive, NeedAll
<1>3. HoldInv'
  BY DEF IInv, TypeInv, MutexInv, HoldInv, BeginCollect, locks, Goto, Working, Using, Exclusive, NeedAll
<1>4. FirstLoadInv'
  BY DEF IInv, TypeInv, HoldInv, FirstLoadInv, BeginCollect, locks, Goto, Working, Using, Exclusive, NeedAll
<1>5. LoadedWhileUsed'
  BY DEF IInv, TypeInv, HoldInv, LoadedWhileUsed, BeginCollect, locks, Goto, Working, Statuses, Using, Exclusive, NeedAll
<1> QED
  BY <1>1, <1>2, <1>3, <1>4, <1>5 DEF IInv

\* Measuring changes nothing the invariant speaks of.
LEMMA MeasureHolds ==
    ASSUME IInv, NEW t \in Threads, Measure(t) PROVE IInv'
<1> USE LockingAssumption
<1>1. TypeInv'
  BY DEF IInv, TypeInv, Measure, locks, collect, Goto, Labels, Statuses
<1>2. MutexInv'
  BY DEF IInv, TypeInv, MutexInv, HoldInv, Measure, locks, Working, Using, Exclusive, NeedAll
<1>3. HoldInv'
  BY DEF IInv, TypeInv, MutexInv, HoldInv, Measure, locks, Goto, Working, Using, Exclusive, NeedAll
<1>4. FirstLoadInv'
  BY DEF IInv, TypeInv, HoldInv, FirstLoadInv, Measure, locks, Goto, Working, Using, Exclusive, NeedAll
<1>5. LoadedWhileUsed'
  BY DEF IInv, TypeInv, HoldInv, LoadedWhileUsed, Measure, locks, Goto, Working, Statuses, Using, Exclusive, NeedAll
<1> QED
  BY <1>1, <1>2, <1>3, <1>4, <1>5 DEF IInv

\* Nor does its end.
LEMMA EndMeasureHolds ==
    ASSUME IInv, NEW t \in Threads, EndMeasure(t) PROVE IInv'
<1> USE LockingAssumption
<1>1. TypeInv'
  BY DEF IInv, TypeInv, EndMeasure, locks, collect, Goto, Labels, Statuses
<1>2. MutexInv'
  BY DEF IInv, TypeInv, MutexInv, HoldInv, EndMeasure, locks, Working, Using, Exclusive, NeedAll
<1>3. HoldInv'
  BY DEF IInv, TypeInv, MutexInv, HoldInv, EndMeasure, locks, Goto, Working, Using, Exclusive, NeedAll
<1>4. FirstLoadInv'
  BY DEF IInv, TypeInv, HoldInv, FirstLoadInv, EndMeasure, locks, Goto, Working, Using, Exclusive, NeedAll
<1>5. LoadedWhileUsed'
  BY DEF IInv, TypeInv, HoldInv, LoadedWhileUsed, EndMeasure, locks, Goto, Working, Statuses, Using, Exclusive, NeedAll
<1> QED
  BY <1>1, <1>2, <1>3, <1>4, <1>5 DEF IInv

\* An unlocked corpus is used by no thread.
LEMMA EvictHolds ==
    ASSUME IInv, NEW t \in Threads, Evict(t) PROVE IInv'
<1> USE LockingAssumption
<1>1. TypeInv'
  BY DEF IInv, TypeInv, Evict, locks, collect, Goto, Labels, Statuses, Unlocked
<1>2. MutexInv'
  BY DEF IInv, TypeInv, MutexInv, HoldInv, Evict, locks, Working, Unlocked, Using, Exclusive, NeedAll
<1>3. HoldInv'
  BY DEF IInv, TypeInv, MutexInv, HoldInv, Evict, locks, Goto, Working, Unlocked, Using, Exclusive, NeedAll
<1>4. FirstLoadInv'
  BY DEF IInv, TypeInv, HoldInv, FirstLoadInv, Evict, locks, Goto, Working, Unlocked, Using, Exclusive, NeedAll
<1>5. LoadedWhileUsed'
  BY DEF IInv, TypeInv, HoldInv, LoadedWhileUsed, Evict, locks, Goto, Working, Statuses, Unlocked, Using, Exclusive, NeedAll
<1> QED
  BY <1>1, <1>2, <1>3, <1>4, <1>5 DEF IInv

\* The call goes on with the corpus it has loaded.
LEMMA EndCollectHolds ==
    ASSUME IInv, NEW t \in Threads, EndCollect(t) PROVE IInv'
<1> USE LockingAssumption
<1>1. TypeInv'
  BY DEF IInv, TypeInv, EndCollect, locks, collect, Goto, Labels, Statuses
<1>2. MutexInv'
  BY DEF IInv, TypeInv, MutexInv, HoldInv, EndCollect, locks, Working, Using, Exclusive, NeedAll
<1>3. HoldInv'
  BY DEF IInv, TypeInv, MutexInv, HoldInv, EndCollect, locks, Goto, Working, Using, Exclusive, NeedAll
<1>4. FirstLoadInv'
  BY DEF IInv, TypeInv, HoldInv, FirstLoadInv, EndCollect, locks, Goto, Working, Using, Exclusive, NeedAll
<1>5. LoadedWhileUsed'
  BY DEF IInv, TypeInv, HoldInv, LoadedWhileUsed, EndCollect, locks, Goto, Working, Statuses, Using, Exclusive, NeedAll
<1> QED
  BY <1>1, <1>2, <1>3, <1>4, <1>5 DEF IInv

\* info owns no corpus yet.
LEMMA InfoBeginHolds ==
    ASSUME IInv, NEW t \in Threads, InfoBegin(t) PROVE IInv'
<1> USE LockingAssumption
<1>1. TypeInv'
  BY DEF IInv, TypeInv, InfoBegin, locks, collect, Goto, Labels, Statuses
<1>2. MutexInv'
  BY DEF IInv, TypeInv, MutexInv, HoldInv, InfoBegin, locks, Working, Using, Exclusive, NeedAll
<1>3. HoldInv'
  BY DEF IInv, TypeInv, MutexInv, HoldInv, InfoBegin, locks, Goto, Working, Using, Exclusive, NeedAll
<1>4. FirstLoadInv'
  BY DEF IInv, TypeInv, HoldInv, FirstLoadInv, InfoBegin, locks, Goto, Working, Using, Exclusive, NeedAll
<1>5. LoadedWhileUsed'
  BY DEF IInv, TypeInv, HoldInv, LoadedWhileUsed, InfoBegin, locks, Goto, Working, Statuses, Using, Exclusive, NeedAll
<1> QED
  BY <1>1, <1>2, <1>3, <1>4, <1>5 DEF IInv

\* info comes in only while nobody is exclusive.
LEMMA InfoLockHolds ==
    ASSUME IInv, NEW t \in Threads, InfoLock(t) PROVE IInv'
<1> USE LockingAssumption
<1>1. TypeInv'
  BY DEF IInv, TypeInv, InfoLock, locks, collect, Goto, Labels, Statuses, LockShared, CanLockShared
<1>2. MutexInv'
  BY DEF IInv, TypeInv, MutexInv, HoldInv, InfoLock, locks, Working, LockShared, CanLockShared, Using, Exclusive, NeedAll
<1>3. HoldInv'
  BY DEF IInv, TypeInv, MutexInv, HoldInv, InfoLock, locks, Goto, Working, LockShared, CanLockShared, Using, Exclusive, NeedAll
<1>4. FirstLoadInv'
  BY DEF IInv, TypeInv, HoldInv, FirstLoadInv, InfoLock, locks, Goto, Working, LockShared, CanLockShared, Using, Exclusive, NeedAll
<1>5. LoadedWhileUsed'
  BY DEF IInv, TypeInv, HoldInv, LoadedWhileUsed, InfoLock, locks, Goto, Working, Statuses, LockShared, CanLockShared, Using, Exclusive, NeedAll
<1> QED
  BY <1>1, <1>2, <1>3, <1>4, <1>5 DEF IInv

\* info leaves.
LEMMA InfoReturnHolds ==
    ASSUME IInv, NEW t \in Threads, InfoReturn(t) PROVE IInv'
<1> USE LockingAssumption
<1>1. TypeInv'
  BY DEF IInv, TypeInv, InfoReturn, locks, collect, Goto, Labels, Statuses, Unlock
<1>2. MutexInv'
  BY DEF IInv, TypeInv, MutexInv, HoldInv, InfoReturn, locks, Working, Unlock, Using, Exclusive, NeedAll
<1>3. HoldInv'
  BY DEF IInv, TypeInv, MutexInv, HoldInv, InfoReturn, locks, Goto, Working, Unlock, Using, Exclusive, NeedAll
<1>4. FirstLoadInv'
  BY DEF IInv, TypeInv, HoldInv, FirstLoadInv, InfoReturn, locks, Goto, Working, Unlock, Using, Exclusive, NeedAll
<1>5. LoadedWhileUsed'
  BY DEF IInv, TypeInv, HoldInv, LoadedWhileUsed, InfoReturn, locks, Goto, Working, Statuses, Unlock, Using, Exclusive, NeedAll
<1> QED
  BY <1>1, <1>2, <1>3, <1>4, <1>5 DEF IInv

\* The invariant is inductive.
LEMMA NextHolds == IInv /\ [Next]_vars => IInv'
<1> SUFFICES ASSUME IInv, [Next]_vars PROVE IInv'
  OBVIOUS
<1>1. CASE UNCHANGED vars
  BY <1>1 DEF IInv, TypeInv, MutexInv, HoldInv, FirstLoadInv, LoadedWhileUsed, vars, locks, Using, Exclusive, NeedAll
<1>2. CASE Rest
  BY <1>1, <1>2 DEF Rest
<1>4. ASSUME NEW t \in Callers, Call(t) PROVE IInv'
  BY <1>4, CallHolds
<1>3. ASSUME NEW t \in Threads, NeedComponent(t) \/ Step(t) PROVE IInv'
  BY <1>3, NeedComponentHolds, LookupHolds, LockHolds, AwaitHolds, NeedNotLoadHolds,
     BeginLoadHolds, EndLoadHolds, BeginExtendHolds, EndExtendHolds, ChangeHolds, ReturnHolds,
     KillWriterHolds, JoinWriterHolds, StartWriterHolds, InterruptedHolds,
     BeginCollectHolds, MeasureHolds, EndMeasureHolds, EvictHolds, EndCollectHolds,
     InfoBeginHolds, InfoLockHolds, InfoReturnHolds DEF Step
<1> QED
  BY <1>1, <1>2, <1>3, <1>4 DEF Next

LEMMA InvariantHolds == Spec => []IInv
  BY InitHolds, NextHolds, PTL DEF Spec

----------------------------------------------------------------------------
\* No collection unloads a corpus under the call that uses it.
THEOREM LoadedWhileInUse == Spec => []LoadedWhileUsed
<1>1. IInv => LoadedWhileUsed
  BY DEF IInv
<1> QED
  BY <1>1, InvariantHolds, PTL

\* One thread at a time works on a corpus.
THEOREM WorkersAreAlone == Spec => []OneAtATime
<1>1. IInv => OneAtATime
  BY Alone DEF IInv
<1> QED
  BY <1>1, InvariantHolds, PTL

\* While info reads, its corpus is not unloaded or extended.
THEOREM InfoIsUndisturbed == Spec => InfoSeesNoChange
<1> DEFINE Still == \A t \in Threads : pc[t] = "infoUse" =>
                        \/ status'[corpus[t]] = status[corpus[t]]
                        \/ status[corpus[t]] = "NOT_LOADED"
<1>1. ASSUME IInv, Next PROVE Still
  <2> SUFFICES ASSUME NEW t \in Threads, pc[t] = "infoUse", status' # status
               PROVE  \/ status'[corpus[t]] = status[corpus[t]]
                      \/ status[corpus[t]] = "NOT_LOADED"
    OBVIOUS
  <2>1. corpus[t] \in Corpora /\ t \in shared[corpus[t]]
    BY <1>1 DEF IInv, HoldInv
  <2>2. exclusive[corpus[t]] = None
    BY <1>1, <2>1 DEF IInv, MutexInv
  <2>3. PICK u \in Threads : EndLoad(u) \/ EndExtend(u) \/ Change(u) \/ Evict(u)
    BY <1>1 DEF Next, Step, Rest, vars, Call, NeedComponent, Lookup, Lock, Await, NeedNotLoad,
       BeginLoad, BeginExtend, Return, KillWriter, JoinWriter, StartWriter, Interrupted, BeginCollect, Measure, EndMeasure, EndCollect,
       InfoBegin, InfoLock, InfoReturn
  <2>4. CASE EndLoad(u)
    <3>1. corpus[u] = corpus[t] => kind[u] \notin NeedAll
      BY <1>1, <2>2, <2>4, LockingAssumption DEF IInv, HoldInv, EndLoad, Working, Using, Exclusive, NeedAll
    <3>2. corpus[u] = corpus[t] => status[corpus[t]] = "NOT_LOADED"
      BY <1>1, <2>4, <3>1 DEF IInv, FirstLoadInv, EndLoad, Exclusive, NeedAll
    <3> QED
      BY <1>1, <2>1, <2>4, <3>2 DEF IInv, TypeInv, EndLoad
  <2>5. CASE EndExtend(u)
    <3>1. corpus[u] # corpus[t]
      BY <1>1, <2>2, <2>5, LockingAssumption DEF IInv, HoldInv, EndExtend
    <3> QED
      BY <1>1, <2>1, <2>5, <3>1 DEF IInv, TypeInv, EndExtend
  <2>7. CASE Change(u)
    <3>1. corpus[u] # corpus[t]
      BY <1>1, <2>2, <2>7, LockingAssumption
      DEF IInv, HoldInv, Change, Working, Using, Exclusive, NeedAll
    <3> QED
      BY <1>1, <2>1, <2>7, <3>1 DEF IInv, TypeInv, Change
  <2>6. CASE Evict(u)
    BY <1>1, <2>1, <2>6 DEF IInv, TypeInv, Evict, Unlocked
  <2> QED
    BY <2>3, <2>4, <2>5, <2>6, <2>7
<1>2. IInv /\ [Next]_vars => [Still]_vars
  BY <1>1
<1> QED
  BY <1>2, InvariantHolds, PTL DEF Spec, InfoSeesNoChange

----------------------------------------------------------------------------
(****************************************************************************)
(* The accounts of the garbage collection. The locks say who may be at work *)
(* on a corpus, so a collector that no other thread disturbs finds every    *)
(* other corpus unlocked, counts each exactly once, and the sizes it holds  *)
(* stay true until it unloads their corpora.                                *)
(****************************************************************************)

\* Whoever owns a lock is at work on the corpus it belongs to.
Holders ==
    \A c \in Corpora, t \in Threads :
        /\ exclusive[c] = t \/ upgrade[c] = t => pc[t] \in Working /\ corpus[t] = c
        /\ t \in shared[c] => pc[t] = "infoUse" /\ corpus[t] = c

\* A lock is blocked only while somebody is there who will release it.
Blocks ==
    /\ blocked \in [Corpora -> BOOLEAN]
    /\ \A c \in Corpora : blocked[c] => ~Unlocked(c)

\* Between the begin of a collection, or of info, and its end its thread owns
\* mutex_corpusCache.
Collecting(t) == pc[t] \in {"measure", "evict"}

OneCollector ==
    /\ cacheMutex \in Threads \cup {None}
    /\ \A t \in Threads : Collecting(t) \/ pc[t] \in {"infoLock", "infoUse"} => cacheMutex = t

\* The manager's second mutex, and the threads it keeps.
Handles ==
    /\ writersMutex \in Callers \cup {None}
    /\ handle \in [Corpora -> Writers \cup {None}]
    /\ \A t \in Threads : pc[t] \in {"kill", "join"} => t \in Callers

\* Whoever works has called, or was started.
Counted ==
    /\ calls \in [Threads -> Nat]
    /\ \A t \in Threads : pc[t] # "idle" => calls[t] > 0

\* Every corpus that a thread works on, or that is loaded, is in the map.
Caches ==
    /\ cached \subseteq Corpora /\ IsFiniteSet(cached)
    /\ \A t \in Threads : pc[t] \in Working \cup {"lock"} => corpus[t] \in cached
    /\ \A c \in Corpora : status[c] # "NOT_LOADED" => c \in cached

\* The corpora still to be unloaded account for no more than the overall size;
\* for less when one was dropped because it was locked.
Sizes ==
    /\ toMeasure \subseteq Corpora /\ IsFiniteSet(toMeasure)
    /\ DOMAIN measured \subseteq Corpora /\ IsFiniteSet(DOMAIN measured)
    /\ toMeasure \cap DOMAIN measured = {}
    /\ measured \in [DOMAIN measured -> Nat]
    /\ overall \in Nat
    /\ Cardinality(Units(measured, DOMAIN measured)) <= overall

\* What a collector that no other thread disturbs knows.
Account(t) ==
    /\ corpus[t] \notin toMeasure \cup DOMAIN measured
    /\ \A c \in DOMAIN measured : measured[c] = estimateMemorySize(c)
    /\ \A c \in Others(t) : status[c] # "NOT_LOADED" => c \in toMeasure \cup DOMAIN measured
    /\ overall = Cardinality(Units(measured, DOMAIN measured))
    /\ pc[t] = "evict" => toMeasure = {}

Accounts == \A t \in Threads : Collecting(t) /\ Undisturbed(t) => Account(t)

CollectInv ==
    IInv /\ Holders /\ Handles /\ Blocks /\ OneCollector /\ Counted /\ Caches /\ Sizes /\ Accounts

ThreadStep(t) ==
    \/ t \in Callers /\ Call(t)
    \/ NeedComponent(t) \/ Step(t)

----------------------------------------------------------------------------
\* The units of finitely many corpora are finitely many, and another corpus
\* brings as many as its size.
LEMMA UnitsFinite ==
    ASSUME NEW S, IsFiniteSet(S), NEW size \in [S -> Nat] PROVE IsFiniteSet(Units(size, S))
<1>1. ASSUME NEW c \in S PROVE IsFiniteSet({c} \X (1 .. size[c]))
  <2>1. size[c] \in Int
    OBVIOUS
  <2>2. IsFiniteSet(1 .. size[c])
    BY <2>1, FS_Interval
  <2>3. IsFiniteSet({c})
    BY FS_Singleton
  <2> QED
    BY <2>2, <2>3, FS_Product
<1> DEFINE U == {{c} \X (1 .. size[c]) : c \in S}
<1>2. IsFiniteSet(U)
  <2> DEFINE f == [c \in S |-> {c} \X (1 .. size[c])]
  <2>1. f \in Surjection(S, U)
    BY DEF Surjection
  <2> QED
    BY <2>1, FS_Surjection
<1>3. \A x \in U : IsFiniteSet(x)
  BY <1>1
<1> QED
  BY <1>2, <1>3, FS_UNION DEF Units

LEMMA UnitsAdd ==
    ASSUME NEW S, IsFiniteSet(S), NEW c, c \notin S,
           NEW size \in [S \cup {c} -> Nat], NEW old \in [S -> Nat],
           \A x \in S : size[x] = old[x]
    PROVE  Cardinality(Units(size, S \cup {c})) = Cardinality(Units(old, S)) + size[c]
<1> DEFINE A == Units(old, S)
           B == {c} \X (1 .. size[c])
<1>1. IsFiniteSet(A)
  BY UnitsFinite
<1>2. size[c] \in Nat
  OBVIOUS
<1>3. IsFiniteSet(1 .. size[c]) /\ Cardinality(1 .. size[c]) = size[c]
  BY <1>2, FS_Interval
<1>4. IsFiniteSet({c}) /\ Cardinality({c}) = 1
  BY FS_Singleton
<1>5. IsFiniteSet(B) /\ Cardinality(B) = size[c]
  <2>1. IsFiniteSet(B) /\ Cardinality(B) = Cardinality({c}) * Cardinality(1 .. size[c])
    BY <1>3, <1>4, FS_Product
  <2> QED
    BY <1>2, <1>3, <1>4, <2>1
<1>6. Units(size, S \cup {c}) = A \cup B
  <2>1. {{x} \X (1 .. size[x]) : x \in S} = {{x} \X (1 .. old[x]) : x \in S}
    OBVIOUS
  <2>2. {{x} \X (1 .. size[x]) : x \in S \cup {c}} = {{x} \X (1 .. size[x]) : x \in S} \cup {B}
    OBVIOUS
  <2> QED
    BY <2>1, <2>2 DEF Units
<1>7. A \cap B = {}
  BY DEF Units
<1>8. Cardinality(A \cap B) = 0
  BY <1>7, FS_EmptySet
<1>9. Cardinality(A) \in Nat
  BY <1>1, FS_CardinalityType
<1>10. Cardinality(A \cup B) = Cardinality(A) + Cardinality(B) - Cardinality(A \cap B)
  BY <1>1, <1>5, FS_Union
<1>11. Cardinality(A \cup B) = Cardinality(A) + size[c]
  <2> HIDE DEF A, B
  <2> QED
    BY <1>2, <1>5, <1>8, <1>9, <1>10
<1> QED
  BY <1>6, <1>11

LEMMA UnitsRemove ==
    ASSUME NEW S, IsFiniteSet(S), NEW c \in S, NEW size \in [S -> Nat]
    PROVE  Cardinality(Units(size, S)) =
             Cardinality(Units(Restrict(size, S \ {c}), S \ {c})) + size[c]
<1> DEFINE R == S \ {c}
           small == Restrict(size, R)
<1>1. IsFiniteSet(R) /\ c \notin R /\ S = R \cup {c}
  BY FS_Subset
<1>2. small \in [R -> Nat] /\ \A x \in R : size[x] = small[x]
  BY DEF Restrict
<1> QED
  BY <1>1, <1>2, UnitsAdd

LEMMA UnitsOfNone == ASSUME NEW size PROVE Cardinality(Units(size, {})) = 0
BY FS_EmptySet DEF Units

LEMMA EstimateIsNat == ASSUME TypeInv PROVE \A c \in Corpora : estimateMemorySize(c) \in Nat
BY LockingAssumption DEF TypeInv, Statuses, estimateMemorySize

----------------------------------------------------------------------------
LEMMA CollectInit == Init => CollectInv
<1> SUFFICES ASSUME Init PROVE CollectInv
  OBVIOUS
<1>1. IInv
  BY InitHolds
<1>2. Holders
  BY LockingAssumption DEF Init, Holders
<1>3. Blocks /\ Handles /\ OneCollector /\ Counted /\ Accounts
  BY DEF Init, Handles, Blocks, OneCollector, Counted, Accounts, Collecting
<1>4. Caches
  BY FS_EmptySet DEF Init, Caches, Working, Using
<1>5. Sizes
  <2>1. DOMAIN measured = {}
    BY DEF Init
  <2>2. Cardinality(Units(measured, DOMAIN measured)) = 0
    BY <2>1, UnitsOfNone
  <2>3. measured \in [DOMAIN measured -> Nat]
    BY <2>1 DEF Init
  <2> QED
    BY <2>1, <2>2, <2>3, FS_EmptySet DEF Init, Sizes
<1> QED
  BY <1>1, <1>2, <1>3, <1>4, <1>5 DEF CollectInv

\* A step takes, swaps or gives back a lock of its own thread only, and leaves
\* the work only when it has given back what it owned.
LEMMA HoldersKept ==
    ASSUME IInv, Holders, Counted, NEW t \in Threads, ThreadStep(t) PROVE Holders'
<1> USE LockingAssumption
<1> TypeInv
  BY DEF IInv
<1>1. CASE Call(t) \/ Lookup(t) \/ InfoBegin(t)
  BY <1>1 DEF TypeInv, Holders, Call, Lookup, InfoBegin, locks, Goto, Working, Using
<1>2. CASE Lock(t)
  BY <1>2 DEF IInv, HoldInv, TypeInv, Holders, Lock, LockUpgrade, LockExclusive, Goto, Working, Using, Exclusive, NeedAll
<1>3. CASE Await(t) \/ Measure(t) \/ Evict(t)
  BY <1>3 DEF Holders, Await, AwaitExclusive, Measure, Evict, locks
<1>4. CASE NeedComponent(t) \/ NeedNotLoad(t) \/ BeginLoad(t) \/ EndLoad(t) \/ EndMeasure(t)
  BY <1>4 DEF TypeInv, Holders, NeedComponent, NeedNotLoad, BeginLoad, EndLoad, EndMeasure,
     locks, Goto, Working, Using
<1>12. CASE Change(t) \/ KillWriter(t) \/ JoinWriter(t)
  BY <1>12 DEF TypeInv, Holders, Change, KillWriter, JoinWriter, locks, Goto, Working, Using
<1>13. CASE StartWriter(t)
  <2>1. FreshWriter \in Threads /\ calls[FreshWriter] = 0
    BY <1>13 DEF StartWriter, FreshWriter, Threads
  <2>2. pc[FreshWriter] = "idle"
    BY <2>1 DEF Counted
  <2> QED
    BY <1>13, <2>1, <2>2 DEF TypeInv, Holders, StartWriter, locks, Working, Using
<1>14. CASE Interrupted(t)
  BY <1>14 DEF IInv, HoldInv, TypeInv, Holders, Interrupted, Unlock, Goto, Working, Using, Exclusive, NeedAll
<1>5. CASE BeginCollect(t)
  BY <1>5 DEF TypeInv, Holders, BeginCollect, locks, Goto, Working, Using
<1>11. CASE EndCollect(t)
  BY <1>11 DEF TypeInv, Holders, EndCollect, locks, Goto, Working, Using
<1>6. CASE BeginExtend(t)
  BY <1>6 DEF TypeInv, Holders, BeginExtend, UpgradeToExclusive, Goto, Working, Using
<1>7. CASE EndExtend(t)
  BY <1>7 DEF TypeInv, Holders, EndExtend, BackToUpgrade, Goto, Working, Using
<1>8. CASE Return(t)
  BY <1>8 DEF IInv, HoldInv, TypeInv, Holders, Return, Unlock, Goto, Working, Using, Exclusive, NeedAll
<1>9. CASE InfoLock(t)
  BY <1>9 DEF IInv, HoldInv, TypeInv, Holders, InfoLock, LockShared, Goto, Working, Using, Exclusive, NeedAll
<1>10. CASE InfoReturn(t)
  BY <1>10 DEF IInv, HoldInv, TypeInv, Holders, InfoReturn, Unlock, Goto, Working, Using, Exclusive, NeedAll
<1> QED
  BY <1>1, <1>2, <1>3, <1>4, <1>5, <1>6, <1>7, <1>8, <1>9, <1>10, <1>11, <1>12, <1>13, <1>14
  DEF ThreadStep, Step

\* Only who joins holds the mutex between two steps.
LEMMA HandlesKept ==
    ASSUME IInv, Handles, NEW t \in Threads, ThreadStep(t) PROVE Handles'
<1> TypeInv
  BY DEF IInv
<1>1. CASE UNCHANGED writers /\ (UNCHANGED pc \/ \E l \in Labels \ {"kill", "join"} : Goto(t, l))
  BY <1>1 DEF TypeInv, Handles, Goto, writers
<1>2. CASE t \in Callers /\ Call(t)
  BY <1>2 DEF TypeInv, Handles, Call, Goto, writers
<1>3. CASE KillWriter(t)
  BY <1>3 DEF TypeInv, Handles, KillWriter, Goto
<1>4. CASE JoinWriter(t)
  BY <1>4 DEF TypeInv, Handles, JoinWriter, Goto
<1>5. CASE StartWriter(t)
  <2>1. FreshWriter \in Writers
    BY <1>5 DEF StartWriter, FreshWriter
  <2> QED
    BY <1>5, <2>1 DEF TypeInv, Handles, StartWriter
<1>6. CASE Lookup(t) \/ Lock(t) \/ Await(t) \/ NeedComponent(t) \/ NeedNotLoad(t) \/ BeginLoad(t)
           \/ EndLoad(t) \/ BeginExtend(t) \/ EndExtend(t) \/ Change(t) \/ Return(t) \/ Interrupted(t)
  BY <1>1, <1>6 DEF Lookup, Lock, Await, NeedComponent, NeedNotLoad, BeginLoad, EndLoad,
     BeginExtend, EndExtend, Change, Return, Interrupted, Labels
<1>7. CASE BeginCollect(t) \/ Measure(t) \/ EndMeasure(t) \/ Evict(t) \/ EndCollect(t)
           \/ InfoBegin(t) \/ InfoLock(t) \/ InfoReturn(t)
  BY <1>1, <1>7 DEF BeginCollect, Measure, EndMeasure, Evict, EndCollect, InfoBegin, InfoLock,
     InfoReturn, Labels
<1> QED
  BY <1>2, <1>3, <1>4, <1>5, <1>6, <1>7 DEF ThreadStep, Step

\* The last to release a lock unblocks it.
LEMMA BlocksKept ==
    ASSUME IInv, Holders, Blocks, NEW t \in Threads, ThreadStep(t) PROVE Blocks'
<1> USE LockingAssumption
<1> TypeInv
  BY DEF IInv
<1>1. CASE UNCHANGED locks
  BY <1>1 DEF Blocks, Unlocked, locks
<1>2. CASE Lock(t)
  BY <1>2 DEF TypeInv, Blocks, Unlocked, Lock, LockUpgrade, LockExclusive
<1>3. CASE Await(t)
  BY <1>3 DEF TypeInv, Blocks, Unlocked, Await, AwaitExclusive
<1>4. CASE BeginExtend(t)
  BY <1>4 DEF TypeInv, Blocks, Unlocked, BeginExtend, UpgradeToExclusive
<1>5. CASE EndExtend(t)
  BY <1>5 DEF TypeInv, Blocks, Unlocked, EndExtend, BackToUpgrade
<1>6. ASSUME Return(t) \/ Interrupted(t) \/ InfoReturn(t) PROVE Blocks'
  <2> DEFINE d == corpus[t]
  <2>1. d \in Corpora /\ Unlock(t, d)
    BY <1>6 DEF IInv, HoldInv, Return, Interrupted, InfoReturn
  <2>2. exclusive[d] \in {t, None}
    BY <1>6, <2>1 DEF IInv, HoldInv, MutexInv, TypeInv, Return, Interrupted, InfoReturn, Working, Using, Exclusive, NeedAll
  <2>3. ASSUME NEW c \in Corpora, blocked'[c] PROVE ~Unlocked(c)'
    <3>1. blocked[c] /\ ~Unlocked(c)
      BY <2>1, <2>3 DEF Blocks, Unlock
    <3>2. CASE c # d
      BY <2>1, <3>1, <3>2 DEF TypeInv, Unlock, Unlocked
    <3>3. CASE c = d
      BY <2>1, <2>3, <3>1, <3>3 DEF TypeInv, Blocks, Unlock, Unlocked
    <3> QED
      BY <3>2, <3>3
  <2> QED
    BY <2>1, <2>3 DEF Blocks, Unlock
<1>7. CASE InfoLock(t)
  BY <1>7 DEF TypeInv, Blocks, Unlocked, InfoLock, LockShared, CanLockShared
<1> QED
  BY <1>1, <1>2, <1>3, <1>4, <1>5, <1>6, <1>7
  DEF ThreadStep, Step, Call, NeedComponent, Lookup, NeedNotLoad, BeginLoad, EndLoad,
      Change, KillWriter, JoinWriter, StartWriter, BeginCollect, Measure, EndMeasure, Evict,
      EndCollect, InfoBegin

LEMMA OneCollectorKept ==
    ASSUME IInv, OneCollector, NEW t \in Threads, ThreadStep(t) PROVE OneCollector'
<1> USE LockingAssumption
<1> TypeInv
  BY DEF IInv
<1>1. CASE UNCHANGED cacheMutex /\ (UNCHANGED pc \/ \E l \in Labels :
               Goto(t, l) /\ (l \notin {"measure", "evict", "infoLock", "infoUse"} \/ cacheMutex = t))
  BY <1>1 DEF TypeInv, OneCollector, Collecting, Goto
<1>2. CASE BeginCollect(t)
  BY <1>2 DEF TypeInv, OneCollector, Collecting, BeginCollect, Goto
<1>3. CASE EndCollect(t)
  BY <1>3 DEF TypeInv, OneCollector, Collecting, EndCollect, Goto
<1>4. CASE InfoBegin(t)
  BY <1>4 DEF TypeInv, OneCollector, Collecting, InfoBegin, Goto
<1>5. CASE InfoReturn(t)
  BY <1>5 DEF TypeInv, OneCollector, Collecting, InfoReturn, Goto
<1>6. CASE EndMeasure(t) \/ InfoLock(t)
  BY <1>6 DEF TypeInv, OneCollector, Collecting, EndMeasure, InfoLock, Goto
<1>7. CASE Call(t) \/ Lookup(t) \/ Lock(t) \/ Await(t) \/ NeedComponent(t) \/ NeedNotLoad(t)
           \/ BeginLoad(t) \/ EndLoad(t)
  BY <1>1, <1>7 DEF Call, Lookup, Lock, Await, NeedComponent, NeedNotLoad, BeginLoad, EndLoad, Labels
<1>8. CASE BeginExtend(t) \/ EndExtend(t) \/ Return(t) \/ Measure(t) \/ Evict(t)
  BY <1>1, <1>8 DEF BeginExtend, EndExtend, Return, Measure, Evict, Labels
<1>9. CASE Change(t) \/ KillWriter(t) \/ JoinWriter(t) \/ Interrupted(t)
  BY <1>1, <1>9 DEF Change, KillWriter, JoinWriter, Interrupted, Labels
<1>10. CASE StartWriter(t)
  BY <1>10 DEF TypeInv, OneCollector, Collecting, StartWriter
<1> QED
  BY <1>2, <1>3, <1>4, <1>5, <1>6, <1>7, <1>8, <1>9, <1>10 DEF ThreadStep, Step

LEMMA CountedKept ==
    ASSUME IInv, Counted, NEW t \in Threads, ThreadStep(t) PROVE Counted'
<1> TypeInv
  BY DEF IInv
<1>1. CASE Call(t)
  BY <1>1 DEF TypeInv, Counted, Call, Goto
<1>2. CASE pc[t] # "idle" /\ UNCHANGED calls /\ \A u \in Threads \ {t} : pc'[u] = pc[u]
  BY <1>2 DEF Counted
<1>3. CASE NeedComponent(t) \/ Lookup(t) \/ Lock(t) \/ Await(t) \/ NeedNotLoad(t) \/ BeginLoad(t)
           \/ EndLoad(t) \/ BeginExtend(t) \/ EndExtend(t) \/ Return(t)
  BY <1>2, <1>3 DEF TypeInv, NeedComponent, Lookup, Lock, Await, NeedNotLoad, BeginLoad,
     EndLoad, BeginExtend, EndExtend, Return, Goto
<1>5. CASE Change(t) \/ KillWriter(t) \/ JoinWriter(t) \/ Interrupted(t)
  BY <1>2, <1>5 DEF TypeInv, Change, KillWriter, JoinWriter, Interrupted, Goto
<1>6. CASE StartWriter(t)
  <2> DEFINE w == FreshWriter
  <2>1. pc' = [pc EXCEPT ![t] = "finish", ![w] = "lock"] /\ calls' = [calls EXCEPT ![w] = 1]
    BY <1>6 DEF StartWriter
  <2>2. pc[t] # "idle"
    BY <1>6 DEF StartWriter
  <2> HIDE DEF w
  <2>3. calls' \in [Threads -> Nat]
    BY <2>1 DEF Counted
  <2>4. ASSUME NEW u \in Threads, pc'[u] # "idle" PROVE calls'[u] > 0
    BY <2>1, <2>2, <2>4 DEF TypeInv, Counted
  <2> QED
    BY <2>3, <2>4 DEF Counted
<1>4. CASE BeginCollect(t) \/ Measure(t) \/ EndMeasure(t) \/ Evict(t) \/ EndCollect(t)
           \/ InfoBegin(t) \/ InfoLock(t) \/ InfoReturn(t)
  BY <1>2, <1>4 DEF TypeInv, BeginCollect, Measure, EndMeasure, Evict, EndCollect, InfoBegin,
     InfoLock, InfoReturn, Goto
<1> QED
  BY <1>1, <1>3, <1>4, <1>5, <1>6 DEF ThreadStep, Step

\* A corpus is looked up before it is locked, and loaded only by whoever locked it.
LEMMA CachesKept ==
    ASSUME IInv, Caches, NEW t \in Threads, ThreadStep(t) PROVE Caches'
<1> TypeInv
  BY DEF IInv
<1>1. CASE Call(t)
  BY <1>1 DEF TypeInv, Caches, Call, Goto, Working, Using
<1>2. CASE Lookup(t)
  <2>1. corpus[t] \in Corpora
    BY <1>2 DEF IInv, HoldInv, Lookup
  <2>2. cached' \subseteq Corpora /\ IsFiniteSet(cached')
    BY <1>2, <2>1, FS_AddElement DEF Caches, Lookup
  <2> QED
    BY <1>2, <2>2 DEF TypeInv, Caches, Lookup, Goto, Working, Using
<1>3. CASE EndLoad(t)
  BY <1>3 DEF TypeInv, Caches, EndLoad, Goto, Working, Using
<1>8. CASE Change(t)
  BY <1>8 DEF TypeInv, Caches, Change, Goto, Working, Using
<1>9. CASE KillWriter(t) \/ JoinWriter(t) \/ Interrupted(t)
  BY <1>9 DEF TypeInv, Caches, KillWriter, JoinWriter, Interrupted, Goto, Working, Using
<1>10. CASE StartWriter(t)
  BY <1>10 DEF TypeInv, Caches, StartWriter, FreshWriter, Working, Using
<1>4. CASE EndExtend(t)
  BY <1>4 DEF TypeInv, Caches, EndExtend, Goto, Working, Using
<1>5. CASE Evict(t)
  BY <1>5 DEF TypeInv, Caches, Evict, Goto, Working, Using
<1>6. CASE NeedComponent(t) \/ Lock(t) \/ Await(t) \/ NeedNotLoad(t) \/ BeginLoad(t)
           \/ BeginExtend(t) \/ Return(t)
  BY <1>6 DEF TypeInv, Caches, NeedComponent, Lock, Await, NeedNotLoad, BeginLoad,
     BeginExtend, Return, Goto, Working, Using
<1>7. CASE BeginCollect(t) \/ Measure(t) \/ EndMeasure(t) \/ EndCollect(t)
           \/ InfoBegin(t) \/ InfoLock(t) \/ InfoReturn(t)
  BY <1>7 DEF TypeInv, Caches, BeginCollect, Measure, EndMeasure, EndCollect, InfoBegin,
     InfoLock, InfoReturn, Goto, Working, Using
<1> QED
  BY <1>1, <1>2, <1>3, <1>4, <1>5, <1>6, <1>7, <1>8, <1>9, <1>10 DEF ThreadStep, Step

\* Measure counts a corpus once, and Evict subtracts what was counted.
LEMMA SizesKept ==
    ASSUME IInv, Caches, Sizes, NEW t \in Threads, ThreadStep(t) PROVE Sizes'
<1>1. CASE UNCHANGED collect
  BY <1>1 DEF Sizes, collect
<1>2. CASE BeginCollect(t) \/ EndCollect(t)
  <2>1. DOMAIN measured' = {} /\ measured' = <<>> /\ overall' = 0
    BY <1>2 DEF BeginCollect, EndCollect
  <2>2. Cardinality(Units(measured', DOMAIN measured')) = 0
    BY <2>1, UnitsOfNone
  <2>3. toMeasure' \subseteq Corpora /\ IsFiniteSet(toMeasure')
    BY <1>2, FS_Subset, FS_EmptySet DEF Caches, BeginCollect, EndCollect
  <2>4. measured' \in [DOMAIN measured' -> Nat]
    BY <2>1
  <2> HIDE DEF Units
  <2> QED
    BY <2>1, <2>2, <2>3, <2>4, FS_EmptySet DEF Sizes
<1>3. CASE Measure(t)
  <2>1. PICK c \in toMeasure :
            /\ toMeasure' = toMeasure \ {c}
            /\ IF CanLockShared(c)
               THEN /\ measured' = [x \in DOMAIN measured \cup {c} |->
                                      IF x = c THEN estimateMemorySize(c) ELSE measured[x]]
                    /\ overall' = overall + estimateMemorySize(c)
               ELSE UNCHANGED <<measured, overall>>
    BY <1>3 DEF Measure
  <2>2. c \in Corpora /\ c \notin DOMAIN measured /\ IsFiniteSet(toMeasure')
    BY <2>1, FS_Subset DEF Sizes
  <2>3. CASE ~CanLockShared(c)
    BY <2>1, <2>2, <2>3 DEF Sizes
  <2>4. CASE CanLockShared(c)
    <3>1. estimateMemorySize(c) \in Nat
      BY <2>2, EstimateIsNat DEF IInv
    <3>2. /\ DOMAIN measured' = DOMAIN measured \cup {c}
          /\ measured' \in [DOMAIN measured \cup {c} -> Nat]
          /\ \A x \in DOMAIN measured : measured'[x] = measured[x]
          /\ measured'[c] = estimateMemorySize(c)
      BY <2>1, <2>2, <2>4, <3>1 DEF Sizes
    <3>3. Cardinality(Units(measured', DOMAIN measured')) =
             Cardinality(Units(measured, DOMAIN measured)) + estimateMemorySize(c)
      BY <2>2, <3>2, UnitsAdd DEF Sizes
    <3>4. Cardinality(Units(measured, DOMAIN measured)) \in Nat
      BY UnitsFinite, FS_CardinalityType DEF Sizes
    <3>5. IsFiniteSet(DOMAIN measured')
      BY <3>2, FS_AddElement DEF Sizes
    <3> HIDE DEF Units
    <3> QED
      BY <2>1, <2>2, <2>4, <3>1, <3>2, <3>3, <3>4, <3>5 DEF Sizes
  <2> QED
    BY <2>3, <2>4
<1>4. CASE Evict(t)
  <2>1. PICK c \in DOMAIN measured :
            /\ measured' = Restrict(measured, DOMAIN measured \ {c})
            /\ overall' = IF Unlocked(c) THEN overall - measured[c] ELSE overall
    BY <1>4 DEF Evict
  <2>2. Cardinality(Units(measured, DOMAIN measured)) =
           Cardinality(Units(measured', DOMAIN measured \ {c})) + measured[c]
    BY <2>1, UnitsRemove DEF Sizes
  <2>3. /\ DOMAIN measured' = DOMAIN measured \ {c}
        /\ IsFiniteSet(DOMAIN measured')
        /\ measured' \in [DOMAIN measured' -> Nat]
    BY <2>1, FS_Subset DEF Sizes, Restrict
  <2>4. Cardinality(Units(measured', DOMAIN measured')) \in Nat
    BY <2>3, UnitsFinite, FS_CardinalityType
  <2>5. measured[c] \in Nat
    BY DEF Sizes
  <2>6. toMeasure' = toMeasure
    BY <1>4 DEF Evict
  <2> HIDE DEF Units
  <2> QED
    BY <2>1, <2>2, <2>3, <2>4, <2>5, <2>6 DEF Sizes
<1> QED
  BY <1>1, <1>2, <1>3, <1>4
  DEF ThreadStep, Step, Call, NeedComponent, Lookup, Lock, Await, NeedNotLoad, BeginLoad, EndLoad,
      BeginExtend, EndExtend, Change, Return, KillWriter, JoinWriter, StartWriter, Interrupted,
      EndMeasure, InfoBegin, InfoLock, InfoReturn

----------------------------------------------------------------------------
\* While nobody else has called, nobody else owns a lock, so every other corpus
\* can be had.
LEMMA OthersUnlocked ==
    ASSUME IInv, Holders, Blocks, Counted, NEW t \in Threads, Undisturbed(t)
    PROVE  \A c \in Others(t) : Unlocked(c) /\ CanLockShared(c)
<1> SUFFICES ASSUME NEW c \in Corpora, c # corpus[t]
             PROVE  Unlocked(c) /\ CanLockShared(c)
  BY DEF Others
<1>1. \A u \in Threads \ {t} : pc[u] = "idle"
  BY DEF Counted, Undisturbed
<1>2. \A u \in Threads : exclusive[c] # u /\ upgrade[c] # u /\ u \notin shared[c]
  BY <1>1 DEF Holders, Working, Using
<1>3. Unlocked(c)
  BY <1>2 DEF IInv, TypeInv, Unlocked
<1> QED
  BY <1>3 DEF Blocks, Unlocked, CanLockShared

\* The memory of all other corpora is what the collector has counted.
LEMMA OverallIsMemory ==
    ASSUME IInv, Sizes, NEW t \in Threads, pc[t] = "evict", Account(t)
    PROVE  overall = Memory(Others(t))
<1> DEFINE size == [c \in Corpora |-> estimateMemorySize(c)]
<1>1. DOMAIN measured \subseteq Others(t)
  BY DEF Sizes, Account, Others
<1>2. ASSUME NEW c \in Others(t), c \notin DOMAIN measured
      PROVE  {c} \X (1 .. size[c]) = {}
  <2>1. c \in Corpora
    BY DEF Others
  <2>2. status[c] = "NOT_LOADED"
    BY <1>2 DEF Account
  <2>3. size[c] = 0
    BY <2>1, <2>2 DEF estimateMemorySize
  <2> QED
    BY <2>3
<1>3. ASSUME NEW c \in DOMAIN measured
      PROVE  {c} \X (1 .. size[c]) = {c} \X (1 .. measured[c])
  BY DEF Account, Sizes
<1>4. Units(size, Others(t)) = Units(measured, DOMAIN measured)
  <2> HIDE DEF size
  <2> QED
    BY <1>1, <1>2, <1>3 DEF Units
<1> QED
  BY <1>4 DEF Memory, Account

\* Only the collector itself can change what an undisturbed collector knows.
LEMMA AccountsKept ==
    ASSUME CollectInv, NEW t \in Threads, ThreadStep(t) PROVE Accounts'
<1> SUFFICES ASSUME NEW u \in Threads, Collecting(u)', Undisturbed(u)' PROVE Account(u)'
  BY DEF Accounts
<1> IInv /\ TypeInv /\ Counted /\ Sizes
  BY DEF CollectInv, IInv
<1>1. u = t
  <2> SUFFICES ASSUME u # t PROVE FALSE
    OBVIOUS
  <2>1. calls'[t] > 0
    <3>1. CASE Call(t)
      BY <3>1 DEF Counted, Call
    <3>2. CASE UNCHANGED calls /\ pc[t] # "idle"
      BY <3>2 DEF Counted
    <3>3. CASE StartWriter(t)
      BY <3>3 DEF Counted, StartWriter
    <3> QED
      BY <3>1, <3>2, <3>3 DEF ThreadStep, Step, NeedComponent, Lookup, Lock, Await, NeedNotLoad, BeginLoad,
         EndLoad, BeginExtend, EndExtend, Change, Return, KillWriter, JoinWriter, Interrupted,
         BeginCollect, Measure, EndMeasure, Evict, EndCollect, InfoBegin, InfoLock, InfoReturn
  <2> QED
    BY <2>1 DEF Undisturbed
<1>2. BeginCollect(t) \/ Measure(t) \/ EndMeasure(t) \/ Evict(t)
  BY <1>1 DEF TypeInv, ThreadStep, Step, Call, NeedComponent, Lookup, Lock, Await, NeedNotLoad,
     BeginLoad, EndLoad, BeginExtend, EndExtend, Change, Return, KillWriter, JoinWriter,
     StartWriter, Interrupted, EndCollect, InfoBegin, InfoLock, InfoReturn, Goto, Collecting
<1>3. Undisturbed(t) /\ UNCHANGED <<corpus, calls, locks>>
  BY <1>1, <1>2 DEF BeginCollect, Measure, EndMeasure, Evict, Undisturbed
<1>4. corpus[t] \in Corpora /\ Others(t)' = Others(t)
  BY <1>2, <1>3 DEF IInv, HoldInv, BeginCollect, Measure, EndMeasure, Evict, Others
<1>5. \A c \in Others(t) : Unlocked(c) /\ CanLockShared(c)
  BY <1>3, OthersUnlocked DEF CollectInv
<1>6. CASE BeginCollect(t)
  <2>1. /\ toMeasure' = cached \ {corpus[t]} /\ DOMAIN measured' = {} /\ overall' = 0
        /\ UNCHANGED <<status, corpus>> /\ pc'[t] = "measure"
    BY <1>6 DEF TypeInv, BeginCollect, Goto
  <2>2. Cardinality(Units(measured', DOMAIN measured')) = 0
    BY <2>1, UnitsOfNone
  <2>3. \A c \in Others(t) : status[c] # "NOT_LOADED" => c \in toMeasure'
    BY <2>1 DEF CollectInv, Caches, Others
  <2> HIDE DEF Units
  <2> QED
    BY <1>1, <1>4, <2>1, <2>2, <2>3 DEF Account
<1>7. CASE Measure(t)
  <2>1. Account(t) /\ UNCHANGED <<status, corpus, pc>>
    BY <1>3, <1>7 DEF CollectInv, Accounts, Collecting, Measure
  <2>2. PICK c \in toMeasure :
            /\ toMeasure' = toMeasure \ {c}
            /\ IF CanLockShared(c)
               THEN /\ measured' = [x \in DOMAIN measured \cup {c} |->
                                      IF x = c THEN estimateMemorySize(c) ELSE measured[x]]
                    /\ overall' = overall + estimateMemorySize(c)
               ELSE UNCHANGED <<measured, overall>>
    BY <1>7 DEF Measure
  <2>3. c \in Others(t) /\ c \in Corpora /\ c \notin DOMAIN measured
    BY <2>1, <2>2 DEF Account, Sizes, Others
  <2>4. estimateMemorySize(c) \in Nat
    BY <2>3, EstimateIsNat
  <2>5. /\ DOMAIN measured' = DOMAIN measured \cup {c}
        /\ measured' \in [DOMAIN measured \cup {c} -> Nat]
        /\ \A x \in DOMAIN measured : measured'[x] = measured[x]
        /\ measured'[c] = estimateMemorySize(c)
    BY <1>5, <2>2, <2>3, <2>4 DEF Sizes
  <2>13. overall' = overall + estimateMemorySize(c)
    BY <1>5, <2>2, <2>3
  <2>6. Cardinality(Units(measured', DOMAIN measured')) =
           Cardinality(Units(measured, DOMAIN measured)) + estimateMemorySize(c)
    <3>1. IsFiniteSet(DOMAIN measured) /\ measured \in [DOMAIN measured -> Nat]
      BY DEF Sizes
    <3>2. Cardinality(Units(measured', DOMAIN measured \cup {c})) =
             Cardinality(Units(measured, DOMAIN measured)) + measured'[c]
      BY <2>3, <2>5, <3>1, UnitsAdd
    <3> QED
      BY <2>5, <3>2
  <2>7. \A x \in Corpora : estimateMemorySize(x)' = estimateMemorySize(x)
    BY <2>1 DEF estimateMemorySize
  <2>8. pc[t] = "measure"
    BY <1>7 DEF Measure
  <2> HIDE DEF Units
  <2>9. \A x \in DOMAIN measured' : measured'[x] = estimateMemorySize(x)'
    BY <2>1, <2>3, <2>5, <2>7 DEF Account, Sizes
  <2>10. \A x \in Others(t) : status[x] # "NOT_LOADED" => x \in toMeasure' \cup DOMAIN measured'
    BY <2>1, <2>2, <2>5 DEF Account
  <2>11. corpus[t] \notin toMeasure' \cup DOMAIN measured'
    BY <2>1, <2>2, <2>3, <2>5 DEF Account, Others
  <2>12. overall' = Cardinality(Units(measured', DOMAIN measured'))
    BY <2>1, <2>6, <2>13 DEF Account
  <2> QED
    BY <1>1, <1>4, <2>1, <2>8, <2>9, <2>10, <2>11, <2>12 DEF Account
<1>8. CASE EndMeasure(t)
  <2>1. Account(t) /\ UNCHANGED <<status, corpus, collect>> /\ toMeasure = {}
    BY <1>3, <1>8 DEF CollectInv, Accounts, Collecting, EndMeasure
  <2> QED
    BY <1>1, <1>4, <2>1 DEF Account, collect, estimateMemorySize
<1>9. CASE Evict(t)
  <2>1. Account(t) /\ UNCHANGED <<corpus, pc, toMeasure>>
    BY <1>3, <1>9 DEF CollectInv, Accounts, Collecting, Evict
  <2>2. PICK c \in DOMAIN measured :
            /\ measured' = Restrict(measured, DOMAIN measured \ {c})
            /\ IF Unlocked(c)
               THEN /\ status' = [status EXCEPT ![c] = "NOT_LOADED"]
                    /\ overall' = overall - measured[c]
               ELSE UNCHANGED <<status, overall>>
    BY <1>9 DEF Evict
  <2>3. c \in Others(t) /\ c \in Corpora
    BY <2>1 DEF Account, Sizes, Others
  <2>4. status' = [status EXCEPT ![c] = "NOT_LOADED"] /\ overall' = overall - measured[c]
    BY <1>5, <2>2, <2>3
  <2>5. /\ DOMAIN measured' = DOMAIN measured \ {c}
        /\ \A x \in DOMAIN measured' : measured'[x] = measured[x]
    BY <2>2 DEF Restrict
  <2>6. Cardinality(Units(measured, DOMAIN measured)) =
           Cardinality(Units(measured', DOMAIN measured')) + measured[c]
    BY <2>2, <2>5, UnitsRemove DEF Sizes
  <2>7. Cardinality(Units(measured', DOMAIN measured')) \in Nat /\ measured[c] \in Nat
    <3>1. IsFiniteSet(DOMAIN measured') /\ measured' \in [DOMAIN measured' -> Nat]
      BY <2>2, <2>5, FS_Subset DEF Sizes, Restrict
    <3> QED
      BY <3>1, UnitsFinite, FS_CardinalityType DEF Sizes
  <2> HIDE DEF Units
  <2>8. overall' = Cardinality(Units(measured', DOMAIN measured'))
    BY <2>1, <2>4, <2>6, <2>7 DEF Account
  <2>9. \A x \in DOMAIN measured' : measured'[x] = estimateMemorySize(x)'
    BY <2>1, <2>4, <2>5 DEF Account, Sizes, TypeInv, estimateMemorySize
  <2>10. \A x \in Others(t) : status'[x] # "NOT_LOADED" => x \in toMeasure' \cup DOMAIN measured'
    BY <2>1, <2>3, <2>4, <2>5 DEF Account, TypeInv, Others
  <2>11. corpus[t] \notin toMeasure' \cup DOMAIN measured'
    BY <2>1, <2>5 DEF Account
  <2> QED
    BY <1>1, <1>4, <2>1, <2>8, <2>9, <2>10, <2>11 DEF Account
<1> QED
  BY <1>2, <1>6, <1>7, <1>8, <1>9

LEMMA CollectKept == CollectInv /\ [Next]_vars => CollectInv'
<1> SUFFICES ASSUME CollectInv, [Next]_vars PROVE CollectInv'
  OBVIOUS
<1>1. IInv'
  BY NextHolds DEF CollectInv
<1>2. CASE UNCHANGED vars
  BY <1>1, <1>2
  DEF CollectInv, Holders, Handles, Blocks, Unlocked, OneCollector, Collecting, Counted, Caches, Sizes,
      Accounts, Account, Undisturbed, Others, estimateMemorySize, vars, locks, writers, collect
<1>3. ASSUME NEW t \in Threads, ThreadStep(t) PROVE CollectInv'
  BY <1>1, <1>3, HoldersKept, HandlesKept, BlocksKept, OneCollectorKept, CountedKept, CachesKept, SizesKept,
     AccountsKept DEF CollectInv
<1> QED
  BY <1>2, <1>3 DEF Next, Rest, ThreadStep, Threads

LEMMA CollectHolds == Spec => []CollectInv
  BY CollectInit, CollectKept, PTL DEF Spec

----------------------------------------------------------------------------
\* The type invariant: the collector never subtracts more than it has counted, so
\* the unsigned overallSize does not wrap around.
THEOREM TypeCorrect == Spec => []TypeOK
<1>1. CollectInv => TypeOK
  BY DEF CollectInv, IInv, TypeInv, Handles, Blocks, OneCollector, Counted, Caches, Sizes, TypeOK
<1> QED
  BY <1>1, CollectHolds, PTL

\* A collection that nobody disturbs ends with all corpora but the caller's own
\* within the limit.
THEOREM CollectionSuffices == Spec => []OthersFit
<1>1. ASSUME CollectInv, NEW t \in Threads, pc[t] = "evict", CollectionEnds, Undisturbed(t)
      PROVE  Memory(Others(t)) <= Limit
  <2>1. Account(t)
    BY <1>1 DEF CollectInv, Accounts, Collecting
  <2>2. overall = Memory(Others(t))
    BY <1>1, <2>1, OverallIsMemory DEF CollectInv
  <2>3. CASE overall <= Limit
    BY <2>2, <2>3
  <2>4. CASE DOMAIN measured = {}
    <3>1. overall = 0
      BY <2>1, <2>4, UnitsOfNone DEF Account
    <3> QED
      BY <2>2, <3>1, LockingAssumption
  <2> QED
    BY <1>1, <2>3, <2>4 DEF CollectionEnds
<1>2. CollectInv => OthersFit
  BY <1>1 DEF OthersFit
<1> QED
  BY <1>2, CollectHolds, PTL

\* It unloads a corpus only while the others still exceed the limit.
THEOREM NoMoreThanNeeded == Spec => NoNeedlessUnload
<1> DEFINE Needed == \A c \in Corpora : (status[c] # "NOT_LOADED" /\ status'[c] = "NOT_LOADED") =>
                        \E t \in Threads :
                            pc[t] = "evict" /\ (Undisturbed(t) => Memory(Others(t)) > Limit)
<1>1. ASSUME CollectInv, Next PROVE Needed
  <2> SUFFICES ASSUME NEW c \in Corpora, status[c] # "NOT_LOADED", status'[c] = "NOT_LOADED"
               PROVE  \E t \in Threads :
                          pc[t] = "evict" /\ (Undisturbed(t) => Memory(Others(t)) > Limit)
    OBVIOUS
  <2>1. PICK t \in Threads : EndLoad(t) \/ EndExtend(t) \/ Change(t) \/ Evict(t)
    BY <1>1 DEF Next, Step, Rest, vars, Call, NeedComponent, Lookup, Lock, Await, NeedNotLoad,
       BeginLoad, BeginExtend, Return, KillWriter, JoinWriter, StartWriter, Interrupted, BeginCollect, Measure, EndMeasure, EndCollect,
       InfoBegin, InfoLock, InfoReturn
  <2>2. Evict(t)
    BY <1>1, <2>1 DEF CollectInv, IInv, TypeInv, EndLoad, EndExtend, Change
  <2>3. ASSUME Undisturbed(t) PROVE Memory(Others(t)) > Limit
    <3>1. Account(t) /\ pc[t] = "evict" /\ overall > Limit
      BY <1>1, <2>2, <2>3 DEF CollectInv, Accounts, Collecting, Evict
    <3> QED
      BY <1>1, <3>1, OverallIsMemory DEF CollectInv
  <2> QED
    BY <2>2, <2>3 DEF Evict
<1>2. CollectInv /\ [Next]_vars => [Needed]_vars
  BY <1>1
<1> QED
  BY <1>2, CollectHolds, PTL DEF Spec, NoNeedlessUnload
=============================================================================
