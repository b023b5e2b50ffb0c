-------------------------- MODULE CorpusPersistence --------------------------
(****************************************************************************)
(* How one corpus survives on disk: CorpusStorageManager::applyUpdate, its  *)
(* background writer and the imports, DBLoader's lazy loading, and DB::load *)
(* and DB::save, with the process killed in between.                        *)
(*                                                                          *)
(* A corpus is a directory with two sub-directories, current and backup.    *)
(* Each holds the serialized data and, possibly, the log of one update.     *)
(* The content of a corpus is the set of updates and imports it reflects.   *)
(****************************************************************************)
EXTENDS Naturals, FiniteSets

CONSTANTS
    Updates,      \* applyUpdate calls, each with its own GraphUpdate; the
                  \* writer thread a call starts bears the update's name
    Imports,      \* importCorpus and importRelANNIS calls
    Size,         \* getLastConsistentChangeID() of an update; ids start at 1
    CrashPoints,  \* the places at which the process may be killed
    MaxCrashes,   \* bound on the number of crashes
    MaxUnloads,   \* bound on the garbage collections that hit this corpus
    MaxEvents,    \* bound on calls, crashes and garbage collections together
    None,         \* no log, no thread, no call
    Torn          \* a log file whose stream has not been flushed

Ops == Updates \cup Imports

\* The steps of DB::save.
SavePhases == {"create", "write", "unlog", "close"}

\* What the lock holder is about to do; "idle" is a free lock.
Phases == SavePhases \cup {"idle", "load", "drop", "ready", "applied", "log",
                           "flush", "purge", "purging", "saved"}

\* Why DB::save runs: from DB::load, from the writer, from an import.
Purposes == {"recover", "checkpoint", "import"}

Places == (Phases \ SavePhases) \cup Purposes

\* Where the code does not keep the disk recoverable: the log is in the stream's
\* buffer, the backup is being deleted, an import overwrites current.
Windows == {"log", "flush", "purging", "import"}

ASSUME PersistenceAssumption ==
    /\ Updates \cap Imports = {}
    /\ None \notin Ops
    /\ Torn \notin Ops
    /\ None # Torn
    /\ Size \in [Updates -> Nat \ {0}]
    /\ CrashPoints \subseteq Places
    /\ MaxCrashes \in Nat
    /\ MaxUnloads \in Nat
    /\ MaxEvents \in Nat

VARIABLES
    current, backup,              \* the disk
    loaded, mem, cid,             \* dbLoaded, the DB's content, currentChangeID
    role, subject, phase, saveFor,  \* the holder of the DBLoader lock
    call,                         \* progress of each API call
    writer,                       \* progress of each writer thread
    handle,                       \* the thread stored in writerThreads
    joiner,                       \* the call joining it under mutex_writerThreads
    interrupted,                  \* threads with a pending interruption
    served,                       \* history: operations that returned
    checkpoint,                   \* history: content last saved completely
    atRisk,                       \* history: operations a crash may still undo
    spoiled,                      \* history: a kill has fallen into a window,
                                  \* or a log could not be written
    crashes, unloads

disk    == <<current, backup>>
db      == <<loaded, mem, cid>>
holder  == <<role, subject, phase, saveFor>>
threads == <<writer, handle, joiner, interrupted>>
history == <<served, checkpoint, atRisk>>
budget  == <<crashes, unloads, spoiled>>
vars    == <<disk, db, holder, call, threads, history, budget>>

----------------------------------------------------------------------------
(* The disk. A torn directory misses some of the bytes or files of a save.  *)

Dirs == [exists : BOOLEAN, torn : BOOLEAN, ops : SUBSET Ops,
         log : Updates \cup {None, Torn}]

NoDir == [exists |-> FALSE, torn |-> FALSE, ops |-> {}, log |-> None]

\* Mutant: the backup is read only when there is nothing else.
LoadDirCurrentFirst == IF current.exists THEN current ELSE backup

\* DB::load reads the backup whenever there is one.
LoadDir == IF backup.exists THEN backup ELSE current

Damaged(d) == d.torn \/ d.log = Torn

\* What a fresh process, whose currentChangeID is 0, would load.
Recoverable ==
    IF Damaged(LoadDir) THEN {} ELSE LoadDir.ops \cup ({LoadDir.log} \ {None})

Place == IF phase \in SavePhases THEN saveFor ELSE phase

----------------------------------------------------------------------------
(* The DBLoader lock. Only exclusive and upgrade holders change anything.   *)

\* Take the lock, then DBLoader::get() or getFullyLoaded().
Take(r, s) ==
    /\ phase = "idle"
    /\ role' = r
    /\ subject' = s
    /\ phase' = IF loaded THEN "ready" ELSE "load"
    /\ UNCHANGED saveFor

Step(from, to) ==
    /\ phase = from
    /\ phase' = to
    /\ UNCHANGED <<role, subject, saveFor>>

Release ==
    /\ role' = "free"
    /\ subject' = None
    /\ phase' = "idle"
    /\ saveFor' = "none"

Init ==
    /\ current = NoDir /\ backup = NoDir
    /\ loaded = FALSE /\ mem = {} /\ cid = 0
    /\ role = "free" /\ subject = None /\ phase = "idle" /\ saveFor = "none"
    /\ call = [o \in Ops |-> "new"]
    /\ writer = [u \in Updates |-> "none"]
    /\ handle = None /\ joiner = None /\ interrupted = {}
    /\ served = {} /\ checkpoint = {} /\ atRisk = {}
    /\ crashes = 0 /\ unloads = 0 /\ spoiled = FALSE

\* The bound on what comes from outside.
MayHappen ==
    crashes + unloads + Cardinality({o \in Ops : call[o] # "new"}) < MaxEvents

----------------------------------------------------------------------------
(* applyUpdate, first half: killBackgroundWriter under mutex_writerThreads. *)

NoWriterToKill(u) ==
    /\ call[u] = "new" /\ MayHappen
    /\ joiner = None /\ handle = None
    /\ call' = [call EXCEPT ![u] = "ready"]
    /\ UNCHANGED <<disk, db, holder, threads, history, budget>>

\* interrupt() and then join(): the mutex stays locked until the thread ends.
InterruptWriter(u) ==
    /\ call[u] = "new" /\ MayHappen
    /\ joiner = None /\ handle # None
    /\ call' = [call EXCEPT ![u] = "joining"]
    /\ joiner' = u
    /\ interrupted' = interrupted \cup {handle}
    /\ UNCHANGED <<disk, db, holder, writer, handle, history, budget>>

JoinWriter(u) ==
    /\ joiner = u /\ writer[handle] = "done"
    /\ call' = [call EXCEPT ![u] = "ready"]
    /\ joiner' = None
    /\ handle' = None
    /\ UNCHANGED <<disk, db, holder, writer, interrupted, history, budget>>

(* applyUpdate, second half: under the exclusive lock.                      *)

UpdateLock(u) ==
    /\ call[u] = "ready"
    /\ Take("update", u)
    /\ call' = [call EXCEPT ![u] = "locked"]
    /\ UNCHANGED <<disk, db, threads, history, budget>>

\* db.update: each change leaves its id in currentChangeID.
ApplyUpdate ==
    /\ role = "update" /\ call[subject] = "locked"
    /\ Step("ready", "applied")
    /\ mem' = mem \cup {subject}
    /\ cid' = Size[subject]
    /\ UNCHANGED <<disk, loaded, call, threads, history, budget>>

\* The old log is truncated; the new one stays in the stream's buffer.
OpenLog ==
    /\ Step("applied", "log")
    /\ current' = [current EXCEPT !.exists = TRUE, !.log = Torn]
    /\ atRisk' = IF backup.exists THEN atRisk
                                  ELSE atRisk \cup (served \ checkpoint)
    /\ UNCHANGED <<backup, db, call, threads, served, checkpoint, budget>>

\* The archive throws after the old log was truncated (a full disk). What was
\* written stays behind for the handler's db.load.
LogWriteFails ==
    /\ Step("applied", "load")
    /\ current' = [current EXCEPT !.exists = TRUE, !.log = Torn]
    /\ call' = [call EXCEPT ![subject] = "failed"]
    /\ atRisk' = atRisk \cup (served \ checkpoint)
    /\ spoiled' = (spoiled \/ ~backup.exists)
    /\ UNCHANGED <<backup, db, threads, served, checkpoint, crashes, unloads>>

\* The map entry is overwritten: a thread still in it runs on, detached.
StartWriter ==
    /\ joiner = None
    /\ Step("log", "flush")
    /\ writer' = [writer EXCEPT ![subject] = "waiting"]
    /\ handle' = subject
    /\ UNCHANGED <<disk, db, call, joiner, interrupted, history, budget>>

\* The end of the try block destroys the stream, then the lock guard.
FlushLog ==
    /\ phase = "flush"
    /\ Release
    /\ current' = [current EXCEPT !.log = subject]
    /\ call' = [call EXCEPT ![subject] = "acked"]
    /\ served' = served \cup {subject}
    /\ atRisk' = IF backup.exists THEN atRisk \cup {subject} ELSE atRisk
    /\ UNCHANGED <<backup, db, threads, checkpoint, budget>>

\* The update, the directory creation or the opening of the log fails; the handler
\* reloads the corpus but keeps dbLoaded and the currentChangeID that was reached.
UpdateFails ==
    /\ role = "update" /\ call[subject] = "locked"
    /\ Step("ready", "load")
    /\ cid' \in {cid} \cup 1..Size[subject]
    /\ call' = [call EXCEPT ![subject] = "failed"]
    /\ atRisk' = atRisk \cup (served \ checkpoint)
    /\ UNCHANGED <<disk, loaded, mem, threads, served, checkpoint, budget>>

\* No thread can be created: unwinding flushes the log before the handler runs.
StartWriterFails ==
    /\ joiner = None
    /\ Step("log", "load")
    /\ current' = [current EXCEPT !.log = subject]
    /\ call' = [call EXCEPT ![subject] = "failed"]
    /\ atRisk' = atRisk \cup (served \ checkpoint)
    /\ UNCHANGED <<backup, db, threads, served, checkpoint, budget>>

FailedUpdateReturns ==
    /\ role = "update" /\ phase = "ready" /\ call[subject] = "failed"
    /\ Release
    /\ UNCHANGED <<disk, db, call, threads, history, budget>>

----------------------------------------------------------------------------
(* DB::load. clear() keeps currentChangeID, so a log is replayed only if it *)
(* goes beyond the id this process has already reached.                     *)

\* Mutant: off by one, a log of a single change is taken for an old one.
ReplayedOffByOne(d) == d.log \in Updates /\ Size[d.log] > cid + 1

Replayed(d) == d.log \in Updates /\ Size[d.log] > cid

LoadFrom(d) ==
    /\ d.log # Torn
    /\ mem' = IF Replayed(d) THEN d.ops \cup {d.log} ELSE d.ops
    /\ cid' = IF d.log = None THEN 0
              ELSE IF Replayed(d) THEN Size[d.log] ELSE cid

\* A missing file is no error: torn data may also load, incompletely.
LoadCurrent ==
    /\ ~backup.exists
    /\ Step("load", "ready")
    /\ LoadFrom(current)
    /\ loaded' = TRUE
    /\ UNCHANGED <<disk, call, threads, history, budget>>

\* Mutant: the backup is dropped before the recovered corpus is saved.
LoadBackupDropsFirst ==
    /\ backup.exists
    /\ phase = "load" /\ phase' = "drop" /\ saveFor' = "recover"
    /\ LoadFrom(backup)
    /\ UNCHANGED <<disk, loaded, role, subject, call, threads, history, budget>>

LoadBackup ==
    /\ backup.exists
    /\ phase = "load" /\ phase' = "create" /\ saveFor' = "recover"
    /\ LoadFrom(backup)
    /\ UNCHANGED <<disk, loaded, role, subject, call, threads, history, budget>>

\* cereal throws on a short file; the exception leaves the API call. The log is
\* read last. dbLoaded stays as it was, also in the handler of applyUpdate.
LoadThrows ==
    /\ phase = "load" /\ role # "writer"
    /\ Damaged(LoadDir)
    /\ mem' = IF LoadDir.torn THEN {} ELSE LoadDir.ops
    /\ Release
    /\ call' = IF subject \in Ops THEN [call EXCEPT ![subject] = "failed"] ELSE call
    /\ UNCHANGED <<disk, loaded, cid, threads, history, budget>>

\* Mutant: the backup folder stays.
DropBackupForgotten ==
    /\ phase = "drop" /\ phase' = "ready" /\ saveFor' = "none"
    /\ loaded' = TRUE
    /\ checkpoint' = mem
    /\ atRisk' = atRisk \ mem
    /\ UNCHANGED <<disk, mem, cid, role, subject, call, threads, served, budget>>

\* rename to a temporary directory, which is then removed
DropBackup ==
    /\ phase = "drop" /\ phase' = "ready" /\ saveFor' = "none"
    /\ backup' = NoDir
    /\ loaded' = TRUE
    /\ checkpoint' = mem
    /\ atRisk' = atRisk \ mem
    /\ UNCHANGED <<current, mem, cid, role, subject, call, threads, served, budget>>

----------------------------------------------------------------------------
(* DB::save, into current. The nodes' stream is closed only on return.      *)

CreateCurrent ==
    /\ Step("create", "write")
    /\ current' = [current EXCEPT !.exists = TRUE]
    /\ UNCHANGED <<backup, db, call, threads, history, budget>>

WriteData ==
    /\ Step("write", "unlog")
    /\ current' = [current EXCEPT !.torn = TRUE, !.ops = {}]
    /\ UNCHANGED <<backup, db, call, threads, history, budget>>

RemoveLog ==
    /\ Step("unlog", "close")
    /\ current' = [current EXCEPT !.log = None]
    /\ UNCHANGED <<backup, db, call, threads, history, budget>>

\* Mutant: the purpose of the save is taken for its next step.
AfterSaveUnmapped == IF saveFor = "recover" THEN "drop" ELSE saveFor

AfterSave == CASE saveFor = "recover"    -> "drop"
               [] saveFor = "checkpoint" -> "purge"
               [] saveFor = "import"     -> "saved"

CloseData ==
    /\ Step("close", AfterSave)
    /\ current' = [current EXCEPT !.torn = FALSE, !.ops = mem]
    /\ UNCHANGED <<backup, db, call, threads, history, budget>>

----------------------------------------------------------------------------
(* The background writer.                                                   *)

\* Mutant: a writer whose map entry was overwritten never gets the lock.
WriterLockIfRegistered(u) ==
    /\ writer[u] = "waiting" /\ handle = u
    /\ Take("writer", u)
    /\ writer' = [writer EXCEPT ![u] = "running"]
    /\ UNCHANGED <<disk, db, call, handle, joiner, interrupted, history, budget>>

WriterLock(u) ==
    /\ writer[u] = "waiting"
    /\ Take("writer", u)
    /\ writer' = [writer EXCEPT ![u] = "running"]
    /\ UNCHANGED <<disk, db, call, handle, joiner, interrupted, history, budget>>

\* Mutant: the missing check lets a half-saved current replace the backup.
MoveToBackupUnchecked ==
    /\ role = "writer"
    /\ phase = "ready" /\ phase' = "create" /\ saveFor' = "checkpoint"
    /\ backup' = current /\ current' = NoDir
    /\ UNCHANGED <<db, role, subject, call, threads, history, budget>>

\* Mutant: the log is deleted before the corpus is saved.
MoveToBackupWithoutLog ==
    /\ role = "writer"
    /\ phase = "ready" /\ phase' = "create" /\ saveFor' = "checkpoint"
    /\ IF backup.exists THEN UNCHANGED disk
       ELSE backup' = [current EXCEPT !.log = None] /\ current' = NoDir
    /\ UNCHANGED <<db, role, subject, call, threads, history, budget>>

MoveToBackup ==
    /\ role = "writer"
    /\ phase = "ready" /\ phase' = "create" /\ saveFor' = "checkpoint"
    /\ IF backup.exists THEN UNCHANGED disk
       ELSE backup' = current /\ current' = NoDir
    /\ UNCHANGED <<db, role, subject, call, threads, history, budget>>

\* remove_all deletes file by file, in the order the directory yields them.
PurgeBegins ==
    /\ Step("purge", "purging")
    /\ \E torn \in BOOLEAN, log \in {backup.log, None} :
          backup' = [backup EXCEPT !.torn = torn, !.log = log,
                                   !.ops = IF torn THEN {} ELSE backup.ops]
    /\ UNCHANGED <<current, db, call, threads, history, budget>>

WriterEnds ==
    /\ Release
    /\ writer' = [writer EXCEPT ![subject] = "done"]
    /\ UNCHANGED <<call, handle, joiner, interrupted, served, budget>>

PurgeEnds ==
    /\ phase = "purging"
    /\ backup' = NoDir
    /\ checkpoint' = mem
    /\ atRisk' = atRisk \ mem
    /\ WriterEnds
    /\ UNCHANGED <<current, db>>

\* An interruption point: unwinding closes the streams. Before the graph
\* storages are written the saved data is incomplete. Interrupted inside
\* DB::load, the DB keeps the change id of the log it has replayed.
WriterInterrupted ==
    /\ role = "writer" /\ subject \in interrupted
    /\ phase \in SavePhases \cup {"load", "ready", "purge"}
    /\ phase = "create" => saveFor = "checkpoint"
    /\ \/ phase \notin {"unlog", "close"} /\ UNCHANGED current
       \/ phase \in {"unlog", "close"}
          /\ current' = [current EXCEPT !.torn = FALSE, !.ops = mem]
       \/ phase = "unlog" /\ UNCHANGED current
    /\ atRisk' = IF saveFor = "recover" THEN atRisk \cup (served \ checkpoint)
                                        ELSE atRisk
    /\ WriterEnds
    /\ UNCHANGED <<backup, db, checkpoint>>

----------------------------------------------------------------------------
(* Queries, which load the corpus on demand, and the cache's garbage        *)
(* collection, run from the onload callback of another corpus.              *)

ReadLock ==
    /\ ~loaded
    /\ Take("read", None)
    /\ UNCHANGED <<disk, db, call, threads, history, budget>>

ReadReturns ==
    /\ role = "read" /\ phase = "ready"
    /\ Release
    /\ UNCHANGED <<disk, db, call, threads, history, budget>>

Unload ==
    /\ phase = "idle" /\ loaded
    /\ unloads < MaxUnloads /\ MayHappen
    /\ loaded' = FALSE
    /\ mem' = {}
    /\ unloads' = unloads + 1
    /\ atRisk' = atRisk \cup (served \ checkpoint)
    /\ UNCHANGED <<disk, cid, holder, call, threads, served, checkpoint, crashes, spoiled>>

----------------------------------------------------------------------------
(* importCorpus and importRelANNIS replace the content and save in place.   *)
(* Neither stops the background writer.                                     *)

ImportLock(i) ==
    /\ call[i] = "new" /\ MayHappen
    /\ Take("import", i)
    /\ call' = [call EXCEPT ![i] = "locked"]
    /\ UNCHANGED <<disk, db, threads, history, budget>>

\* db.load of a corpus without a log resets the change id, the relANNIS loader
\* does not. What was served before the import need not survive it.
ImportLoad ==
    /\ role = "import"
    /\ phase = "ready" /\ phase' = "create" /\ saveFor' = "import"
    /\ mem' = {subject}
    /\ cid' \in {0, cid}
    /\ served' = {} /\ checkpoint' = {} /\ atRisk' = {}
    /\ UNCHANGED <<disk, loaded, role, subject, call, threads, budget>>

ImportReturns ==
    /\ phase = "saved"
    /\ Release
    /\ call' = [call EXCEPT ![subject] = "acked"]
    /\ served' = {subject}
    /\ checkpoint' = IF backup.exists THEN {} ELSE {subject}
    /\ atRisk' = IF backup.exists THEN {subject} ELSE {}
    /\ UNCHANGED <<disk, db, threads, budget>>

----------------------------------------------------------------------------
(* The process dies: killed, or by an exception that leaves a thread.       *)

ProcessDies ==
    /\ crashes' = crashes + 1
    /\ spoiled' = (spoiled \/ Place \in Windows)
    /\ loaded' = FALSE /\ mem' = {} /\ cid' = 0
    /\ Release
    /\ call' = [o \in Ops |-> IF call[o] \in {"joining", "ready", "locked"}
                              THEN "failed" ELSE call[o]]
    /\ writer' = [u \in Updates |-> IF writer[u] = "none" THEN "none" ELSE "done"]
    /\ handle' = None /\ joiner' = None /\ interrupted' = {}
    /\ UNCHANGED <<disk, history, unloads>>

Crash ==
    /\ Place \in CrashPoints
    /\ crashes < MaxCrashes /\ MayHappen
    /\ ProcessDies

WriterThrows ==
    /\ phase = "load" /\ role = "writer"
    /\ Damaged(LoadDir)
    /\ ProcessDies

----------------------------------------------------------------------------
HolderStep ==
    \/ ApplyUpdate \/ OpenLog \/ StartWriter \/ FlushLog
    \/ UpdateFails \/ LogWriteFails \/ StartWriterFails \/ FailedUpdateReturns
    \/ LoadCurrent \/ LoadBackup \/ LoadThrows \/ DropBackup
    \/ CreateCurrent \/ WriteData \/ RemoveLog \/ CloseData
    \/ MoveToBackup \/ PurgeBegins \/ PurgeEnds \/ WriterInterrupted
    \/ ReadReturns \/ ImportLoad \/ ImportReturns \/ WriterThrows

UpdateCall(u) ==
    NoWriterToKill(u) \/ InterruptWriter(u) \/ JoinWriter(u) \/ UpdateLock(u)

Next ==
    \/ HolderStep
    \/ \E u \in Updates : UpdateCall(u) \/ WriterLock(u)
    \/ \E i \in Imports : ImportLock(i)
    \/ ReadLock
    \/ Unload
    \/ Crash

Spec == Init /\ [][Next]_vars

\* Every thread that can run does. Nobody has to call, to query, to crash or
\* to collect garbage.
Fairness ==
    /\ WF_vars(HolderStep)
    /\ \A u \in Updates :
          /\ WF_vars(JoinWriter(u))
          /\ WF_vars(UpdateLock(u))
          /\ WF_vars(WriterLock(u))

FairSpec == Spec /\ Fairness

----------------------------------------------------------------------------
(* Properties.                                                              *)

Calls   == {"new", "joining", "ready", "locked", "acked", "failed"}
Writers == {"none", "waiting", "running", "done"}

\* The type invariant.
TypeOK ==
    /\ current \in Dirs /\ backup \in Dirs
    /\ loaded \in BOOLEAN /\ mem \subseteq Ops /\ cid \in Nat
    /\ role \in {"free", "update", "writer", "read", "import"}
    /\ subject \in Ops \cup {None}
    /\ phase \in Phases
    /\ saveFor \in Purposes \cup {"none"}
    /\ call \in [Ops -> Calls]
    /\ writer \in [Updates -> Writers]
    /\ handle \in Updates \cup {None} /\ joiner \in Updates \cup {None}
    /\ interrupted \subseteq Updates
    /\ served \subseteq Ops /\ checkpoint \subseteq Ops /\ atRisk \subseteq Ops
    /\ crashes \in Nat /\ unloads \in Nat /\ spoiled \in BOOLEAN

\* Outside the windows, if no kill fell into one and every log was written.
Sound == ~spoiled /\ Place \notin Windows

\* Killed anywhere but in a window, the process leaves a complete directory to
\* the next DB::load: in the middle of the writer's or a recovery's DB::save
\* there is a whole backup (the comments in DB::load and startBackgroundWriter).
RecoveryIntact == Sound => ~Damaged(LoadDir)

\* What one complete save has written is found again by every later load.
CheckpointSurvives == Sound => checkpoint \subseteq Recoverable

\* A crash undoes an update that has returned only if no save has completed
\* since and the log was overwritten by the next update, written next to a
\* backup, or skipped because the corpus was reloaded in the same process.
LostOnlyIfAtRisk == Sound => served \ Recoverable \subseteq atRisk

\* The corpus in memory, lazily loaded and reloaded, contains every update
\* that has returned, with the same exceptions.
MemoryServes ==
    ~spoiled /\ loaded /\ phase = "idle" => served \ mem \subseteq atRisk

\* The backup is touched only when current is complete, has no log and holds
\* everything that was served and is not at risk.
BackupRemovedLate ==
    [][~spoiled /\ backup.exists /\ backup' # backup =>
          /\ ~Damaged(current) /\ current.log = None
          /\ served \ atRisk \subseteq current.ops]_vars

\* Three updates at once can wait for each other: one joins the writer of the
\* second under mutex_writerThreads, the writer waits for the corpus, and the
\* third owns the corpus and waits for mutex_writerThreads to start its writer.
CircularWait ==
    joiner # None /\ writer[handle] = "waiting" /\ phase = "log"

\* All writer threads that were started end, with the process if it is killed, so
\* that the join in killBackgroundWriter returns. The exceptions: the circular
\* wait, which lasts for ever, and a corpus that cannot be loaded, whose readers,
\* failing again and again, may keep the writers from the lock.
AllWritersDone == \A u \in Updates : writer[u] \in {"none", "done"}

WritersFinish == ~AllWritersDone ~> (AllWritersDone \/ spoiled \/ CircularWait)

\* Without a crash a backup folder is removed in the end, even if the writer that
\* created it was interrupted, unless the updates run into the circular wait or
\* the backup took over a log that could not be written.
BackupGoesAway ==
    (backup.exists /\ crashes = 0) ~>
        (~backup.exists \/ crashes > 0 \/ spoiled \/ CircularWait)

\* Wherever the process is first killed, imports aside, one of the two
\* directories still holds the data of the last complete save.
RepairableByHand ==
    crashes = 0 /\ Place # "import" =>
        \/ ~current.torn /\ checkpoint \subseteq current.ops
        \/ backup.exists /\ ~backup.torn /\ checkpoint \subseteq backup.ops

----------------------------------------------------------------------------
(* What the comments say, and the code does not do.                         *)

\* "renaming is atomic and deleting could leave an incomplete backup folder on
\* disk": nor may the writer, while it deletes the backup, leave a corpus that
\* the next DB::load reads without what was saved.
PurgeKeepsCheckpoint == phase = "purging" => checkpoint \subseteq Recoverable

\* The log that the next DB::load reads is whole while an update is logged.
LogReadable == phase \in {"log", "flush"} => ~Damaged(LoadDir)

\* "apply any outstanding log file updates": an update that has returned is in
\* the data or in the log, and a restart finds it.
AckedSurvive == Place \in CrashPoints => served \subseteq Recoverable

\* The same in the process that took the update: a reload serves it again.
AckedServed == loaded /\ phase = "idle" => served \subseteq mem

\* "the backup already contains the last consistent version" when the writer
\* finds a backup folder.
BackupHoldsLastVersion ==
    role = "writer" /\ phase = "ready" /\ backup.exists =>
        served \subseteq Recoverable

\* "make sure the corpus is properly saved at least once": an import that has
\* returned is what a restart loads.
ImportSaved ==
    Place \in CrashPoints => served \cap Imports \subseteq Recoverable

\* "Will return as the thread is successfully stopped": a call that joins a
\* writer does not hold the mutex that the owner of the corpus is waiting for.
NoCircularWait == ~CircularWait
=============================================================================
