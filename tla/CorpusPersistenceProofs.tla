----------------------- MODULE CorpusPersistenceProofs -----------------------
(* Theorems about CorpusPersistence, for every value of its constants. *)
EXTENDS CorpusPersistence, TLAPS

\* What the type invariant leaves open about the lock's holder: who it is, and
\* what it may be doing.
HolderOK ==
    /\ role = "free" <=> phase = "idle"
    /\ role \in {"update", "writer"} => subject \in Updates
    /\ role = "writer" => writer[subject] = "running"
    /\ role = "import" => subject \in Imports
    /\ phase \in {"applied", "log", "flush"} => role = "update"
    /\ phase \in {"purge", "purging"} => role = "writer" /\ saveFor = "checkpoint"
    /\ phase = "saved" => role = "import" /\ saveFor = "import"
    /\ phase \in SavePhases => saveFor \in Purposes
    /\ phase = "drop" => saveFor = "recover"
    /\ phase \in {"idle", "load", "ready", "applied", "log", "flush"} => saveFor = "none"
    /\ saveFor = "import" => role = "import"
    /\ saveFor = "checkpoint" => role = "writer"
    /\ joiner # None => handle # None

LEMMA NoDirType == NoDir \in Dirs
BY DEF NoDir, Dirs

LEMMA InitType == Init => TypeOK /\ HolderOK
<1> SUFFICES ASSUME Init PROVE TypeOK /\ HolderOK
    OBVIOUS
<1>1. TypeOK
  BY PersistenceAssumption, NoDirType
     DEF Init, TypeOK, Calls, Writers, Phases, SavePhases
<1>2. HolderOK
  BY DEF Init, HolderOK, SavePhases
<1> QED
  BY <1>1, <1>2

LEMMA DiesCounted == ASSUME crashes \in Nat, ProcessDies PROVE crashes' \in Nat
BY DEF ProcessDies

LEMMA NextType == TypeOK /\ HolderOK /\ [Next]_vars => TypeOK' /\ HolderOK'
<1> SUFFICES ASSUME TypeOK, HolderOK, [Next]_vars PROVE TypeOK' /\ HolderOK'
    OBVIOUS
<1> USE PersistenceAssumption
        DEF TypeOK, HolderOK, Dirs, Calls, Writers, Phases, SavePhases, Purposes, Ops,
            Step, Take, Release, disk, db, holder, threads, history, budget
<1>1. CASE UNCHANGED vars
  BY <1>1 DEF vars
<1>2. ASSUME NEW u \in Updates, NoWriterToKill(u) PROVE TypeOK' /\ HolderOK'
  BY <1>2 DEF NoWriterToKill
<1>3. ASSUME NEW u \in Updates, InterruptWriter(u) PROVE TypeOK' /\ HolderOK'
  BY <1>3 DEF InterruptWriter
<1>4. ASSUME NEW u \in Updates, JoinWriter(u) PROVE TypeOK' /\ HolderOK'
  BY <1>4 DEF JoinWriter
<1>5. ASSUME NEW u \in Updates, UpdateLock(u) PROVE TypeOK' /\ HolderOK'
  BY <1>5 DEF UpdateLock
<1>6. CASE ApplyUpdate
  BY <1>6 DEF ApplyUpdate
<1>7. CASE OpenLog
  <2>1. current' \in Dirs
    BY <1>7 DEF OpenLog
  <2>2. TypeOK' /\ HolderOK'
    BY <1>7, <2>1 DEF OpenLog
  <2> QED
    BY <2>2
<1>8. CASE StartWriter
  BY <1>8 DEF StartWriter
<1>9. CASE FlushLog
  <2>1. current' \in Dirs
    BY <1>9 DEF FlushLog
  <2>2. TypeOK' /\ HolderOK'
    BY <1>9, <2>1 DEF FlushLog
  <2> QED
    BY <2>2
<1>10. CASE UpdateFails
  BY <1>10 DEF UpdateFails
<1>11. CASE StartWriterFails
  <2>1. current' \in Dirs
    BY <1>11 DEF StartWriterFails
  <2>2. TypeOK' /\ HolderOK'
    BY <1>11, <2>1 DEF StartWriterFails
  <2> QED
    BY <2>2
<1>33. CASE LogWriteFails
  <2>1. current' \in Dirs
    BY <1>33 DEF LogWriteFails
  <2>2. TypeOK' /\ HolderOK'
    BY <1>33, <2>1 DEF LogWriteFails
  <2> QED
    BY <2>2
<1>12. CASE FailedUpdateReturns
  BY <1>12 DEF FailedUpdateReturns
<1>13. CASE LoadCurrent
  BY <1>13 DEF LoadCurrent, LoadFrom, Replayed
<1>14. CASE LoadBackup
  BY <1>14 DEF LoadBackup, LoadFrom, Replayed
<1>15. CASE LoadThrows
  BY <1>15 DEF LoadThrows, LoadDir
<1>16. CASE DropBackup
  BY <1>16 DEF DropBackup, NoDir
<1>17. CASE CreateCurrent
  <2>1. current' \in Dirs
    BY <1>17 DEF CreateCurrent
  <2>2. TypeOK' /\ HolderOK'
    BY <1>17, <2>1 DEF CreateCurrent
  <2> QED
    BY <2>2
<1>18. CASE WriteData
  <2>1. current' \in Dirs
    BY <1>18 DEF WriteData
  <2>2. TypeOK' /\ HolderOK'
    BY <1>18, <2>1 DEF WriteData
  <2> QED
    BY <2>2
<1>19. CASE RemoveLog
  <2>1. current' \in Dirs
    BY <1>19 DEF RemoveLog
  <2>2. TypeOK' /\ HolderOK'
    BY <1>19, <2>1 DEF RemoveLog
  <2> QED
    BY <2>2
<1>20. CASE CloseData
  <2>1. AfterSave \in Phases /\ phase' = AfterSave
    BY <1>20 DEF CloseData, AfterSave
  <2>4. current' \in Dirs
    BY <1>20 DEF CloseData
  <2>2. TypeOK'
    BY <1>20, <2>1, <2>4 DEF CloseData
  <2>3. HolderOK'
    BY <1>20 DEF CloseData, AfterSave
  <2> QED
    BY <2>2, <2>3
<1>21. ASSUME NEW u \in Updates, WriterLock(u) PROVE TypeOK' /\ HolderOK'
  BY <1>21 DEF WriterLock
<1>22. CASE MoveToBackup
  <2>1. current' \in Dirs /\ backup' \in Dirs
    BY <1>22, NoDirType DEF MoveToBackup
  <2>2. TypeOK' /\ HolderOK'
    BY <1>22, <2>1 DEF MoveToBackup
  <2> QED
    BY <2>2
<1>23. CASE PurgeBegins
  <2>1. PICK torn \in BOOLEAN, log \in {backup.log, None} :
           backup' = [backup EXCEPT !.torn = torn, !.log = log,
                                    !.ops = IF torn THEN {} ELSE backup.ops]
    BY <1>23 DEF PurgeBegins
  <2>2. backup' \in Dirs
    BY <2>1
  <2> QED
    BY <1>23, <2>2 DEF PurgeBegins
<1>24. CASE PurgeEnds
  BY <1>24 DEF PurgeEnds, WriterEnds, NoDir
<1>25. CASE WriterInterrupted
  <2>1. current' \in Dirs
    BY <1>25 DEF WriterInterrupted
  <2> QED
    BY <1>25, <2>1 DEF WriterInterrupted, WriterEnds
<1>26. CASE ReadLock
  BY <1>26 DEF ReadLock
<1>27. CASE ReadReturns
  BY <1>27 DEF ReadReturns
<1>28. CASE Unload
  <2>1. TypeOK'
    <3>1. unloads' \in Nat /\ mem' \subseteq Ops /\ atRisk' \subseteq Ops
      BY <1>28 DEF Unload
    <3> HIDE DEF Dirs
    <3> QED
      BY <1>28, <3>1 DEF Unload
  <2>2. HolderOK'
    BY <1>28 DEF Unload
  <2> QED
    BY <2>1, <2>2
<1>29. ASSUME NEW i \in Imports, ImportLock(i) PROVE TypeOK' /\ HolderOK'
  BY <1>29 DEF ImportLock
<1>30. CASE ImportLoad
  BY <1>30 DEF ImportLoad
<1>31. CASE ImportReturns
  BY <1>31 DEF ImportReturns
<1>32. CASE ProcessDies
  <2>1. call' \in [Ops -> Calls] /\ writer' \in [Updates -> Writers]
    BY <1>32 DEF ProcessDies
  <2>2. TypeOK'
    <3>1. crashes' \in Nat
      BY <1>32, DiesCounted
    <3>6. loaded' \in BOOLEAN /\ mem' \subseteq Ops /\ cid' \in Nat
      BY <1>32 DEF ProcessDies
    <3>2. current' \in Dirs /\ backup' \in Dirs
      BY <1>32 DEF ProcessDies
    <3>3. /\ role' \in {"free", "update", "writer", "read", "import"}
          /\ subject' \in Ops \cup {None}
          /\ phase' \in Phases /\ saveFor' \in Purposes \cup {"none"}
      BY <1>32 DEF ProcessDies
    <3>4. /\ handle' \in Updates \cup {None} /\ joiner' \in Updates \cup {None}
          /\ interrupted' \subseteq Updates
      BY <1>32 DEF ProcessDies
    <3>5. served' \subseteq Ops /\ checkpoint' \subseteq Ops /\ atRisk' \subseteq Ops
          /\ unloads' \in Nat /\ spoiled' \in BOOLEAN
      BY <1>32 DEF ProcessDies
    <3> QED
      BY <2>1, <3>1, <3>2, <3>3, <3>4, <3>5, <3>6 DEF TypeOK
  <2>3. HolderOK'
    BY <1>32 DEF ProcessDies
  <2> QED
    BY <2>2, <2>3
<1> QED
  BY <1>1, <1>2, <1>3, <1>4, <1>5, <1>6, <1>7, <1>8, <1>9, <1>10, <1>11, <1>12,
     <1>13, <1>14, <1>15, <1>16, <1>17, <1>18, <1>19, <1>20, <1>21, <1>22, <1>23,
     <1>24, <1>25, <1>26, <1>27, <1>28, <1>29, <1>30, <1>31, <1>32, <1>33
     DEF Next, HolderStep, UpdateCall, Crash, WriterThrows

\* The type invariant holds in every state.
THEOREM TypeCorrect == Spec => []TypeOK
<1>1. TypeOK /\ HolderOK /\ [Next]_vars => TypeOK' /\ HolderOK'
  BY NextType
<1> QED
  BY InitType, <1>1, PTL DEF Spec

----------------------------------------------------------------------------
(* Safety, as long as no kill falls into a window.                          *)

\* The DB holds a loaded corpus, whether or not dbLoaded has been set yet.
InMemory == phase \notin {"idle", "load"} \/ (phase = "idle" /\ loaded)

\* The writer finds a directory to move: the log was written before it started.
PresenceInv ==
    /\ phase \in {"log", "flush", "write", "unlog", "close", "drop", "purge", "purging"} =>
          current.exists
    /\ \A u \in Updates : writer[u] \in {"waiting", "running"} =>
          current.exists \/ backup.exists

\* Which of the two directories has complete data, and when.
DiskInv ==
    /\ backup.exists /\ phase # "purging" => ~backup.torn
    /\ ~backup.exists /\ Place # "import" => ~current.torn
    /\ saveFor \in {"recover", "checkpoint"} => backup.exists
    /\ phase \in {"drop", "purge", "purging", "saved"} =>
          ~current.torn /\ current.ops = mem

\* Where there is a log, and a whole one.
LogInv ==
    /\ backup.exists /\ phase # "purging" => backup.log # Torn
    /\ ~backup.exists /\ Place \notin {"log", "flush", "import"} => current.log # Torn
    /\ phase \in {"close", "drop", "purge", "purging", "saved"} => current.log = None

\* Where dbLoaded is set, and what the corpus in memory holds.
LoadInv ==
    /\ phase = "load" /\ role # "update" => ~loaded
    /\ phase \notin {"idle", "load"} /\ saveFor # "recover" => loaded
    /\ phase \in {"applied", "log", "flush"} => subject \in mem
    /\ saveFor = "import" =>
          served = {} /\ checkpoint = {} /\ atRisk = {} /\ mem = {subject}

\* The last complete save is in the directory that is read, and in memory.
CheckpointInv ==
    /\ saveFor # "import" /\ phase # "purging" => checkpoint \subseteq LoadDir.ops
    /\ InMemory => checkpoint \subseteq mem

\* So is everything that is not at risk; a corpus that is not in memory can
\* replay its log, unless the log is at risk itself.
RiskInv ==
    /\ saveFor # "import" /\ phase \notin {"log", "flush", "purging"} =>
          served \ atRisk \subseteq LoadDir.ops \cup {LoadDir.log}
    /\ phase \in {"log", "flush"} =>
          served \ atRisk \subseteq IF backup.exists
                                   THEN backup.ops \cup {backup.log}
                                   ELSE current.ops
    /\ InMemory => served \ atRisk \subseteq mem
    /\ (~loaded \/ phase = "load") /\ saveFor # "recover" =>
          cid = 0 \/ served \ checkpoint \subseteq atRisk

\* What is true of the data also after a log could not be written.
DataInv == TypeOK /\ HolderOK /\ PresenceInv /\ DiskInv /\ LoadInv /\ CheckpointInv

IInv == DataInv /\ LogInv /\ RiskInv

\* Every kill was outside the windows, or there was none.
Unhurt == ~spoiled \/ crashes = 0

\* One step per action; the writer's move is the reason for PresenceInv.
LEMMA PresenceStep ==
    ASSUME DataInv, [Next]_vars, Unhurt'
    PROVE  PresenceInv'
<1> USE PersistenceAssumption DEF DataInv, Unhurt, TypeOK, HolderOK, Dirs, SavePhases, Purposes, Damaged,
            LoadDir, Place, Step, Take, Release, disk, db, holder, threads, history, budget, PresenceInv, DiskInv
<1>1. CASE UNCHANGED vars
  BY <1>1 DEF vars
<1>2. ASSUME NEW u \in Updates, NoWriterToKill(u) PROVE PresenceInv'
  BY <1>2 DEF NoWriterToKill
<1>3. ASSUME NEW u \in Updates, InterruptWriter(u) PROVE PresenceInv'
  BY <1>3 DEF InterruptWriter
<1>4. ASSUME NEW u \in Updates, JoinWriter(u) PROVE PresenceInv'
  BY <1>4 DEF JoinWriter
<1>5. ASSUME NEW u \in Updates, UpdateLock(u) PROVE PresenceInv'
  BY <1>5 DEF UpdateLock
<1>6. CASE ApplyUpdate
  BY <1>6 DEF ApplyUpdate
<1>7. CASE OpenLog
  BY <1>7 DEF OpenLog
<1>8. CASE StartWriter
  BY <1>8 DEF StartWriter
<1>9. CASE FlushLog
  BY <1>9 DEF FlushLog
<1>10. CASE UpdateFails
  BY <1>10 DEF UpdateFails
<1>11. CASE StartWriterFails
  BY <1>11 DEF StartWriterFails
<1>34. CASE LogWriteFails
  BY <1>34 DEF LogWriteFails
<1>12. CASE FailedUpdateReturns
  BY <1>12 DEF FailedUpdateReturns
<1>13. CASE LoadCurrent
  BY <1>13 DEF LoadCurrent, LoadFrom, Replayed
<1>14. CASE LoadBackup
  BY <1>14 DEF LoadBackup, LoadFrom, Replayed
<1>15. CASE LoadThrows
  BY <1>15 DEF LoadThrows
<1>16. CASE DropBackup
  BY <1>16 DEF DropBackup, NoDir
<1>17. CASE CreateCurrent
  BY <1>17 DEF CreateCurrent
<1>18. CASE WriteData
  BY <1>18 DEF WriteData
<1>19. CASE RemoveLog
  BY <1>19 DEF RemoveLog
<1>20. CASE CloseData
  BY <1>20 DEF CloseData, AfterSave
<1>21. ASSUME NEW u \in Updates, WriterLock(u) PROVE PresenceInv'
  BY <1>21 DEF WriterLock
<1>22. CASE MoveToBackup
  BY <1>22 DEF MoveToBackup, NoDir
<1>23. CASE PurgeBegins
  BY <1>23 DEF PurgeBegins
<1>24. CASE PurgeEnds
  BY <1>24 DEF PurgeEnds, WriterEnds, NoDir
<1>25. CASE WriterInterrupted
  BY <1>25 DEF WriterInterrupted, WriterEnds
<1>26. CASE ReadLock
  BY <1>26 DEF ReadLock
<1>27. CASE ReadReturns
  BY <1>27 DEF ReadReturns
<1>28. CASE Unload
  BY <1>28 DEF Unload
<1>29. ASSUME NEW i \in Imports, ImportLock(i) PROVE PresenceInv'
  BY <1>29 DEF ImportLock
<1>30. CASE ImportLoad
  BY <1>30 DEF ImportLoad
<1>31. CASE ImportReturns
  BY <1>31 DEF ImportReturns
<1>32. CASE Crash
  BY <1>32 DEF Crash, ProcessDies, Windows
<1>33. CASE WriterThrows
  BY <1>33 DEF WriterThrows, ProcessDies
<1> QED
  BY <1>1, <1>2, <1>3, <1>4, <1>5, <1>6, <1>7, <1>8, <1>9, <1>10, <1>11,
     <1>12, <1>13, <1>14, <1>15, <1>16, <1>17, <1>18, <1>19, <1>20, <1>21,
     <1>22, <1>23, <1>24, <1>25, <1>26, <1>27, <1>28, <1>29, <1>30, <1>31,
     <1>32, <1>33, <1>34
     DEF Next, HolderStep, UpdateCall

\* Which directory is complete: one step per action.
LEMMA DiskStep ==
    ASSUME DataInv, [Next]_vars, Unhurt'
    PROVE  DiskInv'
<1> USE PersistenceAssumption DEF DataInv, Unhurt, TypeOK, HolderOK, Dirs, SavePhases, Purposes, Damaged,
            LoadDir, Place, Step, Take, Release, disk, db, holder, threads, history, budget, DiskInv
<1>1. CASE UNCHANGED vars
  BY <1>1 DEF vars
<1>2. ASSUME NEW u \in Updates, NoWriterToKill(u) PROVE DiskInv'
  BY <1>2 DEF NoWriterToKill
<1>3. ASSUME NEW u \in Updates, InterruptWriter(u) PROVE DiskInv'
  BY <1>3 DEF InterruptWriter
<1>4. ASSUME NEW u \in Updates, JoinWriter(u) PROVE DiskInv'
  BY <1>4 DEF JoinWriter
<1>5. ASSUME NEW u \in Updates, UpdateLock(u) PROVE DiskInv'
  BY <1>5 DEF UpdateLock
<1>6. CASE ApplyUpdate
  BY <1>6 DEF ApplyUpdate
<1>7. CASE OpenLog
  BY <1>7 DEF OpenLog
<1>8. CASE StartWriter
  BY <1>8 DEF StartWriter
<1>9. CASE FlushLog
  BY <1>9 DEF FlushLog
<1>10. CASE UpdateFails
  BY <1>10 DEF UpdateFails
<1>11. CASE StartWriterFails
  BY <1>11 DEF StartWriterFails
<1>34. CASE LogWriteFails
  BY <1>34 DEF LogWriteFails
<1>12. CASE FailedUpdateReturns
  BY <1>12 DEF FailedUpdateReturns
<1>13. CASE LoadCurrent
  BY <1>13 DEF LoadCurrent, LoadFrom, Replayed
<1>14. CASE LoadBackup
  BY <1>14 DEF LoadBackup, LoadFrom, Replayed
<1>15. CASE LoadThrows
  BY <1>15 DEF LoadThrows
<1>16. CASE DropBackup
  BY <1>16 DEF DropBackup, NoDir
<1>17. CASE CreateCurrent
  BY <1>17 DEF CreateCurrent
<1>18. CASE WriteData
  BY <1>18 DEF WriteData
<1>19. CASE RemoveLog
  BY <1>19 DEF RemoveLog
<1>20. CASE CloseData
  BY <1>20 DEF CloseData, AfterSave
<1>21. ASSUME NEW u \in Updates, WriterLock(u) PROVE DiskInv'
  BY <1>21 DEF WriterLock
<1>22. CASE MoveToBackup
  <2>1. CASE backup.exists
    BY <1>22, <2>1 DEF MoveToBackup
  <2>2. CASE ~backup.exists
    <3>1. ~current.torn /\ current.exists
      BY <1>22, <2>2 DEF MoveToBackup, PresenceInv
    <3>2. backup' = current /\ phase' = "create" /\ saveFor' = "checkpoint"
      BY <1>22, <2>2 DEF MoveToBackup
    <3> QED
      BY <3>1, <3>2
  <2> QED
    BY <2>1, <2>2
<1>23. CASE PurgeBegins
  BY <1>23 DEF PurgeBegins
<1>24. CASE PurgeEnds
  BY <1>24 DEF PurgeEnds, WriterEnds, NoDir
<1>25. CASE WriterInterrupted
  BY <1>25 DEF WriterInterrupted, WriterEnds
<1>26. CASE ReadLock
  BY <1>26 DEF ReadLock
<1>27. CASE ReadReturns
  BY <1>27 DEF ReadReturns
<1>28. CASE Unload
  BY <1>28 DEF Unload
<1>29. ASSUME NEW i \in Imports, ImportLock(i) PROVE DiskInv'
  BY <1>29 DEF ImportLock
<1>30. CASE ImportLoad
  BY <1>30 DEF ImportLoad
<1>31. CASE ImportReturns
  BY <1>31 DEF ImportReturns
<1>32. CASE Crash
  BY <1>32 DEF Crash, ProcessDies, Windows
<1>33. CASE WriterThrows
  BY <1>33 DEF WriterThrows, ProcessDies
<1> QED
  BY <1>1, <1>2, <1>3, <1>4, <1>5, <1>6, <1>7, <1>8, <1>9, <1>10, <1>11,
     <1>12, <1>13, <1>14, <1>15, <1>16, <1>17, <1>18, <1>19, <1>20, <1>21,
     <1>22, <1>23, <1>24, <1>25, <1>26, <1>27, <1>28, <1>29, <1>30, <1>31,
     <1>32, <1>33, <1>34
     DEF Next, HolderStep, UpdateCall

\* The log is whole wherever DB::load may look.
LEMMA LogStep ==
    ASSUME IInv, [Next]_vars, ~spoiled'
    PROVE  LogInv'
<1> USE PersistenceAssumption DEF IInv, DataInv, TypeOK, HolderOK, Dirs, SavePhases, Purposes, Damaged,
            LoadDir, Place, Step, Take, Release, disk, db, holder, threads, history, budget, DiskInv, LogInv
<1>1. CASE UNCHANGED vars
  BY <1>1 DEF vars
<1>2. ASSUME NEW u \in Updates, NoWriterToKill(u) PROVE LogInv'
  BY <1>2 DEF NoWriterToKill
<1>3. ASSUME NEW u \in Updates, InterruptWriter(u) PROVE LogInv'
  BY <1>3 DEF InterruptWriter
<1>4. ASSUME NEW u \in Updates, JoinWriter(u) PROVE LogInv'
  BY <1>4 DEF JoinWriter
<1>5. ASSUME NEW u \in Updates, UpdateLock(u) PROVE LogInv'
  BY <1>5 DEF UpdateLock
<1>6. CASE ApplyUpdate
  BY <1>6 DEF ApplyUpdate
<1>7. CASE OpenLog
  BY <1>7 DEF OpenLog
<1>8. CASE StartWriter
  BY <1>8 DEF StartWriter
<1>9. CASE FlushLog
  BY <1>9 DEF FlushLog
<1>10. CASE UpdateFails
  BY <1>10 DEF UpdateFails
<1>11. CASE StartWriterFails
  BY <1>11 DEF StartWriterFails
<1>34. CASE LogWriteFails
  BY <1>34 DEF LogWriteFails
<1>12. CASE FailedUpdateReturns
  BY <1>12 DEF FailedUpdateReturns
<1>13. CASE LoadCurrent
  BY <1>13 DEF LoadCurrent, LoadFrom, Replayed
<1>14. CASE LoadBackup
  BY <1>14 DEF LoadBackup, LoadFrom, Replayed
<1>15. CASE LoadThrows
  BY <1>15 DEF LoadThrows
<1>16. CASE DropBackup
  BY <1>16 DEF DropBackup, NoDir
<1>17. CASE CreateCurrent
  BY <1>17 DEF CreateCurrent
<1>18. CASE WriteData
  BY <1>18 DEF WriteData
<1>19. CASE RemoveLog
  BY <1>19 DEF RemoveLog
<1>20. CASE CloseData
  BY <1>20 DEF CloseData, AfterSave
<1>21. ASSUME NEW u \in Updates, WriterLock(u) PROVE LogInv'
  BY <1>21 DEF WriterLock
<1>22. CASE MoveToBackup
  <2>1. CASE backup.exists
    BY <1>22, <2>1 DEF MoveToBackup
  <2>2. CASE ~backup.exists
    <3>1. current.log # Torn /\ current.exists
      BY <1>22, <2>2 DEF MoveToBackup, PresenceInv
    <3>2. backup' = current /\ phase' = "create" /\ saveFor' = "checkpoint"
      BY <1>22, <2>2 DEF MoveToBackup
    <3> QED
      BY <3>1, <3>2
  <2> QED
    BY <2>1, <2>2
<1>23. CASE PurgeBegins
  BY <1>23 DEF PurgeBegins
<1>24. CASE PurgeEnds
  BY <1>24 DEF PurgeEnds, WriterEnds, NoDir
<1>25. CASE WriterInterrupted
  BY <1>25 DEF WriterInterrupted, WriterEnds
<1>26. CASE ReadLock
  BY <1>26 DEF ReadLock
<1>27. CASE ReadReturns
  BY <1>27 DEF ReadReturns
<1>28. CASE Unload
  BY <1>28 DEF Unload
<1>29. ASSUME NEW i \in Imports, ImportLock(i) PROVE LogInv'
  BY <1>29 DEF ImportLock
<1>30. CASE ImportLoad
  BY <1>30 DEF ImportLoad
<1>31. CASE ImportReturns
  BY <1>31 DEF ImportReturns
<1>32. CASE Crash
  BY <1>32 DEF Crash, ProcessDies, Windows
<1>33. CASE WriterThrows
  BY <1>33 DEF WriterThrows, ProcessDies
<1> QED
  BY <1>1, <1>2, <1>3, <1>4, <1>5, <1>6, <1>7, <1>8, <1>9, <1>10, <1>11,
     <1>12, <1>13, <1>14, <1>15, <1>16, <1>17, <1>18, <1>19, <1>20, <1>21,
     <1>22, <1>23, <1>24, <1>25, <1>26, <1>27, <1>28, <1>29, <1>30, <1>31,
     <1>32, <1>33, <1>34
     DEF Next, HolderStep, UpdateCall

\* What memory holds.
LEMMA LoadStep ==
    ASSUME DataInv, [Next]_vars, Unhurt'
    PROVE  LoadInv'
<1> USE PersistenceAssumption DEF DataInv, Unhurt, TypeOK, HolderOK, Dirs, SavePhases, Purposes, Damaged,
            LoadDir, Place, Step, Take, Release, disk, db, holder, threads, history, budget, LoadInv, DiskInv
<1>1. CASE UNCHANGED vars
  BY <1>1 DEF vars
<1>2. ASSUME NEW u \in Updates, NoWriterToKill(u) PROVE LoadInv'
  BY <1>2 DEF NoWriterToKill
<1>3. ASSUME NEW u \in Updates, InterruptWriter(u) PROVE LoadInv'
  BY <1>3 DEF InterruptWriter
<1>4. ASSUME NEW u \in Updates, JoinWriter(u) PROVE LoadInv'
  BY <1>4 DEF JoinWriter
<1>5. ASSUME NEW u \in Updates, UpdateLock(u) PROVE LoadInv'
  BY <1>5 DEF UpdateLock
<1>6. CASE ApplyUpdate
  BY <1>6 DEF ApplyUpdate
<1>7. CASE OpenLog
  BY <1>7 DEF OpenLog
<1>8. CASE StartWriter
  BY <1>8 DEF StartWriter
<1>9. CASE FlushLog
  BY <1>9 DEF FlushLog
<1>10. CASE UpdateFails
  BY <1>10 DEF UpdateFails
<1>11. CASE StartWriterFails
  BY <1>11 DEF StartWriterFails
<1>34. CASE LogWriteFails
  BY <1>34 DEF LogWriteFails
<1>12. CASE FailedUpdateReturns
  BY <1>12 DEF FailedUpdateReturns
<1>13. CASE LoadCurrent
  BY <1>13 DEF LoadCurrent, LoadFrom, Replayed
<1>14. CASE LoadBackup
  BY <1>14 DEF LoadBackup, LoadFrom, Replayed
<1>15. CASE LoadThrows
  BY <1>15 DEF LoadThrows
<1>16. CASE DropBackup
  BY <1>16 DEF DropBackup, NoDir
<1>17. CASE CreateCurrent
  BY <1>17 DEF CreateCurrent
<1>18. CASE WriteData
  BY <1>18 DEF WriteData
<1>19. CASE RemoveLog
  BY <1>19 DEF RemoveLog
<1>20. CASE CloseData
  BY <1>20 DEF CloseData, AfterSave
<1>21. ASSUME NEW u \in Updates, WriterLock(u) PROVE LoadInv'
  BY <1>21 DEF WriterLock
<1>22. CASE MoveToBackup
  BY <1>22 DEF MoveToBackup, NoDir
<1>23. CASE PurgeBegins
  BY <1>23 DEF PurgeBegins
<1>24. CASE PurgeEnds
  BY <1>24 DEF PurgeEnds, WriterEnds, NoDir
<1>25. CASE WriterInterrupted
  BY <1>25 DEF WriterInterrupted, WriterEnds
<1>26. CASE ReadLock
  BY <1>26 DEF ReadLock
<1>27. CASE ReadReturns
  BY <1>27 DEF ReadReturns
<1>28. CASE Unload
  BY <1>28 DEF Unload
<1>29. ASSUME NEW i \in Imports, ImportLock(i) PROVE LoadInv'
  BY <1>29 DEF ImportLock
<1>30. CASE ImportLoad
  BY <1>30 DEF ImportLoad
<1>31. CASE ImportReturns
  BY <1>31 DEF ImportReturns
<1>32. CASE Crash
  BY <1>32 DEF Crash, ProcessDies, Windows
<1>33. CASE WriterThrows
  BY <1>33 DEF WriterThrows, ProcessDies
<1> QED
  BY <1>1, <1>2, <1>3, <1>4, <1>5, <1>6, <1>7, <1>8, <1>9, <1>10, <1>11,
     <1>12, <1>13, <1>14, <1>15, <1>16, <1>17, <1>18, <1>19, <1>20, <1>21,
     <1>22, <1>23, <1>24, <1>25, <1>26, <1>27, <1>28, <1>29, <1>30, <1>31,
     <1>32, <1>33, <1>34
     DEF Next, HolderStep, UpdateCall

\* What the last complete save has written stays readable.
LEMMA CheckpointStep ==
    ASSUME DataInv, [Next]_vars, Unhurt'
    PROVE  CheckpointInv'
<1> USE PersistenceAssumption DEF DataInv, Unhurt, TypeOK, HolderOK, Dirs, SavePhases, Purposes, Damaged,
            LoadDir, Place, Step, Take, Release, disk, db, holder, threads, history, budget, LoadInv, DiskInv, CheckpointInv, InMemory
<1>1. CASE UNCHANGED vars
  BY <1>1 DEF vars
<1>2. ASSUME NEW u \in Updates, NoWriterToKill(u) PROVE CheckpointInv'
  BY <1>2 DEF NoWriterToKill
<1>3. ASSUME NEW u \in Updates, InterruptWriter(u) PROVE CheckpointInv'
  BY <1>3 DEF InterruptWriter
<1>4. ASSUME NEW u \in Updates, JoinWriter(u) PROVE CheckpointInv'
  BY <1>4 DEF JoinWriter
<1>5. ASSUME NEW u \in Updates, UpdateLock(u) PROVE CheckpointInv'
  BY <1>5 DEF UpdateLock
<1>6. CASE ApplyUpdate
  BY <1>6 DEF ApplyUpdate
<1>7. CASE OpenLog
  BY <1>7 DEF OpenLog
<1>8. CASE StartWriter
  BY <1>8 DEF StartWriter
<1>9. CASE FlushLog
  BY <1>9 DEF FlushLog
<1>10. CASE UpdateFails
  BY <1>10 DEF UpdateFails
<1>11. CASE StartWriterFails
  BY <1>11 DEF StartWriterFails
<1>34. CASE LogWriteFails
  BY <1>34 DEF LogWriteFails
<1>12. CASE FailedUpdateReturns
  BY <1>12 DEF FailedUpdateReturns
<1>13. CASE LoadCurrent
  BY <1>13 DEF LoadCurrent, LoadFrom, Replayed
<1>14. CASE LoadBackup
  BY <1>14 DEF LoadBackup, LoadFrom, Replayed
<1>15. CASE LoadThrows
  BY <1>15 DEF LoadThrows
<1>16. CASE DropBackup
  BY <1>16 DEF DropBackup, NoDir
<1>17. CASE CreateCurrent
  BY <1>17 DEF CreateCurrent
<1>18. CASE WriteData
  BY <1>18 DEF WriteData
<1>19. CASE RemoveLog
  BY <1>19 DEF RemoveLog
<1>20. CASE CloseData
  BY <1>20 DEF CloseData, AfterSave
<1>21. ASSUME NEW u \in Updates, WriterLock(u) PROVE CheckpointInv'
  BY <1>21 DEF WriterLock
<1>22. CASE MoveToBackup
  <2>1. current.exists \/ backup.exists
    BY <1>22 DEF MoveToBackup, PresenceInv
  <2>2. LoadDir' = LoadDir
    BY <1>22, <2>1 DEF MoveToBackup, NoDir
  <2> QED
    BY <1>22, <2>2 DEF MoveToBackup
<1>23. CASE PurgeBegins
  BY <1>23 DEF PurgeBegins
<1>24. CASE PurgeEnds
  BY <1>24 DEF PurgeEnds, WriterEnds, NoDir
<1>25. CASE WriterInterrupted
  BY <1>25 DEF WriterInterrupted, WriterEnds
<1>26. CASE ReadLock
  BY <1>26 DEF ReadLock
<1>27. CASE ReadReturns
  BY <1>27 DEF ReadReturns
<1>28. CASE Unload
  BY <1>28 DEF Unload
<1>29. ASSUME NEW i \in Imports, ImportLock(i) PROVE CheckpointInv'
  BY <1>29 DEF ImportLock
<1>30. CASE ImportLoad
  BY <1>30 DEF ImportLoad
<1>31. CASE ImportReturns
  BY <1>31 DEF ImportReturns
<1>32. CASE Crash
  BY <1>32 DEF Crash, ProcessDies, Windows
<1>33. CASE WriterThrows
  BY <1>33 DEF WriterThrows, ProcessDies
<1> QED
  BY <1>1, <1>2, <1>3, <1>4, <1>5, <1>6, <1>7, <1>8, <1>9, <1>10, <1>11,
     <1>12, <1>13, <1>14, <1>15, <1>16, <1>17, <1>18, <1>19, <1>20, <1>21,
     <1>22, <1>23, <1>24, <1>25, <1>26, <1>27, <1>28, <1>29, <1>30, <1>31,
     <1>32, <1>33, <1>34
     DEF Next, HolderStep, UpdateCall

\* What was served is on disk, in memory or at risk.
LEMMA RiskStep ==
    ASSUME IInv, [Next]_vars, ~spoiled'
    PROVE  RiskInv'
<1> USE PersistenceAssumption DEF IInv, DataInv, TypeOK, HolderOK, Dirs, SavePhases, Purposes, Damaged,
            LoadDir, Place, Step, Take, Release, disk, db, holder, threads, history, budget, LoadInv, DiskInv, LogInv, CheckpointInv, RiskInv, InMemory
<1>1. CASE UNCHANGED vars
  BY <1>1 DEF vars
<1>2. ASSUME NEW u \in Updates, NoWriterToKill(u) PROVE RiskInv'
  BY <1>2 DEF NoWriterToKill
<1>3. ASSUME NEW u \in Updates, InterruptWriter(u) PROVE RiskInv'
  BY <1>3 DEF InterruptWriter
<1>4. ASSUME NEW u \in Updates, JoinWriter(u) PROVE RiskInv'
  BY <1>4 DEF JoinWriter
<1>5. ASSUME NEW u \in Updates, UpdateLock(u) PROVE RiskInv'
  BY <1>5 DEF UpdateLock
<1>6. CASE ApplyUpdate
  BY <1>6 DEF ApplyUpdate
<1>7. CASE OpenLog
  BY <1>7 DEF OpenLog
<1>8. CASE StartWriter
  BY <1>8 DEF StartWriter
<1>9. CASE FlushLog
  BY <1>9 DEF FlushLog
<1>10. CASE UpdateFails
  BY <1>10 DEF UpdateFails
<1>11. CASE StartWriterFails
  BY <1>11 DEF StartWriterFails
<1>34. CASE LogWriteFails
  BY <1>34 DEF LogWriteFails
<1>12. CASE FailedUpdateReturns
  BY <1>12 DEF FailedUpdateReturns
<1>13. CASE LoadCurrent
  BY <1>13 DEF LoadCurrent, LoadFrom, Replayed
<1>14. CASE LoadBackup
  BY <1>14 DEF LoadBackup, LoadFrom, Replayed
<1>15. CASE LoadThrows
  BY <1>15 DEF LoadThrows
<1>16. CASE DropBackup
  BY <1>16 DEF DropBackup, NoDir
<1>17. CASE CreateCurrent
  BY <1>17 DEF CreateCurrent
<1>18. CASE WriteData
  BY <1>18 DEF WriteData
<1>19. CASE RemoveLog
  BY <1>19 DEF RemoveLog
<1>20. CASE CloseData
  BY <1>20 DEF CloseData, AfterSave
<1>21. ASSUME NEW u \in Updates, WriterLock(u) PROVE RiskInv'
  BY <1>21 DEF WriterLock
<1>22. CASE MoveToBackup
  <2>1. current.exists \/ backup.exists
    BY <1>22 DEF MoveToBackup, PresenceInv
  <2>2. LoadDir' = LoadDir
    BY <1>22, <2>1 DEF MoveToBackup, NoDir
  <2> QED
    BY <1>22, <2>2 DEF MoveToBackup
<1>23. CASE PurgeBegins
  BY <1>23 DEF PurgeBegins
<1>24. CASE PurgeEnds
  BY <1>24 DEF PurgeEnds, WriterEnds, NoDir
<1>25. CASE WriterInterrupted
  BY <1>25 DEF WriterInterrupted, WriterEnds
<1>26. CASE ReadLock
  BY <1>26 DEF ReadLock
<1>27. CASE ReadReturns
  BY <1>27 DEF ReadReturns
<1>28. CASE Unload
  BY <1>28 DEF Unload
<1>29. ASSUME NEW i \in Imports, ImportLock(i) PROVE RiskInv'
  BY <1>29 DEF ImportLock
<1>30. CASE ImportLoad
  BY <1>30 DEF ImportLoad
<1>31. CASE ImportReturns
  BY <1>31 DEF ImportReturns
<1>32. CASE Crash
  BY <1>32 DEF Crash, ProcessDies, Windows
<1>33. CASE WriterThrows
  BY <1>33 DEF WriterThrows, ProcessDies
<1> QED
  BY <1>1, <1>2, <1>3, <1>4, <1>5, <1>6, <1>7, <1>8, <1>9, <1>10, <1>11,
     <1>12, <1>13, <1>14, <1>15, <1>16, <1>17, <1>18, <1>19, <1>20, <1>21,
     <1>22, <1>23, <1>24, <1>25, <1>26, <1>27, <1>28, <1>29, <1>30, <1>31,
     <1>32, <1>33, <1>34
     DEF Next, HolderStep, UpdateCall

\* Kills are counted; neither a kill in a window nor a lost log is undone.
LEMMA KillsOnly ==
    ASSUME [Next]_vars
    PROVE  ProcessDies \/ LogWriteFails \/ UNCHANGED <<crashes, spoiled>>
BY DEF vars, budget, Next, HolderStep, UpdateCall, NoWriterToKill, InterruptWriter,
   JoinWriter, UpdateLock, ApplyUpdate, OpenLog, StartWriter, FlushLog, UpdateFails,
   StartWriterFails, FailedUpdateReturns, LoadCurrent, LoadBackup, LoadThrows, DropBackup,
   CreateCurrent, WriteData, RemoveLog, CloseData, WriterLock, MoveToBackup, PurgeBegins,
   PurgeEnds, WriterEnds, WriterInterrupted, ReadLock, ReadReturns, Unload, ImportLock,
   ImportLoad, ImportReturns, Crash, WriterThrows

LEMMA HurtStays ==
    ASSUME crashes \in Nat, [Next]_vars
    PROVE  (spoiled => spoiled') /\ (Unhurt' => Unhurt)
<1>1. CASE ProcessDies
  <2>1. crashes' # 0
    BY <1>1 DEF ProcessDies
  <2>2. spoiled => spoiled'
    BY <1>1, Zenon DEF ProcessDies
  <2> QED
    BY <2>1, <2>2 DEF Unhurt
<1>2. CASE LogWriteFails
  <2>1. spoiled => spoiled'
    BY <1>2, Zenon DEF LogWriteFails
  <2>2. crashes' = crashes
    BY <1>2 DEF LogWriteFails
  <2> QED
    BY <2>1, <2>2 DEF Unhurt
<1> QED
  BY <1>1, <1>2, KillsOnly DEF Unhurt

LEMMA InitHolds == Init => IInv
<1> SUFFICES ASSUME Init PROVE IInv
  OBVIOUS
<1>1. TypeOK /\ HolderOK
  BY InitType
<1>2. PresenceInv /\ DiskInv /\ LogInv /\ LoadInv
  BY PersistenceAssumption DEF Init, PresenceInv, DiskInv, LogInv, LoadInv, NoDir, SavePhases
<1>3. CheckpointInv /\ RiskInv
  BY DEF Init, CheckpointInv, RiskInv, InMemory
<1> QED
  BY <1>1, <1>2, <1>3 DEF IInv, DataInv

LEMMA InvariantHolds == Spec => [](spoiled \/ IInv) /\ [](Unhurt => DataInv)
<1> DEFINE Holds == /\ TypeOK /\ HolderOK
                    /\ spoiled \/ IInv
                    /\ Unhurt => DataInv
<1>1. Init => Holds
  BY InitHolds DEF IInv, DataInv
<1>2. Holds /\ [Next]_vars => Holds'
  <2> SUFFICES ASSUME Holds, [Next]_vars PROVE Holds'
    OBVIOUS
  <2>1. TypeOK' /\ HolderOK'
    BY NextType
  <2>2. (spoiled => spoiled') /\ (Unhurt' => Unhurt)
    BY HurtStays DEF TypeOK
  <2>3. ASSUME Unhurt' PROVE DataInv'
    BY <2>1, <2>2, <2>3, PresenceStep, DiskStep, LoadStep, CheckpointStep DEF DataInv
  <2>4. ASSUME ~spoiled' PROVE IInv'
    BY <2>2, <2>3, <2>4, LogStep, RiskStep DEF IInv, Unhurt
  <2> QED
    BY <2>1, <2>3, <2>4
<1>3. Holds => (spoiled \/ IInv) /\ (Unhurt => DataInv)
  OBVIOUS
<1> QED
  BY <1>1, <1>2, <1>3, PTL DEF Spec

\* Killed anywhere outside the windows, the process leaves a directory that
\* DB::load reads completely.
THEOREM RecoveryIsIntact == Spec => []RecoveryIntact
<1>1. spoiled \/ IInv => RecoveryIntact
  BY DEF IInv, DataInv, DiskInv, LogInv, HolderOK, Damaged, RecoveryIntact, Sound, LoadDir, Place, Windows, SavePhases
<1> QED
  BY <1>1, InvariantHolds, PTL

\* The content of the last complete save is never lost, by any interleaving of
\* calls, writers, crashes and reloads.
THEOREM CheckpointIsDurable == Spec => []CheckpointSurvives
<1>1. spoiled \/ IInv => CheckpointSurvives
  <2> SUFFICES ASSUME IInv, Place \notin Windows PROVE checkpoint \subseteq Recoverable
    BY DEF CheckpointSurvives, Sound
  <2>1. ~Damaged(LoadDir) /\ phase # "purging" /\ (saveFor = "import" => checkpoint = {})
    BY DEF IInv, DataInv, DiskInv, LogInv, LoadInv, HolderOK, Damaged, LoadDir, Place, Windows, SavePhases
  <2> QED
    BY <2>1 DEF IInv, DataInv, CheckpointInv, Recoverable
<1> QED
  BY <1>1, InvariantHolds, PTL

\* Only the updates named at risk can be lost by a crash.
THEOREM LossIsConfined == Spec => []LostOnlyIfAtRisk
<1>1. spoiled \/ IInv => LostOnlyIfAtRisk
  <2> SUFFICES ASSUME IInv, Place \notin Windows
               PROVE  served \ Recoverable \subseteq atRisk
    BY DEF LostOnlyIfAtRisk, Sound
  <2>1. ~Damaged(LoadDir) /\ phase \notin {"log", "flush", "purging"}
    BY DEF IInv, DataInv, DiskInv, LogInv, HolderOK, Damaged, LoadDir, Place, Windows, SavePhases
  <2>2. served \ atRisk \subseteq LoadDir.ops \cup {LoadDir.log} \/ served = {}
    BY <2>1 DEF IInv, DataInv, RiskInv, LoadInv
  <2>3. None \notin served
    BY PersistenceAssumption DEF IInv, DataInv, TypeOK
  <2> QED
    BY <2>1, <2>2, <2>3 DEF Recoverable
<1> QED
  BY <1>1, InvariantHolds, PTL

\* The corpus in memory serves everything that is not at risk, however often
\* it was unloaded, reloaded or recovered.
THEOREM MemoryIsComplete == Spec => []MemoryServes
<1>1. spoiled \/ IInv => MemoryServes
  BY DEF IInv, RiskInv, InMemory, MemoryServes
<1> QED
  BY <1>1, InvariantHolds, PTL

\* Until the process has died once, and unless an import is being saved, current
\* or the backup holds all that was ever saved, at every single step, also when
\* a log could not be written.
THEOREM OneOfTheTwoIsWhole == Spec => []RepairableByHand
<1>1. (Unhurt => DataInv) => RepairableByHand
  <2> SUFFICES ASSUME DataInv, Place # "import"
               PROVE  \/ ~current.torn /\ checkpoint \subseteq current.ops
                      \/ backup.exists /\ ~backup.torn /\ checkpoint \subseteq backup.ops
    BY DEF RepairableByHand, Unhurt
  <2>1. saveFor # "import" \/ phase = "saved"
    BY DEF DataInv, HolderOK, TypeOK, Place, Phases, SavePhases
  <2>2. CASE phase \in {"purging", "saved"}
    BY <2>2 DEF DataInv, DiskInv, CheckpointInv, InMemory
  <2>3. CASE phase \notin {"purging", "saved"} /\ backup.exists
    BY <2>1, <2>3 DEF DataInv, DiskInv, CheckpointInv, LoadDir
  <2>4. CASE phase \notin {"purging", "saved"} /\ ~backup.exists
    BY <2>1, <2>4 DEF DataInv, DiskInv, CheckpointInv, HolderOK, Purposes, LoadDir,
       Place, SavePhases
  <2> QED
    BY <2>2, <2>3, <2>4
<1> QED
  BY <1>1, InvariantHolds, PTL

\* No step touches the backup before current has replaced it.
THEOREM BackupIsRemovedLate == Spec => BackupRemovedLate
<1> DEFINE Late == ~spoiled /\ backup.exists /\ backup' # backup =>
                      /\ ~Damaged(current) /\ current.log = None
                      /\ served \ atRisk \subseteq current.ops
<1>1. ASSUME spoiled \/ IInv, Next PROVE Late
  <2> SUFFICES ASSUME ~spoiled, backup.exists, backup' # backup
               PROVE  /\ ~Damaged(current) /\ current.log = None
                      /\ served \ atRisk \subseteq current.ops
    OBVIOUS
  <2>1. phase \in {"drop", "purge", "purging"}
    BY <1>1 DEF Next, HolderStep, UpdateCall, NoWriterToKill, InterruptWriter, JoinWriter,
       UpdateLock, ApplyUpdate, OpenLog, StartWriter, FlushLog, UpdateFails,
       LogWriteFails, StartWriterFails, FailedUpdateReturns, LoadCurrent, LoadBackup, LoadThrows,
       DropBackup, CreateCurrent, WriteData, RemoveLog, CloseData, WriterLock,
       MoveToBackup, PurgeBegins, PurgeEnds, WriterInterrupted, ReadLock, ReadReturns,
       Unload, ImportLock, ImportLoad, ImportReturns, Crash, WriterThrows, ProcessDies,
       Step, disk
  <2>2. ~current.torn /\ current.log = None /\ current.ops = mem
    BY <1>1, <2>1 DEF IInv, DataInv, DiskInv, LogInv
  <2>3. served \ atRisk \subseteq mem
    BY <1>1, <2>1 DEF IInv, RiskInv, InMemory
  <2> QED
    BY <2>2, <2>3, PersistenceAssumption DEF Damaged
<1>2. (spoiled \/ IInv) /\ [Next]_vars => [Late]_vars
  BY <1>1
<1> QED
  BY <1>2, InvariantHolds, PTL DEF Spec, BackupRemovedLate
=============================================================================
