------------------------ MODULE UpdateTransactionProofs ------------------------
(***************************************************************************)
(* Theorems about UpdateTransaction, for every value of its constants.     *)
(* Type correctness is inductive by itself; the safety properties follow   *)
(* from IInv (UpdateInvariant), whose parts are preserved one lemma each.  *)
(* They assume that a journal write that reports an error left the old     *)
(* journal in place (TRUE \notin LateErrors): without that they fail, as   *)
(* the run update_late_error shows.                                        *)
(***************************************************************************)
EXTENDS UpdateInvariant, TLAPS

USE DEF Renamed, Synced

LEMMA FaultType == ASSUME faults \in Nat, Fault PROVE faults' \in Nat
BY DEF Fault

LEMMA Samples == NoInst \in Instance /\ NoBoot \in Starter
BY ConstantsAssumption DEF NoInst, NoBoot, Instance, Starter, Version

LEMMA SignalledInst == ASSUME NEW i \in Instance, NEW b \in BOOLEAN
                       PROVE  [i EXCEPT !.term = b] \in Instance
BY DEF Instance

LEMMA SignalType ==
    ASSUME ProcessOK, NEW from, NEW to, NEW bad, Signal(from, to, bad)
    PROVE  ProcessOK'
<1>1. inst' \in Instance
  <2> DEFINE hit == \/ job.service /\ inst.managed
                    \/ job.live /\ inst.known /\ inst.rev = job.addr
             t   == inst.on /\ (inst.term \/ hit)
  <2>1. t \in BOOLEAN OBVIOUS
  <2>2. inst' = inst \/ inst' = [inst EXCEPT !.term = t] BY DEF Signal
  <2> HIDE DEF t
  <2>. QED BY <2>1, <2>2, SignalledInst DEF ProcessOK
<1>2. boot' \in Starter BY Samples DEF Signal, ProcessOK
<1>3. (writing \in BOOLEAN /\ acked \in Nat)' BY DEF Signal, ProcessOK
<1>4. svc' \in BOOLEAN
  <2>1. (svc /\ ~job.service) \in BOOLEAN OBVIOUS
  <2>. QED BY <2>1, Zenon DEF Signal, ProcessOK
<1>. QED BY <1>1, <1>2, <1>3, <1>4 DEF ProcessOK

LEMMA TypeStep == TypeOK /\ [Next]_vars => TypeOK'
<1> SUFFICES ASSUME TypeOK, [Next]_vars PROVE TypeOK' OBVIOUS
<1> USE ConstantsAssumption, FaultType DEF TypeOK, JournalOK, FilesOK, UpdaterOK, ProcessOK,
      LocksOK, WorldOK, journal, files, updater, process, locks, world
<1>1. CASE InstallBegin
  <2>1. (JournalOK /\ FilesOK /\ ProcessOK /\ LocksOK /\ WorldOK)' BY <1>1 DEF InstallBegin,
        Busy, InstanceLockFree, Newer
  <2>2. UpdaterOK'
    <3>1. PICK r \in Version : target \in Version /\ plan' = [prev |-> target, next |-> r]
      BY <1>1 DEF InstallBegin
    <3>2. plan' \in [prev : Version, next : Version] BY <3>1
    <3>3. cli' \in BOOLEAN BY <1>1 DEF InstallBegin
    <3>. QED BY <1>1, <3>2, <3>3 DEF InstallBegin, UpdaterOK, Point
  <2>. QED BY <2>1, <2>2
<1>2. CASE Download
  <2>1. (JournalOK /\ FilesOK /\ ProcessOK /\ LocksOK)' BY <1>2 DEF Download, Step
  <2>2. UpdaterOK' BY <1>2 DEF Download, Step, Point, Version, Phase, ActivePhase
  <2>3. WorldOK' BY <1>2 DEF Download, Step
  <2>. QED BY <2>1, <2>2, <2>3
<1>3. CASE Prepare
  <2>1. (FilesOK /\ LocksOK)' BY <1>3 DEF Prepare, GateClosed, FailedWrite
  <2>2. JournalOK'
    <3> DEFINE new == [id |-> job.id + 1, prev |-> plan.prev, next |-> plan.next,
                       addr |-> IF cli THEN config.rev ELSE inst.rev,
                       service |-> registered, live |-> ~cli]
    <3>1. job.id + 1 \in Nat BY DEF JournalOK, Job
    <3>2. (IF cli THEN config.rev ELSE inst.rev) \in Nat
      BY DEF FilesOK, ProcessOK, Config, Instance
    <3>3. plan.prev \in Version /\ plan.next \in Version BY DEF UpdaterOK
    <3>4. registered \in BOOLEAN /\ (~cli) \in BOOLEAN BY DEF WorldOK, UpdaterOK
    <3>5. new \in Job BY <3>1, <3>2, <3>3, <3>4 DEF Job
    <3> HIDE DEF new
    <3>6. job' \in {job, new} BY <1>3 DEF Prepare, new
    <3>7. phase' \in {phase, "prepared"} BY <1>3 DEF Prepare, FailedWrite
    <3>. QED BY <3>5, <3>6, <3>7 DEF JournalOK, Phase, ActivePhase
  <2>3. UpdaterOK' BY <1>3 DEF Prepare, GateClosed, FailedWrite, Point, Version, Phase,
        ActivePhase
  <2>4. ProcessOK' BY <1>3 DEF Prepare, GateClosed, FailedWrite, Instance, Starter, Version
  <2>5. WorldOK' BY <1>3 DEF Prepare, GateClosed, FailedWrite
  <2>. QED BY <2>1, <2>2, <2>3, <2>4, <2>5
<1>4. CASE Launch
  <2>1. (JournalOK /\ FilesOK /\ ProcessOK /\ LocksOK)' BY <1>4 DEF Launch
  <2>2. UpdaterOK'
    <3>1. job.id \in Nat BY DEF JournalOK, Job
    <3>2. dispatched' \in SUBSET Nat BY <1>4, <3>1 DEF Launch, UpdaterOK
    <3>. QED BY <1>4, <3>2 DEF Launch, UpdaterOK, Point
  <2>3. WorldOK' BY <1>4 DEF Launch
  <2>. QED BY <2>1, <2>2, <2>3
<1>5. CASE LaunchFailed
  <2>1. (FilesOK /\ ProcessOK /\ LocksOK)' BY <1>5 DEF LaunchFailed, Save, FailedWrite
  <2>2. JournalOK' BY <1>5 DEF LaunchFailed, Save, FailedWrite, Phase, ActivePhase
  <2>3. UpdaterOK' BY <1>5 DEF LaunchFailed, Save, FailedWrite, Point, Version, Phase,
        ActivePhase
  <2>4. WorldOK' BY <1>5 DEF LaunchFailed, Save, FailedWrite
  <2>. QED BY <2>1, <2>2, <2>3, <2>4
<1>6. CASE Exit
  <2>1. (JournalOK /\ FilesOK /\ ProcessOK /\ WorldOK)' BY <1>6 DEF Exit
  <2>2. UpdaterOK' BY <1>6 DEF Exit, Point, Version, Phase, ActivePhase
  <2>3. LocksOK' BY <1>6 DEF Exit
  <2>. QED BY <2>1, <2>2, <2>3
<1>7. CASE BeginWorker
  <2>1. (JournalOK /\ FilesOK /\ ProcessOK /\ LocksOK)' BY <1>7 DEF BeginWorker, Resolve, Busy
  <2>2. UpdaterOK' BY <1>7 DEF BeginWorker, Resolve, Busy, Point, Version, Phase, ActivePhase
  <2>3. WorldOK' BY <1>7 DEF BeginWorker, Resolve, Busy
  <2>. QED BY <2>1, <2>2, <2>3
<1>8. CASE BeginRecover
  <2>1. (JournalOK /\ FilesOK /\ ProcessOK /\ LocksOK)' BY <1>8 DEF BeginRecover, Resolve, Busy
  <2>2. UpdaterOK' BY <1>8 DEF BeginRecover, Resolve, Busy, Point, Version, Phase, ActivePhase
  <2>3. WorldOK' BY <1>8 DEF BeginRecover, Resolve, Busy
  <2>. QED BY <2>1, <2>2, <2>3
<1>9. CASE Finish
  <2>1. (FilesOK /\ ProcessOK /\ LocksOK)' BY <1>9 DEF Finish, Save, FailedWrite
  <2>2. JournalOK' BY <1>9 DEF Finish, Save, FailedWrite, Phase, ActivePhase
  <2>3. UpdaterOK' BY <1>9 DEF Finish, Save, FailedWrite, Point, Version, Phase, ActivePhase
  <2>4. WorldOK' BY <1>9 DEF Finish, Save, FailedWrite
  <2>. QED BY <2>1, <2>2, <2>3, <2>4
<1>10. CASE CancelStop
  <2>1. (JournalOK /\ FilesOK /\ LocksOK)' BY <1>10 DEF CancelStop, Signal
  <2>2. UpdaterOK' BY <1>10 DEF CancelStop, Signal, Point, Version, Phase, ActivePhase
  <2>3. ProcessOK' BY <1>10, SignalType DEF CancelStop
  <2>4. WorldOK' BY <1>10 DEF CancelStop, Signal
  <2>. QED BY <2>1, <2>2, <2>3, <2>4
<1>11. CASE CancelWait
  <2>1. (JournalOK /\ FilesOK /\ ProcessOK /\ LocksOK)' BY <1>11 DEF CancelWait, WaitStopped,
        InstanceLockFree, Step
  <2>2. UpdaterOK' BY <1>11 DEF CancelWait, WaitStopped, InstanceLockFree, Step, Point,
        Version, Phase, ActivePhase
  <2>3. WorldOK' BY <1>11 DEF CancelWait, WaitStopped, InstanceLockFree, Step
  <2>. QED BY <2>1, <2>2, <2>3
<1>12. CASE CancelSave
  <2>1. (FilesOK /\ ProcessOK /\ LocksOK)' BY <1>12 DEF CancelSave, Save, FailedWrite
  <2>2. JournalOK' BY <1>12 DEF CancelSave, Save, FailedWrite, Phase, ActivePhase
  <2>3. UpdaterOK' BY <1>12 DEF CancelSave, Save, FailedWrite, Point, Version, Phase,
        ActivePhase
  <2>4. WorldOK' BY <1>12 DEF CancelSave, Save, FailedWrite
  <2>. QED BY <2>1, <2>2, <2>3, <2>4
<1>13. CASE CancelStart
  <2>1. (JournalOK /\ FilesOK /\ LocksOK)' BY <1>13 DEF CancelStart, Start
  <2>2. UpdaterOK' BY <1>13 DEF CancelStart, Start, Point, Version, Phase, ActivePhase
  <2>3. ProcessOK' BY <1>13 DEF CancelStart, Start, Instance, Starter, Version
  <2>4. WorldOK' BY <1>13 DEF CancelStart, Start
  <2>. QED BY <2>1, <2>2, <2>3, <2>4
<1>14. CASE Verify
  <2>1. (JournalOK /\ FilesOK /\ ProcessOK /\ LocksOK)' BY <1>14 DEF Verify, OnError, Step
  <2>2. UpdaterOK' BY <1>14 DEF Verify, OnError, Step, Point, Version, Phase, ActivePhase
  <2>3. WorldOK' BY <1>14 DEF Verify, OnError, Step
  <2>. QED BY <2>1, <2>2, <2>3
<1>15. CASE SaveStopping
  <2>1. (FilesOK /\ ProcessOK /\ LocksOK)' BY <1>15 DEF SaveStopping, OnError, Save, FailedWrite
  <2>2. JournalOK' BY <1>15 DEF SaveStopping, OnError, Save, FailedWrite, Phase, ActivePhase
  <2>3. UpdaterOK' BY <1>15 DEF SaveStopping, OnError, Save, FailedWrite, Point, Version,
        Phase, ActivePhase
  <2>4. WorldOK' BY <1>15 DEF SaveStopping, OnError, Save, FailedWrite
  <2>. QED BY <2>1, <2>2, <2>3, <2>4
<1>16. CASE Stop
  <2>1. (JournalOK /\ FilesOK /\ LocksOK)' BY <1>16 DEF Stop, Signal
  <2>2. UpdaterOK' BY <1>16 DEF Stop, Signal, Point, Version, Phase, ActivePhase
  <2>3. ProcessOK' BY <1>16, SignalType DEF Stop
  <2>4. WorldOK' BY <1>16 DEF Stop, Signal
  <2>. QED BY <2>1, <2>2, <2>3, <2>4
<1>17. CASE StopWait
  <2>1. (JournalOK /\ FilesOK /\ ProcessOK /\ LocksOK)' BY <1>17 DEF StopWait, WaitStopped,
        InstanceLockFree, Step
  <2>2. UpdaterOK' BY <1>17 DEF StopWait, WaitStopped, InstanceLockFree, Step, Point, Version,
        Phase, ActivePhase
  <2>3. WorldOK' BY <1>17 DEF StopWait, WaitStopped, InstanceLockFree, Step
  <2>. QED BY <2>1, <2>2, <2>3
<1>18. CASE StopFailed
  <2>1. (FilesOK /\ ProcessOK /\ LocksOK)' BY <1>18 DEF StopFailed, OnError, Save, FailedWrite
  <2>2. JournalOK' BY <1>18 DEF StopFailed, OnError, Save, FailedWrite, Phase, ActivePhase
  <2>3. UpdaterOK' BY <1>18 DEF StopFailed, OnError, Save, FailedWrite, Point, Version, Phase,
        ActivePhase
  <2>4. WorldOK' BY <1>18 DEF StopFailed, OnError, Save, FailedWrite
  <2>. QED BY <2>1, <2>2, <2>3, <2>4
<1>19. CASE Lock
  <2>1. (JournalOK /\ FilesOK /\ ProcessOK)' BY <1>19 DEF Lock, LockTarget, Step
  <2>2. UpdaterOK' BY <1>19 DEF Lock, LockTarget, Step, Point, Version, Phase, ActivePhase
  <2>3. LocksOK' BY <1>19 DEF Lock, LockTarget, Step
  <2>4. WorldOK' BY <1>19 DEF Lock, LockTarget, Step
  <2>. QED BY <2>1, <2>2, <2>3, <2>4
<1>20. CASE BackupConfig
  <2>1. (JournalOK /\ ProcessOK /\ LocksOK)' BY <1>20 DEF BackupConfig
  <2>2. FilesOK' BY <1>20 DEF BackupConfig, Binary, Config, Version, Phase, ActivePhase
  <2>3. UpdaterOK' BY <1>20 DEF BackupConfig, Point, Version, Phase, ActivePhase
  <2>4. WorldOK' BY <1>20 DEF BackupConfig
  <2>. QED BY <2>1, <2>2, <2>3, <2>4
<1>21. CASE BackupTarget
  <2>1. (JournalOK /\ ProcessOK /\ LocksOK)' BY <1>21 DEF BackupTarget
  <2>2. FilesOK' BY <1>21 DEF BackupTarget, Binary, Config, Version, Phase, ActivePhase
  <2>3. UpdaterOK' BY <1>21 DEF BackupTarget, Point, Version, Phase, ActivePhase
  <2>4. WorldOK' BY <1>21 DEF BackupTarget
  <2>. QED BY <2>1, <2>2, <2>3, <2>4
<1>22. CASE SaveBackedUp
  <2>1. (FilesOK /\ ProcessOK /\ LocksOK)' BY <1>22 DEF SaveBackedUp, Save, FailedWrite
  <2>2. JournalOK' BY <1>22 DEF SaveBackedUp, Save, FailedWrite, Phase, ActivePhase
  <2>3. UpdaterOK' BY <1>22 DEF SaveBackedUp, Save, FailedWrite, Point, Version, Phase,
        ActivePhase
  <2>4. WorldOK' BY <1>22 DEF SaveBackedUp, Save, FailedWrite
  <2>. QED BY <2>1, <2>2, <2>3, <2>4
<1>23. CASE SaveInstalling
  <2>1. (FilesOK /\ ProcessOK /\ LocksOK)' BY <1>23 DEF SaveInstalling, Save, FailedWrite
  <2>2. JournalOK' BY <1>23 DEF SaveInstalling, Save, FailedWrite, Phase, ActivePhase
  <2>3. UpdaterOK' BY <1>23 DEF SaveInstalling, Save, FailedWrite, Point, Version, Phase,
        ActivePhase
  <2>4. WorldOK' BY <1>23 DEF SaveInstalling, Save, FailedWrite
  <2>. QED BY <2>1, <2>2, <2>3, <2>4
<1>24. CASE Rename
  <2>1. (JournalOK /\ ProcessOK)' BY <1>24 DEF Rename, Replace
  <2>2. FilesOK' BY <1>24 DEF Rename, Replace, Job, Binary
  <2>3. UpdaterOK' BY <1>24 DEF Rename, Replace, Point, Version, Phase, ActivePhase
  <2>4. LocksOK' BY <1>24 DEF Rename, Replace
  <2>5. WorldOK' BY <1>24 DEF Rename, Replace
  <2>. QED BY <2>1, <2>2, <2>3, <2>4, <2>5
<1>25. CASE SaveInstalled
  <2>1. (FilesOK /\ ProcessOK /\ LocksOK)' BY <1>25 DEF SaveInstalled, Save, FailedWrite
  <2>2. JournalOK' BY <1>25 DEF SaveInstalled, Save, FailedWrite, Phase, ActivePhase
  <2>3. UpdaterOK' BY <1>25 DEF SaveInstalled, Save, FailedWrite, Point, Version, Phase,
        ActivePhase
  <2>4. WorldOK' BY <1>25 DEF SaveInstalled, Save, FailedWrite
  <2>. QED BY <2>1, <2>2, <2>3, <2>4
<1>26. CASE SaveStarting
  <2>1. (FilesOK /\ ProcessOK /\ LocksOK)' BY <1>26 DEF SaveStarting, Save, FailedWrite
  <2>2. JournalOK' BY <1>26 DEF SaveStarting, Save, FailedWrite, Phase, ActivePhase
  <2>3. UpdaterOK' BY <1>26 DEF SaveStarting, Save, FailedWrite, Point, Version, Phase,
        ActivePhase
  <2>4. WorldOK' BY <1>26 DEF SaveStarting, Save, FailedWrite
  <2>. QED BY <2>1, <2>2, <2>3, <2>4
<1>27. CASE StartNew
  <2>1. (JournalOK /\ FilesOK /\ LocksOK)' BY <1>27 DEF StartNew, Start
  <2>2. UpdaterOK' BY <1>27 DEF StartNew, Start, Point, Version, Phase, ActivePhase
  <2>3. ProcessOK' BY <1>27 DEF StartNew, Start, Instance, Starter, Version
  <2>4. WorldOK' BY <1>27 DEF StartNew, Start
  <2>. QED BY <2>1, <2>2, <2>3, <2>4
<1>28. CASE ReadyNew
  <2>1. (JournalOK /\ FilesOK /\ ProcessOK /\ LocksOK)' BY <1>28 DEF ReadyNew, WaitReady, Step
  <2>2. UpdaterOK' BY <1>28 DEF ReadyNew, WaitReady, Step, Point, Version, Phase, ActivePhase
  <2>3. WorldOK' BY <1>28 DEF ReadyNew, WaitReady, Step
  <2>. QED BY <2>1, <2>2, <2>3
<1>29. CASE SaveSucceeded
  <2>1. (FilesOK /\ ProcessOK /\ LocksOK)' BY <1>29 DEF SaveSucceeded, OnError, Save,
        FailedWrite
  <2>2. JournalOK' BY <1>29 DEF SaveSucceeded, OnError, Save, FailedWrite, Phase, ActivePhase
  <2>3. UpdaterOK' BY <1>29 DEF SaveSucceeded, OnError, Save, FailedWrite, Point, Version,
        Phase, ActivePhase
  <2>4. WorldOK' BY <1>29 DEF SaveSucceeded, OnError, Save, FailedWrite
  <2>. QED BY <2>1, <2>2, <2>3, <2>4
<1>30. CASE Resume
  <2>1. (FilesOK /\ ProcessOK)' BY <1>30 DEF Resume, OnError, Save, FailedWrite
  <2>2. JournalOK' BY <1>30 DEF Resume, OnError, Save, FailedWrite, Phase, ActivePhase
  <2>3. UpdaterOK' BY <1>30 DEF Resume, OnError, Save, FailedWrite, Point, Version, Phase,
        ActivePhase
  <2>4. WorldOK' BY <1>30 DEF Resume, OnError, Save, FailedWrite
  <2>5. LocksOK' BY <1>30 DEF Resume, OnError, Save, FailedWrite
  <2>. QED BY <2>1, <2>2, <2>3, <2>4, <2>5
<1>31. CASE ResumeStart
  <2>1. (JournalOK /\ FilesOK /\ LocksOK)' BY <1>31 DEF ResumeStart, OnError, Start
  <2>2. UpdaterOK' BY <1>31 DEF ResumeStart, OnError, Start, Point, Version, Phase, ActivePhase
  <2>3. ProcessOK' BY <1>31 DEF ResumeStart, OnError, Start, Instance, Starter, Version
  <2>4. WorldOK' BY <1>31 DEF ResumeStart, OnError, Start
  <2>. QED BY <2>1, <2>2, <2>3, <2>4
<1>32. CASE Rollback
  <2>1. (FilesOK /\ ProcessOK /\ LocksOK)' BY <1>32 DEF Rollback, Save, FailedWrite
  <2>2. JournalOK' BY <1>32 DEF Rollback, Save, FailedWrite, Phase, ActivePhase
  <2>3. UpdaterOK' BY <1>32 DEF Rollback, Save, FailedWrite, Point, Version, Phase, ActivePhase
  <2>4. WorldOK' BY <1>32 DEF Rollback, Save, FailedWrite
  <2>. QED BY <2>1, <2>2, <2>3, <2>4
<1>33. CASE UndoStop
  <2>1. (JournalOK /\ FilesOK /\ LocksOK)' BY <1>33 DEF UndoStop, Signal
  <2>2. UpdaterOK' BY <1>33 DEF UndoStop, Signal, Point, Version, Phase, ActivePhase
  <2>3. ProcessOK' BY <1>33, SignalType DEF UndoStop
  <2>4. WorldOK' BY <1>33 DEF UndoStop, Signal
  <2>. QED BY <2>1, <2>2, <2>3, <2>4
<1>34. CASE UndoWait
  <2>1. (JournalOK /\ FilesOK /\ ProcessOK /\ LocksOK)' BY <1>34 DEF UndoWait, WaitStopped,
        InstanceLockFree, Step
  <2>2. UpdaterOK' BY <1>34 DEF UndoWait, WaitStopped, InstanceLockFree, Step, Point, Version,
        Phase, ActivePhase
  <2>3. WorldOK' BY <1>34 DEF UndoWait, WaitStopped, InstanceLockFree, Step
  <2>. QED BY <2>1, <2>2, <2>3
<1>35. CASE UndoLock
  <2>1. (JournalOK /\ FilesOK /\ ProcessOK)' BY <1>35 DEF UndoLock, LockTarget, Step
  <2>2. UpdaterOK' BY <1>35 DEF UndoLock, LockTarget, Step, Point, Version, Phase, ActivePhase
  <2>3. LocksOK' BY <1>35 DEF UndoLock, LockTarget, Step
  <2>4. WorldOK' BY <1>35 DEF UndoLock, LockTarget, Step
  <2>. QED BY <2>1, <2>2, <2>3, <2>4
<1>36. CASE UndoVerify
  <2>1. (JournalOK /\ FilesOK /\ ProcessOK /\ LocksOK)' BY <1>36 DEF UndoVerify, Ours, Step
  <2>2. UpdaterOK' BY <1>36 DEF UndoVerify, Ours, Step, Point, Version, Phase, ActivePhase
  <2>3. WorldOK' BY <1>36 DEF UndoVerify, Ours, Step
  <2>. QED BY <2>1, <2>2, <2>3
<1>37. CASE UndoTarget
  <2>1. (JournalOK /\ ProcessOK)' BY <1>37 DEF UndoTarget, Replace
  <2>2. FilesOK' BY <1>37 DEF UndoTarget, Replace, Binary, Config, Version, Phase, ActivePhase
  <2>3. UpdaterOK' BY <1>37 DEF UndoTarget, Replace, Point, Version, Phase, ActivePhase
  <2>4. LocksOK' BY <1>37 DEF UndoTarget, Replace
  <2>5. WorldOK' BY <1>37 DEF UndoTarget, Replace
  <2>. QED BY <2>1, <2>2, <2>3, <2>4, <2>5
<1>38. CASE UndoConfig
  <2>1. (JournalOK /\ ProcessOK /\ LocksOK)' BY <1>38 DEF UndoConfig
  <2>2. FilesOK' BY <1>38 DEF UndoConfig, Binary, Config, Version, Phase, ActivePhase
  <2>3. UpdaterOK' BY <1>38 DEF UndoConfig, Point, Version, Phase, ActivePhase
  <2>4. WorldOK' BY <1>38 DEF UndoConfig
  <2>. QED BY <2>1, <2>2, <2>3, <2>4
<1>39. CASE UndoStart
  <2>1. (JournalOK /\ FilesOK /\ LocksOK)' BY <1>39 DEF UndoStart, Start
  <2>2. UpdaterOK' BY <1>39 DEF UndoStart, Start, Point, Version, Phase, ActivePhase
  <2>3. ProcessOK' BY <1>39 DEF UndoStart, Start, Instance, Starter, Version
  <2>4. WorldOK' BY <1>39 DEF UndoStart, Start
  <2>. QED BY <2>1, <2>2, <2>3, <2>4
<1>40. CASE UndoReady
  <2>1. (JournalOK /\ FilesOK /\ ProcessOK /\ LocksOK)' BY <1>40 DEF UndoReady, WaitReady, Step
  <2>2. UpdaterOK' BY <1>40 DEF UndoReady, WaitReady, Step, Point, Version, Phase, ActivePhase
  <2>3. WorldOK' BY <1>40 DEF UndoReady, WaitReady, Step
  <2>. QED BY <2>1, <2>2, <2>3
<1>41. CASE UndoDone
  <2>1. (FilesOK /\ ProcessOK /\ LocksOK)' BY <1>41 DEF UndoDone, OnError, Save, FailedWrite
  <2>2. JournalOK' BY <1>41 DEF UndoDone, OnError, Save, FailedWrite, Phase, ActivePhase
  <2>3. UpdaterOK' BY <1>41 DEF UndoDone, OnError, Save, FailedWrite, Point, Version, Phase,
        ActivePhase
  <2>4. WorldOK' BY <1>41 DEF UndoDone, OnError, Save, FailedWrite
  <2>. QED BY <2>1, <2>2, <2>3, <2>4
<1>42. CASE UndoFailed
  <2>1. (FilesOK /\ ProcessOK)' BY <1>42 DEF UndoFailed, OnError, Save, FailedWrite
  <2>2. JournalOK' BY <1>42 DEF UndoFailed, OnError, Save, FailedWrite, Phase, ActivePhase
  <2>3. UpdaterOK' BY <1>42 DEF UndoFailed, OnError, Save, FailedWrite, Point, Version, Phase,
        ActivePhase
  <2>4. WorldOK' BY <1>42 DEF UndoFailed, OnError, Save, FailedWrite
  <2>5. LocksOK' BY <1>42 DEF UndoFailed, OnError, Save, FailedWrite
  <2>. QED BY <2>1, <2>2, <2>3, <2>4, <2>5
<1>43. CASE BootLaunch
  <2>1. (JournalOK /\ FilesOK /\ UpdaterOK /\ LocksOK)' BY <1>43 DEF BootLaunch,
        StartupAllowed, NoBoot
  <2>2. ProcessOK'
    <3>1. 0 \in Version BY DEF Version
    <3>2. PICK v \in Version, e \in {"target", "copy"}, m \in BOOLEAN :
             boot' = [st |-> "checked", ver |-> v, exe |-> e, managed |-> m]
      BY <1>43, <3>1, Zenon DEF BootLaunch
    <3>3. boot' \in Starter BY <3>2 DEF Starter
    <3>. QED BY <1>43, <3>3 DEF BootLaunch, ProcessOK
  <2>3. WorldOK' BY <1>43 DEF BootLaunch, StartupAllowed
  <2>. QED BY <2>1, <2>2, <2>3
<1>44. CASE BootLock
  <2>1. (JournalOK /\ FilesOK /\ UpdaterOK /\ LocksOK /\ WorldOK)' BY <1>44 DEF BootLock,
        InstanceLockFree, NoBoot
  <2>2. ProcessOK' BY <1>44, Samples DEF BootLock, InstanceLockFree, Instance, Starter, Version
  <2>. QED BY <2>1, <2>2
<1>45. CASE BootRecheck
  <2>1. (JournalOK /\ FilesOK /\ UpdaterOK /\ LocksOK /\ WorldOK)' BY <1>45 DEF BootRecheck,
        StartupAllowed, NoBoot
  <2>2. ProcessOK' BY <1>45, Samples DEF BootRecheck, StartupAllowed, Instance, Starter, Version
  <2>. QED BY <2>1, <2>2
<1>46. CASE BootLoad
  <2>1. (JournalOK /\ UpdaterOK /\ WorldOK)' BY <1>46 DEF BootLoad, NoBoot, NoInst
  <2>2. FilesOK'
    <3>1. boot.ver \in Version BY DEF ProcessOK, Starter
    <3>2. config' = config \/ config' = [config EXCEPT !.schema = boot.ver]
      BY <1>46 DEF BootLoad
    <3>3. config' \in Config BY <3>1, <3>2 DEF FilesOK, Config
    <3>. QED BY <1>46, <3>3 DEF BootLoad, FilesOK
  <2>3. ProcessOK'
    <3> DEFINE new == [NoInst EXCEPT !.on = TRUE, !.ver = boot.ver, !.rev = config.rev,
                                     !.managed = boot.managed]
    <3>1. new \in Instance
      BY Samples DEF ProcessOK, FilesOK, Starter, Config, Instance
    <3> HIDE DEF new
    <3>2. inst' \in {inst, new} BY <1>46 DEF BootLoad, new
    <3>. QED BY <1>46, <3>1, <3>2, Samples DEF BootLoad, ProcessOK
  <2>4. LocksOK' BY <1>46 DEF BootLoad
  <2>. QED BY <2>1, <2>2, <2>3, <2>4
<1>47. CASE WriteBegin
  <2>1. (JournalOK /\ FilesOK /\ UpdaterOK /\ LocksOK /\ WorldOK)' BY <1>47 DEF WriteBegin, Busy
  <2>2. ProcessOK' BY <1>47 DEF WriteBegin, Busy, Instance, Starter, Version
  <2>. QED BY <2>1, <2>2
<1>48. CASE WriteCommit
  <2>1. (JournalOK /\ UpdaterOK /\ LocksOK /\ WorldOK)' BY <1>48 DEF WriteCommit
  <2>2. FilesOK'
    <3>1. inst.rev + 1 \in Nat /\ inst.ver \in Version BY DEF ProcessOK, Instance
    <3>2. config' \in Config BY <1>48, <3>1 DEF WriteCommit, Config
    <3>. QED BY <1>48, <3>2 DEF WriteCommit, FilesOK
  <2>3. ProcessOK'
    <3>1. acked' \in Nat BY <1>48 DEF WriteCommit, ProcessOK, Instance
    <3>2. inst' = [inst EXCEPT !.rev = acked'] BY <1>48 DEF WriteCommit
    <3>3. inst' \in Instance BY <3>1, <3>2 DEF ProcessOK, Instance
    <3>. QED BY <1>48, <3>1, <3>3 DEF WriteCommit, ProcessOK
  <2>. QED BY <2>1, <2>2, <2>3
<1>49. CASE InstanceExit
  <2>1. (JournalOK /\ FilesOK /\ WorldOK)' BY <1>49 DEF InstanceExit, InstanceGone, NoInst
  <2>2. UpdaterOK' BY <1>49 DEF InstanceExit, InstanceGone, NoInst, Point, Version, Phase,
        ActivePhase
  <2>3. ProcessOK' BY <1>49, Samples DEF InstanceExit, InstanceGone, Instance, Starter, Version
  <2>4. LocksOK' BY <1>49 DEF InstanceExit, InstanceGone
  <2>. QED BY <2>1, <2>2, <2>3, <2>4
<1>50. CASE InstanceCrash
  <2>1. (JournalOK /\ FilesOK)' BY <1>50 DEF InstanceCrash, InstanceGone, NoInst
  <2>2. UpdaterOK' BY <1>50 DEF InstanceCrash, InstanceGone, NoInst, Point, Version, Phase,
        ActivePhase
  <2>3. ProcessOK' BY <1>50, Samples DEF InstanceCrash, InstanceGone, Instance, Starter, Version
  <2>4. LocksOK' BY <1>50 DEF InstanceCrash, InstanceGone
  <2>5. WorldOK' BY <1>50 DEF InstanceCrash, InstanceGone
  <2>. QED BY <2>1, <2>2, <2>3, <2>4, <2>5
<1>51. CASE UpdaterCrash
  <2>1. (JournalOK /\ FilesOK /\ ProcessOK)' BY <1>51 DEF UpdaterCrash
  <2>2. UpdaterOK' BY <1>51 DEF UpdaterCrash, Point, Version, Phase, ActivePhase
  <2>3. LocksOK' BY <1>51 DEF UpdaterCrash
  <2>4. WorldOK' BY <1>51 DEF UpdaterCrash
  <2>. QED BY <2>1, <2>2, <2>3, <2>4
<1>52. CASE PowerLoss
  <2>1. (JournalOK /\ FilesOK)' BY <1>52 DEF PowerLoss, NoInst, NoBoot
  <2>2. UpdaterOK' BY <1>52 DEF PowerLoss, NoInst, NoBoot, Point, Version, Phase, ActivePhase
  <2>3. ProcessOK'
    <3>1. svc' \in BOOLEAN BY <1>52 DEF PowerLoss
    <3>2. acked' \in Nat BY <1>52 DEF PowerLoss, Config
    <3>. QED BY <1>52, <3>1, <3>2, Samples, Zenon DEF PowerLoss
  <2>4. LocksOK' BY <1>52 DEF PowerLoss
  <2>5. WorldOK' BY <1>52 DEF PowerLoss
  <2>. QED BY <2>1, <2>2, <2>3, <2>4, <2>5
<1>53. CASE OperatorStop
  <2>1. (JournalOK /\ FilesOK /\ UpdaterOK /\ LocksOK)' BY <1>53 DEF OperatorStop
  <2>2. ProcessOK' BY <1>53 DEF OperatorStop, Instance, Starter, Version
  <2>3. WorldOK' BY <1>53 DEF OperatorStop
  <2>. QED BY <2>1, <2>2, <2>3
<1>54. CASE OperatorStart
  <2>1. (JournalOK /\ FilesOK /\ UpdaterOK /\ LocksOK)' BY <1>54 DEF OperatorStart
  <2>2. ProcessOK' BY <1>54 DEF OperatorStart, Instance, Starter, Version
  <2>3. WorldOK' BY <1>54 DEF OperatorStart
  <2>. QED BY <2>1, <2>2, <2>3
<1>55. CASE OtherStart
  <2>1. (JournalOK /\ FilesOK /\ UpdaterOK /\ ProcessOK)' BY <1>55 DEF OtherStart
  <2>2. LocksOK' BY <1>55 DEF OtherStart
  <2>3. WorldOK' BY <1>55 DEF OtherStart
  <2>. QED BY <2>1, <2>2, <2>3
<1>56. CASE OtherStop
  <2>1. (JournalOK /\ FilesOK /\ UpdaterOK /\ ProcessOK /\ WorldOK)' BY <1>56 DEF OtherStop
  <2>2. LocksOK' BY <1>56 DEF OtherStop
  <2>. QED BY <2>1, <2>2
<1>57. CASE ForeignReplace
  <2>1. (JournalOK /\ UpdaterOK /\ ProcessOK)' BY <1>57 DEF ForeignReplace, Replace
  <2>2. FilesOK' BY <1>57 DEF ForeignReplace, Replace, Binary, Config, Version, Phase,
        ActivePhase
  <2>3. LocksOK' BY <1>57 DEF ForeignReplace, Replace
  <2>4. WorldOK' BY <1>57 DEF ForeignReplace, Replace
  <2>. QED BY <2>1, <2>2, <2>3, <2>4
<1>58. CASE UNCHANGED vars BY <1>58 DEF vars
<1>. QED BY <1>1, <1>2, <1>3, <1>4, <1>5, <1>6, <1>7, <1>8, <1>9, <1>10, <1>11, <1>12,
      <1>13, <1>14, <1>15, <1>16, <1>17, <1>18, <1>19, <1>20, <1>21, <1>22, <1>23, <1>24,
      <1>25, <1>26, <1>27, <1>28, <1>29, <1>30, <1>31, <1>32, <1>33, <1>34, <1>35, <1>36,
      <1>37, <1>38, <1>39, <1>40, <1>41, <1>42, <1>43, <1>44, <1>45, <1>46, <1>47, <1>48,
      <1>49, <1>50, <1>51, <1>52, <1>53, <1>54, <1>55, <1>56, <1>57, <1>58 DEF Next,
      UpdaterStep, InstallStep, CancelStep, ForwardStep, RollbackStep, ServeStep, CrashStep,
      OutsideStep

LEMMA InitType == Init => TypeOK
<1> SUFFICES ASSUME Init PROVE TypeOK OBVIOUS
<1>1. 0 \in Version BY ConstantsAssumption DEF Version
<1>2. JournalOK BY <1>1 DEF Init, JournalOK, NoJob, Job, Phase, ActivePhase
<1>3. FilesOK BY <1>1 DEF Init, FilesOK, Binary, Config
<1>4. UpdaterOK BY <1>1 DEF Init, UpdaterOK, Point, Phase, ActivePhase
<1>5. registered \in BOOLEAN BY ConstantsAssumption DEF Init
<1>6. ProcessOK BY <1>5, Samples DEF Init, ProcessOK
<1>7. LocksOK /\ WorldOK BY <1>5, ConstantsAssumption DEF Init, LocksOK, WorldOK
<1>. QED BY <1>2, <1>3, <1>4, <1>6, <1>7 DEF TypeOK

\* The state of every updater, instance and file is of the declared shape,
\* whatever fails or crashes.
THEOREM TypeCorrect == Spec => []TypeOK
BY InitType, TypeStep, PTL DEF Spec

-----------------------------------------------------------------------------

\* A prepared journal describes the planned update, at the address in use.
LEMMA PreparedJob ==
    ASSUME TRUE \notin LateErrors, Prepare
    PROVE  \/ phase' = phase /\ job' = job
           \/ /\ phase' = "prepared" /\ job'.prev = plan.prev /\ job'.next = plan.next
              /\ job'.addr = IF cli THEN config.rev ELSE inst.rev
<1> DEFINE addr == IF cli THEN config.rev ELSE inst.rev
           new  == [id |-> job.id + 1, prev |-> plan.prev, next |-> plan.next,
                    addr |-> addr, service |-> registered, live |-> ~cli]
<1>1. new.prev = plan.prev /\ new.next = plan.next /\ new.addr = addr OBVIOUS
<1> HIDE DEF new, addr
<1>2. \/ phase' = "prepared" /\ job' = new
      \/ phase' = phase /\ job' = IF phase' = "prepared" THEN new ELSE job
  BY DEF Prepare, FailedWrite, new, addr
<1>3. CASE job' = new /\ phase' = "prepared" BY <1>1, <1>3 DEF addr
<1>4. CASE phase' = phase /\ job' = job BY <1>4
<1>. QED BY <1>2, <1>3, <1>4

\* Every step of the updater leaves journal and program counter in step.
LEMMA ControlInvStep ==
    ASSUME TRUE \notin LateErrors, IInv, [Next]_vars, TypeOK'
    PROVE  ControlInv'
<1> USE DEF IInv, journal, files, updater, process, locks, world, ControlInv, Busy,
            ActivePhase, Offered, Launching, Before, Copying, Stopping, Replacing, Trying,
            Cancelling, UndoFiles, UndoRun, Replaced, Untouched
<1>1. CASE InstallBegin BY <1>1 DEF InstallBegin, InstanceLockFree, Newer
<1>2. CASE Download BY <1>2 DEF Download, Step
<1>3. CASE Prepare BY <1>3, PreparedJob DEF Prepare, GateClosed
<1>4. CASE Launch BY <1>4 DEF Launch
<1>5. CASE LaunchFailed BY <1>5 DEF LaunchFailed, Save, FailedWrite
<1>6. CASE Exit BY <1>6 DEF Exit
<1>7. CASE BeginWorker BY <1>7 DEF BeginWorker, Resolve
<1>8. CASE BeginRecover BY <1>8 DEF BeginRecover, Resolve
<1>9. CASE Finish BY <1>9 DEF Finish, Save, FailedWrite
<1>10. CASE CancelStop BY <1>10 DEF CancelStop, Signal
<1>11. CASE CancelWait BY <1>11 DEF CancelWait, WaitStopped, InstanceLockFree, Step
<1>12. CASE CancelSave BY <1>12 DEF CancelSave, Save, FailedWrite
<1>13. CASE CancelStart BY <1>13 DEF CancelStart, Start
<1>14. CASE Verify BY <1>14 DEF Verify, OnError, Step
<1>15. CASE SaveStopping BY <1>15 DEF SaveStopping, OnError, Save, FailedWrite
<1>16. CASE Stop BY <1>16 DEF Stop, Signal
<1>17. CASE StopWait BY <1>17 DEF StopWait, WaitStopped, InstanceLockFree, Step
<1>18. CASE StopFailed BY <1>18 DEF StopFailed, OnError, Save, FailedWrite
<1>19. CASE Lock BY <1>19 DEF Lock, LockTarget, Step
<1>20. CASE BackupConfig BY <1>20 DEF BackupConfig
<1>21. CASE BackupTarget BY <1>21 DEF BackupTarget
<1>22. CASE SaveBackedUp BY <1>22 DEF SaveBackedUp, Save, FailedWrite
<1>23. CASE SaveInstalling BY <1>23 DEF SaveInstalling, Save, FailedWrite
<1>24. CASE Rename BY <1>24 DEF Rename, Replace
<1>25. CASE SaveInstalled BY <1>25 DEF SaveInstalled, Save, FailedWrite
<1>26. CASE SaveStarting BY <1>26 DEF SaveStarting, Save, FailedWrite
<1>27. CASE StartNew BY <1>27 DEF StartNew, Start
<1>28. CASE ReadyNew BY <1>28 DEF ReadyNew, WaitReady, Step
<1>29. CASE SaveSucceeded BY <1>29 DEF SaveSucceeded, OnError, Save, FailedWrite
<1>30. CASE Resume BY <1>30 DEF Resume, OnError, Save, FailedWrite
<1>31. CASE ResumeStart BY <1>31 DEF ResumeStart, OnError, Start
<1>32. CASE Rollback BY <1>32 DEF Rollback, Save, FailedWrite
<1>33. CASE UndoStop BY <1>33 DEF UndoStop, Signal
<1>34. CASE UndoWait BY <1>34 DEF UndoWait, WaitStopped, InstanceLockFree, Step
<1>35. CASE UndoLock BY <1>35 DEF UndoLock, LockTarget, Step
<1>36. CASE UndoVerify BY <1>36 DEF UndoVerify, Ours, Step
<1>37. CASE UndoTarget BY <1>37 DEF UndoTarget, Replace
<1>38. CASE UndoConfig BY <1>38 DEF UndoConfig
<1>39. CASE UndoStart BY <1>39 DEF UndoStart, Start
<1>40. CASE UndoReady BY <1>40 DEF UndoReady, WaitReady, Step
<1>41. CASE UndoDone BY <1>41 DEF UndoDone, OnError, Save, FailedWrite
<1>42. CASE UndoFailed BY <1>42 DEF UndoFailed, OnError, Save, FailedWrite
<1>43. CASE BootLaunch BY <1>43 DEF BootLaunch, StartupAllowed, NoBoot
<1>44. CASE BootLock BY <1>44 DEF BootLock, InstanceLockFree, NoBoot
<1>45. CASE BootRecheck BY <1>45 DEF BootRecheck, StartupAllowed, NoBoot
<1>46. CASE BootLoad BY <1>46 DEF BootLoad, NoBoot, NoInst
<1>47. CASE WriteBegin BY <1>47 DEF WriteBegin
<1>48. CASE WriteCommit BY <1>48 DEF WriteCommit
<1>49. CASE InstanceExit BY <1>49 DEF InstanceExit, InstanceGone, NoInst
<1>50. CASE InstanceCrash BY <1>50 DEF InstanceCrash, InstanceGone, NoInst
<1>51. CASE UpdaterCrash BY <1>51 DEF UpdaterCrash
<1>52. CASE PowerLoss BY <1>52 DEF PowerLoss, NoInst, NoBoot
<1>53. CASE OperatorStop BY <1>53 DEF OperatorStop
<1>54. CASE OperatorStart BY <1>54 DEF OperatorStart
<1>55. CASE OtherStart BY <1>55 DEF OtherStart
<1>56. CASE OtherStop BY <1>56 DEF OtherStop
<1>57. CASE ForeignReplace BY <1>57 DEF ForeignReplace, Replace
<1>58. CASE UNCHANGED vars BY <1>58 DEF vars
<1>. QED BY <1>1, <1>2, <1>3, <1>4, <1>5, <1>6, <1>7, <1>8, <1>9, <1>10, <1>11, <1>12,
      <1>13, <1>14, <1>15, <1>16, <1>17, <1>18, <1>19, <1>20, <1>21, <1>22, <1>23, <1>24,
      <1>25, <1>26, <1>27, <1>28, <1>29, <1>30, <1>31, <1>32, <1>33, <1>34, <1>35, <1>36,
      <1>37, <1>38, <1>39, <1>40, <1>41, <1>42, <1>43, <1>44, <1>45, <1>46, <1>47, <1>48,
      <1>49, <1>50, <1>51, <1>52, <1>53, <1>54, <1>55, <1>56, <1>57, <1>58 DEF Next,
      UpdaterStep, InstallStep, CancelStep, ForwardStep, RollbackStep, ServeStep, CrashStep,
      OutsideStep

\* instance.lock has one holder.
LEMMA OwnerInvStep ==
    ASSUME TRUE \notin LateErrors, IInv, [Next]_vars, TypeOK'
    PROVE  OwnerInv'
<1> USE DEF IInv, journal, files, updater, process, locks, world, OwnerInv, TypeOK,
            ProcessOK, Instance, NoInst, NoBoot, Offered, Launching, Before, Copying,
            Stopping, Replacing, Trying, Cancelling, UndoFiles, UndoRun, Replaced, Untouched
<1>1. CASE InstallBegin BY <1>1 DEF InstallBegin, Busy, InstanceLockFree, Newer
<1>2. CASE Download BY <1>2 DEF Download, Step
<1>3. CASE Prepare BY <1>3, PreparedJob DEF Prepare, FailedWrite, GateClosed
<1>4. CASE Launch BY <1>4 DEF Launch
<1>5. CASE LaunchFailed BY <1>5 DEF LaunchFailed, Save, FailedWrite
<1>6. CASE Exit BY <1>6 DEF Exit
<1>7. CASE BeginWorker BY <1>7 DEF BeginWorker, Resolve, Busy
<1>8. CASE BeginRecover BY <1>8 DEF BeginRecover, Resolve, Busy
<1>9. CASE Finish BY <1>9 DEF Finish, Save, FailedWrite
<1>10. CASE CancelStop BY <1>10 DEF CancelStop, Signal
<1>11. CASE CancelWait BY <1>11 DEF CancelWait, WaitStopped, InstanceLockFree, Step
<1>12. CASE CancelSave BY <1>12 DEF CancelSave, Save, FailedWrite
<1>13. CASE CancelStart BY <1>13 DEF CancelStart, Start
<1>14. CASE Verify BY <1>14 DEF Verify, OnError, Step
<1>15. CASE SaveStopping BY <1>15 DEF SaveStopping, OnError, Save, FailedWrite
<1>16. CASE Stop BY <1>16 DEF Stop, Signal
<1>17. CASE StopWait BY <1>17 DEF StopWait, WaitStopped, InstanceLockFree, Step
<1>18. CASE StopFailed BY <1>18 DEF StopFailed, OnError, Save, FailedWrite
<1>19. CASE Lock BY <1>19 DEF Lock, LockTarget, Step
<1>20. CASE BackupConfig BY <1>20 DEF BackupConfig
<1>21. CASE BackupTarget BY <1>21 DEF BackupTarget
<1>22. CASE SaveBackedUp BY <1>22 DEF SaveBackedUp, Save, FailedWrite
<1>23. CASE SaveInstalling BY <1>23 DEF SaveInstalling, Save, FailedWrite
<1>24. CASE Rename BY <1>24 DEF Rename, Replace
<1>25. CASE SaveInstalled BY <1>25 DEF SaveInstalled, Save, FailedWrite
<1>26. CASE SaveStarting BY <1>26 DEF SaveStarting, Save, FailedWrite
<1>27. CASE StartNew BY <1>27 DEF StartNew, Start
<1>28. CASE ReadyNew BY <1>28 DEF ReadyNew, WaitReady, Step
<1>29. CASE SaveSucceeded BY <1>29 DEF SaveSucceeded, OnError, Save, FailedWrite
<1>30. CASE Resume BY <1>30 DEF Resume, OnError, Save, FailedWrite
<1>31. CASE ResumeStart BY <1>31 DEF ResumeStart, OnError, Start
<1>32. CASE Rollback BY <1>32 DEF Rollback, Save, FailedWrite
<1>33. CASE UndoStop BY <1>33 DEF UndoStop, Signal
<1>34. CASE UndoWait BY <1>34 DEF UndoWait, WaitStopped, InstanceLockFree, Step
<1>35. CASE UndoLock BY <1>35 DEF UndoLock, LockTarget, Step
<1>36. CASE UndoVerify BY <1>36 DEF UndoVerify, Ours, Step
<1>37. CASE UndoTarget BY <1>37 DEF UndoTarget, Replace
<1>38. CASE UndoConfig BY <1>38 DEF UndoConfig
<1>39. CASE UndoStart BY <1>39 DEF UndoStart, Start
<1>40. CASE UndoReady BY <1>40 DEF UndoReady, WaitReady, Step
<1>41. CASE UndoDone BY <1>41 DEF UndoDone, OnError, Save, FailedWrite
<1>42. CASE UndoFailed BY <1>42 DEF UndoFailed, OnError, Save, FailedWrite
<1>43. CASE BootLaunch BY <1>43 DEF BootLaunch, StartupAllowed
<1>44. CASE BootLock BY <1>44 DEF BootLock, InstanceLockFree
<1>45. CASE BootRecheck BY <1>45 DEF BootRecheck, StartupAllowed
<1>46. CASE BootLoad BY <1>46 DEF BootLoad
<1>47. CASE WriteBegin BY <1>47 DEF WriteBegin, Busy
<1>48. CASE WriteCommit BY <1>48 DEF WriteCommit
<1>49. CASE InstanceExit BY <1>49 DEF InstanceExit, InstanceGone
<1>50. CASE InstanceCrash BY <1>50 DEF InstanceCrash, InstanceGone
<1>51. CASE UpdaterCrash BY <1>51 DEF UpdaterCrash
<1>52. CASE PowerLoss BY <1>52 DEF PowerLoss
<1>53. CASE OperatorStop BY <1>53 DEF OperatorStop
<1>54. CASE OperatorStart BY <1>54 DEF OperatorStart
<1>55. CASE OtherStart BY <1>55 DEF OtherStart
<1>56. CASE OtherStop BY <1>56 DEF OtherStop
<1>57. CASE ForeignReplace BY <1>57 DEF ForeignReplace, Replace
<1>58. CASE UNCHANGED vars BY <1>58 DEF vars
<1>. QED BY <1>1, <1>2, <1>3, <1>4, <1>5, <1>6, <1>7, <1>8, <1>9, <1>10, <1>11, <1>12,
      <1>13, <1>14, <1>15, <1>16, <1>17, <1>18, <1>19, <1>20, <1>21, <1>22, <1>23, <1>24,
      <1>25, <1>26, <1>27, <1>28, <1>29, <1>30, <1>31, <1>32, <1>33, <1>34, <1>35, <1>36,
      <1>37, <1>38, <1>39, <1>40, <1>41, <1>42, <1>43, <1>44, <1>45, <1>46, <1>47, <1>48,
      <1>49, <1>50, <1>51, <1>52, <1>53, <1>54, <1>55, <1>56, <1>57, <1>58 DEF Next,
      UpdaterStep, InstallStep, CancelStep, ForwardStep, RollbackStep, ServeStep, CrashStep,
      OutsideStep

\* After the stop nothing is started before the replacement.
LEMMA QuietInvStep ==
    ASSUME TRUE \notin LateErrors, IInv, [Next]_vars, TypeOK'
    PROVE  QuietInv'
<1> USE DEF IInv, journal, files, updater, process, locks, world, QuietInv, OwnerInv,
            ControlInv, TypeOK, ProcessOK, Instance, NoInst, NoBoot, Offered, Launching,
            Before, Copying, Stopping, Replacing, Trying, Cancelling, UndoFiles, UndoRun,
            Replaced, Untouched
<1>1. CASE InstallBegin BY <1>1 DEF InstallBegin, Busy, InstanceLockFree, Newer
<1>2. CASE Download BY <1>2 DEF Download, Step
<1>3. CASE Prepare BY <1>3, PreparedJob DEF Prepare, GateClosed
<1>4. CASE Launch BY <1>4 DEF Launch
<1>5. CASE LaunchFailed BY <1>5 DEF LaunchFailed, Save, FailedWrite
<1>6. CASE Exit BY <1>6 DEF Exit
<1>7. CASE BeginWorker BY <1>7 DEF BeginWorker, Resolve, Busy
<1>8. CASE BeginRecover BY <1>8 DEF BeginRecover, Resolve, Busy
<1>9. CASE Finish BY <1>9 DEF Finish, Save, FailedWrite
<1>10. CASE CancelStop BY <1>10 DEF CancelStop, Signal
<1>11. CASE CancelWait BY <1>11 DEF CancelWait, WaitStopped, InstanceLockFree, Step
<1>12. CASE CancelSave BY <1>12 DEF CancelSave, Save, FailedWrite
<1>13. CASE CancelStart BY <1>13 DEF CancelStart, Start
<1>14. CASE Verify BY <1>14 DEF Verify, OnError, Step
<1>15. CASE SaveStopping BY <1>15 DEF SaveStopping, OnError, Save, FailedWrite
<1>16. CASE Stop BY <1>16 DEF Stop, Signal
<1>17. CASE StopWait BY <1>17 DEF StopWait, WaitStopped, InstanceLockFree, Step
<1>18. CASE StopFailed BY <1>18 DEF StopFailed, OnError, Save, FailedWrite
<1>19. CASE Lock BY <1>19 DEF Lock, LockTarget, Step
<1>20. CASE BackupConfig BY <1>20 DEF BackupConfig
<1>21. CASE BackupTarget BY <1>21 DEF BackupTarget
<1>22. CASE SaveBackedUp BY <1>22 DEF SaveBackedUp, Save, FailedWrite
<1>23. CASE SaveInstalling BY <1>23 DEF SaveInstalling, Save, FailedWrite
<1>24. CASE Rename BY <1>24 DEF Rename, Replace
<1>25. CASE SaveInstalled BY <1>25 DEF SaveInstalled, Save, FailedWrite
<1>26. CASE SaveStarting BY <1>26 DEF SaveStarting, Save, FailedWrite
<1>27. CASE StartNew BY <1>27 DEF StartNew, Start
<1>28. CASE ReadyNew BY <1>28 DEF ReadyNew, WaitReady, Step
<1>29. CASE SaveSucceeded BY <1>29 DEF SaveSucceeded, OnError, Save, FailedWrite
<1>30. CASE Resume BY <1>30 DEF Resume, OnError, Save, FailedWrite
<1>31. CASE ResumeStart BY <1>31 DEF ResumeStart, OnError, Start
<1>32. CASE Rollback BY <1>32 DEF Rollback, Save, FailedWrite
<1>33. CASE UndoStop BY <1>33 DEF UndoStop, Signal
<1>34. CASE UndoWait BY <1>34 DEF UndoWait, WaitStopped, InstanceLockFree, Step
<1>35. CASE UndoLock BY <1>35 DEF UndoLock, LockTarget, Step
<1>36. CASE UndoVerify BY <1>36 DEF UndoVerify, Ours, Step
<1>37. CASE UndoTarget BY <1>37 DEF UndoTarget, Replace
<1>38. CASE UndoConfig BY <1>38 DEF UndoConfig
<1>39. CASE UndoStart BY <1>39 DEF UndoStart, Start
<1>40. CASE UndoReady BY <1>40 DEF UndoReady, WaitReady, Step
<1>41. CASE UndoDone BY <1>41 DEF UndoDone, OnError, Save, FailedWrite
<1>42. CASE UndoFailed BY <1>42 DEF UndoFailed, OnError, Save, FailedWrite
<1>43. CASE BootLaunch BY <1>43 DEF BootLaunch, StartupAllowed
<1>44. CASE BootLock BY <1>44 DEF BootLock, InstanceLockFree
<1>45. CASE BootRecheck BY <1>45 DEF BootRecheck, StartupAllowed
<1>46. CASE BootLoad BY <1>46 DEF BootLoad
<1>47. CASE WriteBegin BY <1>47 DEF WriteBegin, Busy
<1>48. CASE WriteCommit BY <1>48 DEF WriteCommit
<1>49. CASE InstanceExit BY <1>49 DEF InstanceExit, InstanceGone
<1>50. CASE InstanceCrash BY <1>50 DEF InstanceCrash, InstanceGone
<1>51. CASE UpdaterCrash BY <1>51 DEF UpdaterCrash
<1>52. CASE PowerLoss BY <1>52 DEF PowerLoss
<1>53. CASE OperatorStop BY <1>53 DEF OperatorStop
<1>54. CASE OperatorStart BY <1>54 DEF OperatorStart
<1>55. CASE OtherStart BY <1>55 DEF OtherStart
<1>56. CASE OtherStop BY <1>56 DEF OtherStop
<1>57. CASE ForeignReplace BY <1>57 DEF ForeignReplace, Replace
<1>58. CASE UNCHANGED vars BY <1>58 DEF vars
<1>. QED BY <1>1, <1>2, <1>3, <1>4, <1>5, <1>6, <1>7, <1>8, <1>9, <1>10, <1>11, <1>12,
      <1>13, <1>14, <1>15, <1>16, <1>17, <1>18, <1>19, <1>20, <1>21, <1>22, <1>23, <1>24,
      <1>25, <1>26, <1>27, <1>28, <1>29, <1>30, <1>31, <1>32, <1>33, <1>34, <1>35, <1>36,
      <1>37, <1>38, <1>39, <1>40, <1>41, <1>42, <1>43, <1>44, <1>45, <1>46, <1>47, <1>48,
      <1>49, <1>50, <1>51, <1>52, <1>53, <1>54, <1>55, <1>56, <1>57, <1>58 DEF Next,
      UpdaterStep, InstallStep, CancelStep, ForwardStep, RollbackStep, ServeStep, CrashStep,
      OutsideStep

\* A starting process may migrate gateway.json but keeps what was written.
LEMMA BootConfig ==
    ASSUME TypeOK, BootLoad
    PROVE  /\ config'.rev = config.rev
           /\ survivors' \in {{config'}, survivors \union {config'}}
           /\ inst' = inst \/ inst'.rev = config.rev
<1> DEFINE m(b) == IF b THEN [config EXCEPT !.schema = boot.ver] ELSE config
<1>1. config \in Config BY DEF TypeOK, FilesOK
<1>2. \A b \in BOOLEAN : m(b).rev = config.rev BY <1>1 DEF Config
<1>3. PICK b \in BOOLEAN : config' = m(b) BY DEF BootLoad, Renamed
<1>4. survivors' \in {{config'}, survivors \union {config'}} BY DEF BootLoad, Renamed, Synced
<1>5. inst' = inst \/ inst'.rev = config.rev BY DEF BootLoad, NoInst
<1>. QED BY <1>2, <1>3, <1>4, <1>5

\* After a power loss gateway.json is one of the survivors, and settled.
LEMMA PowerConfig ==
    ASSUME TypeOK, DurableInv, PowerLoss
    PROVE  /\ acked' = config'.rev /\ survivors' = {config'}
           /\ acked' \in 0 .. acked
           /\ Busy => acked' = acked
<1>1. config' \in survivors BY DEF PowerLoss
<1>2. acked' = config'.rev /\ survivors' = {config'} BY DEF PowerLoss, Synced
<1>3. config'.rev \in Nat /\ acked \in Nat BY <1>1 DEF TypeOK, FilesOK, ProcessOK, Config
<1>. QED BY <1>1, <1>2, <1>3 DEF DurableInv

\* A write appends to what the serving process holds.
LEMMA WrittenConfig ==
    ASSUME TypeOK, WriteInv, WriteCommit
    PROVE  /\ acked' = acked + 1 /\ config'.rev = acked' /\ ~Busy
           /\ survivors' = survivors \union {config'}
<1>1. inst.rev = acked /\ ~Busy BY DEF WriteInv, WriteCommit
<1>2. config' = [rev |-> acked', schema |-> inst.ver] /\ survivors' = survivors \union {config'}
  BY DEF WriteCommit, Renamed
<1>. QED BY <1>1, <1>2 DEF WriteCommit

\* Writes are accepted only outside a transaction, and none is lost.
LEMMA WriteInvStep ==
    ASSUME TRUE \notin LateErrors, IInv, [Next]_vars, TypeOK'
    PROVE  WriteInv'
<1> USE DEF IInv, journal, files, updater, process, locks, world, WriteInv, OwnerInv,
            ControlInv, BackupInv, Busy, ActivePhase, TypeOK, ProcessOK, Instance, NoInst,
            NoBoot, Offered, Launching, Before, Copying, Stopping, Replacing, Trying,
            Cancelling, UndoFiles, UndoRun, Replaced, Untouched
<1>1. CASE InstallBegin BY <1>1 DEF InstallBegin, InstanceLockFree, Newer
<1>2. CASE Download BY <1>2 DEF Download, Step
<1>3. CASE Prepare BY <1>3, PreparedJob DEF Prepare, GateClosed
<1>4. CASE Launch BY <1>4 DEF Launch
<1>5. CASE LaunchFailed BY <1>5 DEF LaunchFailed, Save, FailedWrite
<1>6. CASE Exit BY <1>6 DEF Exit
<1>7. CASE BeginWorker BY <1>7 DEF BeginWorker, Resolve
<1>8. CASE BeginRecover BY <1>8 DEF BeginRecover, Resolve
<1>9. CASE Finish BY <1>9 DEF Finish, Save, FailedWrite
<1>10. CASE CancelStop BY <1>10 DEF CancelStop, Signal
<1>11. CASE CancelWait BY <1>11 DEF CancelWait, WaitStopped, InstanceLockFree, Step
<1>12. CASE CancelSave BY <1>12 DEF CancelSave, Save, FailedWrite
<1>13. CASE CancelStart BY <1>13 DEF CancelStart, Start
<1>14. CASE Verify BY <1>14 DEF Verify, OnError, Step
<1>15. CASE SaveStopping BY <1>15 DEF SaveStopping, OnError, Save, FailedWrite
<1>16. CASE Stop BY <1>16 DEF Stop, Signal
<1>17. CASE StopWait BY <1>17 DEF StopWait, WaitStopped, InstanceLockFree, Step
<1>18. CASE StopFailed BY <1>18 DEF StopFailed, OnError, Save, FailedWrite
<1>19. CASE Lock BY <1>19 DEF Lock, LockTarget, Step
<1>20. CASE BackupConfig BY <1>20 DEF BackupConfig
<1>21. CASE BackupTarget BY <1>21 DEF BackupTarget
<1>22. CASE SaveBackedUp BY <1>22 DEF SaveBackedUp, Save, FailedWrite
<1>23. CASE SaveInstalling BY <1>23 DEF SaveInstalling, Save, FailedWrite
<1>24. CASE Rename BY <1>24 DEF Rename, Replace
<1>25. CASE SaveInstalled BY <1>25 DEF SaveInstalled, Save, FailedWrite
<1>26. CASE SaveStarting BY <1>26 DEF SaveStarting, Save, FailedWrite
<1>27. CASE StartNew BY <1>27 DEF StartNew, Start
<1>28. CASE ReadyNew BY <1>28 DEF ReadyNew, WaitReady, Step
<1>29. CASE SaveSucceeded BY <1>29 DEF SaveSucceeded, OnError, Save, FailedWrite
<1>30. CASE Resume BY <1>30 DEF Resume, OnError, Save, FailedWrite
<1>31. CASE ResumeStart BY <1>31 DEF ResumeStart, OnError, Start
<1>32. CASE Rollback BY <1>32 DEF Rollback, Save, FailedWrite
<1>33. CASE UndoStop BY <1>33 DEF UndoStop, Signal
<1>34. CASE UndoWait BY <1>34 DEF UndoWait, WaitStopped, InstanceLockFree, Step
<1>35. CASE UndoLock BY <1>35 DEF UndoLock, LockTarget, Step
<1>36. CASE UndoVerify BY <1>36 DEF UndoVerify, Ours, Step
<1>37. CASE UndoTarget BY <1>37 DEF UndoTarget, Replace
<1>38. CASE UndoConfig BY <1>38 DEF UndoConfig
<1>39. CASE UndoStart BY <1>39 DEF UndoStart, Start
<1>40. CASE UndoReady BY <1>40 DEF UndoReady, WaitReady, Step
<1>41. CASE UndoDone BY <1>41 DEF UndoDone, OnError, Save, FailedWrite
<1>42. CASE UndoFailed BY <1>42 DEF UndoFailed, OnError, Save, FailedWrite
<1>43. CASE BootLaunch BY <1>43 DEF BootLaunch, StartupAllowed
<1>44. CASE BootLock BY <1>44 DEF BootLock, InstanceLockFree
<1>45. CASE BootRecheck BY <1>45 DEF BootRecheck, StartupAllowed
<1>46. CASE BootLoad BY <1>46, BootConfig DEF BootLoad
<1>47. CASE WriteBegin BY <1>47 DEF WriteBegin
<1>48. CASE WriteCommit BY <1>48 DEF WriteCommit
<1>49. CASE InstanceExit BY <1>49 DEF InstanceExit, InstanceGone
<1>50. CASE InstanceCrash BY <1>50 DEF InstanceCrash, InstanceGone
<1>51. CASE UpdaterCrash BY <1>51 DEF UpdaterCrash
<1>52. CASE PowerLoss BY <1>52, PowerConfig DEF PowerLoss
<1>53. CASE OperatorStop BY <1>53 DEF OperatorStop
<1>54. CASE OperatorStart BY <1>54 DEF OperatorStart
<1>55. CASE OtherStart BY <1>55 DEF OtherStart
<1>56. CASE OtherStop BY <1>56 DEF OtherStop
<1>57. CASE ForeignReplace BY <1>57 DEF ForeignReplace, Replace
<1>58. CASE UNCHANGED vars BY <1>58 DEF vars
<1>. QED BY <1>1, <1>2, <1>3, <1>4, <1>5, <1>6, <1>7, <1>8, <1>9, <1>10, <1>11, <1>12,
      <1>13, <1>14, <1>15, <1>16, <1>17, <1>18, <1>19, <1>20, <1>21, <1>22, <1>23, <1>24,
      <1>25, <1>26, <1>27, <1>28, <1>29, <1>30, <1>31, <1>32, <1>33, <1>34, <1>35, <1>36,
      <1>37, <1>38, <1>39, <1>40, <1>41, <1>42, <1>43, <1>44, <1>45, <1>46, <1>47, <1>48,
      <1>49, <1>50, <1>51, <1>52, <1>53, <1>54, <1>55, <1>56, <1>57, <1>58 DEF Next,
      UpdaterStep, InstallStep, CancelStep, ForwardStep, RollbackStep, ServeStep, CrashStep,
      OutsideStep

\* What a power loss may bring back.
LEMMA DurableInvStep ==
    ASSUME TRUE \notin LateErrors, IInv, [Next]_vars, TypeOK', WriteInv'
    PROVE  DurableInv'
<1> USE DEF IInv, journal, files, updater, process, locks, world, WriteInv, DurableInv, OwnerInv,
            ControlInv, BackupInv, Busy, ActivePhase, TypeOK, ProcessOK, Instance, NoInst,
            NoBoot, Offered, Launching, Before, Copying, Stopping, Replacing, Trying,
            Cancelling, UndoFiles, UndoRun, Replaced, Untouched
<1>1. CASE InstallBegin BY <1>1 DEF InstallBegin, InstanceLockFree, Newer
<1>2. CASE Download BY <1>2 DEF Download, Step
<1>3. CASE Prepare
  <2>1. config' = config /\ acked' = acked /\ config.rev = acked BY <1>3 DEF Prepare
  <2>2. survivors' = {config} \/ (survivors' = survivors /\ phase' = phase)
    BY <1>3 DEF Prepare, FailedWrite, Synced
  <2>3. acked \in Nat OBVIOUS
  <2>4. CASE survivors' = {config} BY <2>1, <2>3, <2>4
  <2>5. CASE survivors' = survivors /\ phase' = phase BY <2>1, <2>5
  <2>. QED BY <2>2, <2>4, <2>5
<1>4. CASE Launch BY <1>4 DEF Launch
<1>5. CASE LaunchFailed BY <1>5 DEF LaunchFailed, Save, FailedWrite
<1>6. CASE Exit BY <1>6 DEF Exit
<1>7. CASE BeginWorker BY <1>7 DEF BeginWorker, Resolve
<1>8. CASE BeginRecover BY <1>8 DEF BeginRecover, Resolve
<1>9. CASE Finish BY <1>9 DEF Finish, Save, FailedWrite
<1>10. CASE CancelStop BY <1>10 DEF CancelStop, Signal
<1>11. CASE CancelWait BY <1>11 DEF CancelWait, WaitStopped, InstanceLockFree, Step
<1>12. CASE CancelSave BY <1>12 DEF CancelSave, Save, FailedWrite
<1>13. CASE CancelStart BY <1>13 DEF CancelStart, Start
<1>14. CASE Verify BY <1>14 DEF Verify, OnError, Step
<1>15. CASE SaveStopping BY <1>15 DEF SaveStopping, OnError, Save, FailedWrite
<1>16. CASE Stop BY <1>16 DEF Stop, Signal
<1>17. CASE StopWait BY <1>17 DEF StopWait, WaitStopped, InstanceLockFree, Step
<1>18. CASE StopFailed BY <1>18 DEF StopFailed, OnError, Save, FailedWrite
<1>19. CASE Lock BY <1>19 DEF Lock, LockTarget, Step
<1>20. CASE BackupConfig BY <1>20 DEF BackupConfig
<1>21. CASE BackupTarget BY <1>21 DEF BackupTarget
<1>22. CASE SaveBackedUp BY <1>22 DEF SaveBackedUp, Save, FailedWrite
<1>23. CASE SaveInstalling BY <1>23 DEF SaveInstalling, Save, FailedWrite
<1>24. CASE Rename BY <1>24 DEF Rename, Replace
<1>25. CASE SaveInstalled BY <1>25 DEF SaveInstalled, Save, FailedWrite
<1>26. CASE SaveStarting BY <1>26 DEF SaveStarting, Save, FailedWrite
<1>27. CASE StartNew BY <1>27 DEF StartNew, Start
<1>28. CASE ReadyNew BY <1>28 DEF ReadyNew, WaitReady, Step
<1>29. CASE SaveSucceeded BY <1>29 DEF SaveSucceeded, OnError, Save, FailedWrite
<1>30. CASE Resume BY <1>30 DEF Resume, OnError, Save, FailedWrite
<1>31. CASE ResumeStart BY <1>31 DEF ResumeStart, OnError, Start
<1>32. CASE Rollback BY <1>32 DEF Rollback, Save, FailedWrite
<1>33. CASE UndoStop BY <1>33 DEF UndoStop, Signal
<1>34. CASE UndoWait BY <1>34 DEF UndoWait, WaitStopped, InstanceLockFree, Step
<1>35. CASE UndoLock BY <1>35 DEF UndoLock, LockTarget, Step
<1>36. CASE UndoVerify BY <1>36 DEF UndoVerify, Ours, Step
<1>37. CASE UndoTarget BY <1>37 DEF UndoTarget, Replace
<1>38. CASE UndoConfig BY <1>38 DEF UndoConfig
<1>39. CASE UndoStart BY <1>39 DEF UndoStart, Start
<1>40. CASE UndoReady BY <1>40 DEF UndoReady, WaitReady, Step
<1>41. CASE UndoDone BY <1>41 DEF UndoDone, OnError, Save, FailedWrite
<1>42. CASE UndoFailed BY <1>42 DEF UndoFailed, OnError, Save, FailedWrite
<1>43. CASE BootLaunch BY <1>43 DEF BootLaunch, StartupAllowed
<1>44. CASE BootLock BY <1>44 DEF BootLock, InstanceLockFree
<1>45. CASE BootRecheck BY <1>45 DEF BootRecheck, StartupAllowed
<1>46. CASE BootLoad BY <1>46, BootConfig DEF BootLoad
<1>47. CASE WriteBegin BY <1>47 DEF WriteBegin
<1>48. CASE WriteCommit
  <2>1. \A c \in survivors : c.rev \in Nat BY DEF Config, FilesOK
  <2>2. ~Busy' BY <1>48, WrittenConfig DEF WriteCommit
  <2>. QED BY <1>48, <2>1, <2>2, WrittenConfig
<1>49. CASE InstanceExit BY <1>49 DEF InstanceExit, InstanceGone
<1>50. CASE InstanceCrash BY <1>50 DEF InstanceCrash, InstanceGone
<1>51. CASE UpdaterCrash BY <1>51 DEF UpdaterCrash
<1>52. CASE PowerLoss BY <1>52, PowerConfig DEF PowerLoss
<1>53. CASE OperatorStop BY <1>53 DEF OperatorStop
<1>54. CASE OperatorStart BY <1>54 DEF OperatorStart
<1>55. CASE OtherStart BY <1>55 DEF OtherStart
<1>56. CASE OtherStop BY <1>56 DEF OtherStop
<1>57. CASE ForeignReplace BY <1>57 DEF ForeignReplace, Replace
<1>58. CASE UNCHANGED vars BY <1>58 DEF vars
<1>. QED BY <1>1, <1>2, <1>3, <1>4, <1>5, <1>6, <1>7, <1>8, <1>9, <1>10, <1>11, <1>12,
      <1>13, <1>14, <1>15, <1>16, <1>17, <1>18, <1>19, <1>20, <1>21, <1>22, <1>23, <1>24,
      <1>25, <1>26, <1>27, <1>28, <1>29, <1>30, <1>31, <1>32, <1>33, <1>34, <1>35, <1>36,
      <1>37, <1>38, <1>39, <1>40, <1>41, <1>42, <1>43, <1>44, <1>45, <1>46, <1>47, <1>48,
      <1>49, <1>50, <1>51, <1>52, <1>53, <1>54, <1>55, <1>56, <1>57, <1>58 DEF Next,
      UpdaterStep, InstallStep, CancelStep, ForwardStep, RollbackStep, ServeStep, CrashStep,
      OutsideStep

\* The journal tells which release is installed.
LEMMA TargetInvStep ==
    ASSUME TRUE \notin LateErrors, IInv, [Next]_vars, TypeOK'
    PROVE  TargetInv'
<1> USE DEF IInv, journal, files, updater, process, locks, world, TargetInv, ControlInv,
            BackupInv, Offered, Launching, Before, Copying, Stopping, Replacing, Trying,
            Cancelling, UndoFiles, UndoRun, Replaced, Untouched
<1>1. CASE InstallBegin BY <1>1 DEF InstallBegin, Busy, InstanceLockFree, Newer
<1>2. CASE Download BY <1>2 DEF Download, Step
<1>3. CASE Prepare BY <1>3, PreparedJob DEF Prepare, GateClosed
<1>4. CASE Launch BY <1>4 DEF Launch
<1>5. CASE LaunchFailed BY <1>5 DEF LaunchFailed, Save, FailedWrite
<1>6. CASE Exit BY <1>6 DEF Exit
<1>7. CASE BeginWorker BY <1>7 DEF BeginWorker, Resolve, Busy
<1>8. CASE BeginRecover BY <1>8 DEF BeginRecover, Resolve, Busy
<1>9. CASE Finish BY <1>9 DEF Finish, Save, FailedWrite
<1>10. CASE CancelStop BY <1>10 DEF CancelStop, Signal
<1>11. CASE CancelWait BY <1>11 DEF CancelWait, WaitStopped, InstanceLockFree, Step
<1>12. CASE CancelSave BY <1>12 DEF CancelSave, Save, FailedWrite
<1>13. CASE CancelStart BY <1>13 DEF CancelStart, Start
<1>14. CASE Verify BY <1>14 DEF Verify, OnError, Step
<1>15. CASE SaveStopping BY <1>15 DEF SaveStopping, OnError, Save, FailedWrite
<1>16. CASE Stop BY <1>16 DEF Stop, Signal
<1>17. CASE StopWait BY <1>17 DEF StopWait, WaitStopped, InstanceLockFree, Step
<1>18. CASE StopFailed BY <1>18 DEF StopFailed, OnError, Save, FailedWrite
<1>19. CASE Lock BY <1>19 DEF Lock, LockTarget, Step
<1>20. CASE BackupConfig BY <1>20 DEF BackupConfig
<1>21. CASE BackupTarget BY <1>21 DEF BackupTarget
<1>22. CASE SaveBackedUp BY <1>22 DEF SaveBackedUp, Save, FailedWrite
<1>23. CASE SaveInstalling BY <1>23 DEF SaveInstalling, Save, FailedWrite
<1>24. CASE Rename BY <1>24 DEF Rename, Replace
<1>25. CASE SaveInstalled BY <1>25 DEF SaveInstalled, Save, FailedWrite
<1>26. CASE SaveStarting BY <1>26 DEF SaveStarting, Save, FailedWrite
<1>27. CASE StartNew BY <1>27 DEF StartNew, Start
<1>28. CASE ReadyNew BY <1>28 DEF ReadyNew, WaitReady, Step
<1>29. CASE SaveSucceeded BY <1>29 DEF SaveSucceeded, OnError, Save, FailedWrite
<1>30. CASE Resume BY <1>30 DEF Resume, OnError, Save, FailedWrite
<1>31. CASE ResumeStart BY <1>31 DEF ResumeStart, OnError, Start
<1>32. CASE Rollback BY <1>32 DEF Rollback, Save, FailedWrite
<1>33. CASE UndoStop BY <1>33 DEF UndoStop, Signal
<1>34. CASE UndoWait BY <1>34 DEF UndoWait, WaitStopped, InstanceLockFree, Step
<1>35. CASE UndoLock BY <1>35 DEF UndoLock, LockTarget, Step
<1>36. CASE UndoVerify BY <1>36 DEF UndoVerify, Ours, Step
<1>37. CASE UndoTarget BY <1>37 DEF UndoTarget, Replace
<1>38. CASE UndoConfig BY <1>38 DEF UndoConfig
<1>39. CASE UndoStart BY <1>39 DEF UndoStart, Start
<1>40. CASE UndoReady BY <1>40 DEF UndoReady, WaitReady, Step
<1>41. CASE UndoDone BY <1>41 DEF UndoDone, OnError, Save, FailedWrite
<1>42. CASE UndoFailed BY <1>42 DEF UndoFailed, OnError, Save, FailedWrite
<1>43. CASE BootLaunch BY <1>43 DEF BootLaunch, StartupAllowed, NoBoot
<1>44. CASE BootLock BY <1>44 DEF BootLock, InstanceLockFree, NoBoot
<1>45. CASE BootRecheck BY <1>45 DEF BootRecheck, StartupAllowed, NoBoot
<1>46. CASE BootLoad BY <1>46 DEF BootLoad, NoBoot, NoInst
<1>47. CASE WriteBegin BY <1>47 DEF WriteBegin, Busy
<1>48. CASE WriteCommit BY <1>48 DEF WriteCommit
<1>49. CASE InstanceExit BY <1>49 DEF InstanceExit, InstanceGone, NoInst
<1>50. CASE InstanceCrash BY <1>50 DEF InstanceCrash, InstanceGone, NoInst
<1>51. CASE UpdaterCrash BY <1>51 DEF UpdaterCrash
<1>52. CASE PowerLoss BY <1>52 DEF PowerLoss, NoInst, NoBoot
<1>53. CASE OperatorStop BY <1>53 DEF OperatorStop
<1>54. CASE OperatorStart BY <1>54 DEF OperatorStart
<1>55. CASE OtherStart BY <1>55 DEF OtherStart
<1>56. CASE OtherStop BY <1>56 DEF OtherStop
<1>57. CASE ForeignReplace BY <1>57 DEF ForeignReplace, Replace
<1>58. CASE UNCHANGED vars BY <1>58 DEF vars
<1>. QED BY <1>1, <1>2, <1>3, <1>4, <1>5, <1>6, <1>7, <1>8, <1>9, <1>10, <1>11, <1>12,
      <1>13, <1>14, <1>15, <1>16, <1>17, <1>18, <1>19, <1>20, <1>21, <1>22, <1>23, <1>24,
      <1>25, <1>26, <1>27, <1>28, <1>29, <1>30, <1>31, <1>32, <1>33, <1>34, <1>35, <1>36,
      <1>37, <1>38, <1>39, <1>40, <1>41, <1>42, <1>43, <1>44, <1>45, <1>46, <1>47, <1>48,
      <1>49, <1>50, <1>51, <1>52, <1>53, <1>54, <1>55, <1>56, <1>57, <1>58 DEF Next,
      UpdaterStep, InstallStep, CancelStep, ForwardStep, RollbackStep, ServeStep, CrashStep,
      OutsideStep

\* The backups belong to the transaction that may need them.
LEMMA BackupInvStep ==
    ASSUME TRUE \notin LateErrors, IInv, [Next]_vars, TypeOK'
    PROVE  BackupInv'
<1> USE DEF IInv, journal, files, updater, process, locks, world, BackupInv, ControlInv,
            WriteInv, TargetInv, Busy, ActivePhase, Offered, Launching, Before, Copying,
            Stopping, Replacing, Trying, Cancelling, UndoFiles, UndoRun, Replaced, Untouched
<1>1. CASE InstallBegin BY <1>1 DEF InstallBegin, InstanceLockFree, Newer
<1>2. CASE Download BY <1>2 DEF Download, Step
<1>3. CASE Prepare BY <1>3, PreparedJob DEF Prepare, GateClosed
<1>4. CASE Launch BY <1>4 DEF Launch
<1>5. CASE LaunchFailed BY <1>5 DEF LaunchFailed, Save, FailedWrite
<1>6. CASE Exit BY <1>6 DEF Exit
<1>7. CASE BeginWorker BY <1>7 DEF BeginWorker, Resolve
<1>8. CASE BeginRecover BY <1>8 DEF BeginRecover, Resolve
<1>9. CASE Finish BY <1>9 DEF Finish, Save, FailedWrite
<1>10. CASE CancelStop BY <1>10 DEF CancelStop, Signal
<1>11. CASE CancelWait BY <1>11 DEF CancelWait, WaitStopped, InstanceLockFree, Step
<1>12. CASE CancelSave BY <1>12 DEF CancelSave, Save, FailedWrite
<1>13. CASE CancelStart BY <1>13 DEF CancelStart, Start
<1>14. CASE Verify BY <1>14 DEF Verify, OnError, Step
<1>15. CASE SaveStopping BY <1>15 DEF SaveStopping, OnError, Save, FailedWrite
<1>16. CASE Stop BY <1>16 DEF Stop, Signal
<1>17. CASE StopWait BY <1>17 DEF StopWait, WaitStopped, InstanceLockFree, Step
<1>18. CASE StopFailed BY <1>18 DEF StopFailed, OnError, Save, FailedWrite
<1>19. CASE Lock BY <1>19 DEF Lock, LockTarget, Step
<1>20. CASE BackupConfig BY <1>20 DEF BackupConfig
<1>21. CASE BackupTarget BY <1>21 DEF BackupTarget
<1>22. CASE SaveBackedUp BY <1>22 DEF SaveBackedUp, Save, FailedWrite
<1>23. CASE SaveInstalling BY <1>23 DEF SaveInstalling, Save, FailedWrite
<1>24. CASE Rename BY <1>24 DEF Rename, Replace
<1>25. CASE SaveInstalled BY <1>25 DEF SaveInstalled, Save, FailedWrite
<1>26. CASE SaveStarting BY <1>26 DEF SaveStarting, Save, FailedWrite
<1>27. CASE StartNew BY <1>27 DEF StartNew, Start
<1>28. CASE ReadyNew BY <1>28 DEF ReadyNew, WaitReady, Step
<1>29. CASE SaveSucceeded BY <1>29 DEF SaveSucceeded, OnError, Save, FailedWrite
<1>30. CASE Resume BY <1>30 DEF Resume, OnError, Save, FailedWrite
<1>31. CASE ResumeStart BY <1>31 DEF ResumeStart, OnError, Start
<1>32. CASE Rollback BY <1>32 DEF Rollback, Save, FailedWrite
<1>33. CASE UndoStop BY <1>33 DEF UndoStop, Signal
<1>34. CASE UndoWait BY <1>34 DEF UndoWait, WaitStopped, InstanceLockFree, Step
<1>35. CASE UndoLock BY <1>35 DEF UndoLock, LockTarget, Step
<1>36. CASE UndoVerify BY <1>36 DEF UndoVerify, Ours, Step
<1>37. CASE UndoTarget BY <1>37 DEF UndoTarget, Replace
<1>38. CASE UndoConfig BY <1>38 DEF UndoConfig
<1>39. CASE UndoStart BY <1>39 DEF UndoStart, Start
<1>40. CASE UndoReady BY <1>40 DEF UndoReady, WaitReady, Step
<1>41. CASE UndoDone BY <1>41 DEF UndoDone, OnError, Save, FailedWrite
<1>42. CASE UndoFailed BY <1>42 DEF UndoFailed, OnError, Save, FailedWrite
<1>43. CASE BootLaunch BY <1>43 DEF BootLaunch, StartupAllowed, NoBoot
<1>44. CASE BootLock BY <1>44 DEF BootLock, InstanceLockFree, NoBoot
<1>45. CASE BootRecheck BY <1>45 DEF BootRecheck, StartupAllowed, NoBoot
<1>46. CASE BootLoad BY <1>46 DEF BootLoad, NoBoot, NoInst
<1>47. CASE WriteBegin BY <1>47 DEF WriteBegin
<1>48. CASE WriteCommit BY <1>48 DEF WriteCommit
<1>49. CASE InstanceExit BY <1>49 DEF InstanceExit, InstanceGone, NoInst
<1>50. CASE InstanceCrash BY <1>50 DEF InstanceCrash, InstanceGone, NoInst
<1>51. CASE UpdaterCrash BY <1>51 DEF UpdaterCrash
<1>52. CASE PowerLoss BY <1>52 DEF PowerLoss, NoInst, NoBoot
<1>53. CASE OperatorStop BY <1>53 DEF OperatorStop
<1>54. CASE OperatorStart BY <1>54 DEF OperatorStart
<1>55. CASE OtherStart BY <1>55 DEF OtherStart
<1>56. CASE OtherStop BY <1>56 DEF OtherStop
<1>57. CASE ForeignReplace BY <1>57 DEF ForeignReplace, Replace
<1>58. CASE UNCHANGED vars BY <1>58 DEF vars
<1>. QED BY <1>1, <1>2, <1>3, <1>4, <1>5, <1>6, <1>7, <1>8, <1>9, <1>10, <1>11, <1>12,
      <1>13, <1>14, <1>15, <1>16, <1>17, <1>18, <1>19, <1>20, <1>21, <1>22, <1>23, <1>24,
      <1>25, <1>26, <1>27, <1>28, <1>29, <1>30, <1>31, <1>32, <1>33, <1>34, <1>35, <1>36,
      <1>37, <1>38, <1>39, <1>40, <1>41, <1>42, <1>43, <1>44, <1>45, <1>46, <1>47, <1>48,
      <1>49, <1>50, <1>51, <1>52, <1>53, <1>54, <1>55, <1>56, <1>57, <1>58 DEF Next,
      UpdaterStep, InstallStep, CancelStep, ForwardStep, RollbackStep, ServeStep, CrashStep,
      OutsideStep

\* The executable is locked while it is copied and replaced.
LEMMA LockInvStep ==
    ASSUME TRUE \notin LateErrors, IInv, [Next]_vars, TypeOK'
    PROVE  LockInv'
<1> USE DEF IInv, journal, files, updater, process, locks, world, LockInv, ControlInv,
            Offered, Launching, Before, Copying, Stopping, Replacing, Trying, Cancelling,
            UndoFiles, UndoRun, Replaced, Untouched
<1>1. CASE InstallBegin BY <1>1 DEF InstallBegin, Busy, InstanceLockFree, Newer
<1>2. CASE Download BY <1>2 DEF Download, Step
<1>3. CASE Prepare BY <1>3, PreparedJob DEF Prepare, GateClosed
<1>4. CASE Launch BY <1>4 DEF Launch
<1>5. CASE LaunchFailed BY <1>5 DEF LaunchFailed, Save, FailedWrite
<1>6. CASE Exit BY <1>6 DEF Exit
<1>7. CASE BeginWorker BY <1>7 DEF BeginWorker, Resolve, Busy
<1>8. CASE BeginRecover BY <1>8 DEF BeginRecover, Resolve, Busy
<1>9. CASE Finish BY <1>9 DEF Finish, Save, FailedWrite
<1>10. CASE CancelStop BY <1>10 DEF CancelStop, Signal
<1>11. CASE CancelWait BY <1>11 DEF CancelWait, WaitStopped, InstanceLockFree, Step
<1>12. CASE CancelSave BY <1>12 DEF CancelSave, Save, FailedWrite
<1>13. CASE CancelStart BY <1>13 DEF CancelStart, Start
<1>14. CASE Verify BY <1>14 DEF Verify, OnError, Step
<1>15. CASE SaveStopping BY <1>15 DEF SaveStopping, OnError, Save, FailedWrite
<1>16. CASE Stop BY <1>16 DEF Stop, Signal
<1>17. CASE StopWait BY <1>17 DEF StopWait, WaitStopped, InstanceLockFree, Step
<1>18. CASE StopFailed BY <1>18 DEF StopFailed, OnError, Save, FailedWrite
<1>19. CASE Lock BY <1>19 DEF Lock, LockTarget, Step
<1>20. CASE BackupConfig BY <1>20 DEF BackupConfig
<1>21. CASE BackupTarget BY <1>21 DEF BackupTarget
<1>22. CASE SaveBackedUp BY <1>22 DEF SaveBackedUp, Save, FailedWrite
<1>23. CASE SaveInstalling BY <1>23 DEF SaveInstalling, Save, FailedWrite
<1>24. CASE Rename BY <1>24 DEF Rename, Replace
<1>25. CASE SaveInstalled BY <1>25 DEF SaveInstalled, Save, FailedWrite
<1>26. CASE SaveStarting BY <1>26 DEF SaveStarting, Save, FailedWrite
<1>27. CASE StartNew BY <1>27 DEF StartNew, Start
<1>28. CASE ReadyNew BY <1>28 DEF ReadyNew, WaitReady, Step
<1>29. CASE SaveSucceeded BY <1>29 DEF SaveSucceeded, OnError, Save, FailedWrite
<1>30. CASE Resume BY <1>30 DEF Resume, OnError, Save, FailedWrite
<1>31. CASE ResumeStart BY <1>31 DEF ResumeStart, OnError, Start
<1>32. CASE Rollback BY <1>32 DEF Rollback, Save, FailedWrite
<1>33. CASE UndoStop BY <1>33 DEF UndoStop, Signal
<1>34. CASE UndoWait BY <1>34 DEF UndoWait, WaitStopped, InstanceLockFree, Step
<1>35. CASE UndoLock BY <1>35 DEF UndoLock, LockTarget, Step
<1>36. CASE UndoVerify BY <1>36 DEF UndoVerify, Ours, Step
<1>37. CASE UndoTarget BY <1>37 DEF UndoTarget, Replace
<1>38. CASE UndoConfig BY <1>38 DEF UndoConfig
<1>39. CASE UndoStart BY <1>39 DEF UndoStart, Start
<1>40. CASE UndoReady BY <1>40 DEF UndoReady, WaitReady, Step
<1>41. CASE UndoDone BY <1>41 DEF UndoDone, OnError, Save, FailedWrite
<1>42. CASE UndoFailed BY <1>42 DEF UndoFailed, OnError, Save, FailedWrite
<1>43. CASE BootLaunch BY <1>43 DEF BootLaunch, StartupAllowed, NoBoot
<1>44. CASE BootLock BY <1>44 DEF BootLock, InstanceLockFree, NoBoot
<1>45. CASE BootRecheck BY <1>45 DEF BootRecheck, StartupAllowed, NoBoot
<1>46. CASE BootLoad BY <1>46 DEF BootLoad, NoBoot, NoInst
<1>47. CASE WriteBegin BY <1>47 DEF WriteBegin, Busy
<1>48. CASE WriteCommit BY <1>48 DEF WriteCommit
<1>49. CASE InstanceExit BY <1>49 DEF InstanceExit, InstanceGone, NoInst
<1>50. CASE InstanceCrash BY <1>50 DEF InstanceCrash, InstanceGone, NoInst
<1>51. CASE UpdaterCrash BY <1>51 DEF UpdaterCrash
<1>52. CASE PowerLoss BY <1>52 DEF PowerLoss, NoInst, NoBoot
<1>53. CASE OperatorStop BY <1>53 DEF OperatorStop
<1>54. CASE OperatorStart BY <1>54 DEF OperatorStart
<1>55. CASE OtherStart BY <1>55 DEF OtherStart
<1>56. CASE OtherStop BY <1>56 DEF OtherStop
<1>57. CASE ForeignReplace BY <1>57 DEF ForeignReplace, Replace
<1>58. CASE UNCHANGED vars BY <1>58 DEF vars
<1>. QED BY <1>1, <1>2, <1>3, <1>4, <1>5, <1>6, <1>7, <1>8, <1>9, <1>10, <1>11, <1>12,
      <1>13, <1>14, <1>15, <1>16, <1>17, <1>18, <1>19, <1>20, <1>21, <1>22, <1>23, <1>24,
      <1>25, <1>26, <1>27, <1>28, <1>29, <1>30, <1>31, <1>32, <1>33, <1>34, <1>35, <1>36,
      <1>37, <1>38, <1>39, <1>40, <1>41, <1>42, <1>43, <1>44, <1>45, <1>46, <1>47, <1>48,
      <1>49, <1>50, <1>51, <1>52, <1>53, <1>54, <1>55, <1>56, <1>57, <1>58 DEF Next,
      UpdaterStep, InstallStep, CancelStep, ForwardStep, RollbackStep, ServeStep, CrashStep,
      OutsideStep

LEMMA InitInv == Init => IInv
<1> SUFFICES ASSUME Init PROVE IInv OBVIOUS
<1>1. TypeOK BY InitType
<1>2. pc = "idle" /\ phase = "absent" BY DEF Init
<1>3. ControlInv
  BY <1>2 DEF ControlInv, Offered, Launching, Before, Copying, Stopping, Replacing, Trying,
              Cancelling, UndoFiles, UndoRun
<1>4. OwnerInv BY DEF Init, OwnerInv, NoInst, NoBoot, Offered
<1>5. QuietInv BY DEF Init, QuietInv, Copying
<1>6. WriteInv BY DEF Init, WriteInv, NoInst, Busy, ActivePhase
<1>7. DurableInv BY DEF Init, DurableInv, Busy, ActivePhase
<1>8. TargetInv BY <1>2 DEF TargetInv, Untouched, UndoRun
<1>9. BackupInv BY <1>2 DEF BackupInv, Replaced
<1>10. LockInv BY DEF Init, LockInv, Copying
<1>. QED BY <1>1, <1>3, <1>4, <1>5, <1>6, <1>7, <1>8, <1>9, <1>10 DEF IInv

LEMMA InvStep == ASSUME TRUE \notin LateErrors PROVE IInv /\ [Next]_vars => IInv'
<1> SUFFICES ASSUME IInv, [Next]_vars PROVE IInv' OBVIOUS
<1>1. TypeOK' BY TypeStep DEF IInv
<1>2. ControlInv' BY <1>1, ControlInvStep
<1>3. OwnerInv' BY <1>1, OwnerInvStep
<1>4. QuietInv' BY <1>1, QuietInvStep
<1>5. WriteInv' BY <1>1, WriteInvStep
<1>6. TargetInv' BY <1>1, TargetInvStep
<1>7. BackupInv' BY <1>1, BackupInvStep
<1>8. LockInv' BY <1>1, LockInvStep
<1>9. DurableInv' BY <1>1, <1>5, DurableInvStep
<1>. QED BY <1>1, <1>2, <1>3, <1>4, <1>5, <1>6, <1>7, <1>8, <1>9 DEF IInv

LEMMA Invariance == ASSUME TRUE \notin LateErrors PROVE Spec => []IInv
BY InitInv, InvStep, PTL DEF Spec

-----------------------------------------------------------------------------
\* Every acknowledged management write is in the configuration on disk and in
\* the one the instance serves, through crashes, updates and rollbacks.  Only a
\* power loss can take writes back, since Store.Save does not sync the directory;
\* while an update is under way or waits for recovery not even a power loss can.
THEOREM WritesKept == ASSUME TRUE \notin LateErrors PROVE Spec => []NoLostWrite
<1>1. IInv => NoLostWrite BY DEF IInv, WriteInv, DurableInv, NoLostWrite, NothingUndone
<1>. QED BY <1>1, Invariance, PTL

\* The configuration does not move while an update is under way.
THEOREM Frozen == ASSUME TRUE \notin LateErrors PROVE Spec => []FrozenWhileBusy
<1>1. IInv => FrozenWhileBusy BY DEF IInv, WriteInv, FrozenWhileBusy
<1>. QED BY <1>1, Invariance, PTL

\* While the updater copies and replaces files nothing serves or writes.
THEOREM QuietWhileReplacing == ASSUME TRUE \notin LateErrors PROVE Spec => []Quiescent
<1>1. IInv => Quiescent
  BY DEF IInv, QuietInv, WriteInv, ControlInv, Quiescent, Copying, Busy, ActivePhase
<1>. QED BY <1>1, Invariance, PTL

\* The journal's final phase tells the truth about the installed executable.
THEOREM OutcomeIsTrue == ASSUME TRUE \notin LateErrors PROVE Spec => []OutcomeTrue
<1>1. IInv => OutcomeTrue BY DEF IInv, TargetInv, OutcomeTrue, Untouched
<1>. QED BY <1>1, Invariance, PTL

\* Whenever an update is interrupted, what recovery needs is in place.
THEOREM AlwaysRecoverable == ASSUME TRUE \notin LateErrors PROVE Spec => []Recoverable
<1>1. IInv => Recoverable
  BY DEF IInv, TypeOK, JournalOK, TargetInv, BackupInv, Recoverable, Untouched, Replaced,
         Busy, ActivePhase
<1>. QED BY <1>1, Invariance, PTL

-----------------------------------------------------------------------------
\* Only a holder of the exclusive lock, or an outsider, moves target.
LEMMA LockedReplacement ==
    ASSUME TRUE \notin LateErrors, IInv, [Next]_vars, IInv'
    PROVE  ~foreign' /\ target' # target => users = {}
<1> USE DEF IInv, journal, files, updater, process, locks, world, LockInv, Copying
<1>1. CASE InstallBegin BY <1>1 DEF InstallBegin, Busy, InstanceLockFree, Newer
<1>2. CASE Download BY <1>2 DEF Download, Step
<1>3. CASE Prepare BY <1>3 DEF Prepare, GateClosed, FailedWrite
<1>4. CASE Launch BY <1>4 DEF Launch
<1>5. CASE LaunchFailed BY <1>5 DEF LaunchFailed, Save, FailedWrite
<1>6. CASE Exit BY <1>6 DEF Exit
<1>7. CASE BeginWorker BY <1>7 DEF BeginWorker, Resolve, Busy
<1>8. CASE BeginRecover BY <1>8 DEF BeginRecover, Resolve, Busy
<1>9. CASE Finish BY <1>9 DEF Finish, Save, FailedWrite
<1>10. CASE CancelStop BY <1>10 DEF CancelStop, Signal
<1>11. CASE CancelWait BY <1>11 DEF CancelWait, WaitStopped, InstanceLockFree, Step
<1>12. CASE CancelSave BY <1>12 DEF CancelSave, Save, FailedWrite
<1>13. CASE CancelStart BY <1>13 DEF CancelStart, Start
<1>14. CASE Verify BY <1>14 DEF Verify, OnError, Step
<1>15. CASE SaveStopping BY <1>15 DEF SaveStopping, OnError, Save, FailedWrite
<1>16. CASE Stop BY <1>16 DEF Stop, Signal
<1>17. CASE StopWait BY <1>17 DEF StopWait, WaitStopped, InstanceLockFree, Step
<1>18. CASE StopFailed BY <1>18 DEF StopFailed, OnError, Save, FailedWrite
<1>19. CASE Lock BY <1>19 DEF Lock, LockTarget, Step
<1>20. CASE BackupConfig BY <1>20 DEF BackupConfig
<1>21. CASE BackupTarget BY <1>21 DEF BackupTarget
<1>22. CASE SaveBackedUp BY <1>22 DEF SaveBackedUp, Save, FailedWrite
<1>23. CASE SaveInstalling BY <1>23 DEF SaveInstalling, Save, FailedWrite
<1>24. CASE Rename BY <1>24 DEF Rename, Replace
<1>25. CASE SaveInstalled BY <1>25 DEF SaveInstalled, Save, FailedWrite
<1>26. CASE SaveStarting BY <1>26 DEF SaveStarting, Save, FailedWrite
<1>27. CASE StartNew BY <1>27 DEF StartNew, Start
<1>28. CASE ReadyNew BY <1>28 DEF ReadyNew, WaitReady, Step
<1>29. CASE SaveSucceeded BY <1>29 DEF SaveSucceeded, OnError, Save, FailedWrite
<1>30. CASE Resume BY <1>30 DEF Resume, OnError, Save, FailedWrite
<1>31. CASE ResumeStart BY <1>31 DEF ResumeStart, OnError, Start
<1>32. CASE Rollback BY <1>32 DEF Rollback, Save, FailedWrite
<1>33. CASE UndoStop BY <1>33 DEF UndoStop, Signal
<1>34. CASE UndoWait BY <1>34 DEF UndoWait, WaitStopped, InstanceLockFree, Step
<1>35. CASE UndoLock BY <1>35 DEF UndoLock, LockTarget, Step
<1>36. CASE UndoVerify BY <1>36 DEF UndoVerify, Ours, Step
<1>37. CASE UndoTarget BY <1>37 DEF UndoTarget, Replace
<1>38. CASE UndoConfig BY <1>38 DEF UndoConfig
<1>39. CASE UndoStart BY <1>39 DEF UndoStart, Start
<1>40. CASE UndoReady BY <1>40 DEF UndoReady, WaitReady, Step
<1>41. CASE UndoDone BY <1>41 DEF UndoDone, OnError, Save, FailedWrite
<1>42. CASE UndoFailed BY <1>42 DEF UndoFailed, OnError, Save, FailedWrite
<1>43. CASE BootLaunch BY <1>43 DEF BootLaunch, StartupAllowed, NoBoot
<1>44. CASE BootLock BY <1>44 DEF BootLock, InstanceLockFree, NoBoot
<1>45. CASE BootRecheck BY <1>45 DEF BootRecheck, StartupAllowed, NoBoot
<1>46. CASE BootLoad BY <1>46 DEF BootLoad, NoBoot, NoInst
<1>47. CASE WriteBegin BY <1>47 DEF WriteBegin, Busy
<1>48. CASE WriteCommit BY <1>48 DEF WriteCommit
<1>49. CASE InstanceExit BY <1>49 DEF InstanceExit, InstanceGone, NoInst
<1>50. CASE InstanceCrash BY <1>50 DEF InstanceCrash, InstanceGone, NoInst
<1>51. CASE UpdaterCrash BY <1>51 DEF UpdaterCrash
<1>52. CASE PowerLoss BY <1>52 DEF PowerLoss, NoInst, NoBoot
<1>53. CASE OperatorStop BY <1>53 DEF OperatorStop
<1>54. CASE OperatorStart BY <1>54 DEF OperatorStart
<1>55. CASE OtherStart BY <1>55 DEF OtherStart
<1>56. CASE OtherStop BY <1>56 DEF OtherStop
<1>57. CASE ForeignReplace BY <1>57 DEF ForeignReplace, Replace
<1>58. CASE UNCHANGED vars BY <1>58 DEF vars
<1>. QED BY <1>1, <1>2, <1>3, <1>4, <1>5, <1>6, <1>7, <1>8, <1>9, <1>10, <1>11, <1>12,
      <1>13, <1>14, <1>15, <1>16, <1>17, <1>18, <1>19, <1>20, <1>21, <1>22, <1>23, <1>24,
      <1>25, <1>26, <1>27, <1>28, <1>29, <1>30, <1>31, <1>32, <1>33, <1>34, <1>35, <1>36,
      <1>37, <1>38, <1>39, <1>40, <1>41, <1>42, <1>43, <1>44, <1>45, <1>46, <1>47, <1>48,
      <1>49, <1>50, <1>51, <1>52, <1>53, <1>54, <1>55, <1>56, <1>57, <1>58 DEF Next,
      UpdaterStep, InstallStep, CancelStep, ForwardStep, RollbackStep, ServeStep, CrashStep,
      OutsideStep

\* An executable in use is never replaced by an update or a rollback.
THEOREM NeverInUse == ASSUME TRUE \notin LateErrors PROVE Spec => NeverReplacedInUse
<1>1. IInv /\ IInv' /\ [Next]_vars => [~foreign' /\ target' # target => users = {}]_vars
  BY LockedReplacement
<1>. QED BY <1>1, Invariance, PTL DEF Spec, NeverReplacedInUse

\* Once a rollback began the updater is at one of its points, or gone.
LEMMA UndoingStep ==
    ASSUME TRUE \notin LateErrors, IInv, [Next]_vars, IInv'
    PROVE  Undoing => Undoing' \/ phase' = "rolled_back"
<1> USE DEF IInv, journal, files, updater, process, locks, world, ControlInv, Undoing, Busy,
            ActivePhase, Offered, Launching, Before, Copying, Stopping, Replacing, Trying,
            Cancelling, UndoFiles, UndoRun, Replaced, Untouched
<1>1. CASE InstallBegin BY <1>1 DEF InstallBegin, InstanceLockFree, Newer
<1>2. CASE Download BY <1>2 DEF Download, Step
<1>3. CASE Prepare BY <1>3 DEF Prepare, GateClosed, FailedWrite
<1>4. CASE Launch BY <1>4 DEF Launch
<1>5. CASE LaunchFailed BY <1>5 DEF LaunchFailed, Save, FailedWrite
<1>6. CASE Exit BY <1>6 DEF Exit
<1>7. CASE BeginWorker BY <1>7 DEF BeginWorker, Resolve
<1>8. CASE BeginRecover BY <1>8 DEF BeginRecover, Resolve
<1>9. CASE Finish BY <1>9 DEF Finish, Save, FailedWrite
<1>10. CASE CancelStop BY <1>10 DEF CancelStop, Signal
<1>11. CASE CancelWait BY <1>11 DEF CancelWait, WaitStopped, InstanceLockFree, Step
<1>12. CASE CancelSave BY <1>12 DEF CancelSave, Save, FailedWrite
<1>13. CASE CancelStart BY <1>13 DEF CancelStart, Start
<1>14. CASE Verify BY <1>14 DEF Verify, OnError, Step
<1>15. CASE SaveStopping BY <1>15 DEF SaveStopping, OnError, Save, FailedWrite
<1>16. CASE Stop BY <1>16 DEF Stop, Signal
<1>17. CASE StopWait BY <1>17 DEF StopWait, WaitStopped, InstanceLockFree, Step
<1>18. CASE StopFailed BY <1>18 DEF StopFailed, OnError, Save, FailedWrite
<1>19. CASE Lock BY <1>19 DEF Lock, LockTarget, Step
<1>20. CASE BackupConfig BY <1>20 DEF BackupConfig
<1>21. CASE BackupTarget BY <1>21 DEF BackupTarget
<1>22. CASE SaveBackedUp BY <1>22 DEF SaveBackedUp, Save, FailedWrite
<1>23. CASE SaveInstalling BY <1>23 DEF SaveInstalling, Save, FailedWrite
<1>24. CASE Rename BY <1>24 DEF Rename, Replace
<1>25. CASE SaveInstalled BY <1>25 DEF SaveInstalled, Save, FailedWrite
<1>26. CASE SaveStarting BY <1>26 DEF SaveStarting, Save, FailedWrite
<1>27. CASE StartNew BY <1>27 DEF StartNew, Start
<1>28. CASE ReadyNew BY <1>28 DEF ReadyNew, WaitReady, Step
<1>29. CASE SaveSucceeded BY <1>29 DEF SaveSucceeded, OnError, Save, FailedWrite
<1>30. CASE Resume BY <1>30 DEF Resume, OnError, Save, FailedWrite
<1>31. CASE ResumeStart BY <1>31 DEF ResumeStart, OnError, Start
<1>32. CASE Rollback BY <1>32 DEF Rollback, Save, FailedWrite
<1>33. CASE UndoStop BY <1>33 DEF UndoStop, Signal
<1>34. CASE UndoWait BY <1>34 DEF UndoWait, WaitStopped, InstanceLockFree, Step
<1>35. CASE UndoLock BY <1>35 DEF UndoLock, LockTarget, Step
<1>36. CASE UndoVerify BY <1>36 DEF UndoVerify, Ours, Step
<1>37. CASE UndoTarget BY <1>37 DEF UndoTarget, Replace
<1>38. CASE UndoConfig BY <1>38 DEF UndoConfig
<1>39. CASE UndoStart BY <1>39 DEF UndoStart, Start
<1>40. CASE UndoReady BY <1>40 DEF UndoReady, WaitReady, Step
<1>41. CASE UndoDone BY <1>41 DEF UndoDone, OnError, Save, FailedWrite
<1>42. CASE UndoFailed BY <1>42 DEF UndoFailed, OnError, Save, FailedWrite
<1>43. CASE BootLaunch BY <1>43 DEF BootLaunch, StartupAllowed, NoBoot
<1>44. CASE BootLock BY <1>44 DEF BootLock, InstanceLockFree, NoBoot
<1>45. CASE BootRecheck BY <1>45 DEF BootRecheck, StartupAllowed, NoBoot
<1>46. CASE BootLoad BY <1>46 DEF BootLoad, NoBoot, NoInst
<1>47. CASE WriteBegin BY <1>47 DEF WriteBegin
<1>48. CASE WriteCommit BY <1>48 DEF WriteCommit
<1>49. CASE InstanceExit BY <1>49 DEF InstanceExit, InstanceGone, NoInst
<1>50. CASE InstanceCrash BY <1>50 DEF InstanceCrash, InstanceGone, NoInst
<1>51. CASE UpdaterCrash BY <1>51 DEF UpdaterCrash
<1>52. CASE PowerLoss BY <1>52 DEF PowerLoss, NoInst, NoBoot
<1>53. CASE OperatorStop BY <1>53 DEF OperatorStop
<1>54. CASE OperatorStart BY <1>54 DEF OperatorStart
<1>55. CASE OtherStart BY <1>55 DEF OtherStart
<1>56. CASE OtherStop BY <1>56 DEF OtherStop
<1>57. CASE ForeignReplace BY <1>57 DEF ForeignReplace, Replace
<1>58. CASE UNCHANGED vars BY <1>58 DEF vars
<1>. QED BY <1>1, <1>2, <1>3, <1>4, <1>5, <1>6, <1>7, <1>8, <1>9, <1>10, <1>11, <1>12,
      <1>13, <1>14, <1>15, <1>16, <1>17, <1>18, <1>19, <1>20, <1>21, <1>22, <1>23, <1>24,
      <1>25, <1>26, <1>27, <1>28, <1>29, <1>30, <1>31, <1>32, <1>33, <1>34, <1>35, <1>36,
      <1>37, <1>38, <1>39, <1>40, <1>41, <1>42, <1>43, <1>44, <1>45, <1>46, <1>47, <1>48,
      <1>49, <1>50, <1>51, <1>52, <1>53, <1>54, <1>55, <1>56, <1>57, <1>58 DEF Next,
      UpdaterStep, InstallStep, CancelStep, ForwardStep, RollbackStep, ServeStep, CrashStep,
      OutsideStep

\* A rollback is never turned into a success or a plain failure.
THEOREM RollbackStays == ASSUME TRUE \notin LateErrors PROVE Spec => RollbackIsFinal
<1>1. IInv /\ IInv' /\ [Next]_vars => [Undoing => Undoing' \/ phase' = "rolled_back"]_vars
  BY UndoingStep
<1>. QED BY <1>1, Invariance, PTL DEF Spec, RollbackIsFinal

-----------------------------------------------------------------------------
\* A step that only moves the journal along is a step of the promise: nothing,
\* the commit or the abort.
LEMMA PhaseMove ==
    ASSUME job.prev # Foreign, UNCHANGED <<job, target, config, foreign>>,
           Busy' => Busy,
           Busy /\ ~Busy' /\ ~foreign => target \in {job.prev, job.next}
    PROVE  [Promise!Next]_(Promise!vars)
<1> DEFINE installed == IF foreign THEN Foreign ELSE IF Busy THEN job.prev ELSE target
<1>1. CASE Busy' <=> Busy BY <1>1, Zenon DEF Promise!vars
<1>2. CASE Busy /\ ~Busy' /\ (foreign \/ target = job.prev)
  <2>1. installed' = installed BY <1>2
  <2>2. Busy' = FALSE BY <1>2 DEF Busy
  <2>. QED BY <1>2, <2>1, <2>2, Zenon DEF Promise!Next, Promise!Abort
<1>3. CASE Busy /\ ~Busy' /\ ~foreign /\ target = job.next
  <2>1. installed' = job.next /\ installed # Foreign BY <1>3
  <2>2. Busy' = FALSE BY <1>3 DEF Busy
  <2>. QED BY <1>3, <2>1, <2>2, Zenon DEF Promise!Next, Promise!Commit
<1>. QED BY <1>1, <1>2, <1>3

LEMMA PrevIsRelease == ASSUME IInv PROVE job.prev # Foreign
BY ConstantsAssumption DEF IInv, TypeOK, JournalOK, Job, Version

\* Every step of the update is a step of its promise.
LEMMA PromiseStep ==
    ASSUME TRUE \notin LateErrors, IInv, [Next]_vars, IInv'
    PROVE  [Promise!Next]_(Promise!vars)
<1> USE DEF IInv, journal, files, updater, process, locks, world, WriteInv, TargetInv,
            ControlInv, BackupInv, Busy, ActivePhase, Promise!Next, Promise!vars,
            Promise!Begin, Promise!Commit, Promise!Abort, Promise!Accept, Promise!Disturb,
            Offered, Launching, Before, Copying, Stopping, Replacing, Trying, Cancelling,
            UndoFiles, UndoRun, Replaced, Untouched
<1>1. CASE InstallBegin BY <1>1 DEF InstallBegin, InstanceLockFree, Newer
<1>2. CASE Download BY <1>2 DEF Download, Step
<1>3. CASE Prepare
  <2>1. UNCHANGED <<target, config, foreign>> /\ ~Busy BY <1>3 DEF Prepare
  <2>2. plan.next \in Version BY DEF TypeOK, UpdaterOK
  <2>3. CASE phase' = phase /\ job' = job BY <2>1, <2>3
  <2>4. CASE /\ phase' = "prepared" /\ job'.prev = plan.prev /\ job'.next = plan.next
             /\ foreign
    BY <2>1, <2>2, <2>4
  <2>5. CASE /\ phase' = "prepared" /\ job'.prev = plan.prev /\ job'.next = plan.next
             /\ ~foreign
    <3>1. job'.next > target /\ job'.prev = target /\ job'.next \in Version
      BY <1>3, <2>1, <2>2, <2>5 DEF Prepare
    <3>. QED BY <2>1, <2>5, <3>1
  <2>. QED BY <1>3, <2>3, <2>4, <2>5, PreparedJob
<1>4. CASE Launch BY <1>4 DEF Launch
<1>5. CASE LaunchFailed BY <1>5 DEF LaunchFailed, Save, FailedWrite
<1>6. CASE Exit BY <1>6 DEF Exit
<1>7. CASE BeginWorker BY <1>7 DEF BeginWorker, Resolve
<1>8. CASE BeginRecover BY <1>8 DEF BeginRecover, Resolve
<1>9. CASE Finish BY <1>9, PrevIsRelease, PhaseMove DEF Finish, Save, FailedWrite
<1>10. CASE CancelStop BY <1>10 DEF CancelStop, Signal
<1>11. CASE CancelWait BY <1>11 DEF CancelWait, WaitStopped, InstanceLockFree, Step
<1>12. CASE CancelSave BY <1>12 DEF CancelSave, Save, FailedWrite
<1>13. CASE CancelStart BY <1>13 DEF CancelStart, Start
<1>14. CASE Verify BY <1>14 DEF Verify, OnError, Step
<1>15. CASE SaveStopping BY <1>15 DEF SaveStopping, OnError, Save, FailedWrite
<1>16. CASE Stop BY <1>16 DEF Stop, Signal
<1>17. CASE StopWait BY <1>17 DEF StopWait, WaitStopped, InstanceLockFree, Step
<1>18. CASE StopFailed BY <1>18 DEF StopFailed, OnError, Save, FailedWrite
<1>19. CASE Lock BY <1>19 DEF Lock, LockTarget, Step
<1>20. CASE BackupConfig BY <1>20 DEF BackupConfig
<1>21. CASE BackupTarget BY <1>21 DEF BackupTarget
<1>22. CASE SaveBackedUp BY <1>22 DEF SaveBackedUp, Save, FailedWrite
<1>23. CASE SaveInstalling BY <1>23 DEF SaveInstalling, Save, FailedWrite
<1>24. CASE Rename BY <1>24 DEF Rename, Replace
<1>25. CASE SaveInstalled BY <1>25, PrevIsRelease, PhaseMove DEF SaveInstalled, Save,
      FailedWrite
<1>26. CASE SaveStarting BY <1>26, PrevIsRelease, PhaseMove DEF SaveStarting, Save,
      FailedWrite
<1>27. CASE StartNew BY <1>27 DEF StartNew, Start
<1>28. CASE ReadyNew BY <1>28 DEF ReadyNew, WaitReady, Step
<1>29. CASE SaveSucceeded BY <1>29, PrevIsRelease, PhaseMove DEF SaveSucceeded, OnError,
      Save, FailedWrite
<1>30. CASE Resume BY <1>30 DEF Resume, OnError, Save, FailedWrite
<1>31. CASE ResumeStart BY <1>31 DEF ResumeStart, OnError, Start
<1>32. CASE Rollback BY <1>32, PrevIsRelease, PhaseMove DEF Rollback, Save, FailedWrite
<1>33. CASE UndoStop BY <1>33 DEF UndoStop, Signal
<1>34. CASE UndoWait BY <1>34 DEF UndoWait, WaitStopped, InstanceLockFree, Step
<1>35. CASE UndoLock BY <1>35 DEF UndoLock, LockTarget, Step
<1>36. CASE UndoVerify BY <1>36 DEF UndoVerify, Ours, Step
<1>37. CASE UndoTarget BY <1>37 DEF UndoTarget, Replace
<1>38. CASE UndoConfig BY <1>38 DEF UndoConfig
<1>39. CASE UndoStart BY <1>39 DEF UndoStart, Start
<1>40. CASE UndoReady BY <1>40 DEF UndoReady, WaitReady, Step
<1>41. CASE UndoDone BY <1>41 DEF UndoDone, OnError, Save, FailedWrite
<1>42. CASE UndoFailed BY <1>42, PrevIsRelease, PhaseMove DEF UndoFailed, OnError, Save,
      FailedWrite
<1>43. CASE BootLaunch BY <1>43 DEF BootLaunch, StartupAllowed, NoBoot
<1>44. CASE BootLock BY <1>44 DEF BootLock, InstanceLockFree, NoBoot
<1>45. CASE BootRecheck BY <1>45 DEF BootRecheck, StartupAllowed, NoBoot
<1>46. CASE BootLoad BY <1>46 DEF BootLoad, NoBoot, NoInst
<1>47. CASE WriteBegin BY <1>47 DEF WriteBegin
<1>48. CASE WriteCommit BY <1>48 DEF WriteCommit
<1>49. CASE InstanceExit BY <1>49 DEF InstanceExit, InstanceGone, NoInst
<1>50. CASE InstanceCrash BY <1>50 DEF InstanceCrash, InstanceGone, NoInst
<1>51. CASE UpdaterCrash BY <1>51 DEF UpdaterCrash
<1>52. CASE PowerLoss
  <2>1. /\ config'.rev \in 0 .. config.rev
        /\ Busy => config'.rev = config.rev
    BY <1>52, PowerConfig
  <2>2. UNCHANGED <<target, foreign, phase, job>> BY <1>52 DEF PowerLoss
  <2>. QED BY <2>1, <2>2 DEF Promise!PowerLoss
<1>53. CASE OperatorStop BY <1>53 DEF OperatorStop
<1>54. CASE OperatorStart BY <1>54 DEF OperatorStart
<1>55. CASE OtherStart BY <1>55 DEF OtherStart
<1>56. CASE OtherStop BY <1>56 DEF OtherStop
<1>57. CASE ForeignReplace BY <1>57 DEF ForeignReplace, Replace
<1>58. CASE UNCHANGED vars BY <1>58 DEF vars
<1>. QED BY <1>1, <1>2, <1>3, <1>4, <1>5, <1>6, <1>7, <1>8, <1>9, <1>10, <1>11, <1>12,
      <1>13, <1>14, <1>15, <1>16, <1>17, <1>18, <1>19, <1>20, <1>21, <1>22, <1>23, <1>24,
      <1>25, <1>26, <1>27, <1>28, <1>29, <1>30, <1>31, <1>32, <1>33, <1>34, <1>35, <1>36,
      <1>37, <1>38, <1>39, <1>40, <1>41, <1>42, <1>43, <1>44, <1>45, <1>46, <1>47, <1>48,
      <1>49, <1>50, <1>51, <1>52, <1>53, <1>54, <1>55, <1>56, <1>57, <1>58 DEF Next,
      UpdaterStep, InstallStep, CancelStep, ForwardStep, RollbackStep, ServeStep, CrashStep,
      OutsideStep

\* The update installs its candidate or leaves everything as it was, and it
\* neither accepts nor loses a write, whatever crash or power loss interrupts it;
\* at other times a power loss may take back the last writes, and nothing else
\* can: UpdateTransaction implements AtomicUpdate.
THEOREM Implements == ASSUME TRUE \notin LateErrors PROVE Spec => ImplementsPromise
<1>1. Init => Promise!Init
  BY DEF Init, Promise!Init, NoJob, Busy, ActivePhase
<1>2. IInv /\ IInv' /\ [Next]_vars => [Promise!Next]_(Promise!vars) BY PromiseStep
<1>. QED BY <1>1, <1>2, Invariance, PTL DEF Spec, ImplementsPromise, Promise!Spec
=============================================================================
