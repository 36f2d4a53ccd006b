--------------------------- MODULE UpdateTransaction ---------------------------
(***************************************************************************)
(* The self-update of SurgeEB: internal/update (manager.go, worker.go,     *)
(* transaction.go), the startup guard of cmd/surgeeb and the write gate of *)
(* internal/management.  One data directory, one installed executable.     *)
(*                                                                         *)
(* The processes are                                                       *)
(*   - the updater, i.e. whoever holds update.lock: install() inside the   *)
(*     running instance, the offline CLI install, the detached worker, or  *)
(*     `update recover'.  The lock is exclusive, so one program counter pc *)
(*     stands for all of them (pc = "idle": the lock is free);             *)
(*   - the serving instance inst, which holds instance.lock, and boot, a   *)
(*     process on its way through serve()'s startup checks;                *)
(*   - a management request that passed the write gate (writing);          *)
(*   - the service manager (svc), the operator, another data directory's   *)
(*     instance of the same executable ("other"), and somebody replacing   *)
(*     the executable outside this program (foreign).                      *)
(*                                                                         *)
(* Executables are abstracted to the version they contain (equal digests = *)
(* equal values), gateway.json to the number of accepted writes it holds   *)
(* (rev) and the schema it was written with.  Every accepted write may     *)
(* move the HTTP listener, so rev also stands for the health address.      *)
(*                                                                         *)
(* Bounds: MaxJobs, MaxWrites, MaxFaults, MaxMoves cap the prepared        *)
(* updates, the accepted writes, the failing steps and crashes, and the    *)
(* operator's and the neighbour's interventions.                           *)
(***************************************************************************)
EXTENDS Naturals, FiniteSets

CONSTANTS
    MaxVersion,     \* releases are 0 .. MaxVersion
    Bad,            \* releases that load the configuration and then die
    Registrations,  \* is the service registered for this directory?
    Foreign,        \* an executable that is none of the releases
    Outsiders,      \* may somebody replace the executable? (set of BOOLEAN)
    LateErrors,     \* may a journal write fail after its rename? (set of BOOLEAN)
    MaxJobs, MaxWrites, MaxFaults, MaxMoves

ASSUME ConstantsAssumption ==
    /\ MaxVersion \in Nat /\ MaxJobs \in Nat /\ MaxWrites \in Nat
    /\ MaxFaults \in Nat /\ MaxMoves \in Nat
    /\ Registrations \subseteq BOOLEAN /\ Outsiders \subseteq BOOLEAN
    /\ LateErrors \subseteq BOOLEAN
    /\ Foreign \notin 0 .. MaxVersion

VARIABLES
    phase,      \* journal phase on disk, "absent" without a journal
    job,        \* the journal's other fields, on disk
    target,     \* executable the service runs
    previous,   \* target.previous
    config,     \* gateway.json
    backup,     \* update-backup/gateway.json
    survivors,  \* what a power loss may leave of gateway.json
    pc,         \* the updater's control state
    wPhase,     \* j.Phase in the updater's memory
    mode,       \* which entry point the updater came through
    cli,        \* the updater holds instance.lock (offline CLI)
    plan,       \* the release being downloaded, before there is a journal
    dispatched, \* ids of submitted workers that did not start yet
    inst, boot, writing, svc,
    acked,      \* the last acknowledged write that no power loss took back
    users,      \* shared locks on the inode now at target
    xlock,      \* the updater's exclusive lock on that inode
    registered, foreign, faults, moves

journal == <<phase, job>>
files   == <<target, previous, config, backup, survivors>>
updater == <<pc, wPhase, mode, cli, plan, dispatched>>
process == <<inst, boot, writing, acked, svc>>
locks   == <<users, xlock>>
world   == <<registered, foreign, faults, moves>>
vars    == <<journal, files, updater, process, locks, world>>

Version == 0 .. MaxVersion
Binary  == Version \union {Foreign}
Config  == [rev : Nat, schema : Version]
Job     == [id : Nat, prev : Version, next : Version, addr : Nat,
            service : BOOLEAN, live : BOOLEAN]
Instance == [on : BOOLEAN, ver : Version, rev : Nat, managed : BOOLEAN,
             known : BOOLEAN, term : BOOLEAN]
Starter  == [st : {"none", "checked", "locked", "allowed"}, ver : Version,
             exe : {"target", "copy"}, managed : BOOLEAN]

ActivePhase == {"prepared", "stopping", "backed_up", "installing", "starting",
                "rolling_back", "recovery_failed"}
Phase == ActivePhase \union {"absent", "succeeded", "installed", "rolled_back", "failed"}

\* The updater's control points, named for what it does next.
Point == {"idle", "exit", "finish",
          "download", "prepare", "launch", "launchFailed",
          "cancelStop", "cancelWait", "cancelSave", "cancelStart",
          "verify", "saveStopping", "stop", "stopWait", "stopFailed", "lock",
          "backupConfig", "backupTarget", "saveBackedUp", "saveInstalling", "rename",
          "saveInstalled", "saveStarting", "start", "ready", "saveSucceeded",
          "resume", "resumeStart",
          "rollback", "undoStop", "undoWait", "undoLock", "undoVerify", "undoTarget",
          "undoConfig", "undoStart", "undoReady", "undoDone", "undoFailed"}

\* Mutant of Busy: a phase forgotten in activePhase.
BusyWithoutStarting == phase \in ActivePhase \ {"starting"}

\* update.Busy: management writes and further installs are refused.
Busy == phase \in ActivePhase
\* StartupAllowed: serve may start in these phases.
StartupAllowed == phase \notin {"prepared", "stopping", "backed_up", "installing",
                                "recovery_failed"}

NoInst == [on |-> FALSE, ver |-> 0, rev |-> 0, managed |-> FALSE,
           known |-> FALSE, term |-> FALSE]
NoBoot == [st |-> "none", ver |-> 0, exe |-> "target", managed |-> FALSE]
NoJob  == [id |-> 0, prev |-> 0, next |-> 0, addr |-> 0, service |-> FALSE, live |-> FALSE]

InstanceLockFree == ~inst.on /\ boot.st \notin {"locked", "allowed"} /\ ~cli

\* A step fails, or a process or the machine dies: one unit of MaxFaults.
Fault == faults > 0 /\ faults' = faults - 1

Init ==
    /\ phase = "absent" /\ job = NoJob
    /\ target = 0 /\ previous = 0
    /\ config = [rev |-> 0, schema |-> 0] /\ backup = config /\ survivors = {config}
    /\ pc = "idle" /\ wPhase = "absent" /\ mode = "install" /\ cli = FALSE
    /\ plan = [prev |-> 0, next |-> 0] /\ dispatched = {}
    /\ inst = NoInst /\ boot = NoBoot /\ writing = FALSE /\ acked = 0
    /\ registered \in Registrations /\ svc = registered
    /\ users = {} /\ xlock = FALSE
    /\ foreign = FALSE /\ faults = MaxFaults /\ moves = MaxMoves

-----------------------------------------------------------------------------
\* gateway.json is renamed into place: a power loss brings back what was there
\* before, until the data directory is synced.
Renamed(c) == config' = c /\ survivors' = survivors \union {c}

\* Mutant of Synced: syncDir is left out.
NotSynced(c) == survivors' = survivors \union {c}

\* syncDir of the data directory.
Synced(c) == survivors' = {c}

\* A failed atomicWrite left the old journal, or, when only the sync of the
\* directory failed, the new one.
FailedWrite(p) == phase' = phase \/ (TRUE \in LateErrors /\ phase' = p)

\* Journal.save: the phase changes in memory first.  The journal is in the data
\* directory, so that its sync covers gateway.json.
Save(p, ok, bad) ==
    /\ wPhase' = p
    /\ \/ phase' = p /\ pc' = ok /\ Synced(config) /\ UNCHANGED faults
       \/ Fault /\ FailedWrite(p) /\ pc' = bad /\ UNCHANGED survivors
    /\ UNCHANGED <<job, target, previous, config, backup, mode, cli, plan, dispatched, process,
                   registered, foreign, moves>>

\* After an error the worker's deferred function rewrites the journal
\* ("finish"); the offline install just returns ("exit").
OnError == IF mode = "install" THEN "exit" ELSE "finish"

\* A step that touches only the locks and the control state.
Step == UNCHANGED <<journal, files, wPhase, mode, cli, plan, dispatched, process,
                    registered, foreign, moves>>

(* Manager.install *)

\* Mutant of Newer: the same release again.
NotOlder(r) == r >= target

\* selectRelease against the version of the installed executable.
Newer(r) == r > target

\* startInstall's guards, update.lock, Busy again, and either a live instance
\* whose service is registered or instance.lock held by the CLI itself.
InstallBegin ==
    /\ pc = "idle" /\ ~Busy /\ job.id < MaxJobs
    /\ \/ inst.on /\ ~inst.term /\ registered /\ cli' = FALSE
       \/ InstanceLockFree /\ cli' = TRUE
    /\ \E r \in Version :
          /\ target \in Version /\ Newer(r)
          /\ plan' = [prev |-> target, next |-> r]
    /\ pc' = "download" /\ mode' = "install"
    /\ UNCHANGED <<journal, files, wPhase, dispatched, process, locks, world>>

\* Download and validate, then compare the executable's digest again.
Download ==
    /\ pc = "download"
    /\ \/ target = plan.prev /\ pc' = "prepare" /\ UNCHANGED faults
       \/ target # plan.prev /\ pc' = "exit" /\ UNCHANGED faults
       \/ Fault /\ pc' = "exit"
    /\ Step /\ UNCHANGED locks

\* Mutant of GateClosed: prepare runs without Freeze.
GateOpen == TRUE

\* Freeze: updateMu can be taken exclusively, no request is inside.
GateClosed == ~writing

\* prepare, under Freeze.
Prepare ==
    LET new == [id |-> job.id + 1, prev |-> plan.prev, next |-> plan.next,
                addr |-> IF cli THEN config.rev ELSE inst.rev,
                service |-> registered, live |-> ~cli]
    IN  /\ pc = "prepare" /\ GateClosed
        /\ wPhase' = "prepared"
        /\ \/ /\ phase' = "prepared" /\ job' = new
              /\ pc' = IF registered THEN "launch" ELSE "verify"
              /\ Synced(config) /\ UNCHANGED faults
           \/ /\ Fault /\ pc' = "exit" /\ UNCHANGED survivors
              /\ FailedWrite("prepared")
              /\ job' = IF phase' = "prepared" THEN new ELSE job
        /\ inst' = [inst EXCEPT !.known = inst.on]
        /\ UNCHANGED <<target, previous, config, backup, mode, cli, plan, dispatched, boot,
                       writing, acked, svc, locks, registered, foreign, moves>>

\* LaunchUpdateWorker may report an error although the worker was submitted.
Launch ==
    /\ pc = "launch"
    /\ \/ dispatched' = dispatched \union {job.id} /\ pc' = "exit" /\ UNCHANGED faults
       \/ Fault /\ dispatched' \in {dispatched, dispatched \union {job.id}} /\ pc' = "launchFailed"
    /\ UNCHANGED <<journal, files, wPhase, mode, cli, plan, process, locks,
                   registered, foreign, moves>>

LaunchFailed == pc = "launchFailed" /\ Save("failed", "exit", "exit") /\ UNCHANGED locks

\* The deferred unlocks.
Exit ==
    /\ pc = "exit"
    /\ pc' = "idle" /\ cli' = FALSE /\ xlock' = FALSE
    /\ UNCHANGED <<journal, files, wPhase, mode, plan, dispatched, process, users, world>>

-----------------------------------------------------------------------------
(* worker *)

\* Mutant of Resolve: an interrupted replacement is cancelled, not undone.
CancelInstalling(recoverOnly) ==
    IF phase = "prepared" /\ ~recoverOnly THEN "verify"
    ELSE IF phase \in {"prepared", "stopping", "installing"} THEN "cancelStop"
    ELSE "rollback"

\* Mutant of Resolve: what was only prepared is left to its worker.
LeavePrepared(recoverOnly) ==
    IF phase = "prepared" THEN IF recoverOnly THEN "exit" ELSE "verify"
    ELSE IF phase = "stopping" THEN "cancelStop"
    ELSE "rollback"

\* What the worker does with the journal it finds under update.lock.
Resolve(recoverOnly) ==
    IF phase = "prepared" /\ ~recoverOnly THEN "verify"
    ELSE IF phase \in {"prepared", "stopping"} THEN "cancelStop"
    ELSE "rollback"

\* The dispatched worker; a journal with another id, or one that needs no
\* work, is left alone.  The service and target checks may fail.
BeginWorker ==
    /\ pc = "idle"
    /\ \E id \in dispatched :
          /\ dispatched' = dispatched \ {id}
          /\ \/ (job.id # id \/ ~Busy) /\ pc' = "exit" /\ UNCHANGED faults
             \/ job.id = id /\ Busy /\ pc' = Resolve(FALSE) /\ UNCHANGED faults
             \/ job.id = id /\ Busy /\ Fault /\ pc' = "finish"
    /\ wPhase' = phase /\ mode' = "worker"
    /\ UNCHANGED <<journal, files, cli, plan, process, locks, registered, foreign, moves>>

\* `update recover', run by the operator.
BeginRecover ==
    /\ pc = "idle" /\ Busy
    /\ \/ pc' = Resolve(TRUE) /\ UNCHANGED faults
       \/ Fault /\ pc' = "finish"
    /\ wPhase' = phase /\ mode' = "recover"
    /\ UNCHANGED <<journal, files, cli, plan, dispatched, process, locks,
                   registered, foreign, moves>>

\* The deferred error handler: a transaction that never left "prepared" is
\* failed, any other phase is written again with the error.
Finish ==
    LET p == IF wPhase = "prepared" THEN "failed" ELSE wPhase
    IN  pc = "finish" /\ Save(p, "exit", "exit") /\ UNCHANGED locks

\* service.Stop, then SIGTERM to the recorded process if its health answers.
Signal(from, to, bad) ==
    LET hit == \/ job.service /\ inst.managed
               \/ job.live /\ inst.known /\ inst.rev = job.addr
        stopped == /\ svc' = (svc /\ ~job.service)
                   /\ inst' = [inst EXCEPT !.term = inst.on /\ (inst.term \/ hit)]
                   /\ boot' = IF job.service /\ boot.managed THEN NoBoot ELSE boot
    IN  /\ pc = from
        /\ \/ stopped /\ pc' = to /\ UNCHANGED faults
           \/ Fault /\ pc' = bad /\ (stopped \/ UNCHANGED <<svc, inst, boot>>)
        /\ UNCHANGED <<journal, files, wPhase, mode, cli, plan, dispatched, writing,
                       acked, locks, registered, foreign, moves>>

\* waitStopped: instance.lock could be taken, or 20 s have passed.
WaitStopped(from, to, bad) ==
    /\ pc = from
    /\ \/ InstanceLockFree /\ pc' = to /\ UNCHANGED faults
       \/ inst.on /\ ~inst.term /\ pc' = bad /\ UNCHANGED faults
       \/ Fault /\ pc' = bad
    /\ Step /\ UNCHANGED locks

\* service.Start; a no-op when the journal is not a service's.
Start(from, to, bad) ==
    /\ pc = from
    /\ \/ svc' = (svc \/ job.service) /\ pc' = to /\ UNCHANGED faults
       \/ Fault /\ svc' \in {svc, svc \/ job.service} /\ pc' = bad
    /\ UNCHANGED <<journal, files, wPhase, mode, cli, plan, dispatched, inst, boot,
                   writing, acked, locks, registered, foreign, moves>>

\* Recovery of an update that replaced nothing yet.
CancelStop  == Signal("cancelStop", "cancelWait", "finish")
CancelWait  == WaitStopped("cancelWait", "cancelSave", "finish")
CancelSave  == pc = "cancelSave" /\ Save("failed", "cancelStart", "finish") /\ UNCHANGED locks
CancelStart == Start("cancelStart", "exit", "finish")

-----------------------------------------------------------------------------
(* runTransaction *)

\* Digests of the staged file and of the executable.
Verify ==
    /\ pc = "verify"
    /\ \/ target = job.prev /\ pc' = "saveStopping" /\ UNCHANGED faults
       \/ target # job.prev /\ pc' = OnError /\ UNCHANGED faults
       \/ Fault /\ pc' = OnError
    /\ Step /\ UNCHANGED locks

\* The offline install has nothing to stop: it holds instance.lock.
SaveStopping ==
    /\ pc = "saveStopping"
    /\ Save("stopping", IF mode = "install" THEN "lock" ELSE "stop", OnError)
    /\ UNCHANGED locks

Stop       == Signal("stop", "stopWait", "stopFailed")
StopWait   == WaitStopped("stopWait", "lock", "stopFailed")
StopFailed == pc = "stopFailed" /\ Save("failed", OnError, OnError) /\ UNCHANGED locks

\* LockExecutable(target, exclusive).
LockTarget(from, to, bad) ==
    /\ pc = from
    /\ \/ users = {} /\ xlock' = TRUE /\ pc' = to /\ UNCHANGED faults
       \/ users # {} /\ UNCHANGED <<xlock, faults>> /\ pc' = bad
       \/ Fault /\ UNCHANGED xlock /\ pc' = bad
    /\ Step /\ UNCHANGED users

\* Mutant of Lock: gateway.json is not backed up.
LockAndSkipConfig == LockTarget("lock", "backupTarget", "resume")

Lock == LockTarget("lock", "backupConfig", "resume")

BackupConfig ==
    /\ pc = "backupConfig"
    /\ \/ backup' = config /\ pc' = "backupTarget" /\ UNCHANGED faults
       \/ Fault /\ backup' \in {backup, config} /\ pc' = "resume"
    /\ UNCHANGED <<journal, target, previous, config, survivors, wPhase, mode, cli, plan, dispatched,
                   process, locks, registered, foreign, moves>>

BackupTarget ==
    /\ pc = "backupTarget"
    /\ \/ previous' = target /\ pc' = "saveBackedUp" /\ UNCHANGED faults
       \/ Fault /\ previous' \in {previous, target} /\ pc' = "resume"
    /\ UNCHANGED <<journal, target, config, backup, survivors, wPhase, mode, cli, plan, dispatched,
                   process, locks, registered, foreign, moves>>

SaveBackedUp   == pc = "saveBackedUp" /\ Save("backed_up", "saveInstalling", "resume") /\ UNCHANGED locks
SaveInstalling == pc = "saveInstalling" /\ Save("installing", "rename", "resume") /\ UNCHANGED locks

\* Another file is now at target: the locks on the old inode do not count.
Replace(file) == target' = file /\ users' = {} /\ xlock' = FALSE

\* Rename(staged, target), release of the lock, syncDir.
Rename ==
    /\ pc = "rename"
    /\ \/ /\ Replace(job.next) /\ UNCHANGED faults
          /\ pc' = IF job.service \/ job.live THEN "saveStarting" ELSE "saveInstalled"
       \/ /\ Fault /\ pc' = "rollback"
          /\ Replace(job.next) \/ (xlock' = FALSE /\ UNCHANGED <<target, users>>)
    /\ UNCHANGED <<journal, previous, config, backup, survivors, wPhase, mode, cli, plan, dispatched,
                   process, registered, foreign, moves>>

SaveInstalled == pc = "saveInstalled" /\ Save("installed", "exit", "exit") /\ UNCHANGED locks
SaveStarting  == pc = "saveStarting" /\ Save("starting", "start", "rollback") /\ UNCHANGED locks
StartNew      == Start("start", "ready", "rollback")

\* The health check of waitReady.
Healthy(v) == inst.on /\ ~inst.term /\ inst.ver = v /\ ~inst.known /\ inst.rev = job.addr
\* Nothing that is under way can make it succeed any more.
Hopeless(v) == \/ ~svc \/ target # v \/ v \in Bad \/ config.schema > v
               \/ inst.on /\ ~Healthy(v)

WaitReady(from, v, to, bad) ==
    /\ pc = from
    /\ \/ Healthy(v) /\ pc' = to /\ UNCHANGED faults
       \/ ~Healthy(v) /\ Hopeless(v) /\ pc' = bad /\ UNCHANGED faults
       \/ ~Healthy(v) /\ Fault /\ pc' = bad
    /\ Step /\ UNCHANGED locks

ReadyNew      == WaitReady("ready", job.next, "saveSucceeded", "rollback")
SaveSucceeded == pc = "saveSucceeded" /\ Save("succeeded", "exit", OnError) /\ UNCHANGED locks

\* Mutant of Resume: it writes a phase no reader knows.
ResumeUnknown ==
    /\ pc = "resume"
    /\ Save("aborted", IF job.service THEN "resumeStart" ELSE OnError, OnError)
    /\ xlock' = FALSE /\ UNCHANGED users

\* resumeBeforeInstall: release the executable, fail, restart the service.
Resume ==
    /\ pc = "resume"
    /\ Save("failed", IF job.service THEN "resumeStart" ELSE OnError, OnError)
    /\ xlock' = FALSE /\ UNCHANGED users
ResumeStart == Start("resumeStart", OnError, OnError)

-----------------------------------------------------------------------------
(* rollback *)

Rollback ==
    /\ pc = "rollback"
    /\ Save("rolling_back", IF mode = "install" THEN "undoLock" ELSE "undoStop", "undoFailed")
    /\ UNCHANGED locks
UndoStop == Signal("undoStop", "undoWait", "undoFailed")
UndoWait == WaitStopped("undoWait", "undoLock", "undoFailed")

\* Mutant of UndoLock: the installed candidate is not locked.
UndoUnlocked == pc = "undoLock" /\ pc' = "undoVerify" /\ Step /\ UNCHANGED <<locks, faults>>

UndoLock == LockTarget("undoLock", "undoVerify", "undoFailed")

\* Neither the saved nor the installed executable was changed by others.
Ours == previous = job.prev /\ target \in {job.next, job.prev}

UndoVerify ==
    /\ pc = "undoVerify"
    /\ \/ Ours /\ pc' = "undoTarget" /\ UNCHANGED faults
       \/ ~Ours /\ pc' = "undoFailed" /\ UNCHANGED faults
       \/ Fault /\ pc' = "undoFailed"
    /\ Step /\ UNCHANGED locks

UndoTarget ==
    /\ pc = "undoTarget"
    /\ \/ Replace(previous) /\ pc' = "undoConfig" /\ UNCHANGED faults
       \/ Fault /\ pc' = "undoFailed" /\ (Replace(previous) \/ UNCHANGED <<target, locks>>)
    /\ UNCHANGED <<journal, previous, config, backup, survivors, wPhase, mode, cli, plan, dispatched,
                   process, registered, foreign, moves>>

UndoConfig ==
    /\ pc = "undoConfig"
    /\ \/ /\ config' = backup /\ Synced(backup) /\ UNCHANGED faults
          /\ pc' = IF job.service \/ job.live THEN "undoStart" ELSE "undoDone"
       \/ Fault /\ (Renamed(backup) \/ UNCHANGED <<config, survivors>>) /\ pc' = "undoFailed"
    /\ UNCHANGED <<journal, target, previous, backup, wPhase, mode, cli, plan, dispatched,
                   process, locks, registered, foreign, moves>>

UndoStart  == Start("undoStart", "undoReady", "undoFailed")
UndoReady  == WaitReady("undoReady", job.prev, "undoDone", "undoFailed")
UndoDone   == pc = "undoDone" /\ Save("rolled_back", OnError, "undoFailed") /\ UNCHANGED locks

\* Mutant of UndoFailed: a failed recovery ends the transaction.
UndoGivenUp == pc = "undoFailed" /\ Save("failed", OnError, OnError) /\ xlock' = FALSE /\ UNCHANGED users

UndoFailed == pc = "undoFailed" /\ Save("recovery_failed", OnError, OnError) /\ xlock' = FALSE /\ UNCHANGED users

-----------------------------------------------------------------------------
(* serve(): two checks of the journal around instance.lock, the shared     *)
(* lock on the executable, then the configuration is loaded and migrated.  *)
BootLaunch ==
    /\ boot = NoBoot /\ StartupAllowed
    /\ \/ \* the service manager (Restart=on-failure, RunAtLoad)
          /\ svc /\ ~(inst.on /\ inst.managed) /\ target \in Version
          /\ boot' = [st |-> "checked", ver |-> target, exe |-> "target", managed |-> TRUE]
          /\ UNCHANGED moves
       \/ \* the operator, with the installed file or the downloaded copy
          /\ moves > 0 /\ moves' = moves - 1
          /\ \/ /\ target \in Version
                /\ boot' = [st |-> "checked", ver |-> target, exe |-> "target", managed |-> FALSE]
             \/ boot' = [st |-> "checked", ver |-> 0, exe |-> "copy", managed |-> FALSE]
    /\ UNCHANGED <<journal, files, updater, inst, writing, acked, svc, locks,
                   registered, foreign, faults>>

BootLock ==
    /\ boot.st = "checked"
    /\ boot' = IF InstanceLockFree THEN [boot EXCEPT !.st = "locked"] ELSE NoBoot
    /\ UNCHANGED <<journal, files, updater, inst, writing, acked, svc, locks, world>>

\* Mutant of BootRecheck: the journal is not read again under instance.lock.
BootUnchecked ==
    /\ boot.st = "locked"
    /\ boot' = [boot EXCEPT !.st = "allowed"]
    /\ UNCHANGED <<journal, files, updater, inst, writing, acked, svc, locks, world>>

BootRecheck ==
    /\ boot.st = "locked"
    /\ boot' = IF StartupAllowed THEN [boot EXCEPT !.st = "allowed"] ELSE NoBoot
    /\ UNCHANGED <<journal, files, updater, inst, writing, acked, svc, locks, world>>

\* A process that gets as far as RegisterInstance has synced the data directory.
BootLoad ==
    LET loads == ~(boot.exe = "target" /\ xlock) /\ config.schema <= boot.ver
        runs  == loads /\ boot.ver \notin Bad
        migrated == IF loads THEN [config EXCEPT !.schema = boot.ver] ELSE config
    IN  /\ boot.st = "allowed"
        /\ IF runs THEN config' = migrated /\ Synced(migrated) ELSE Renamed(migrated)
        /\ inst' = IF runs THEN [NoInst EXCEPT !.on = TRUE, !.ver = boot.ver, !.rev = config.rev,
                                               !.managed = boot.managed]
                   ELSE inst
        /\ users' = IF runs /\ boot.exe = "target" THEN users \union {"self"} ELSE users
        /\ boot' = NoBoot
        /\ UNCHANGED <<journal, target, previous, backup, updater, writing, acked, svc,
                       xlock, world>>

(* Management requests (updateGate) *)

\* RLock, then the Busy check; the read lock is kept until the response.
WriteBegin ==
    /\ inst.on /\ ~inst.term /\ ~writing /\ ~Busy /\ inst.rev < MaxWrites
    /\ writing' = TRUE
    /\ UNCHANGED <<journal, files, updater, inst, boot, acked, svc, locks, world>>

\* The handler saves its in-memory configuration plus the change; Store.Save
\* does not sync the directory.
WriteCommit ==
    /\ writing
    /\ writing' = FALSE /\ acked' = inst.rev + 1
    /\ inst' = [inst EXCEPT !.rev = acked']
    /\ Renamed([rev |-> acked', schema |-> inst.ver])
    /\ UNCHANGED <<journal, target, previous, backup, updater, boot, svc, locks, world>>

(* The end of a process *)

\* An install() running inside the instance ends with it.
InstanceGone ==
    /\ inst' = NoInst /\ writing' = FALSE /\ users' = users \ {"self"}
    /\ pc' = IF mode = "install" /\ ~cli THEN "idle" ELSE pc

InstanceExit ==
    /\ inst.term /\ InstanceGone
    /\ UNCHANGED <<journal, files, wPhase, mode, cli, plan, dispatched, boot, acked, svc, xlock, world>>

InstanceCrash ==
    /\ inst.on /\ Fault /\ InstanceGone
    /\ UNCHANGED <<journal, files, wPhase, mode, cli, plan, dispatched, boot, acked, svc, xlock,
                   registered, foreign, moves>>

UpdaterCrash ==
    /\ pc # "idle" /\ (mode # "install" \/ cli) /\ Fault
    /\ pc' = "idle" /\ cli' = FALSE /\ xlock' = FALSE
    /\ UNCHANGED <<journal, files, wPhase, mode, plan, dispatched, process, users,
                   registered, foreign, moves>>

\* What was acknowledged and not yet synced may be gone.
PowerLoss ==
    /\ Fault
    /\ config' \in survivors /\ Synced(config') /\ acked' = config'.rev
    /\ pc' = "idle" /\ cli' = FALSE /\ xlock' = FALSE /\ users' = {} /\ dispatched' = {}
    /\ inst' = NoInst /\ boot' = NoBoot /\ writing' = FALSE /\ svc' = registered
    /\ UNCHANGED <<journal, target, previous, backup, wPhase, mode, plan, registered, foreign, moves>>

(* The operator, the neighbour and the outsider *)

\* `service stop', or ending a manual instance (its start was a move).
OperatorStop ==
    /\ inst.on /\ ~inst.term
    /\ \/ inst.managed /\ moves > 0 /\ moves' = moves - 1
       \/ ~inst.managed /\ UNCHANGED moves
    /\ inst' = [inst EXCEPT !.term = TRUE]
    /\ svc' = (svc /\ ~inst.managed)
    /\ UNCHANGED <<journal, files, updater, boot, writing, acked, locks, registered, foreign, faults>>

\* `service start'.
OperatorStart ==
    /\ registered /\ ~svc /\ moves > 0 /\ moves' = moves - 1
    /\ svc' = TRUE
    /\ UNCHANGED <<journal, files, updater, inst, boot, writing, acked, locks, registered, foreign, faults>>

OtherStart ==
    /\ "other" \notin users /\ ~xlock /\ moves > 0 /\ moves' = moves - 1
    /\ users' = users \union {"other"}
    /\ UNCHANGED <<journal, files, updater, process, xlock, registered, foreign, faults>>

OtherStop ==
    /\ "other" \in users
    /\ users' = users \ {"other"}
    /\ UNCHANGED <<journal, files, updater, process, xlock, world>>

ForeignReplace ==
    /\ ~foreign /\ TRUE \in Outsiders
    /\ foreign' = TRUE /\ Replace(Foreign)
    /\ UNCHANGED <<journal, previous, config, backup, survivors, updater, process, registered,
                   faults, moves>>

-----------------------------------------------------------------------------
InstallStep  == InstallBegin \/ Download \/ Prepare \/ Launch \/ LaunchFailed \/ Exit
CancelStep   == CancelStop \/ CancelWait \/ CancelSave \/ CancelStart
ForwardStep  == \/ Verify \/ SaveStopping \/ Stop \/ StopWait \/ StopFailed \/ Lock
                \/ BackupConfig \/ BackupTarget \/ SaveBackedUp \/ SaveInstalling \/ Rename
                \/ SaveInstalled \/ SaveStarting \/ StartNew \/ ReadyNew \/ SaveSucceeded
                \/ Resume \/ ResumeStart
RollbackStep == \/ Rollback \/ UndoStop \/ UndoWait \/ UndoLock \/ UndoVerify \/ UndoTarget
                \/ UndoConfig \/ UndoStart \/ UndoReady \/ UndoDone \/ UndoFailed
UpdaterStep  == InstallStep \/ BeginWorker \/ BeginRecover \/ Finish \/ CancelStep
                \/ ForwardStep \/ RollbackStep
ServeStep    == \/ BootLaunch \/ BootLock \/ BootRecheck \/ BootLoad
                \/ WriteBegin \/ WriteCommit \/ InstanceExit
CrashStep    == InstanceCrash \/ UpdaterCrash \/ PowerLoss
OutsideStep  == OperatorStop \/ OperatorStart \/ OtherStart \/ OtherStop \/ ForeignReplace

Next == UpdaterStep \/ ServeStep \/ CrashStep \/ OutsideStep

Spec == Init /\ [][Next]_vars

\* The kernel and the service manager run what they can; waiting processes get
\* their turn; the updater polls what it waits for and gives up after 20 s, so a
\* service that restarts again and again does not keep it waiting (SF); the
\* operator answers an interrupted update with `update recover', ends stray
\* instances and the neighbour's.  Crashes, failing steps, writes and new
\* updates are never owed.
Fairness ==
    /\ SF_vars(UpdaterStep /\ pc # "idle")
    /\ WF_vars(BeginRecover)
    /\ WF_vars(BeginWorker)
    /\ WF_vars(BootLaunch /\ UNCHANGED moves)
    /\ WF_vars(BootLock) /\ WF_vars(BootRecheck) /\ WF_vars(BootLoad)
    /\ WF_vars(WriteCommit) /\ WF_vars(InstanceExit)
    /\ WF_vars(OperatorStop /\ ~inst.managed) /\ WF_vars(OtherStop)

FairSpec == Spec /\ Fairness

-----------------------------------------------------------------------------
(* Properties *)

JournalOK == phase \in Phase /\ job \in Job
FilesOK   == /\ target \in Binary /\ previous \in Binary /\ config \in Config /\ backup \in Config
             /\ survivors \in SUBSET Config
UpdaterOK ==
    /\ pc \in Point /\ wPhase \in Phase /\ mode \in {"install", "worker", "recover"}
    /\ cli \in BOOLEAN /\ plan \in [prev : Version, next : Version]
    /\ dispatched \in SUBSET Nat
ProcessOK ==
    /\ inst \in Instance /\ boot \in Starter
    /\ writing \in BOOLEAN /\ acked \in Nat /\ svc \in BOOLEAN
LocksOK == users \in SUBSET {"self", "other"} /\ xlock \in BOOLEAN
WorldOK == registered \in BOOLEAN /\ foreign \in BOOLEAN /\ faults \in Nat /\ moves \in Nat
TypeOK  == JournalOK /\ FilesOK /\ UpdaterOK /\ ProcessOK /\ LocksOK /\ WorldOK

\* The configuration on disk and the one the instance serves hold every
\* acknowledged write, through crashes of processes, migrations by the candidate
\* and restored backups (updateGate, rollback).  Only a power loss can take back a
\* write, since Store.Save does not sync the directory.
NothingUndone ==
    /\ config.rev = acked
    /\ inst.on => inst.rev = acked

\* And not even a power loss can from the moment an update is prepared until it
\* ends or is recovered: the journal's atomicWrite has synced gateway.json.
NoLostWrite == NothingUndone /\ (Busy => \A c \in survivors : c.rev = acked)

\* While a transaction is under way or waits for recovery the configuration is
\* the one its journal was prepared from, so the recorded health address is
\* where the instance listens (Manager.install's prepare under Freeze).
FrozenWhileBusy == Busy => acked = job.addr

\* "No process may mutate the config after stop returns" (transaction.go:83):
\* from then to the replacement no instance runs and none can get past the
\* startup guard.
Quiescent ==
    pc \in {"backupConfig", "backupTarget", "saveBackedUp", "saveInstalling", "rename"}
        => ~inst.on /\ boot.st # "allowed" /\ ~writing

\* The journal's final word agrees with the installed executable, whatever
\* failed or crashed on the way, as long as nobody else replaced it.
OutcomeTrue ==
    ~foreign =>
        /\ phase \in {"failed", "rolled_back"} => target = job.prev
        /\ phase \in {"succeeded", "installed"} => target = job.next

\* In every state an interrupted update can be found in, what `update recover'
\* needs is there: before the replacement the old release is still installed,
\* and later both backups are complete and belong to this transaction.
Recoverable ==
    Busy /\ ~foreign =>
        /\ phase \in {"prepared", "stopping"} /\ pc = "idle" => target = job.prev
        /\ phase \notin {"prepared", "stopping"} =>
              /\ previous = job.prev
              /\ backup.rev = job.addr
              /\ target \in {job.prev, job.next}

\* An executable that another instance still uses is never replaced by an
\* update or a rollback (LockExecutable).
NeverReplacedInUse ==
    [][~foreign' /\ target' # target => users = {}]_vars

Undoing == phase \in {"rolling_back", "recovery_failed"}

\* A failed recovery is never turned into a success: once a rollback started
\* the transaction can only end rolled back (auto-update.md:56).
RollbackIsFinal ==
    [][Undoing => Undoing' \/ phase' = "rolled_back"]_vars

\* After a rollback or a cancelled update of a service the restored release can
\* read the configuration it is started with.
RestoredReadable ==
    ~foreign /\ phase \in {"failed", "rolled_back"} => config.schema <= job.prev

\* The self-update implements its abstract promise.
Promise == INSTANCE AtomicUpdate WITH
    Release   <- Version,
    installed <- IF foreign THEN Foreign ELSE IF Busy THEN job.prev ELSE target,
    candidate <- job.next,
    busy      <- Busy,
    writes    <- config.rev
ImplementsPromise == Promise!Spec

\* Every update comes to an end: with finitely many faults and interventions and
\* an operator who recovers, the write freeze is lifted, unless somebody else
\* replaced the executable and recovery has to refuse.
EventuallyUnfrozen == Busy ~> (~Busy \/ foreign)
=============================================================================
