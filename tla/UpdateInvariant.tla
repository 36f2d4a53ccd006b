---------------------------- MODULE UpdateInvariant ----------------------------
(***************************************************************************)
(* The inductive invariant of UpdateTransaction.  Its parts say what the   *)
(* updater's program counter knows: about the journal (ControlInv), about  *)
(* the processes that are kept away (OwnerInv, QuietInv, WriteInv), about  *)
(* the files it moves (DurableInv, TargetInv, BackupInv) and the locks     *)
(* (LockInv).                                                              *)
(***************************************************************************)
EXTENDS UpdateTransaction

Offered    == {"download", "prepare"}
Launching  == {"launch", "launchFailed"}
Before     == {"verify", "saveStopping"}
Copying    == {"backupConfig", "backupTarget", "saveBackedUp"}
Stopping   == {"stop", "stopWait", "stopFailed", "lock"} \union Copying
Replacing  == {"rename", "saveInstalled", "saveStarting"}
Trying     == {"start", "ready", "saveSucceeded"}
Cancelling == {"cancelStop", "cancelWait", "cancelSave"}
UndoFiles  == {"undoStop", "undoWait", "undoLock", "undoVerify", "undoTarget", "undoConfig"}
UndoRun    == {"undoStart", "undoReady", "undoDone"}
\* The phases with both backups in place.
Replaced  == {"backed_up", "installing", "starting", "rolling_back", "recovery_failed"}
\* The phases that leave the old release at target.
Untouched == {"prepared", "stopping", "backed_up", "failed"}

\* The journal's phase at each point of the updater, and, after an error, what
\* the deferred handler finds on disk for each phase in memory.
ControlInv ==
    /\ pc \in Offered => ~Busy /\ plan.next > plan.prev
    /\ pc \in Launching \union Before => phase = "prepared"
    /\ pc \in Stopping => phase = "stopping"
    /\ pc = "saveInstalling" => phase = "backed_up"
    /\ pc \in Replacing => phase = "installing"
    /\ pc \in Trying => phase = "starting"
    /\ pc \in Cancelling => phase \in {"prepared", "stopping"}
    /\ pc \in UndoFiles \union UndoRun => phase = "rolling_back"
    /\ pc = "resume" => phase \in {"stopping", "backed_up"}
    /\ pc \in {"resumeStart", "cancelStart"} => phase = "failed" /\ wPhase = "failed"
    /\ pc \in {"rollback", "undoFailed"} => phase \in Replaced
    /\ pc \in {"verify", "cancelStop", "cancelWait"} => wPhase = phase
    /\ pc = "finish" =>
          \/ wPhase = phase
          \/ wPhase = "failed" /\ phase \in Untouched
          \/ wPhase = "stopping" /\ phase = "prepared"
          \/ wPhase = "succeeded" /\ phase = "starting"
          \/ wPhase = "recovery_failed" /\ phase \in Replaced

\* instance.lock has one holder; an update that runs inside the instance or was
\* started from the command line stops nothing, so the latter holds the lock.
OwnerInv ==
    /\ boot.st \in {"locked", "allowed"} => ~inst.on
    /\ cli => /\ mode = "install" /\ pc # "idle"
              /\ ~inst.on /\ boot.st \notin {"locked", "allowed"}
    /\ mode = "install" /\ ~cli => pc \in {"idle", "exit"} \union Offered \union Launching
    /\ pc \in Offered => mode = "install" /\ (cli \/ (registered /\ inst.on))

\* From the end of the stop to the replacement nothing serves.
QuietInv ==
    pc \in {"lock", "saveInstalling", "rename"} \union Copying
        => ~inst.on /\ boot.st # "allowed"

WriteInv ==
    /\ config.rev = acked
    /\ inst.on => inst.rev = acked
    /\ Busy => acked = job.addr
    /\ writing => ~Busy /\ inst.on

\* A power loss brings back no write that was not acknowledged, and none that is
\* older than the journal of an update in progress.
DurableInv ==
    /\ config \in survivors
    /\ \A c \in survivors : c.rev <= acked
    /\ Busy => \A c \in survivors : c.rev = acked

TargetInv ==
    ~foreign =>
        /\ phase \in Untouched \union {"rolled_back"} => target = job.prev
        /\ phase \in {"starting", "succeeded", "installed"} => target = job.next
        /\ phase \in {"installing", "rolling_back", "recovery_failed"}
              => target \in {job.prev, job.next}
        /\ pc = "rename" => target = job.prev
        /\ pc \in {"saveInstalled", "saveStarting"} => target = job.next
        /\ pc \in UndoRun \union {"undoConfig"} => target = job.prev
        /\ pc = "prepare" => target = plan.prev

BackupInv ==
    /\ pc \in {"backupTarget", "saveBackedUp"} \/ phase \in Replaced => backup.rev = job.addr
    /\ ~foreign /\ (pc = "saveBackedUp" \/ phase \in Replaced) => previous = job.prev

LockInv ==
    /\ xlock => users = {}
    /\ ~foreign /\ pc \in Copying \union {"saveInstalling", "rename", "undoVerify", "undoTarget"}
          => xlock

IInv == /\ TypeOK /\ ControlInv /\ OwnerInv /\ QuietInv
        /\ WriteInv /\ DurableInv /\ TargetInv /\ BackupInv /\ LockInv
=============================================================================
