---------------------------- MODULE GatewayCommit ----------------------------
(***************************************************************************)
(* The gateway application (internal/gateway/app.go, policy_paths.go) and  *)
(* the manager of the core under it: how a change of the configuration is  *)
(* applied to the running core, persisted and committed, or rolled back,   *)
(* while Surge reads its policy paths.                                     *)
(*                                                                         *)
(* App.applyMu admits one writer at a time: `writer' is the one inside.    *)
(* A configuration is the ordered list of providers, the selection of one  *)
(* policy path, and the settings.                                          *)
(***************************************************************************)
EXTENDS CoreManager

CONSTANTS
    All,            \* include_all, the selection of every provider
    Faults          \* what can fail: "crash", "save"

ASSUME FaultsAssumption == Faults \subseteq {"crash", "save"}

VARIABLES
    disk,           \* gateway.json
    memory,         \* App.config
    writer,         \* the operation that holds App.applyMu
    answer,         \* by reader: what it is about to send
    closed,         \* the server was shut down, the process is about to end
    unsaved         \* auxiliary: settings were applied that could not be saved

process == <<closed, unsaved>>
appVars == <<disk, memory, writer, answer, process>>
vars == <<managerVars, appVars>>

Selections == (SUBSET Providers) \cup {All}
Config == [provs : Lists, path : Selections, set : Settings]
\* definitions(): provs are the enabled providers, which are all the manager sees.
Runtime(c) == [provs |-> c.provs, set |-> c.set]

\* FilterPolicyPathEntries: the published entries that the path selects.
Filter(path, list) ==
    LET kept[n \in 0 .. Len(list)] == IF n = 0 THEN <<>>
                                      ELSE IF path = All \/ list[n] \in path THEN Append(kept[n - 1], list[n])
                                      ELSE kept[n - 1]
    IN kept[Len(list)]

\* validatePolicyPaths: a path refers to configured providers only.
Valid(c) == c.path # All => c.path \subseteq Set(c.provs)

----------------------------------------------------------------------------
(* What the operations ask for *)

Without(c, i) == [c EXCEPT !.provs = SubSeq(@, 1, i - 1) \o SubSeq(@, i + 1, Len(@)),
                           !.path = IF @ = All THEN All ELSE @ \ {c.provs[i]}]

Renamed(c, p, q) == [c EXCEPT !.provs = [i \in DOMAIN @ |-> IF @[i] = p THEN q ELSE @[i]],
                              !.path = IF @ # All /\ p \in @ THEN (@ \ {p}) \cup {q} ELSE @]

\* A mutant of ProviderChanges: AddProvider accepts an identity twice.
ProviderChangesAny(c) ==
    {[c EXCEPT !.provs = Append(@, p)] : p \in Providers} \cup {Without(c, i) : i \in DOMAIN c.provs}

\* AddProvider, UpdateProvider (renamed or not) and DeleteProvider.
ProviderChanges(c) ==
    {[c EXCEPT !.provs = Append(@, p)] : p \in Providers \ Set(c.provs)}
    \cup {Without(c, i) : i \in DOMAIN c.provs}
    \cup {Renamed(c, p, q) : p \in Set(c.provs), q \in Providers \ Set(c.provs)}
    \cup {c}

Reorders(c) == {[c EXCEPT !.provs = l] : l \in {l \in Lists \ {c.provs} : Set(l) = Set(c.provs)}}

\* A provider change is validated after it was made.
Candidates(kind, c) ==
    {d \in CASE kind = "providers" -> ProviderChanges(c)
             [] kind = "reorder"   -> Reorders(c)
             [] kind = "settings"  -> {[c EXCEPT !.set = s] : s \in Settings}
             [] kind = "path"      -> {[c EXCEPT !.path = s] : s \in Selections \ {{}}} : Valid(d)}

Kinds == {"providers", "reorder", "settings", "path"}
Nobody == [pc |-> "idle", kind |-> None, next |-> None, prev |-> None, running |-> FALSE, saved |-> TRUE]
Boot(c) == [Nobody EXCEPT !.pc = "boot", !.next = c, !.prev = c]

----------------------------------------------------------------------------
(* The writer *)

\* An operation takes App.applyMu, reads the configuration and the status.
Begin(kind) ==
    /\ writer = Nobody /\ ~closed
    /\ \E c \in Candidates(kind, memory) :
          writer' = [pc |-> IF status = "running" /\ kind # "path" THEN "apply" ELSE "lock",
                     kind |-> kind, next |-> c, prev |-> memory,
                     running |-> status = "running", saved |-> TRUE]
    /\ UNCHANGED <<managerVars, disk, memory, answer, process>>

\* It returns: the deferred calls release publicationMu and applyMu.
End == writer' = Nobody /\ writing' = FALSE

Move(pc) == writer' = [writer EXCEPT !.pc = pc]

\* A mutant of LockPublication: it is not taken.
LockSkipped ==
    /\ writer.pc = "lock"
    /\ Move(CASE writer.kind = "path" -> "save"
              [] writer.kind = "settings" -> "configure"
              [] OTHER -> "startWith")
    /\ UNCHANGED <<managerVars, disk, memory, answer, process>>

\* Without a running core the publication lock is taken first.
LockPublication ==
    /\ writer.pc = "lock" /\ reading = {} /\ writing' = TRUE
    /\ Move(CASE writer.kind = "path" -> "save"
              [] writer.kind = "settings" -> "configure"
              [] OTHER -> "startWith")
    /\ UNCHANGED <<runtime, watcher, mutex, reading, disk, memory, answer, process>>

\* What each call into the manager asks for.
Ask(op, c, guard) == Request(op, c.provs, c.set, guard, None)
ApplyOp == CASE writer.kind = "providers" -> "apply"
             [] writer.kind = "reorder"   -> "reorder"
             [] writer.kind = "settings"  -> "project"
Call == CASE writer.pc = "apply"     -> Ask(ApplyOp, writer.next, TRUE)
          [] writer.pc = "rollback"  -> Ask(ApplyOp, writer.prev, FALSE)
          [] writer.pc = "startWith" -> Ask("startWith", writer.next, FALSE)
          [] writer.pc = "configure" -> Ask("configure", writer.next, FALSE)
          [] writer.pc = "restore"   -> Ask("configure", writer.prev, FALSE)
          [] writer.pc \in {"start", "boot"} -> Ask("start", writer.next, FALSE)
          [] writer.pc \in {"unstart", "halt"} -> Ask("stop", writer.prev, FALSE)
Calls == {"apply", "rollback", "startWith", "configure", "restore", "start", "boot", "unstart", "halt"}

Enter ==
    /\ writer.pc \in Calls /\ reply = "none"
    /\ Acquire("app", Call, Call.op)
    /\ UNCHANGED <<runtime, watcher, publication, appVars>>

Took(result, pcs) == writer.pc \in pcs /\ reply = result /\ reply' = "none"
Then(pc) == Move(pc) /\ UNCHANGED <<runtime, watcher, lock, job, step, publication, disk, memory, answer, process>>
ThenEnd == End /\ UNCHANGED <<runtime, watcher, lock, job, step, reading, disk, memory, answer, process>>

\* The runtime has the candidate: it can be persisted.
Applied == Took("ok", {"apply", "startWith", "start"}) /\ Then("save")
Configured == Took("ok", {"configure"}) /\ Then("start")

\* A running manager kept what it had, a stopped one was not configured.
ApplyFailed == Took("error", {"apply", "configure"}) /\ ThenEnd

\* restoreStoppedSettings: stop, and configure what is persisted.
StartFailed == Took("error", {"startWith", "start"}) /\ Then("unstart")
Unstarted == Took("ok", {"unstart"}) /\ Then("restore")
Restored == Took("ok", {"restore"}) /\ ThenEnd

\* It failed: after a failed save the data plane is stopped.
NotRestored ==
    /\ Took("error", {"unstart", "restore"})
    /\ IF writer.saved THEN ThenEnd ELSE Then("halt")

RolledBack == Took("ok", {"rollback"}) /\ ThenEnd

\* A mutant of NotRolledBack: the failed rollback is only reported.
NotStopped == Took("error", {"rollback"}) /\ ThenEnd
NotRolledBack == Took("error", {"rollback"}) /\ Then("halt")

Halted == (Took("ok", {"halt"}) \/ Took("error", {"halt"})) /\ ThenEnd
Booted == (Took("ok", {"boot"}) \/ Took("error", {"boot"})) /\ ThenEnd

\* Store.Save: the rename is its last step.
Save ==
    /\ writer.pc = "save" /\ disk' = writer.next /\ Move("commit")
    /\ UNCHANGED <<managerVars, memory, answer, process>>

SaveFailed ==
    /\ "save" \in Faults /\ writer.pc = "save"
    /\ IF writer.kind = "path"
       THEN End
       ELSE /\ writer' = [writer EXCEPT !.pc = IF writer.running THEN "rollback" ELSE "unstart",
                                        !.saved = FALSE]
            /\ UNCHANGED writing
    /\ unsaved' = (unsaved \/ writer.kind = "settings")
    /\ UNCHANGED <<runtime, watcher, mutex, reading, disk, memory, answer, closed>>

Commit ==
    /\ writer.pc = "commit" /\ memory' = writer.next /\ End
    /\ unsaved' = (unsaved /\ writer.kind # "settings")
    /\ UNCHANGED <<runtime, watcher, mutex, reading, disk, answer, closed>>

----------------------------------------------------------------------------
(* Readers, other requests, the process *)

Running == status = "running"

\* The server is listening.
Up == writer.pc # "boot" /\ ~closed

\* RLock waits for a writer that holds or waits for the lock.
WriterWaits == writing \/ writer.pc = "lock" \/ (step = "guard" /\ job.guard)

\* A request of Surge enters ProxiesForToken.
Read(r) ==
    /\ Up /\ r \notin reading /\ ~WriterWaits
    /\ reading' = reading \cup {r}
    /\ UNCHANGED <<runtime, watcher, mutex, writing, appVars>>

\* It returns, and the deferred RUnlock runs.
Leave(r) ==
    /\ reading' = reading \ {r} /\ answer' = [answer EXCEPT ![r] = None]
    /\ UNCHANGED <<runtime, watcher, mutex, writing, disk, memory, writer, process>>

ReadUnavailable(r) == r \in reading /\ answer[r] = None /\ ~Running /\ Leave(r)

ReadConfig(r) ==
    /\ r \in reading /\ answer[r] = None /\ Running
    /\ answer' = [answer EXCEPT ![r] = [config |-> memory, list |-> None]]
    /\ UNCHANGED <<managerVars, disk, memory, writer, process>>

\* The projection is loaded once, and filtered by the path.
Published == IF snapshot = None THEN [provs |-> <<>>, set |-> None] ELSE snapshot
ReadSnapshot(r) ==
    /\ answer[r] # None /\ answer[r].list = None
    /\ answer' = [answer EXCEPT ![r].list = [provs |-> Filter(answer[r].config.path, Published.provs),
                                             set |-> Published.set]]
    /\ UNCHANGED <<managerVars, disk, memory, writer, process>>

ReadDone(r) == answer[r] # None /\ answer[r].list # None /\ Leave(r)

Refresh == Up /\ RefreshAcquire /\ UNCHANGED appVars

\* The server has been shut down; what is still in a handler goes on.
Close == Up /\ CloseAcquire /\ closed' = TRUE /\ UNCHANGED <<disk, memory, writer, answer, unsaved>>

Environment ==
    \/ \E o \in Objects : AsyncAcquire(o)
    \/ PollTry \/ WatchExit

Init ==
    \E c \in Config :
        /\ Valid(c) /\ ManagerInit(Runtime(c))
        /\ disk = c /\ memory = c
        /\ writer = Boot(c) /\ answer = [r \in Readers |-> None]
        /\ closed = FALSE /\ unsaved = FALSE

\* The process dies and is started again with what is on disk (a power loss could
\* bring back an older gateway.json: UpdateTransaction).
Crash ==
    /\ "crash" \in Faults
    /\ options' = Runtime(disk)
    /\ config' = None /\ core' = None /\ ready' = FALSE /\ listener' = None /\ sockets' = {}
    /\ status' = "stopped" /\ snapshot' = None
    /\ watch' = "none" /\ cancelled' = FALSE /\ failing' = {}
    /\ lock' = "free" /\ job' = Idle /\ step' = "none" /\ reply' = "none"
    /\ writing' = FALSE /\ reading' = {}
    /\ memory' = disk /\ UNCHANGED disk
    /\ writer' = Boot(disk) /\ answer' = [r \in Readers |-> None]
    /\ closed' = FALSE /\ unsaved' = FALSE

AppStep ==
    \/ LockPublication \/ Enter \/ Applied \/ Configured \/ ApplyFailed \/ StartFailed
    \/ Unstarted \/ Restored \/ NotRestored \/ RolledBack \/ NotRolledBack \/ Halted \/ Booted
    \/ Save \/ SaveFailed \/ Commit

ReaderStep(r) == ReadUnavailable(r) \/ ReadConfig(r) \/ ReadSnapshot(r) \/ ReadDone(r)

Next ==
    \/ \E k \in Kinds : Begin(k)
    \/ AppStep
    \/ (HolderStep \/ Environment) /\ UNCHANGED appVars
    \/ \E r \in Readers : Read(r) \/ ReaderStep(r)
    \/ Refresh \/ Close \/ Crash

Spec == Init /\ [][Next]_vars

\* Goroutines run, a contended sync.Mutex is handed to the waiter that has waited
\* longest; nobody has to send a request.
Fairness ==
    /\ WF_vars(HolderStep /\ UNCHANGED appVars)
    /\ WF_vars(AppStep) /\ SF_vars(Enter)
    /\ WF_vars(WatchExit /\ UNCHANGED appVars)
    /\ \A o \in Objects : SF_vars(AsyncAcquire(o) /\ UNCHANGED appVars)
    /\ \A r \in Readers : WF_vars(ReaderStep(r))

FairSpec == Spec /\ Fairness

----------------------------------------------------------------------------
TypeOK ==
    /\ ManagerTypeOK
    /\ disk \in Config /\ memory \in Config
    /\ \A r \in Readers : answer[r] # None =>
          /\ answer[r].config \in Config
          /\ answer[r].list # None => answer[r].list \in [provs : Lists, set : Settings \cup {None}]

AtRest == lock = "free" /\ writer = Nobody

\* What Surge is sent lists, in order, the providers its path selects in the
\* configuration that was in force, or nothing when the core was withdrawn
\* while the request was served.
AnswerConsistent ==
    \A r \in Readers : answer[r] # None /\ answer[r].list # None =>
        answer[r].list.provs \in {Filter(answer[r].config.path, answer[r].config.provs), <<>>}

\* Between operations a running core runs the providers gateway.json has, and
\* what it publishes is served by the only listener there is.
ProvidersAgree ==
    /\ writer.pc # "commit" => disk = memory
    /\ AtRest /\ Running =>
        /\ options.provs = memory.provs /\ snapshot = options
        /\ core = config /\ core.provs = Set(memory.provs)
        /\ sockets = {listener} /\ listener = Address[options.set] /\ watch # "none"

\* The same of the settings, which gateway.json alone decides.
SettingsAgree == AtRest /\ Running => options.set = memory.set

\* Only settings that could not be saved make the core run others than the
\* configured ones, and the next settings that are saved put an end to that.
SettingsSaved == ~unsaved => SettingsAgree

\* Once nothing holds the manager, a core without listener has left nothing
\* behind: no socket, no watcher, and no state in which it is published.
NothingLeft ==
    lock = "free" /\ listener = None => sockets = {} /\ watch = "none" /\ ~Running

\* Whenever a reader may look, the nodes it sees are those of the core that
\* runs, at an address that is bound.
ServedWhilePublic ==
    ~writing /\ Running /\ snapshot # None =>
        core.provs = Set(snapshot.provs) /\ Address[snapshot.set] \in sockets

\* A failure of one configuration never tears down another one.
StaleFailureHarmless ==
    [][step = "failure" /\ step' = "drain" => config # None /\ config.id = job.blame]_vars

\* Every operation returns: no lock, watcher or reader holds it for ever.
OperationsEnd == writer # Nobody ~> writer = Nobody

\* A configuration that was found to violate an invariant does not run on.
FailuresAct == \A o \in Objects : o \in failing ~> core = None \/ core.id # o

\* The configurations the operations can reach, and the list of each.
ValidConfig == {c \in Config : Valid(c)}
Operations == {o \in ValidConfig \X ValidConfig : \E kind \in Kinds : o[2] \in Candidates(kind, o[1])}
Offers == [c \in ValidConfig |-> Filter(c.path, c.provs)]

\* The gateway implements what it promises about its configuration: every
\* operation and every answer takes effect at one instant (app.go,
\* policy_paths.go), and gateway.json is what survives a crash.
Promise == INSTANCE AtomicConfiguration WITH
    Configurations <- ValidConfig,
    config <- disk,
    asked  <- IF writer.pc \in {"idle", "boot"} THEN {} ELSE {writer.next},
    sent   <- [r \in Readers |-> IF answer[r] = None \/ answer[r].list = None
                                 THEN {} ELSE {answer[r].list.provs}]
ChangesAreAtomic == Promise!Spec
=============================================================================
