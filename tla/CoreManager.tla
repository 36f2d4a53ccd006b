----------------------------- MODULE CoreManager -----------------------------
(***************************************************************************)
(* The manager of the embedded core (internal/mihomo/manager.go and        *)
(* provider_refresh.go).                                                   *)
(*                                                                         *)
(* Every operation runs under Manager.applyMu.  The goroutine that holds   *)
(* the lock is `lock', what it was asked is `job', and where it is in the  *)
(* operation is `step'.  The App (GatewayCommit), the watcher, the         *)
(* goroutines of failClosedAsync, a refresh request and Close compete for  *)
(* the lock.                                                               *)
(*                                                                         *)
(* What is abstracted: a provider definition is its identity, the settings *)
(* are a model value with a listening address, a projection is the list of *)
(* definitions and the settings it was built from; the content of a        *)
(* subscription is not looked at.                                          *)
(***************************************************************************)
EXTENDS Naturals, Sequences, FiniteSets

CONSTANTS
    Providers,      \* provider identities
    Settings,       \* values of the settings: binding, host, key, DNS
    Address,        \* [Settings -> addresses], SocksBind and SocksPort
    Objects,        \* identities of Config objects (Go pointers)
    Readers,        \* goroutines that serve GET /proxies
    None            \* nil

\* Objects bounds how many failures can be queued: one is kept for the running
\* configuration and one for its successor.
ASSUME ObjectsAssumption == IsFiniteSet(Objects) /\ Cardinality(Objects) >= 3
ASSUME ProvidersAssumption == IsFiniteSet(Providers)
ASSUME AddressAssumption == DOMAIN Address = Settings /\ \A s \in Settings : Address[s] # None

\* The orders in which a set of providers can be configured.
Lists == {l \in UNION {[1 .. n -> Providers] : n \in 0 .. Cardinality(Providers)} :
            \A i, j \in DOMAIN l : l[i] = l[j] => i = j}
Set(list) == {list[i] : i \in DOMAIN list}

VARIABLES
    options,        \* m.options: the providers and the settings
    config,         \* m.config
    core,           \* the configuration the tunnel runs
    ready,          \* m.coreReady
    listener,       \* m.listener, by its address
    sockets,        \* addresses with a bound SOCKS listener
    status,         \* m.status.State
    snapshot,       \* m.store: the published projection, None when empty
    watch,          \* the goroutine of watchProviders
    cancelled,      \* its context is cancelled
    failing,        \* goroutines of failClosedAsync, by the object they blame
    lock, job, step, reply,
    writing,        \* App.publicationMu is held for writing
    reading         \* and for reading, by these readers

runtime == <<options, config, core, ready, listener, sockets, status, snapshot>>
watcher == <<watch, cancelled, failing>>
mutex == <<lock, job, step, reply>>
publication == <<writing, reading>>
managerVars == <<runtime, watcher, mutex, publication>>

Callers == {"app", "watcher", "failure", "refresh", "close"}
Ops == {"apply", "reorder", "project", "start", "startWith", "configure", "stop",
        "refresh", "poll", "failure"}
Option == [provs : Lists, set : Settings]
Object == [id : Objects, provs : SUBSET Providers]
\* A request: its definitions and settings, whether it carries the callback
\* beforeCommit, the object it blames, and the listener it has to close.
Request(op, provs, set, guard, blame) ==
    [op |-> op, provs |-> provs, set |-> set, guard |-> guard, blame |-> blame, old |-> None]
Idle == Request("none", <<>>, None, FALSE, None)

\* A Config object that nothing refers to.
Fresh == {o \in Objects : /\ o \notin failing
                          /\ \A c \in {config, core} : c # None => c.id # o}

----------------------------------------------------------------------------
(* applyMu *)

\* A goroutine enters an operation.
Acquire(who, request, first) ==
    /\ lock = "free"
    /\ lock' = who /\ job' = request /\ step' = first
    /\ reply' = IF who = "app" THEN "pending" ELSE reply

\* It leaves with a result; only the App looks at it.
Return(result) ==
    /\ lock' = "free" /\ job' = Idle /\ step' = "none"
    /\ reply' = IF lock = "app" THEN result ELSE reply

Goto(next) == step' = next /\ UNCHANGED <<lock, job, reply>>

Refuse == Return("error") /\ UNCHANGED <<runtime, watcher, publication>>

----------------------------------------------------------------------------
(* ApplyProviders, ReorderProviders, ApplyProjectionSettings *)

\* Not running, or the candidate cannot be built, downloaded or projected.
ApplyRefused == step = "apply" /\ Refuse

ApplyPrepared ==
    /\ step = "apply" /\ listener # None
    /\ Goto("guard") /\ UNCHANGED <<runtime, watcher, publication>>

ReorderRefused == step = "reorder" /\ Refuse

ReorderPrepared ==
    /\ step = "reorder" /\ listener # None /\ config # None
    /\ Goto("guard") /\ UNCHANGED <<runtime, watcher, publication>>

ProjectRefused == step = "project" /\ Refuse

\* A changed address is bound before anything is modified.
ProjectPrepared ==
    /\ step = "project" /\ listener # None /\ config # None
    /\ IF Address[job.set] = Address[options.set] THEN UNCHANGED sockets
       ELSE /\ Address[job.set] \notin sockets
            /\ sockets' = sockets \cup {Address[job.set]}
    /\ Goto("guard")
    /\ UNCHANGED <<options, config, core, ready, listener, status, snapshot, watcher, publication>>

\* A mutant of BeforeCommit: the App is not called back.
Unguarded ==
    /\ step = "guard" /\ Goto("commit")
    /\ UNCHANGED <<runtime, watcher, publication>>

\* beforeCommit: the App takes its publication lock, once the readers are out.
BeforeCommit ==
    /\ step = "guard"
    /\ IF job.guard THEN reading = {} /\ writing' = TRUE ELSE UNCHANGED writing
    /\ Goto("commit") /\ UNCHANGED <<runtime, watcher, reading>>

\* The commit of the provider caches failed; they are rejected.
ApplyUncommitted ==
    /\ step = "commit" /\ job.op = "apply"
    /\ Return("error") /\ UNCHANGED <<runtime, watcher, publication>>

\* The core runs the candidate (replaceProviderConfig), then it is published.
ApplyReplace ==
    /\ step = "commit" /\ job.op = "apply"
    /\ \E o \in Fresh : core' = [id |-> o, provs |-> Set(job.provs)]
    /\ Goto("publish")
    /\ UNCHANGED <<options, config, ready, listener, sockets, status, snapshot, watcher, publication>>

ApplyPublish ==
    /\ step = "publish" /\ job.op = "apply"
    /\ snapshot' = [provs |-> job.provs, set |-> options.set]
    /\ config' = core /\ options' = [options EXCEPT !.provs = job.provs]
    /\ status' = "running" /\ Return("ok")
    /\ UNCHANGED <<core, ready, listener, sockets, watcher, publication>>

\* A new order: the providers of the core stay as they are.
ReorderPublish ==
    /\ step = "commit" /\ job.op = "reorder"
    /\ snapshot' = [provs |-> job.provs, set |-> options.set]
    /\ options' = [options EXCEPT !.provs = job.provs]
    /\ Return("ok")
    /\ UNCHANGED <<config, core, ready, listener, sockets, status, watcher, publication>>

\* New settings: publish, start the new listener, close the old one.
ProjectPublish ==
    /\ step = "commit" /\ job.op = "project"
    /\ snapshot' = [provs |-> options.provs, set |-> job.set]
    /\ listener' = Address[job.set]
    /\ step' = "closeOld" /\ job' = [job EXCEPT !.old = listener]
    /\ UNCHANGED <<options, config, core, ready, sockets, status, watcher, publication, lock, reply>>

ProjectCloseOld ==
    /\ step = "closeOld"
    /\ sockets' = IF job.old = listener THEN sockets ELSE sockets \ {job.old}
    /\ options' = [options EXCEPT !.set = job.set]
    /\ Return("ok")
    /\ UNCHANGED <<config, core, ready, listener, status, snapshot, watcher, publication>>

----------------------------------------------------------------------------
(* Start, StartWithProviders, ConfigureWhenStopped *)

StartRefused == step \in {"start", "startWith", "configure"} /\ listener # None /\ Refuse

StartWithProviders ==
    /\ step = "startWith" /\ listener = None
    /\ options' = [options EXCEPT !.provs = job.provs]
    /\ Goto("start")
    /\ UNCHANGED <<config, core, ready, listener, sockets, status, snapshot, watcher, publication>>

\* The providers cannot be built or initialised: whatever core there is stays.
StartUnprepared ==
    /\ step = "start" /\ listener = None
    /\ status' = "error" /\ Return("error")
    /\ UNCHANGED <<options, config, core, ready, listener, sockets, snapshot, watcher, publication>>

StartReplace ==
    /\ step = "start" /\ listener = None
    /\ status' = "starting"
    /\ \E o \in Fresh : core' = [id |-> o, provs |-> Set(options.provs)]
    /\ Goto("validate")
    /\ UNCHANGED <<options, config, ready, listener, sockets, snapshot, watcher, publication>>

\* fail, shutdownCore and releaseOwnership after the core was replaced.
StartAbandon ==
    /\ core' = None /\ config' = None /\ ready' = FALSE /\ status' = "error"
    /\ Return("error") /\ UNCHANGED <<options, listener, watcher, publication>>

\* Private files or runtime invariants: nothing was published yet.
StartInvalid == step = "validate" /\ StartAbandon /\ UNCHANGED <<sockets, snapshot>>

\* The projection or the commit of the caches.
StartUncommitted == step = "validate" /\ StartAbandon /\ snapshot' = None /\ UNCHANGED sockets

StartPublish ==
    /\ step = "validate"
    /\ snapshot' = options /\ ready' = TRUE /\ config' = core
    /\ Goto("listen")
    /\ UNCHANGED <<options, core, listener, sockets, status, watcher, publication>>

\* The port is taken: the core is kept for the next attempt.
StartUnbound ==
    /\ step = "listen"
    /\ snapshot' = None /\ status' = "error" /\ Return("error")
    /\ UNCHANGED <<options, config, core, ready, listener, sockets, watcher, publication>>

StartBind ==
    /\ step = "listen" /\ Address[options.set] \notin sockets
    /\ sockets' = sockets \cup {Address[options.set]}
    /\ Goto("authenticate")
    /\ UNCHANGED <<options, config, core, ready, listener, status, snapshot, watcher, publication>>

\* validateSOCKSAuthenticationRuntime
StartUnauthenticated ==
    /\ step = "authenticate" /\ StartAbandon
    /\ sockets' = sockets \ {Address[options.set]} /\ snapshot' = None

StartRun ==
    /\ step = "authenticate"
    /\ listener' = Address[options.set] /\ status' = "running"
    /\ watch' = "waiting" /\ cancelled' = FALSE
    /\ Return("ok")
    /\ UNCHANGED <<options, config, core, ready, sockets, snapshot, failing, publication>>

\* A mutant of ConfigureWhenStopped: only the providers are restored.
ConfigureProviders ==
    /\ step = "configure" /\ listener = None
    /\ options' = [provs |-> job.provs, set |-> options.set] /\ Return("ok")
    /\ UNCHANGED <<config, core, ready, listener, sockets, status, snapshot, watcher, publication>>

ConfigureWhenStopped ==
    /\ step = "configure" /\ listener = None
    /\ options' = [provs |-> job.provs, set |-> job.set] /\ Return("ok")
    /\ UNCHANGED <<config, core, ready, listener, sockets, status, snapshot, watcher, publication>>

----------------------------------------------------------------------------
(* Stop and failClosedLocked *)

\* The fields are withdrawn at once; the goroutine and the listener follow.
Withdraw(state) ==
    /\ listener' = None /\ config' = None /\ ready' = FALSE /\ status' = state
    /\ cancelled' = (watch # "none")
    /\ step' = "drain" /\ job' = [job EXCEPT !.old = listener]
    /\ UNCHANGED <<options, core, sockets, snapshot, watch, failing, lock, reply, publication>>

Stop == step = "stop" /\ Withdraw("stopping")

\* A mutant of Drained: nobody waits for the watcher.
Undrained == step = "drain"

\* <-done: the watcher has returned.
Drained == step = "drain" /\ watch = "none"

\* Close the listener, empty the projection, shut the core down.
Dismantle(state, results) ==
    /\ Drained
    /\ sockets' = sockets \ {job.old} /\ snapshot' = None /\ core' = None /\ status' = state
    /\ \E r \in results : Return(r)
    /\ UNCHANGED <<options, config, ready, listener, watcher, publication>>

\* Stop reports what closing the listener reports.
StopFinish ==
    /\ job.op = "stop"
    /\ Dismantle("stopped", IF job.old = None THEN {"ok"} ELSE {"ok", "error"})

FailFinish == job.op # "stop" /\ Dismantle("error", {"error"})

\* A runtime invariant of a prepared candidate is violated.
ApplyInvalid == step = "commit" /\ job.op = "apply" /\ Withdraw("error")

----------------------------------------------------------------------------
(* The watcher, refresh requests, failClosedAsync *)

\* A mutant of Current: whatever runs now is to blame.
CurrentAny == listener # None

\* The configuration that failed is the one that runs.
Current == listener # None /\ config # None /\ config.id = job.blame

\* The cleanup that was queued behind the lock.
AsyncCurrent == step = "failure" /\ Current /\ Withdraw("error")

AsyncStale ==
    /\ step = "failure" /\ ~Current
    /\ Return("ok") /\ UNCHANGED <<runtime, watcher, publication>>

\* A mutant of AsyncAcquire: a busy lock makes the goroutine give up.
AsyncGiveUp(o) ==
    /\ o \in failing /\ failing' = failing \ {o}
    /\ UNCHANGED <<runtime, watch, cancelled, mutex, publication>>

AsyncAcquire(o) ==
    /\ o \in failing
    /\ Acquire("failure", Request("failure", options.provs, options.set, FALSE, o), "failure")
    /\ failing' = failing \ {o}
    /\ UNCHANGED <<runtime, watch, cancelled, publication>>

\* A tick: TryLock gets the lock, or the tick is skipped.
PollTry ==
    /\ watch = "waiting" /\ watch' = "polling"
    /\ Acquire("watcher", Request("poll", options.provs, options.set, FALSE, None), "poll")
    /\ UNCHANGED <<runtime, cancelled, failing, publication>>

\* Nothing changed, or the change was rejected.
PollNothing ==
    /\ step = "poll" /\ watch' = "waiting" /\ Return("ok")
    /\ UNCHANGED <<runtime, cancelled, failing, publication>>

PollPublish ==
    /\ step = "poll" /\ config # None
    /\ snapshot' = options /\ watch' = "waiting" /\ Return("ok")
    /\ UNCHANGED <<options, config, core, ready, listener, sockets, status, cancelled, failing, publication>>

\* A mutant of PollFail: the watcher cleans up itself, and waits for itself.
PollFailInline == step = "poll" /\ config # None /\ Withdraw("error")

\* Private files are exposed: cleanup is left to another goroutine.
PollFail ==
    /\ step = "poll" /\ config # None
    /\ Cardinality(failing \cup {config.id}) < Cardinality(Objects) - 1
    /\ failing' = failing \cup {config.id} /\ watch' = "waiting" /\ Return("ok")
    /\ UNCHANGED <<runtime, cancelled, publication>>

WatchExit ==
    /\ watch = "waiting" /\ cancelled /\ watch' = "none" /\ cancelled' = FALSE
    /\ UNCHANGED <<runtime, failing, mutex, publication>>

RefreshAcquire ==
    /\ Acquire("refresh", Request("refresh", options.provs, options.set, FALSE, None), "refresh")
    /\ UNCHANGED <<runtime, watcher, publication>>

\* Not running, unknown, or the download or its projection was rejected.
RefreshRefused == step = "refresh" /\ Refuse

RefreshPublish ==
    /\ step = "refresh" /\ config # None
    /\ snapshot' = options /\ Return("ok")
    /\ UNCHANGED <<options, config, core, ready, listener, sockets, status, watcher, publication>>

RefreshFail == step = "refresh" /\ config # None /\ Withdraw("error")

CloseAcquire ==
    /\ Acquire("close", Request("stop", options.provs, options.set, FALSE, None), "stop")
    /\ UNCHANGED <<runtime, watcher, publication>>

----------------------------------------------------------------------------
\* A step of the goroutine that holds the lock.
HolderStep ==
    \/ ApplyRefused \/ ApplyPrepared \/ ApplyInvalid \/ ApplyUncommitted \/ ApplyReplace \/ ApplyPublish
    \/ ReorderRefused \/ ReorderPrepared \/ ReorderPublish
    \/ ProjectRefused \/ ProjectPrepared \/ ProjectPublish \/ ProjectCloseOld
    \/ BeforeCommit
    \/ StartRefused \/ StartWithProviders \/ StartUnprepared \/ StartReplace \/ StartInvalid
    \/ StartUncommitted \/ StartPublish \/ StartUnbound \/ StartBind \/ StartUnauthenticated \/ StartRun
    \/ ConfigureWhenStopped
    \/ Stop \/ StopFinish \/ FailFinish
    \/ AsyncCurrent \/ AsyncStale
    \/ PollNothing \/ PollPublish \/ PollFail
    \/ RefreshRefused \/ RefreshPublish \/ RefreshFail

ManagerInit(o) ==
    /\ options = o
    /\ config = None /\ core = None /\ ready = FALSE /\ listener = None /\ sockets = {}
    /\ status = "stopped" /\ snapshot = None
    /\ watch = "none" /\ cancelled = FALSE /\ failing = {}
    /\ lock = "free" /\ job = Idle /\ step = "none" /\ reply = "none"
    /\ writing = FALSE /\ reading = {}

ManagerTypeOK ==
    /\ options \in Option
    /\ config \in Object \cup {None} /\ core \in Object \cup {None}
    /\ ready \in BOOLEAN
    /\ listener \in {Address[s] : s \in Settings} \cup {None}
    /\ sockets \subseteq {Address[s] : s \in Settings}
    /\ status \in {"stopped", "starting", "running", "stopping", "error"}
    /\ snapshot \in Option \cup {None}
    /\ watch \in {"none", "waiting", "polling"} /\ cancelled \in BOOLEAN
    /\ failing \subseteq Objects
    /\ lock \in Callers \cup {"free"}
    /\ reply \in {"none", "pending", "ok", "error"}
    /\ writing \in BOOLEAN /\ reading \subseteq Readers
=============================================================================
