# Formal model of surge-external-bridge

SurgeEB serves Surge "policy paths" over HTTP and forwards the traffic of each
listed node through an embedded mihomo core. It owns one data directory
(`gateway.json`, provider caches, update journal), one management HTTP server
and one SOCKS listener, and it can replace its own executable.

This directory holds TLA+ models of the parts whose correctness depends on the
order of steps: of goroutines, of processes, of file operations, and of crashes
between them. TLC checks small instances; TLAPS proves the central results for
every instance.

## Inventory

| component | state | operations | interacts with | what is hard |
|---|---|---|---|---|
| self-update (`internal/update`, guard in `cmd/surgeeb`, gate in `internal/management/update.go`) | journal phase, executable and its `.previous`, `gateway.json` and its backup, three file locks | prepare, worker, transaction, rollback, `update recover`, startup guard | service manager, serving instance, operator | crashes between any two file operations, processes already on their way, locks that belong to an inode |
| gateway application (`internal/gateway/app.go`, `store.go`, `policy_paths.go`, `provider_upload.go`) | configuration in memory and on disk, publication lock, uploads | apply configuration, reorder, patch settings, policy paths, publish | mihomo manager, store, management handlers, Surge clients | a commit that spans disk, memory and a running core; rollback after a failed save; readers in between |
| core manager (`internal/mihomo/manager.go`) | lifecycle state, core, listener, snapshot, watcher | start, stop, apply, refresh, poll, health check, fail closed | gateway application, core, listener | the watcher races every operation; partial failures of start and apply |
| provider transaction (`internal/mihomo/provider_filter.go`, `provider_hosts.go`, `provider_refresh.go`) | staged and accepted proxies, cache file and accepted copy | sync, prepare, accept, reject, commit, rollback | subscription servers, projection | several providers commit together, crash between their renames, poll overlapping a change |
| SOCKS listener (`internal/mihomo/socks_listener.go`) | connections, UDP associations, admission counters | accept, associate, datagram, expire, close | clients, core | association registered, attached, expired and closed by different goroutines; limits |
| projection (`projection.go`) | identities, display names, routes | build, verify, route | provider transaction, listener | uniqueness of names and routes |
| management HTTP (`internal/management`) | listener address, sessions, streams | rebind, update settings, mutations, live data | gateway application | two settings requests, rebind after a committed configuration |
| policy-path tokens and uploads (`policy_paths.go`, `provider_upload.go`) | tokens of the paths, directory of uploads | add, edit, rotate, delete; store, discard, clean at startup | management HTTP, self-update | edits from an old page, files of requests that fail or never end, a rollback that needs old files |
| health probes, node DNS (`probe.go`, `node_dns*.go`) | task table, resolver settings | probe, resolve, diagnose | core | cancellation |
| service installer (`internal/service`) | launchd / systemd definitions | install, control, resolve update target | operating system | commands of the service manager |
| release download (`internal/update/release.go`) | cached release | check, download, verify | release server | none of the order of steps |
| release tools and web interface (`cmd/releasegen`, `frontend`, `internal/webassets`) | none at run time | build a release, render pages | GitHub, browser | none of the above |

### What makes each component correct

- *Self-update*: an update installs its candidate or leaves the old release and
  its configuration; no accepted management write is lost, except to a power
  loss outside an update; nothing serves while
  files are replaced; an executable in use is not replaced; every interrupted
  update can be recovered; the journal tells the truth.
- *Gateway application*: what a Surge client is given always pairs one
  configuration with the proxies the core runs for it; after every operation,
  failed or not, disk, memory and core agree or the data plane is stopped.
- *Core manager*: at most one core and one listener; a core that violates its
  invariants is shut down and what it published is withdrawn; a stop waits for
  the watcher and cannot deadlock with it.
- *Provider transaction*: either all changed providers commit or none; a
  rejected subscription leaves the accepted proxies and cache in place; after a
  crash each cache file is one that was accepted.
- *SOCKS listener*: associations and handshakes stay within their limits, a
  datagram goes to the association of its endpoint or nowhere, and after a close
  nothing more is relayed.
- *Projection*: display names are unique; a line that Surge keeps works as long
  as the projection key and the names it is made from stay, and then reaches the
  same node.
- *Management HTTP*: the address that is listened on is the configured one.
- *Tokens and uploads*: a token that was given up opens nothing again; the files
  of the configuration, and of one that may come back, are there, and no other
  file is forgotten.

## Modules

A module that is proved about declares no RECURSIVE operator; parameters are
constants with named assumptions; an operation is an action, or one action for
each step at which another goroutine or process can come in between.

| modules | composes | abstract specification | state |
|---|---|---|---|
| `AtomicUpdate`, `UpdateTransaction`, `UpdateInvariant`, `UpdateTransactionProofs` | journal, files, locks, service, writes, guard | `AtomicUpdate`: an update keeps the old release or installs the new one, and says which | checked and proved |
| `AtomicConfiguration`, `CoreManager`, `GatewayCommit`, `GatewayCommitProofs` | manager under the gateway, with a reader of the publication | `AtomicConfiguration`: a change takes effect at one instant or never, and so does an answer | checked and proved |
| `SocksAssociations`, `SocksAssociationsProofs` | limiter, registry, loops | none: the registry is its own promise | checked and proved |
| `AtomicPublication`, `ProviderTransaction`, `ProviderTransactionProofs`, `PublicationProofs` | providers, their caches, files, poll, change | `AtomicPublication`: what is published was checked as a whole, and takes effect with its copies at one instant | checked and proved |
| `Projection`, `ProjectionProofs` | identities, names, filters, verification and routing | none | checked and proved |
| `Management`, `ManagementProofs` | requests, tokens, uploads, listener, the gate of the self-update | none | checked and proved |
| `SequenceLemmas` | induction and recursion over numbers, lengths of sequences; used by the proofs of the gateway and the projection | | proved |

Where two modules meet, one of them holds the other's part as a single step:
`Management` takes a change of the configuration as one step, which is what
the refinement of `AtomicConfiguration` shows it to be, and takes an
update as `Try`, `RollBack` and `Decide`; `GatewayCommit` takes the preparation
of providers as one choice, whose steps are `ProviderTransaction`;
`ProviderTransaction` takes the joint check as a relation between contents,
whose computation is `Projection`.

## Self-update: `UpdateTransaction`

State: the journal (`phase`, and `job`, what it was written for), the files
(`target`, `previous`, `config`, `backup`, and `survivors`, what a power loss may
leave of `gateway.json`), the updater (`pc`, `wPhase`, its
phase in memory, `mode`, `plan`), the instance and a starter between the checks
of `main.go` (`inst`, `boot`), writes in flight and acknowledged (`writing`,
`acked`), the service and its registration, the users of the executable lock.
A release is its number; a configuration is its revision and schema.

The actions follow `transaction.go` line by line: one for each file operation,
journal write and service call, with its error path. `Crash` ends the updater
anywhere and keeps the files. The startup guard of `main.go` is four actions,
because a transaction can begin between any two of them. Operator stops, other
instances that use the executable, and somebody who replaces it are actions of
the environment.

`Store.Save` renames `gateway.json` and does not sync the directory, so that a
power loss brings back any of the configurations since the last sync (`Renamed`,
`PowerLoss`): acknowledged writes may be gone. The files of an update and the
record of a started instance (`RegisterInstance`) are written by `atomicWrite`
into the same directory, which does sync it (`Synced`). That is why
`NoLostWrite` holds even against a power loss from the moment an update is
prepared until it ends or is recovered: the journal's first write makes every
write before it durable, and the gate admits none after it. Journal, backup and
executables are synced where they are written. After a journal write whose sync
fails (`LateErrors`), the model keeps the new journal also through a power loss.

`AtomicUpdate` is the abstract specification: a release stays or is replaced by
the candidate, and no write is accepted or lost meanwhile; at other times a power
loss may take back the last ones. `UpdateTransaction` implements it under the
mapping `Promise`.

`UpdateInvariant` states the inductive invariant and `UpdateTransactionProofs`
proves it. The properties alone are not inductive: `NoLostWrite`, for example,
holds after a rollback only because the backup has the revision the journal was
prepared with (`BackupInv`), which holds only because no write went in since
(`WriteInv`), which needs that an updater at a given point has a journal that
freezes writes (`ControlInv`). `DurableInv` says that what a power loss may leave
is never ahead of what was acknowledged, and equal to it while writes are frozen.

## Gateway and core manager: `CoreManager`, `GatewayCommit`

`CoreManager` is `manager.go` and `provider_refresh.go`: `options`, `config`,
`core`, `listener`, `sockets`, `status`, `snapshot` are the fields of `Manager`
and the effects they have; `lock`, `job`, `step`, `reply` say who holds `applyMu`
and where it is. An operation is split where another goroutine can see it: after
the refusals, after the preparation, around the `beforeCommit` callback (which
waits for readers), after the replacement of the core, after the publication.
The watcher polls under `TryLock` (`PollTry`), and queues what it finds as a
goroutine of `failClosedAsync`, which identifies the configuration it blames by
pointer (`Objects`). `Stop` and `failClosedLocked` wait for the watcher while
they hold the lock (`Drained`).

`GatewayCommit` adds `App`: `disk`, `memory`, the `writer` inside `App.applyMu`,
the readers of a policy path with their read lock (`answer`), `Save`, `Commit`
and every rollback path of `applyConfig`, `UpdateSettingsPatch` and
`ReorderProviders`, `Crash` with `Boot`, and `Close`.

`unsaved` is auxiliary: settings were applied that could not be saved, and
`SettingsSaved` says that nothing else makes the core run other settings than
the configured ones.

Left out: health-check tasks and refresh schedules; `Manager`'s claim on the
process-wide core (there is one manager); disabled providers, which
`definitions()` skips (`provs` are the enabled ones); a power loss. `Crash` is the
end of the process, after which what `Save` renamed is there; a power loss may
bring back the `gateway.json` before the last saves, since `Save` does not sync
the directory, and `UpdateTransaction` models that. The content of subscriptions is one choice here, the
preparation succeeds or fails; `ProviderTransaction` opens it up.

`AtomicConfiguration` says what all this is for, with three variables: the
configuration in force, the one an operation wants in its place, and for each
reader the list it is about to send. The configuration is replaced at one
instant by what the operation made of it, while nobody is about to send what was
chosen from the old one; or it is not replaced; a crash leaves the one or the
other. `ChangesAreAtomic` maps the configuration in force to `gateway.json`
(`disk`): the instant is the rename in `Save`, although the core runs the
candidate before it and `App.config` has it after it. So an answer, which is
made of `App.config` and of the projection at two different moments, is the list
of the durable configuration (`AnswerConsistent` says the same of what the
reader remembers; it follows).

The promise allows an empty answer: `failClosedLocked` empties the projection
without the publication lock, so a reader between its status check and its look
at the projection sends an empty list with status 200.

`GatewayCommitProofs` proves the seven properties of the run and
`AnswerConsistent` from one invariant, `IInv`.
Its part about the manager says for each step of each operation what listener,
sockets, core, watcher and projection have to do with each other: a core without
listener has no watcher (`Watching`), between the replacement of the core and
the publication the projection is still that of the core before (`Serving`).
Its part about the application says what the writer knows of the manager at each
point: the request the manager works on is the writer's (`Asking`), whoever has
`publicationMu` for writing has no reader beside him (`Locked`), providers and
settings of the manager are those of the disk, of memory or of the change in
progress (`ProvidersKept`, `SettingsKept`). None of the properties is inductive
alone: that a rollback restores what readers see needs that the manager still
had the providers of before or of the change, whatever the watcher, a refresh or
a shutdown did since. `Answers` relates what a reader holds to the
configuration, and rests on `FilterSelects`: the loop of
`FilterPolicyPathEntries` returns exactly the selected entries in their order.
There is one lemma for each action and part of the state. The refinement needs
one more invariant, `AllValid`: what is saved, remembered or asked for passed
`validatePolicyPaths`. Its steps are those of the writer and the readers; the
manager's are stutters, since the promise does not mention it.

## SOCKS listener: `SocksAssociations`

A client is one TCP connection and one UDP socket. `pc` is where `handleTCP` is
for that connection, `byID` and `byEndpoint` are the registry's maps, `active`
and `byIP` the limiter's counters, `packet` the datagram `acceptUDP` holds.
Each critical section of the two mutexes is an action; `add`, `attachControl`
and `remove` are three of them, because expiry and `Close` come in between.
`expire` is reached by time only for an association whose control connection is
attached (`Age`): five minutes do not pass between two statements. After CONNECT
a connection belongs to the core and is `done`.

`SocksAssociationsProofs` proves, for all clients, hosts and limits, that the
maps agree, that the counters count, and that a binding is final. The inductive
invariant adds that only a connection between `add` and `remove` is registered
(`Located`), without which `add` could overwrite an association. For
`NoOrphans` it adds that an association between `add` and `attachControl` does
not age.

## Provider transaction: `ProviderTransaction`

`inst.live` are the running `filteredProxyProvider`s, `inst.next` those of a
candidate configuration. An instance has the native provider's version and
content, and `state`, `staged` and `rejected` as in the code. `path` and
`accepted` are the native cache file of a subscription and its accepted copy,
`file` the file of a file provider, which others write. `job` is the operation
that holds `applyMu` (`refresh`, `poll`, `start`, `apply`) and `tx` its
`providerStateTransaction`: for each entry what is renamed in and what was there
before. Each download, each rename and each step back is an action, because a
crash, a failing disk, a file that changes or the native watcher (`Watch`) can
come in between. `Capture` is `captureVersionsLocked`, which asks each provider
for its version and thereby stages what its watcher has loaded meanwhile
(finding 4).

A content stands for the nodes and the hosts of one version. The two are loaded
separately: the nodes by the native provider, the hosts from the file at the
cache path after it. A native provider does not write a content again whose hash
it has loaded already, so `Left` says what is at the path then, which may be
something else. `Unparsable` contents have hosts that are refused; `Clashing` are the sets that two providers cannot
have together, whatever the reason (`buildProviderHostResolver`,
`BuildProjection`).

Left out: a file provider may parse nodes of one version and hosts of another,
when the file changes between the two reads; two subscriptions with one URL,
which share a native cache; the listener that a start opens, which is
`CoreManager`'s; a power loss (`Crash` is the end of the process; the renames of
accepted copies are not synced with their directory either, and what a power loss
leaves of them is not modelled).

`AtomicPublication` is the promise of all this, with three variables: the view
that is in force, the copies kept of its subscriptions, and whether these copies
are `whole`. A view of all providers is published as a whole, at one instant
together with its copies, or not at all, and nodes and hosts of a subscription
in it are of one version (`Unmixed`); after a stop it is made of what was
kept. In `PublicationsAreAtomic` the instant is `Publish`, although the accepted
copies are renamed one by one before it: `Kept` shows of an unfinished commit
what was there before (`tx[p].old`), which is what a rollback puts back. A crash
between two renames, or a restoration that fails, is the step `Tear`, after which
the copies are a mixture of two views, and on record as such (`torn`).

`ProviderTransactionProofs` proves four of the properties of the run and
`CachesSurvive`, which says of the copies between operations what the refinement
says of every state. The invariant says where
an operation is and on which instances (`Phase`), that what is no longer to do of
a candidate configuration was loaded and staged from its own cache
(`Candidates`), that each version of a running subscription was staged or
rejected at once (`Subscriptions`), that the view of the operation is the one
that was checked (`InForce`), that the transaction has an entry for every
candidate and its renames are on record (`Transaction`), and that accepted copies
other than the renamed ones are what was last published (`Caches`).
`NoneForgotten` needs that versions only grow and that the recorded one is the
accepted one, `RestartsWithLast` that an instance which waits to be published has
the content that was loaded from the accepted copy.

`PublicationProofs` proves the refinement. `Caches` says nothing any more once
`torn` holds, but `AtomicPublication` promises something then too: every copy is
of the view before or of a checked one, and the next publication is made of what
was kept. So the invariant is strengthened by `KInv`: the hosts of a state are
parsed (`AllSound`); that they are of the same content as its nodes is a part of
`Caches`, which holds only as long as no cache was replaced under a waiting
candidate; a native cache holds what its provider has loaded, or the accepted
copy (`CachesFollow`); a start or an apply loads what was kept (`Rebuilt`); what
is renamed in is of the checked view or was there before (`Renames`). There is
one lemma per action for `KInv` and one for the step it is mapped to; most are
stutters.

Three things they show beside the properties. After a failed commit, or a clash
that was resolved elsewhere, the rejected version stays rejected, and a refresh
that downloads the same content does not stage it again until the subscription
changes.

The second is `torn`: `CachesSurvive` and `RestartsWithLast` exclude, and
`AtomicPublication` has as the steps `Tear` and `Overtake`, what follows a
half-done commit whose rollback failed or that a crash interrupted, and a
restored cache under a candidate that still waits (a copy failed, then an apply
was given up): the publication then commits the restored cache with the newer
nodes, and a restart serves older ones, although README.md speaks of the cache of
the last success.

The third is that in the same situation a refresh can publish a mixture. A poll
downloads two subscriptions; copying the cache of the first for its acceptance
fails, which rejects the first only, and the second still waits; an apply puts
the accepted copies back at the cache paths and is given up. A refresh that
downloads the same content of the second again loads its hosts from the restored
cache (provider_filter.go:98, provider_hosts.go:286) and publishes new nodes with
old hosts, although the comment at provider_filter.go:41 says that they are
committed as a single version. TLC finds the state when it is asked for (two
subscriptions, two contents, a disk that fails, and the invariant that
`published[p].proxies = published[p].hosts` while the gateway runs); the promise
has it behind `Overtake`.

## Projection: `Projection`

`BuildProjection` is translated as operators: identities, prefixes, the
characters that Surge cannot read (`Shown`), the numbering of equal names in
order, with `used` and `next` as in the code, filters, and the refusal of equal
identities. Around it runs what the names are for: the gateway publishes, Surge
fetches lines through the filter of a policy path and keeps them, a connection
is verified by one lookup and routed by another, with a publication in between.

Names are sequences of parts, so that names look alike after `Shown`, and some
end in a number as if they had been numbered. A digest is the tuple it is made
from: collisions are not modelled. A name that was made by numbering and is
used again as a base starts at 0, which the model keeps: it is the unset entry
of the map `next`.

The three loops (`Matching` over the nodes of a provider, `Projected` over the
providers, `Disambiguated` over the entries) are recursive functions of how many
elements were seen. `ProjectionProofs` finds by induction what each returns
(`ProjectionOffers`): one entry for each node that a filter leaves, with its
credentials, under a name that no other has. That a free number is always found
is a counting argument: of one more number than there are names in use, one
makes a new name (`FreeNumber`). The invariant of the states adds that a line has
the credentials of the node it is for, and that a connection's node is its line's.

## Requests: `Management`

`req` are the requests in progress: before `applyMu` (`asked`), after the
configuration was changed (`saved`) or the change failed (`failed`), with the
listener or the file they still have to deal with (`item`). `files` is the
directory of uploads, `listener` what the server serves, `trial` the
configuration that an update in progress may still restore. A settings request
binds its new address before the change (`prepareHTTPRebind`) and serves it
after; a provider request stores its upload before the change and discards one
of the two files after. `UpdateProvider` and `DeleteProvider` hold `applyMu`
until the old file is gone (`Locked`), a settings request does not hold it while
it swaps listeners. `Start` is a start of the process, with
`reconcileProviderUploads`, which is skipped while an update is in progress.

The auxiliary variables say what happened: the tokens ever `used`, the ones
`retired`, files `leftover` for the next start, and whether the settings in
force are those of a request that no other overlapped (`settled`).

Left out: sessions, rendering and redaction; the stand-alone mode and its empty
tokens; a provider changed by JSON that names a `file_path` of its own, whose
previous file is discarded without a look at other providers; `Store.Save`
reports no error after its rename, so a failed save changes nothing here.

Three observations on this code that no document contradicts. Of two settings
requests that overlap, the listeners can be activated in the other order than
the configurations were committed: the server then serves an address that is
not configured, which is what `settled` excludes. `prepareHTTPRebind` compares
the text of the configured address with the one the socket reports, so that in
gateway mode an address like `0.0.0.0:8080`, reported as `[::]:8080`, is bound
again when other settings are saved, and the request is refused. And the
settings page sends the policy token it has loaded when it differs from the
reloaded one (SettingsView.vue:117): a token that was rotated meanwhile is then
named by the request and comes back, which `RetiredTokens` counts as wanted.

`ManagementProofs` proves its three properties for any number of requests,
paths, providers, tokens and files. First what a change does to tokens, address
and uploads, for each kind of request (`Changes`); then one invariant for each
property on top of `Shape`, which says what a request carries. `TokensOK` adds
that everything ever in force is in `used`, so that a random token is new.
`UploadsOK` adds that what a request holds is there, unused and held by nobody
else: without it a discard could remove a file in force. `ListenerOK` adds that
a lone request finds the configured address served, and that of the saved
requests only one can have a listener left to activate while `settled` holds.

## Runs

| run | question | bounds |
|---|---|---|
| `update_transaction` | does an update keep its promises under faults, crashes and interventions, and does every write freeze end? | two releases, one of them bad, two updates, two faults, one intervention, one write |
| `update_late_error`, `update_restored_config` | two statements of the documents that the code does not keep | the smallest in which they fail |
| `gateway_safety` | do disk, memory, core and publication stay consistent, and do changes and answers take effect at one instant? | two providers, two settings with different addresses, three configuration objects, one reader, any number of operations, failures and crashes |
| `gateway_liveness` | can an operation be blocked for ever? | one provider, one setting |
| `gateway_drift` | and the settings, when saving and its rollback fail? | violated |
| `socks_listener` | limits, maps, bindings; do handshakes, idle associations and Close end? | two clients on one host and one on another; two associations, two handshakes, one of them for a host |
| `socks_expired` | are expired datagrams dropped? | violated |
| `provider_transaction` | is what is published accepted, and does it take effect at one instant with its cached copies? | two subscriptions, a file, three contents: an old one, a new one that two cannot have together, one whose hosts are refused; three versions of a subscription, two of a file |
| `provider_lost` | does what was loaded come into force? | one subscription, one file, nothing fails; violated |
| `projection` | are names unique, and do lines keep working? | two providers with up to two nodes, names that look alike, one change while a connection is made |
| `management` | uploads, tokens and listener against the configuration | two requests at a time, three in all, two addresses, two paths, one provider, four tokens, three files, any number of restarts and updates |

Why the bounds are enough. *Update*: one fault and one crash meet in every pair
of steps; the second update starts from everything the first can leave.
*Gateway*: two providers are enough for an order, a rename, a selection and a
stale selection; two settings with different addresses for a change of
listener; three objects because at most a running configuration, its successor
and one blamed by a queued failure are told apart. Nothing else is bounded: the
state space is finite, operations repeat for ever. *SOCKS*: two clients on a
host compete for an endpoint, a third one for the total limit; that the limit of
a host bites on its own needs more clients, and is proved (`LimitsHold`).
*Providers*: a transaction needs two caches to be half done, the file changes
between any two steps, and three versions are what a rejection, a replacement
and a restoration take; with a third version of the file the state space is too
large to finish (19 million states without a violation). *Projection*: a numbered name meets a name that looks
numbered with two nodes of one provider and one of another; a second publication
cannot do to a line what one of the changes does not. *Management*: two requests
overlap in every order, and the third comes after a restart, a rotation or an
update.

## Fairness

- *Update*: processes that were started take steps; an updater that somebody
  stops again and again gets on (strong fairness of its steps: it is not
  interrupted for ever); an operator runs `update recover` on an interrupted
  update; outsiders and faults are finite and never assumed to happen.
- *Gateway*: goroutines are scheduled (weak fairness of each step). The
  acquisition of `applyMu` is strongly fair: `sync.Mutex` hands the lock to a
  waiter that has starved for a millisecond. A waiting writer of
  `publicationMu` keeps new readers out, as `sync.RWMutex` does. No request is
  assumed to arrive and no operation to succeed.
- *SOCKS*: goroutines are scheduled, the read deadline ends a handshake, the
  ticker expires associations, and `io.Copy` returns once the listener closed
  the connection. Clients need not do anything, and nobody need call `Close`.
- *Providers* (in `provider_lost`): the operation goes on, the poll ticks and
  gets the lock again and again, the native watcher notices a change. What is
  lost is lost in spite of all that.

`Projection` and `Management` state no liveness: a request that was received
runs to its end, and nothing waits for it.

## Proofs

| module | proved | under |
|---|---|---|
| `UpdateTransactionProofs` | `TypeOK` | the named assumptions on the constants |
| | `NoLostWrite`, `FrozenWhileBusy`, `Quiescent`, `OutcomeTrue`, `Recoverable`, `NeverReplacedInUse`, `RollbackIsFinal`, and the refinement of `AtomicUpdate` | in addition `TRUE \notin LateErrors`: a failed journal write left the old journal. `update_late_error` shows for `NothingUndone`, a part of `NoLostWrite`, that it is needed |
| `SocksAssociationsProofs` | `TypeOK`, `MapsAgree`, `HandshakesCounted`, `EndpointFixed`, `NeverGuessed`, `WithinLimits`, `NoOrphans`, `QuietAfterClose` | finitely many clients, positive limits |
| `ManagementProofs` | `TypeOK` (which no run checks), `UploadsKept`, `RetiredTokens`, `ListensWhereConfigured` | the named assumptions on the constants |
| `GatewayCommitProofs` | `TypeOK`, `AnswerConsistent` (which no run checks), `ProvidersAgree`, `NothingLeft`, `ServedWhilePublic`, `SettingsSaved`, `StaleFailureHarmless`, and the refinement of `AtomicConfiguration` | the named assumptions on the constants: finitely many providers, every setting has an address |
| `ProviderTransactionProofs` | `TypeOK`, `PublishedAccepted`, `CachesSurvive` (which no run checks), `NoneForgotten`, `RestartsWithLast` | the named assumptions on the constants: among them that nil is no state of a provider (`NoneAssumption`) |
| `PublicationProofs` | the refinement of `AtomicPublication` | the same |
| `ProjectionProofs` | `NamesUnique`, `LinesKeepWorking` | the named assumptions on the constants: names are sequences of parts, numbers included |

The number of releases, updates, faults, interventions, clients, requests,
paths, providers, settings, readers, nodes, contents, tokens and files and the
limits are arbitrary in them. So every safety property that a run checks and
finds to hold is also proved. Only model-checked: the liveness properties
(`EventuallyUnfrozen`, `OperationsEnd`, `FailuresAct`, `HandshakesEnd`,
`IdleEnds`, `CloseReturns`), which are out of the prover's reach, and of course
the five statements that are violated.

Where the code loops over a list, the proofs need an induction over the list.
The library's induction theorems take an operator as parameter, which no
installed prover can instantiate; `SequenceLemmas` states induction and
recursion with sets and functions instead (`InductionUpTo`, `RecursionUpTo`,
`SameUpTo`), from the fact that a set of natural numbers has a least element.

## Findings

1. *Update, late error* (`update_late_error`). A journal write whose directory
   sync fails after the rename ends the freeze of management writes; a later
   recovery undoes what was written meanwhile.
2. *Update, restored configuration* (`update_restored_config`). A candidate that
   was already starting migrates the restored `gateway.json`, which the restored
   release cannot read.
3. *Gateway, settings drift* (`gateway_drift`). When a save and then its
   rollback fail, the manager keeps the settings that were never saved and the
   next provider change starts the core with them.
4. *Providers, a lost update* (`provider_lost`). A file that its watcher has
   loaded when another provider is published is recorded as seen: no poll finds
   a change, and it is in force only after something else changes. The window is
   the time since the last poll, a second at most.
5. *SOCKS, expired datagrams* (`socks_expired`). A late datagram of an expired
   association can take the unbound association of another user of the same
   host.

Each of them is a run that TLC is expected to find violated; PROJECT.json quotes
the statement it contradicts.

Two more observations on the update that are not runs. After a power loss in the
starting phase the candidate serves without a worker to judge it, although a
comment says that this phase is supervised (worker.go:201); recovery then needs
the operator, whom the fairness assumes. And the digest of the target is
compared before the service is stopped, which may take twenty seconds, while the
rename overwrites the target without another look (transaction.go:60, :106):
docs/auto-update.md:53 says that the target is checked again before it is
replaced (「服务定义、实例 PID/随机标识和安装目标在替换前重新核对」).

## Not modelled

- *Health probes and node DNS*: their results depend on servers outside the
  repository, and they change nothing that is kept.
- *Service installer*: it generates definitions and runs the commands of launchd
  or systemd; the update's model has the service manager as steps that may fail.
- *Release download*: sequential, before a transaction exists, and repeated from
  the start when anything fails. The schedule of automatic checks depends on the
  clock.
- *Release generator and web interface*: no state that the server shares.
- *Of the modelled components*: schema migration, events, redaction, field
  validation, health-check tasks, refresh schedules, sessions and live streams.
