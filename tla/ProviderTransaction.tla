-------------------------- MODULE ProviderTransaction --------------------------
(***************************************************************************)
(* How the content of subscriptions becomes what the gateway publishes     *)
(* (internal/mihomo: provider_filter.go, provider_hosts.go,                *)
(* provider_refresh.go, and the provider part of manager.go).              *)
(*                                                                         *)
(* A native provider downloads its subscription when it is asked to, or    *)
(* watches its file on its own.  The gateway stages what it loaded, checks *)
(* it together with the other providers, commits the accepted copies of    *)
(* the caches one rename after the other, publishes, accepts, and records  *)
(* the versions it has seen.  A rejected candidate leaves the accepted one *)
(* in place.                                                               *)
(*                                                                         *)
(* A content stands for the nodes and the `hosts' section of one version   *)
(* of a subscription.  All operations hold Manager.applyMu; only files,    *)
(* their watchers and crashes interleave with them.                        *)
(***************************************************************************)
EXTENDS Naturals

CONSTANTS
    Http, Files,    \* providers by the type of their source
    Contents,
    Unparsable,     \* contents whose hosts section is refused
    Clashing,       \* sets of contents that two providers cannot have together
    None,
    Faults,         \* what can fail beside downloads: "crash", "disk", "rollback", "unsafe"
    MaxVersion      \* bound: by provider, the versions its native provider may load

ASSUME SourcesAssumption == Http \cap Files = {} /\ None \notin Contents /\ Unparsable \subseteq Contents
ASSUME FaultsAssumption == Faults \subseteq {"crash", "disk", "rollback", "unsafe"}
ASSUME BoundAssumption == MaxVersion \in [Http \cup Files -> Nat \ {0}]

Providers == Http \cup Files

VARIABLES
    file,           \* the files of file providers, written by others
    path,           \* the native cache files of http providers
    accepted,       \* their accepted copies
    inst,           \* "live": the running providers, "next": those of a candidate
    versions,       \* Manager.versions: what the watcher has seen
    published,      \* the projection and the hosts that are in force
    job,            \* the operation that holds applyMu
    step,           \* where it is
    tx,             \* its providerStateTransaction: by entry, the cache update
    good,           \* auxiliary: by http provider, the content last published
    torn            \* auxiliary: a commit of several caches was left half done, or
                    \* the cache of a waiting candidate was replaced, from which
                    \* its hosts may be loaded once more

disk == <<file, path, accepted>>
memory == <<inst, versions, published>>
operation == <<job, step, tx>>
history == <<good, torn>>
vars == <<disk, memory, operation, history>>

Maybe(S) == S \cup {None}
Version == UNION {1 .. MaxVersion[p] : p \in Providers}
State == [version : Version, proxies : Contents, hosts : Contents]
Content(s) == [proxies |-> s.proxies, hosts |-> s.hosts]
Instance == [version : Version, content : Contents,        \* of the native provider
             state : Maybe(State), staged : Maybe(State), rejected : Version \cup {0}]
CacheUpdate == [new : Maybe(Contents), old : Maybe(Contents), committed : BOOLEAN]

\* nil is neither the state of a provider nor a set of instances.
ASSUME NoneAssumption == None \notin State /\ None \notin [Providers -> Instance]

Live == inst.live
Running == Live # None
Free == step = "idle"
NoJob == [op |-> "none", on |-> "live", todo |-> {}, keys |-> {}, view |-> None]

\* The instances the operation works on.
On == inst[job.on]

----------------------------------------------------------------------------
(* filteredProxyProvider *)

\* What hostSource.load reads: for a file, what is there now.
Source(p) == IF p \in Files THEN file[p] ELSE path[p]

\* sync: the loaded content becomes the candidate, or is rejected.
Stage(i, hosts) ==
    IF hosts \in Contents \ Unparsable
    THEN [i EXCEPT !.staged = [version |-> i.version, proxies |-> i.content, hosts |-> hosts],
                   !.rejected = 0]
    ELSE [i EXCEPT !.staged = None, !.rejected = i.version]

\* What sync(false) has nothing to do for.
Seen(i) == \/ i.rejected = i.version
           \/ i.staged = None /\ i.state # None /\ i.state.version = i.version
           \/ i.staged # None /\ i.staged.version = i.version

Sync(i, hosts) == IF Seen(i) THEN i ELSE Stage(i, hosts)

\* Version: the candidate's, or else the accepted one's.
Reported(i) == IF i.staged # None THEN i.staged.version ELSE i.state.version

\* candidateState
Candidate(i) == IF i.staged # None THEN i.staged ELSE i.state

\* The native provider loads content c: a new version, unless it has it already.
Load(i, c) == IF c = i.content THEN i ELSE [i EXCEPT !.version = @ + 1, !.content = c]
Loadable(p, c) == c = Live[p].content \/ Live[p].version < MaxVersion[p]

\* Update after the native one: a content that was rejected stays rejected.
Update(i, c, hosts) == LET j == Load(i, c) IN IF i.rejected = j.version THEN j ELSE Stage(j, hosts)

\* acceptCurrent and rejectCurrent
Accept(i) == IF i.staged = None THEN i ELSE [i EXCEPT !.state = i.staged, !.staged = None, !.rejected = 0]
Reject(i) == [i EXCEPT !.staged = None, !.rejected = i.version]

\* hostSource.reject: the native cache goes back to the accepted copy, or away.
\* A failure of it is reported and leaves the cache as it is.
Restore(S) ==
    \E done \in SUBSET S :
        /\ done = S \/ "disk" \in Faults
        /\ path' = [p \in Http |-> IF p \in done THEN accepted[p] ELSE path[p]]

\* The native provider of an http source writes what it has downloaded.
Downloaded(p, c) == IF p \in Http THEN [path EXCEPT ![p] = c] ELSE path

\* Where the hosts are loaded from after the native update, which does not write
\* a content again that it has already.
Left(p, c) == IF p \in Http /\ c # Live[p].content THEN c ELSE Source(p)
Updated(p, c) == Update(Live[p], c, Left(p, c))

----------------------------------------------------------------------------
(* Leaving an operation *)

Return == job' = NoJob /\ step' = "idle" /\ tx' = <<>>
Goto(label) == step' = label /\ UNCHANGED <<job, tx>>

\* closeProviders: the candidate's instances are dropped, the live ones stay.
Abandon == inst' = [inst EXCEPT !.next = None]

\* failClosedLocked and shutdownCore
Withdraw == inst' = [live |-> None, next |-> None] /\ published' = None

Building == job.op \in {"start", "apply"}

----------------------------------------------------------------------------
(* RefreshProvider and pollProviders, up to the joint check *)

\* The source is asked; what is staged or rejected follows from its answer.
\* What is rejected now is taken back from the cache, if it can be.
Fetch(p, c) ==
    /\ IF p \in Files THEN c = file[p] ELSE c \in Contents
    /\ Loadable(p, c)
    /\ LET i == Updated(p, c)
           refused == p \in Http /\ i.rejected = i.version /\ Live[p].rejected # i.version
       IN \/ (~refused \/ "disk" \in Faults) /\ path' = Downloaded(p, Left(p, c))
          \/ refused /\ path' = [path EXCEPT ![p] = accepted[p]]

Refresh(p) ==
    /\ Free /\ Running
    /\ \E c \in Contents :
          /\ Fetch(p, c)
          /\ inst' = [inst EXCEPT !.live[p] = Updated(p, c)]
          /\ IF Updated(p, c).staged = None
             THEN UNCHANGED <<job, step>>
             ELSE job' = [NoJob EXCEPT !.op = "refresh", !.keys = {p}] /\ step' = "check"
    /\ UNCHANGED <<file, accepted, versions, published, tx, history>>

Poll ==
    /\ Free /\ Running
    /\ job' = [NoJob EXCEPT !.op = "poll", !.todo = Providers] /\ step' = "poll"
    /\ UNCHANGED <<disk, memory, tx, history>>

Polled(p, i) ==
    /\ inst' = [inst EXCEPT !.live[p] = i]
    /\ job' = [job EXCEPT !.todo = @ \ {p},
                          !.keys = IF Reported(i) # versions[p] THEN @ \cup {p} ELSE @]

\* It is due, and the download succeeds.
PollFetch(p) ==
    /\ step = "poll" /\ p \in job.todo \cap Http
    /\ \E c \in Contents : Fetch(p, c) /\ Polled(p, Updated(p, c))
    /\ UNCHANGED <<file, accepted, versions, published, step, tx, history>>

\* A mutant of PollVersion: the version counts as seen before it is accepted.
PollVersionSeen(p) ==
    /\ step = "poll" /\ p \in job.todo
    /\ LET i == Sync(Live[p], Source(p))
       IN Polled(p, i) /\ versions' = [versions EXCEPT ![p] = Reported(i)]
    /\ UNCHANGED <<disk, published, step, tx, history>>

\* It is not due, or cannot be had: has the version changed?
PollVersion(p) ==
    /\ step = "poll" /\ p \in job.todo
    /\ Polled(p, Sync(Live[p], Source(p)))
    /\ UNCHANGED <<disk, versions, published, step, tx, history>>

PollDone ==
    /\ step = "poll" /\ job.todo = {}
    /\ IF job.keys = {} THEN Return ELSE Goto("check")
    /\ UNCHANGED <<disk, memory, history>>

----------------------------------------------------------------------------
(* startLocked and ApplyProvidersBeforeCommit, up to the joint check *)

Blank == [p \in Providers |-> None]

Start ==
    /\ Free /\ ~Running
    /\ job' = [NoJob EXCEPT !.op = "start", !.on = "next", !.todo = Providers] /\ step' = "init"
    /\ inst' = [inst EXCEPT !.next = Blank]
    /\ UNCHANGED <<disk, versions, published, tx, history>>

Apply ==
    /\ Free /\ Running
    /\ job' = [NoJob EXCEPT !.op = "apply", !.on = "next", !.todo = Providers] /\ step' = "init"
    /\ inst' = [inst EXCEPT !.next = Blank]
    /\ UNCHANGED <<disk, versions, published, tx, history>>

\* A mutant of Cached: the accepted copy is not put back.
CachedAsLeft(p) == path[p]

\* Initial, hostSource.prepare: the accepted copy replaces the native cache.
Cached(p) == IF accepted[p] = None THEN path[p] ELSE accepted[p]

\* The native provider loads its file or cache, and downloads what it lacks.
InitialContents(p) == CASE p \in Files -> {file[p]}
                        [] p \in Http /\ Cached(p) # None -> {Cached(p)}
                        [] OTHER -> Contents

Initial(p) ==
    /\ step = "init" /\ p \in job.todo
    /\ \E c \in InitialContents(p) \ Unparsable :
          /\ path' = Downloaded(p, c)
          /\ inst' = [inst EXCEPT !.next[p] =
                Stage([version |-> 1, content |-> c, state |-> None, staged |-> None, rejected |-> 0], c)]
    /\ job' = [job EXCEPT !.todo = @ \ {p}]
    /\ step' = IF job.todo = {p} THEN "check" ELSE "init"
    /\ torn' = (torn \/ (Running /\ p \in Http /\ Live[p].staged # None))
    /\ UNCHANGED <<file, accepted, versions, published, tx, good>>

\* A download fails, or the hosts of what was loaded are refused.
InitialFails(p) ==
    /\ step = "init" /\ p \in job.todo
    /\ \/ p \in Http /\ Cached(p) = None /\ UNCHANGED path
       \/ p \in Http /\ InitialContents(p) \cap Unparsable # {} /\ path' = [path EXCEPT ![p] = accepted[p]]
       \/ p \in Files /\ file[p] \in Unparsable /\ UNCHANGED path
    /\ Abandon /\ Return
    /\ UNCHANGED <<file, accepted, versions, published, history>>

----------------------------------------------------------------------------
(* The joint check, the transaction, publication *)

View(f) == [p \in Providers |-> Content(Candidate(f[p]))]

\* buildProviderHostResolver and BuildProjection
Passes(view) == \A p, q \in Providers : p # q => {view[p].hosts, view[q].hosts} \notin Clashing

CheckPasses ==
    /\ step = "check" /\ Passes(View(On))
    /\ job' = [job EXCEPT !.view = View(On)] /\ step' = "prepare"
    /\ UNCHANGED <<disk, memory, tx, history>>

\* rejectProviderStates: what changed is rejected; a candidate configuration is dropped.
CheckFails ==
    /\ step = "check" /\ ~Passes(View(On))
    /\ IF Building
       THEN Abandon /\ UNCHANGED path
       ELSE /\ inst' = [inst EXCEPT !.live = [p \in Providers |->
                           IF p \in job.keys THEN Reject(@[p]) ELSE @[p]]]
            /\ Restore(job.keys \cap Http)
    /\ Return
    /\ UNCHANGED <<file, accepted, versions, published, history>>

\* SecurePrivateTree fails before anything was committed.
Unsafe ==
    /\ "unsafe" \in Faults /\ step = "check"
    /\ IF Building THEN Abandon /\ UNCHANGED published ELSE Withdraw
    /\ Return /\ UNCHANGED <<disk, versions, history>>

\* A mutant of Entries: only what changed is committed and accepted.
EntriesChanged(f) == {p \in Providers : f[p].staged # None /\ (Building \/ p \in job.keys)}

\* prepareProviderStates: every provider with a candidate, for whatever reason.
Entries(f) == {p \in Providers : f[p].staged # None}

Prepare ==
    /\ step = "prepare"
    /\ tx' = [p \in Entries(On) |->
                IF p \in Http THEN [new |-> path[p], old |-> accepted[p], committed |-> FALSE]
                              ELSE [new |-> None, old |-> None, committed |-> TRUE]]
    /\ step' = "commit" /\ UNCHANGED <<disk, memory, job, history>>

\* A copy cannot be made: the entries up to that provider are rejected.
PrepareFails ==
    /\ "disk" \in Faults /\ step = "prepare"
    /\ \E done \in SUBSET Entries(On) :
          /\ done \cap Http # {}
          /\ IF Building THEN Abandon
             ELSE inst' = [inst EXCEPT !.live = [p \in Providers |-> IF p \in done THEN Reject(@[p]) ELSE @[p]]]
          /\ Restore(done \cap Http)
    /\ Return
    /\ UNCHANGED <<file, accepted, versions, published, history>>

\* ValidateRuntimeInvariants: a start ends, an apply takes the running core down.
Invalid ==
    /\ "unsafe" \in Faults /\ step = "commit" /\ Building
    /\ \A p \in DOMAIN tx \cap Http : ~tx[p].committed
    /\ Withdraw /\ Restore(DOMAIN tx \cap Http) /\ Return
    /\ UNCHANGED <<file, accepted, versions, history>>

\* The rename of one accepted copy.
Commit(p) ==
    /\ step = "commit" /\ p \in DOMAIN tx \cap Http /\ ~tx[p].committed
    /\ accepted' = [accepted EXCEPT ![p] = tx[p].new]
    /\ tx' = [tx EXCEPT ![p].committed = TRUE]
    /\ UNCHANGED <<file, path, memory, job, step, history>>

\* A mutant of CommitFails: what was renamed before stays.
CommitStops ==
    /\ "disk" \in Faults /\ step = "commit"
    /\ \E p \in DOMAIN tx \cap Http : ~tx[p].committed
    /\ tx' = [p \in DOMAIN tx |-> [tx[p] EXCEPT !.committed = p \notin Http]] /\ step' = "rollback"
    /\ UNCHANGED <<disk, memory, job, history>>

CommitFails ==
    /\ "disk" \in Faults /\ step = "commit"
    /\ \E p \in DOMAIN tx \cap Http : ~tx[p].committed
    /\ Goto("rollback") /\ UNCHANGED <<disk, memory, history>>

Renamed == {p \in DOMAIN tx \cap Http : tx[p].committed}

Rollback(p) ==
    /\ step = "rollback" /\ p \in Renamed
    /\ accepted' = [accepted EXCEPT ![p] = tx[p].old]
    /\ tx' = [tx EXCEPT ![p].committed = FALSE]
    /\ UNCHANGED <<file, path, memory, job, step, history>>

\* Restoring the previous copy fails, and so does the second attempt in reject.
RollbackFails(p) ==
    /\ "rollback" \in Faults /\ step = "rollback" /\ p \in Renamed
    /\ tx' = [tx EXCEPT ![p].committed = FALSE] /\ torn' = TRUE
    /\ UNCHANGED <<disk, memory, job, step, good>>

\* transaction.reject, once the caches are back.
RolledBack ==
    /\ step = "rollback" /\ Renamed = {}
    /\ IF Building THEN Abandon
       ELSE inst' = [inst EXCEPT !.live = [p \in Providers |-> IF p \in DOMAIN tx THEN Reject(@[p]) ELSE @[p]]]
    /\ Restore(DOMAIN tx \cap Http) /\ Return
    /\ UNCHANGED <<file, accepted, versions, published, history>>

\* A mutant of Publish: the candidates are published but not accepted.
PublishOnly ==
    /\ step = "commit" /\ Renamed = DOMAIN tx \cap Http
    /\ inst' = [live |-> On, next |-> None]
    /\ published' = job.view /\ step' = "capture"
    /\ good' = [p \in Http |-> job.view[p].proxies]
    /\ torn' = (torn /\ ~Building)
    /\ UNCHANGED <<disk, versions, job, tx>>

\* The new projection and hosts are in force; the transaction is accepted.
Publish ==
    /\ step = "commit" /\ Renamed = DOMAIN tx \cap Http
    /\ inst' = [live |-> [p \in Providers |-> IF p \in DOMAIN tx THEN Accept(On[p]) ELSE On[p]], next |-> None]
    /\ published' = job.view /\ step' = "capture"
    /\ good' = [p \in Http |-> job.view[p].proxies]
    /\ torn' = (torn /\ ~Building)
    /\ UNCHANGED <<disk, versions, job, tx>>

\* captureVersionsLocked, which asks every provider for its version.
Capture ==
    /\ step = "capture"
    /\ inst' = [inst EXCEPT !.live = [p \in Providers |-> Sync(@[p], Source(p))]]
    /\ versions' = [p \in Providers |-> Reported(inst'.live[p])]
    /\ Return
    /\ UNCHANGED <<disk, published, history>>

----------------------------------------------------------------------------
(* Others *)

\* Bound: a file is left alone when its provider has no versions left.
WriteFile(f) ==
    /\ \A g \in DOMAIN inst : inst[g] # None /\ inst[g][f] # None => inst[g][f].version < MaxVersion[f]
    /\ \E c \in Contents \ {file[f]} : file' = [file EXCEPT ![f] = c]
    /\ UNCHANGED <<path, accepted, memory, operation, history>>

\* The native watcher of a file provider notices.
Watch(g, f) ==
    /\ inst[g] # None /\ inst[g][f] # None
    /\ inst[g][f].content # file[f] /\ inst[g][f].version < MaxVersion[f]
    /\ inst' = [inst EXCEPT ![g][f] = Load(@, file[f])]
    /\ UNCHANGED <<disk, versions, published, operation, history>>

\* The process ends: files are left as they are, temporary ones included.
Crash ==
    /\ "crash" \in Faults
    /\ inst' = [live |-> None, next |-> None] /\ published' = None
    /\ torn' = (torn \/ (step \in {"commit", "rollback"} /\ Renamed # {}))
    /\ Return
    /\ UNCHANGED <<disk, versions, good>>

----------------------------------------------------------------------------
Init ==
    /\ file \in [Files -> Contents]
    /\ path = [p \in Http |-> None] /\ accepted = [p \in Http |-> None]
    /\ inst = [live |-> None, next |-> None]
    /\ versions = [p \in Providers |-> 0]
    /\ published = None
    /\ job = NoJob /\ step = "idle" /\ tx = <<>>
    /\ good = [p \in Http |-> None] /\ torn = FALSE

\* The goroutine that holds applyMu.
Holder ==
    \/ \E p \in Providers : \/ PollFetch(p) \/ PollVersion(p) \/ Initial(p) \/ InitialFails(p)
                            \/ Commit(p) \/ Rollback(p) \/ RollbackFails(p)
    \/ PollDone \/ CheckPasses \/ CheckFails \/ Unsafe
    \/ Prepare \/ PrepareFails \/ Invalid \/ CommitFails \/ RolledBack \/ Publish \/ Capture

Next ==
    \/ \E p \in Providers : Refresh(p)
    \/ Poll \/ Start \/ Apply
    \/ Holder
    \/ \E f \in Files : WriteFile(f) \/ Watch("live", f) \/ Watch("next", f)
    \/ Crash

Spec == Init /\ [][Next]_vars

\* The watcher ticks, operations go on, files are watched.
FairSpec ==
    /\ Spec
    /\ WF_vars(Holder) /\ SF_vars(Poll)
    /\ \A f \in Files : WF_vars(Watch("live", f))

----------------------------------------------------------------------------
(* Properties *)

\* The shape of the state; every running provider has an accepted state.
TypeOK ==
    /\ file \in [Files -> Contents]
    /\ path \in [Http -> Maybe(Contents)] /\ accepted \in [Http -> Maybe(Contents)]
    /\ Running => /\ Live \in [Providers -> Instance]
                  /\ \A p \in Providers : Live[p].state # None
    /\ inst.next # None => inst.next \in [Providers -> Maybe(Instance)]
    /\ versions \in [Providers -> Version \cup {0}]
    /\ tx \in [DOMAIN tx -> CacheUpdate]
    /\ good \in [Http -> Maybe(Contents)] /\ torn \in BOOLEAN

\* Between operations, what is in force is what the providers were accepted
\* with, each of them and all together, and passed the joint check.
PublishedAccepted ==
    Free /\ Running =>
        /\ published = [p \in Providers |-> Content(Live[p].state)]
        /\ Passes(published)

\* Between operations, also after a crash, the accepted copy of a cache is what
\* was last published, unless an operation ended between its renames.
CachesSurvive == Free /\ ~torn => accepted = good

\* A restart or a new configuration publishes of a subscription what was last
\* published, not what was downloaded since and rejected.
RestartsWithLast ==
    [][Building /\ step' = "capture" /\ ~torn =>
          \A p \in Http : good[p] # None => job.view[p].proxies = good[p]]_vars

\* A candidate that waits for acceptance is one the next poll finds changed, or
\* the accepted content itself, downloaded again.
NoneForgotten ==
    Free /\ Running =>
        \A p \in Http : LET i == Live[p]
                        IN i.staged # None => i.staged.version \in {i.state.version} \cup (Version \ {versions[p]})

\* What may be published: the hosts of every provider are parsed, and the joint
\* check passed.
Checked == {view \in [Providers -> [proxies : Contents, hosts : Contents \ Unparsable]] : Passes(view)}

\* The accepted copies, the renames of an unfinished commit not counted.
Renaming == step \in {"commit", "rollback"}
Kept == [p \in Http |-> IF Renaming /\ p \in Renamed THEN tx[p].old ELSE accepted[p]]

Effective == IF Running THEN {published} ELSE {}

\* What is published changes as a whole, with the copies that a restart
\* publishes again, and nodes and hosts of a subscription are of one version: a
\* refresh, a poll, a start and an apply take effect in their commit or not at
\* all, but for what `torn' records.
Promise == INSTANCE AtomicPublication
    WITH Subscriptions <- Http, Views <- Checked, inForce <- Effective, kept <- Kept, whole <- ~torn
PublicationsAreAtomic == Promise!Spec

\* What README.md says of refreshes: what a native provider has loaded is
\* published or rejected in time, without a further apply or restart.
Unsettled(p) == Running /\ Live[p].version \notin {Live[p].state.version, Live[p].rejected}
RefreshesLand == \A p \in Providers : Unsettled(p) ~> ~Unsettled(p)
=============================================================================
