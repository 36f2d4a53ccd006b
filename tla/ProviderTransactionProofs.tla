---------------------- MODULE ProviderTransactionProofs ----------------------
(***************************************************************************)
(* Proofs about ProviderTransaction, for any providers, files, contents    *)
(* and faults.  The first part is about one instance of a provider: what   *)
(* staging, loading, accepting and rejecting leave of it.  Then comes the  *)
(* inductive invariant, with a lemma for each action, and the properties   *)
(* that follow from it.                                                    *)
(***************************************************************************)
EXTENDS ProviderTransaction, TLAPS

----------------------------------------------------------------------------
(* Versions and instances of native providers *)

LEMMA VersionParts ==
    /\ Version \subseteq Nat \ {0}
    /\ \A p \in Providers : 1 \in Version /\ \A v \in Version : v < MaxVersion[p] => v + 1 \in Version
<1> DEFINE Ranges == {1 .. MaxVersion[p] : p \in Providers}
<1>1. \A p \in Providers : MaxVersion[p] \in Nat \ {0}
  BY BoundAssumption DEF Providers
<1>2. \A r \in Ranges : r \subseteq Nat \ {0}
  BY <1>1
<1>3. ASSUME NEW p \in Providers, NEW v \in Nat \ {0}, v <= MaxVersion[p] PROVE v \in UNION Ranges
  <2>1. v \in 1 .. MaxVersion[p] /\ 1 .. MaxVersion[p] \in Ranges
    BY <1>1, <1>3
  <2> QED BY <2>1
<1>4. Version = UNION Ranges
  BY DEF Version
<1> HIDE DEF Ranges
<1>5. Version \subseteq Nat \ {0}
  BY <1>2, <1>4
<1>6. ASSUME NEW p \in Providers, NEW v \in Version, v < MaxVersion[p] PROVE v + 1 \in Version
  BY <1>1, <1>3, <1>4, <1>5, <1>6
<1>7. \A p \in Providers : 1 \in Version
  BY <1>1, <1>3, <1>4
<1> QED BY <1>5, <1>6, <1>7

LEMMA InstanceParts ==
    ASSUME NEW i \in Instance
    PROVE  /\ i =
                [version |-> i.version, content |-> i.content, state |-> i.state, staged |-> i.staged,
                 rejected |-> i.rejected]
           /\ i.version \in Version /\ i.content \in Contents /\ i.state \in Maybe(State)
           /\ i.staged \in Maybe(State)
           /\ i.rejected \in Version \cup {0}
BY DEF Instance

LEMMA InstanceMade ==
    ASSUME NEW v \in Version, NEW c \in Contents, NEW s \in Maybe(State), NEW t \in Maybe(State),
           NEW r \in Version \cup {0}
    PROVE  [version |-> v, content |-> c, state |-> s, staged |-> t, rejected |-> r] \in Instance
BY DEF Instance

\* What sync makes of the content that is loaded.
LEMMA StageParts ==
    ASSUME NEW i \in Instance, NEW hosts
    PROVE  /\ Stage(i, hosts) \in Instance
           /\ Stage(i, hosts).version = i.version /\ Stage(i, hosts).content = i.content
           /\ Stage(i, hosts).state = i.state
           /\ hosts \in Contents \ Unparsable =>
                 /\ Stage(i, hosts).staged =
                      [version |-> i.version, proxies |-> i.content, hosts |-> hosts]
                 /\ Stage(i, hosts).staged \in State /\ Stage(i, hosts).rejected = 0
           /\ hosts \notin Contents \ Unparsable =>
                 Stage(i, hosts).staged = None /\ Stage(i, hosts).rejected = i.version
<1>0. /\ i =
           [version |-> i.version, content |-> i.content, state |-> i.state, staged |-> i.staged,
            rejected |-> i.rejected]
      /\ i.version \in Version /\ i.content \in Contents /\ i.state \in Maybe(State)
      /\ i.staged \in Maybe(State)
      /\ i.rejected \in Version \cup {0}
  BY InstanceParts
<1> DEFINE t == [version |-> i.version, proxies |-> i.content, hosts |-> hosts]
<1>1. CASE hosts \in Contents \ Unparsable
  <2>1. t \in State
    BY <1>1, <1>0 DEF State
  <2>2. Stage(i, hosts) = [i EXCEPT !.staged = t, !.rejected = 0]
    BY <1>1 DEF Stage
  <2> HIDE DEF t
  <2>3. Stage(i, hosts) =
          [version |-> i.version, content |-> i.content, state |-> i.state, staged |-> t,
           rejected |-> 0]
    BY <2>2, <1>0
  <2>4. Stage(i, hosts) \in Instance
    BY <2>1, <2>3, <1>0, InstanceMade DEF Maybe
  <2> QED BY <1>1, <2>1, <2>3, <2>4 DEF t
<1>2. CASE hosts \notin Contents \ Unparsable
  <2>1. Stage(i, hosts) = [i EXCEPT !.staged = None, !.rejected = i.version]
    BY <1>2 DEF Stage
  <2>2. Stage(i, hosts) =
          [version |-> i.version, content |-> i.content, state |-> i.state, staged |-> None,
           rejected |-> i.version]
    BY <2>1, <1>0
  <2>3. Stage(i, hosts) \in Instance
    BY <2>2, <1>0, InstanceMade DEF Maybe
  <2> QED BY <1>2, <2>2, <2>3
<1> QED BY <1>1, <1>2

LEMMA LoadParts ==
    ASSUME NEW p \in Providers, NEW i \in Instance, NEW c \in Contents,
           c = i.content \/ i.version < MaxVersion[p]
    PROVE  /\ Load(i, c) \in Instance /\ Load(i, c).content = c
           /\ Load(i, c).state = i.state /\ Load(i, c).staged = i.staged
           /\ Load(i, c).rejected = i.rejected
           /\ Load(i, c).version = IF c = i.content THEN i.version ELSE i.version + 1
<1>0. /\ i =
           [version |-> i.version, content |-> i.content, state |-> i.state, staged |-> i.staged,
            rejected |-> i.rejected]
      /\ i.version \in Version /\ i.content \in Contents /\ i.state \in Maybe(State)
      /\ i.staged \in Maybe(State)
      /\ i.rejected \in Version \cup {0}
  BY InstanceParts
<1>1. CASE c = i.content
  BY <1>1, <1>0 DEF Load
<1>2. CASE c # i.content
  <2>1. Load(i, c) =
          [version |-> i.version + 1, content |-> c, state |-> i.state, staged |-> i.staged,
           rejected |-> i.rejected]
    BY <1>2, <1>0 DEF Load
  <2>2. i.version + 1 \in Version
    BY <1>2, <1>0, VersionParts
  <2>3. Load(i, c) \in Instance
    BY <2>1, <2>2, <1>0, InstanceMade
  <2> QED BY <1>2, <2>1, <2>3
<1> QED BY <1>1, <1>2

LEMMA RejectParts ==
    ASSUME NEW i \in Instance
    PROVE  /\ Reject(i) \in Instance /\ Reject(i).version = i.version /\ Reject(i).content = i.content
           /\ Reject(i).state = i.state /\ Reject(i).staged = None /\ Reject(i).rejected = i.version
<1>0. /\ i =
           [version |-> i.version, content |-> i.content, state |-> i.state, staged |-> i.staged,
            rejected |-> i.rejected]
      /\ i.version \in Version /\ i.content \in Contents /\ i.state \in Maybe(State)
      /\ i.staged \in Maybe(State)
      /\ i.rejected \in Version \cup {0}
  BY InstanceParts
<1>2. Reject(i) = [i EXCEPT !.staged = None, !.rejected = i.version]
  BY DEF Reject
<1>1. Reject(i) =
        [version |-> i.version, content |-> i.content, state |-> i.state, staged |-> None,
         rejected |-> i.version]
  BY <1>0, <1>2
<1> QED BY <1>0, <1>1, InstanceMade DEF Maybe

LEMMA AcceptParts ==
    ASSUME NEW i \in Instance
    PROVE  /\ Accept(i) \in Instance /\ Accept(i).version = i.version /\ Accept(i).content = i.content
           /\ Accept(i).staged = None /\ Accept(i).state = Candidate(i)
           /\ Accept(i).rejected = IF i.staged = None THEN i.rejected ELSE 0
<1>0. /\ i =
           [version |-> i.version, content |-> i.content, state |-> i.state, staged |-> i.staged,
            rejected |-> i.rejected]
      /\ i.version \in Version /\ i.content \in Contents /\ i.state \in Maybe(State)
      /\ i.staged \in Maybe(State)
      /\ i.rejected \in Version \cup {0}
  BY InstanceParts
<1>1. CASE i.staged = None
  BY <1>1 DEF Accept, Candidate
<1>2. CASE i.staged # None
  <2>1. Accept(i) =
          [version |-> i.version, content |-> i.content, state |-> i.staged, staged |-> None,
           rejected |-> 0]
    BY <1>2, <1>0 DEF Accept
  <2> QED BY <1>2, <2>1, <1>0, InstanceMade DEF Maybe, Candidate
<1> QED BY <1>1, <1>2

LEMMA SyncParts ==
    ASSUME NEW i \in Instance, NEW hosts
    PROVE  Sync(i, hosts) \in Instance /\ Sync(i, hosts).version = i.version
           /\ Sync(i, hosts).content = i.content /\ Sync(i, hosts).state = i.state
           /\ Sync(i, hosts) \in {i, Stage(i, hosts)} /\ (Seen(i) => Sync(i, hosts) = i)
BY StageParts DEF Sync

LEMMA UpdateParts ==
    ASSUME NEW p \in Providers, NEW i \in Instance, NEW c \in Contents, NEW hosts,
           c = i.content \/ i.version < MaxVersion[p]
    PROVE  /\ Update(i, c, hosts) \in Instance /\ Update(i, c, hosts).state = i.state
           /\ Update(i, c, hosts).content = c
           /\ Update(i, c, hosts).version = IF c = i.content THEN i.version ELSE i.version + 1
           /\ i.rejected = Update(i, c, hosts).version => Update(i, c, hosts) = Load(i, c)
           /\ i.rejected # Update(i, c, hosts).version => Update(i, c, hosts) = Stage(Load(i, c), hosts)
<1> DEFINE j == Load(i, c)
<1>1. /\ j \in Instance /\ j.content = c /\ j.state = i.state /\ j.rejected = i.rejected
      /\ j.version = IF c = i.content THEN i.version ELSE i.version + 1
  BY LoadParts
<1>2. Update(i, c, hosts) = IF i.rejected = j.version THEN j ELSE Stage(j, hosts)
  BY DEF Update
<1> HIDE DEF j
<1>3. /\ Stage(j, hosts) \in Instance /\ Stage(j, hosts).version = j.version
      /\ Stage(j, hosts).content = j.content /\ Stage(j, hosts).state = j.state
  BY <1>1, StageParts
<1>4. Update(i, c, hosts).version = j.version
  BY <1>2, <1>3
<1> QED BY <1>1, <1>2, <1>3, <1>4 DEF j

----------------------------------------------------------------------------
(* The inductive invariant *)

Steps == {"idle", "poll", "init", "check", "prepare", "commit", "rollback", "capture"}
Views == [Providers -> [proxies : Contents, hosts : Contents]]
Job == [op : {"none", "start", "apply", "refresh", "poll"}, on : {"live", "next"},
        todo : SUBSET Providers, keys : SUBSET Providers, view : Maybe(Views)]

\* Instances that run have an accepted state each.
Accepted(f) == f \in [Providers -> Instance] /\ \A p \in Providers : f[p].state \in State

Typed ==
    /\ file \in [Files -> Contents]
    /\ path \in [Http -> Maybe(Contents)] /\ accepted \in [Http -> Maybe(Contents)]
    /\ versions \in [Providers -> Version \cup {0}]
    /\ good \in [Http -> Maybe(Contents)] /\ torn \in BOOLEAN
    /\ job \in Job /\ step \in Steps
    /\ tx \in [DOMAIN tx -> CacheUpdate] /\ DOMAIN tx \in SUBSET Providers

TypedInst ==
    /\ inst = [live |-> inst.live, next |-> inst.next]
    /\ Live = None \/ Accepted(Live)
    /\ inst.next = None \/ inst.next \in [Providers -> Maybe(Instance)]

\* Which operation is where, and on what instances.
Phase ==
    /\ step = "idle" => job = NoJob
    /\ step = "idle" \/ job.op \in {"refresh", "poll"} \/ step = "capture" => inst.next = None
    /\ step \in {"idle", "poll", "init", "check", "prepare"} => tx = <<>>
    /\ step # "idle" => job.op # "none" /\ job.on = (IF Building THEN "next" ELSE "live")
    /\ step = "init" => Building
    /\ step = "poll" => job.op = "poll"
    /\ step # "idle" /\ ~Building => Running
    /\ step = "capture" => Accepted(Live)

\* A candidate configuration: what is no longer to do has been loaded.
Built(p) ==
    /\ inst.next[p] \in Instance /\ inst.next[p].staged \in State
    /\ p \in Http => LET i == inst.next[p]
                     IN /\ i.rejected = 0 /\ i.staged.version = i.version
                        /\ i.staged.proxies = i.content /\ i.staged.hosts = i.content
                        /\ i.content \notin Unparsable
                        /\ step # "rollback" => path[p] = i.content
                        /\ ~torn /\ good[p] # None => i.content = good[p]
Candidates ==
    /\ step \in {"init", "check", "prepare", "commit", "rollback"} /\ Building =>
          /\ inst.next \in [Providers -> Maybe(Instance)]
          /\ \A p \in Providers \ job.todo : Built(p)
    /\ step \in {"check", "prepare", "commit", "rollback"} /\ Building => job.todo = {}

\* What runs of a subscription: every version was staged or rejected at once.
Settled(i) ==
    /\ i.rejected <= i.version /\ i.state.version <= i.version
    /\ i.staged # None => /\ i.staged.version = i.version /\ i.rejected = 0
                          /\ i.staged.proxies = i.content
    /\ i.rejected # i.version => i.content \notin Unparsable
    /\ i.staged = None => i.version \in {i.rejected, i.state.version}
    /\ i.state.version = i.version => i.state.proxies = i.content

Subscriptions ==
    Running => \A p \in Http :
        /\ Settled(Live[p])
        /\ step # "capture" => versions[p] = Live[p].state.version
        /\ step = "capture" => Live[p].staged = None

\* What is in force is what the running providers were accepted with.
InForce ==
    /\ Running => /\ published = [p \in Providers |-> Content(Live[p].state)]
                  /\ Passes(published)
    /\ step \in {"prepare", "commit"} => job.view = View(On) /\ Passes(job.view)

\* The transaction has an entry for every candidate, and what it published is
\* on record.
Transaction ==
    /\ step \in {"commit", "rollback"} =>
          /\ DOMAIN tx = Entries(On)
          /\ \A p \in DOMAIN tx \cap Files : tx[p].committed
          /\ \A p \in DOMAIN tx \cap Http :
                /\ tx[p].committed => accepted[p] = tx[p].new
                /\ step = "commit" /\ (Building \/ ~torn) => tx[p].new = job.view[p].proxies
    /\ step = "capture" => \A p \in Http : good[p] = job.view[p].proxies

\* The accepted copies of the caches.
Caches ==
    ~torn => \A p \in Http :
        /\ p \notin Renamed \/ step \notin {"commit", "rollback"} => accepted[p] = good[p]
        /\ step \in {"commit", "rollback"} /\ p \in DOMAIN tx => tx[p].old = good[p]
        /\ good[p] \notin Unparsable
        /\ Running => /\ Live[p].state.proxies = good[p] /\ Live[p].state.hosts = good[p]
                      /\ Live[p].staged # None => Live[p].staged.hosts = Live[p].content
                      /\ Live[p].rejected # Live[p].version => path[p] = Live[p].content
                      /\ Building /\ p \notin job.todo /\ step # "capture" => Live[p].staged = None

IInv == Typed /\ TypedInst /\ Phase /\ Candidates /\ Subscriptions /\ InForce /\ Transaction /\ Caches

USE DEF disk, memory, operation, history, Goto, Return, Live, Running, Free, Building

----------------------------------------------------------------------------
(* What the invariant says of the instances an operation works on *)

LEMMA NoEntries == ASSUME NEW t, t = <<>> PROVE DOMAIN t = {} /\ t \in [DOMAIN t -> CacheUpdate]
OBVIOUS

LEMMA EntryParts ==
    ASSUME NEW e \in CacheUpdate
    PROVE  /\ e = [new |-> e.new, old |-> e.old, committed |-> e.committed]
           /\ e.new \in Maybe(Contents) /\ e.old \in Maybe(Contents)
BY DEF CacheUpdate

LEMMA EntryMarked ==
    ASSUME NEW e \in CacheUpdate, NEW b \in BOOLEAN
    PROVE  /\ [e EXCEPT !.committed = b] = [new |-> e.new, old |-> e.old, committed |-> b]
           /\ [e EXCEPT !.committed = b] \in CacheUpdate
<1>1. e = [new |-> e.new, old |-> e.old, committed |-> e.committed] /\ e.new \in Maybe(Contents)
      /\ e.old \in Maybe(Contents)
  BY EntryParts
<1>2. [e EXCEPT !.committed = b] = [new |-> e.new, old |-> e.old, committed |-> b]
  BY <1>1
<1> QED BY <1>1, <1>2 DEF CacheUpdate

\* An entry is marked as committed, or as rolled back.
LEMMA Marked ==
    ASSUME Typed, NEW p \in DOMAIN tx, NEW b \in BOOLEAN, tx' = [tx EXCEPT ![p].committed = b]
    PROVE  /\ tx' \in [DOMAIN tx' -> CacheUpdate] /\ DOMAIN tx' = DOMAIN tx
           /\ tx'[p].new = tx[p].new /\ tx'[p].old = tx[p].old /\ tx'[p].committed = b
           /\ \A q \in DOMAIN tx \ {p} : tx'[q] = tx[q]
<1> DEFINE marked == [tx[p] EXCEPT !.committed = b]
<1>1. tx \in [DOMAIN tx -> CacheUpdate] /\ tx[p] \in CacheUpdate
  BY DEF Typed
<1>2. marked = [new |-> tx[p].new, old |-> tx[p].old, committed |-> b] /\ marked \in CacheUpdate
  BY <1>1, EntryMarked
<1>3. tx' = [tx EXCEPT ![p] = marked]
  OBVIOUS
<1> HIDE DEF marked
<1>4. marked.new = tx[p].new /\ marked.old = tx[p].old /\ marked.committed = b
  BY <1>2
<1> QED BY <1>1, <1>2, <1>3, <1>4

LEMMA OnParts ==
    ASSUME IInv
    PROVE  /\ On = IF job.on = "live" THEN inst.live ELSE inst.next
           /\ step # "idle" /\ Building => On = inst.next
           /\ step # "idle" /\ ~Building => On = inst.live
BY DEF IInv, Phase, On, Typed, Job

Working == step \in {"check", "prepare", "commit", "rollback"}

\* It works on instances of every provider, and each has a candidate or an
\* accepted state.
LEMMA Worked ==
    ASSUME IInv, Working
    PROVE  /\ On \in [Providers -> Instance]
           /\ \A p \in Providers : Candidate(On[p]) \in State
           /\ Building => \A p \in Providers : On[p].staged \in State /\ On[p].staged # None
           /\ ~Building => Running /\ Accepted(Live)
<1>1. CASE Building
  <2>1. On = inst.next /\ job.todo = {} /\ inst.next \in [Providers -> Maybe(Instance)]
    BY <1>1, OnParts DEF IInv, Candidates, Working
  <2>2. \A p \in Providers : inst.next[p] \in Instance /\ inst.next[p].staged \in State
    BY <1>1, <2>1 DEF IInv, Candidates, Built, Working
  <2> QED BY <1>1, <2>1, <2>2, NoneAssumption DEF Candidate
<1>2. CASE ~Building
  <2>1. On = inst.live /\ Accepted(Live) /\ Running
    BY <1>2, OnParts DEF IInv, Phase, TypedInst, Working
  <2> QED BY <1>2, <2>1, InstanceParts DEF Accepted, Candidate, Maybe
<1> QED BY <1>1, <1>2

LEMMA StateParts ==
    ASSUME NEW s \in State
    PROVE  s.version \in Version /\ s.proxies \in Contents /\ s.hosts \in Contents
BY DEF State

LEMMA ViewTyped ==
    ASSUME IInv, Working
    PROVE  View(On) \in Views
           /\ \A p \in Providers :
                 View(On)[p] = Content(Candidate(On[p])) /\ View(On)[p].proxies = Candidate(On[p]).proxies
BY Worked, StateParts DEF View, Views, Content

----------------------------------------------------------------------------
(* The simple steps *)

LEMMA PollKeeps == ASSUME IInv, Poll PROVE IInv'
<1>1. Typed'
  BY DEF IInv, Typed, Job, Maybe, NoJob, Steps, TypedInst, Poll
<1>2. TypedInst'
  BY DEF IInv, TypedInst, Poll
<1>3. Phase'
  BY DEF IInv, Phase, NoJob, Poll
<1>4. Candidates'
  BY DEF Candidates, Poll
<1>5. Subscriptions'
  BY DEF IInv, Subscriptions, Poll
<1>6. InForce'
  BY DEF IInv, InForce, Poll
<1>7. Transaction'
  BY DEF Transaction, Poll
<1>8. Caches'
  BY DEF IInv, Caches, Poll
<1> QED BY <1>1, <1>2, <1>3, <1>4, <1>5, <1>6, <1>7, <1>8 DEF IInv

LEMMA PollDoneKeeps == ASSUME IInv, PollDone PROVE IInv'
<1>1. Typed'
  BY NoEntries DEF IInv, Typed, Job, Maybe, NoJob, Steps, PollDone
<1>2. TypedInst'
  BY DEF IInv, TypedInst, PollDone
<1>3. Phase'
  BY DEF IInv, Phase, PollDone
<1>4. Candidates'
  BY DEF IInv, Candidates, Phase, PollDone
<1>5. Subscriptions'
  BY DEF IInv, Subscriptions, PollDone
<1>6. InForce'
  BY DEF IInv, InForce, PollDone
<1>7. Transaction'
  BY DEF Transaction, PollDone
<1>8. Caches'
  BY DEF IInv, Caches, NoJob, PollDone
<1> QED BY <1>1, <1>2, <1>3, <1>4, <1>5, <1>6, <1>7, <1>8 DEF IInv

LEMMA StartKeeps == ASSUME IInv, Start PROVE IInv'
<1>1. Typed'
  BY DEF IInv, Typed, Job, Maybe, NoJob, Steps, TypedInst, Start, Blank
<1>2. TypedInst'
  BY DEF IInv, TypedInst, Maybe, Start, Blank
<1>3. Phase'
  BY DEF IInv, Phase, Start
<1>4. Candidates'
  <2>1. inst' = [live |-> inst.live, next |-> Blank] /\ job'.todo = Providers /\ step' = "init"
    BY DEF IInv, TypedInst, Start
  <2>2. Blank \in [Providers -> Maybe(Instance)]
    BY DEF Blank, Maybe
  <2> QED BY <2>1, <2>2 DEF Candidates
<1>5. Subscriptions'
  BY DEF Subscriptions, Start
<1>6. InForce'
  BY DEF InForce, Start
<1>7. Transaction'
  BY DEF Transaction, Start
<1>8. Caches'
  BY DEF IInv, Caches, Start
<1> QED BY <1>1, <1>2, <1>3, <1>4, <1>5, <1>6, <1>7, <1>8 DEF IInv

LEMMA ApplyKeeps == ASSUME IInv, Apply PROVE IInv'
<1>1. Typed'
  BY DEF IInv, Typed, Job, Maybe, NoJob, Steps, TypedInst, Apply, Blank
<1>2. TypedInst'
  BY DEF IInv, TypedInst, Maybe, Apply, Blank
<1>3. Phase'
  BY DEF IInv, Phase, Apply
<1>4. Candidates'
  <2>1. inst' = [live |-> inst.live, next |-> Blank] /\ job'.todo = Providers /\ step' = "init"
    BY DEF IInv, TypedInst, Apply
  <2>2. Blank \in [Providers -> Maybe(Instance)]
    BY DEF Blank, Maybe
  <2> QED BY <2>1, <2>2 DEF Candidates
<1>5. Subscriptions'
  BY DEF IInv, Subscriptions, Apply
<1>6. InForce'
  BY DEF IInv, InForce, Apply
<1>7. Transaction'
  BY DEF Transaction, Apply
<1>8. Caches'
  <2>1. inst'.live = inst.live /\ job'.todo = Providers /\ step' = "init" /\ step = "idle"
    BY DEF Apply
  <2> QED BY <2>1 DEF IInv, Caches, Apply, Providers
<1> QED BY <1>1, <1>2, <1>3, <1>4, <1>5, <1>6, <1>7, <1>8 DEF IInv

LEMMA CheckPassesKeeps == ASSUME IInv, CheckPasses PROVE IInv'
<1>1. Typed'
  <2>1. View(On) \in Views
    BY ViewTyped DEF Working, CheckPasses
  <2> HIDE DEF Views
  <2> QED BY <2>1 DEF IInv, Typed, Job, Maybe, Steps, CheckPasses
<1>2. TypedInst'
  BY DEF IInv, TypedInst, CheckPasses
<1>3. Phase'
  BY DEF IInv, Phase, CheckPasses
<1>4. Candidates'
  BY DEF IInv, Candidates, Built, CheckPasses
<1>5. Subscriptions'
  BY DEF IInv, Subscriptions, CheckPasses
<1>6. InForce'
  BY DEF IInv, InForce, On, CheckPasses
<1>7. Transaction'
  BY DEF Transaction, CheckPasses
<1>8. Caches'
  BY DEF IInv, Caches, CheckPasses
<1> QED BY <1>1, <1>2, <1>3, <1>4, <1>5, <1>6, <1>7, <1>8 DEF IInv

LEMMA PrepareKeeps == ASSUME IInv, Prepare PROVE IInv'
<1> DEFINE entry(p) == IF p \in Http THEN [new |-> path[p], old |-> accepted[p], committed |-> FALSE]
                                     ELSE [new |-> None, old |-> None, committed |-> TRUE]
<1>1. /\ step = "prepare" /\ step' = "commit" /\ tx' = [p \in Entries(On) |-> entry(p)]
      /\ UNCHANGED <<disk, memory, job, history>> /\ Working
  BY DEF Prepare, Working
<1>2. \A p \in Entries(On) : entry(p) \in CacheUpdate /\ p \in Providers /\ On[p].staged # None
  BY DEF IInv, Typed, CacheUpdate, Maybe, Entries
<1>3. On' = On
  BY <1>1 DEF On
<1>4. DOMAIN tx' = Entries(On) /\ \A p \in Entries(On) : tx'[p] = entry(p)
  BY <1>1
<1>5. ASSUME NEW p \in Entries(On), p \in Files PROVE tx'[p].committed
  BY <1>4, <1>5, SourcesAssumption
<1>6. ASSUME NEW p \in Entries(On), p \in Http PROVE tx'[p].committed = FALSE /\ tx'[p].new = path[p]
  BY <1>4, <1>6
<1> HIDE DEF entry
<1>7. Typed'
  <2>1. tx' \in [DOMAIN tx' -> CacheUpdate] /\ DOMAIN tx' \in SUBSET Providers
    BY <1>1, <1>2
  <2> QED BY <1>1, <2>1 DEF IInv, Typed, Steps
<1>8. ASSUME NEW p \in Entries(On), p \in Http, Building \/ ~torn PROVE path[p] = job.view[p].proxies
  <2>1. job.view[p].proxies = On[p].staged.proxies /\ p \in Providers
    BY <1>1, <1>2, <1>8, ViewTyped DEF IInv, InForce, Candidate
  <2>2. CASE Building
    BY <1>1, <1>8, <2>1, <2>2, OnParts DEF IInv, Candidates, Built
  <2>3. CASE ~Building
    <3>1. On = Live /\ Running /\ Live[p].staged # None /\ Live[p] \in Instance
      BY <1>1, <1>2, <2>3, OnParts, Worked DEF Accepted
    <3>2. Live[p].rejected = 0 /\ Live[p].staged.proxies = Live[p].content /\ Live[p].version # 0
      BY <1>8, <3>1, InstanceParts, VersionParts DEF IInv, Subscriptions, Settled
    <3> QED BY <1>8, <2>1, <2>3, <3>1, <3>2 DEF IInv, Caches
  <2> QED BY <2>2, <2>3
<1>9. Entries(On)' = Entries(On) /\ (Building \/ ~torn)' = (Building \/ ~torn)
  BY <1>1, <1>3 DEF Entries
<1>10. Transaction'
  BY <1>1, <1>2, <1>3, <1>4, <1>5, <1>6, <1>8, <1>9 DEF Transaction
<1>12. TypedInst'
  BY DEF IInv, TypedInst, Prepare
<1>13. Phase'
  BY DEF IInv, Phase, Prepare
<1>14. Candidates'
  BY DEF IInv, Candidates, Built, Prepare
<1>15. Subscriptions'
  BY DEF IInv, Subscriptions, Prepare
<1>16. InForce'
  BY DEF IInv, InForce, On, Prepare
<1>18. Caches'
  BY DEF IInv, Caches, Prepare
<1> QED BY <1>7, <1>10, <1>12, <1>13, <1>14, <1>15, <1>16, <1>18 DEF IInv

LEMMA CommitFailsKeeps == ASSUME IInv, CommitFails PROVE IInv'
<1>1. Typed'
  BY DEF IInv, Typed, Steps, CommitFails
<1>2. TypedInst'
  BY DEF IInv, TypedInst, CommitFails
<1>3. Phase'
  BY DEF IInv, Phase, CommitFails
<1>4. Candidates'
  BY DEF IInv, Candidates, Built, CommitFails
<1>5. Subscriptions'
  BY DEF IInv, Subscriptions, CommitFails
<1>6. InForce'
  BY DEF IInv, InForce, CommitFails
<1>7. Transaction'
  BY DEF IInv, Transaction, On, CommitFails
<1>8. Caches'
  BY DEF IInv, Caches, Renamed, CommitFails
<1> QED BY <1>1, <1>2, <1>3, <1>4, <1>5, <1>6, <1>7, <1>8 DEF IInv

LEMMA CommitKeeps == ASSUME IInv, NEW p \in Providers, Commit(p) PROVE IInv'
<1>1. tx' = [tx EXCEPT ![p].committed = TRUE] /\ p \in DOMAIN tx
      /\ accepted' = [accepted EXCEPT ![p] = tx[p].new]
  BY DEF Commit
<1>2. Typed'
  <2>1. tx[p].new \in Maybe(Contents)
    BY <1>1, EntryParts DEF IInv, Typed
  <2>2. tx' \in [DOMAIN tx' -> CacheUpdate] /\ DOMAIN tx' = DOMAIN tx
    BY <1>1, Marked DEF IInv
  <2> QED BY <1>1, <2>1, <2>2 DEF IInv, Typed, Commit
<1>4. TypedInst'
  BY DEF IInv, TypedInst, Commit
<1>5. Phase'
  BY DEF IInv, Phase, Commit
<1>6. Candidates'
  BY DEF IInv, Candidates, Built, Commit
<1>7. Subscriptions'
  BY DEF IInv, Subscriptions, Commit
<1>8. InForce'
  BY DEF IInv, InForce, On, Commit
<1>9. Transaction'
  BY DEF IInv, Transaction, On, Typed, Commit
<1>10. Caches'
  BY DEF IInv, Caches, Renamed, Commit
<1> QED BY <1>2, <1>4, <1>5, <1>6, <1>7, <1>8, <1>9, <1>10 DEF IInv

LEMMA RollbackKeeps == ASSUME IInv, NEW p \in Providers, Rollback(p) PROVE IInv'
<1>1. /\ tx' = [tx EXCEPT ![p].committed = FALSE] /\ p \in DOMAIN tx /\ p \in Http
      /\ accepted' = [accepted EXCEPT ![p] = tx[p].old]
      /\ step = "rollback" /\ UNCHANGED <<file, path, memory, job, step, history>>
  BY DEF Rollback, Renamed
<1>2. /\ tx' \in [DOMAIN tx' -> CacheUpdate] /\ DOMAIN tx' = DOMAIN tx
      /\ tx'[p].new = tx[p].new /\ tx'[p].old = tx[p].old /\ tx'[p].committed = FALSE
      /\ \A q \in DOMAIN tx \ {p} : tx'[q] = tx[q]
  BY <1>1, Marked DEF IInv
<1>3. Typed'
  <2>1. tx[p].old \in Maybe(Contents)
    BY <1>1, EntryParts DEF IInv, Typed
  <2> QED BY <1>1, <1>2, <2>1 DEF IInv, Typed
<1>4. Transaction'
  <2>1. \A q \in Http \ {p} : accepted'[q] = accepted[q]
    BY <1>1 DEF IInv, Typed
  <2>2. On' = On
    BY <1>1 DEF On
  <2> QED BY <1>1, <1>2, <2>1, <2>2, SourcesAssumption DEF IInv, Transaction, Entries
<1>6. TypedInst'
  BY DEF IInv, TypedInst, Rollback
<1>7. Phase'
  BY DEF IInv, Phase, Rollback
<1>8. Candidates'
  BY DEF IInv, Candidates, Built, Rollback
<1>9. Subscriptions'
  BY DEF IInv, Subscriptions, Rollback
<1>10. InForce'
  BY DEF IInv, InForce, Rollback
<1>12. Caches'
  BY DEF IInv, Caches, Renamed, Typed, Rollback
<1> QED BY <1>3, <1>4, <1>6, <1>7, <1>8, <1>9, <1>10, <1>12 DEF IInv

LEMMA RollbackFailsKeeps == ASSUME IInv, NEW p \in Providers, RollbackFails(p) PROVE IInv'
<1>1. /\ tx' = [tx EXCEPT ![p].committed = FALSE] /\ p \in DOMAIN tx /\ p \in Http
      /\ step = "rollback" /\ UNCHANGED <<disk, memory, job, step, good>> /\ torn' = TRUE
  BY DEF RollbackFails, Renamed
<1>2. /\ tx' \in [DOMAIN tx' -> CacheUpdate] /\ DOMAIN tx' = DOMAIN tx
      /\ tx'[p].new = tx[p].new /\ tx'[p].old = tx[p].old /\ tx'[p].committed = FALSE
      /\ \A q \in DOMAIN tx \ {p} : tx'[q] = tx[q]
  BY <1>1, Marked DEF IInv
<1>3. Typed'
  <2>1. torn' \in BOOLEAN
    BY <1>1, Zenon
  <2> QED BY <1>1, <1>2, <2>1 DEF IInv, Typed
<1>4. Transaction'
  <2>1. On' = On
    BY <1>1 DEF On
  <2> QED BY <1>1, <1>2, <2>1, SourcesAssumption DEF IInv, Transaction, Entries
<1>6. TypedInst'
  BY DEF IInv, TypedInst, RollbackFails
<1>7. Phase'
  BY DEF IInv, Phase, RollbackFails
<1>8. Candidates'
  BY DEF IInv, Candidates, Built, RollbackFails
<1>9. Subscriptions'
  BY DEF IInv, Subscriptions, RollbackFails
<1>10. InForce'
  BY DEF IInv, InForce, RollbackFails
<1>12. Caches'
  BY DEF Caches, RollbackFails
<1> QED BY <1>3, <1>4, <1>6, <1>7, <1>8, <1>9, <1>10, <1>12 DEF IInv

LEMMA WriteFileKeeps == ASSUME IInv, NEW f \in Files, WriteFile(f) PROVE IInv'
<1>1. Typed'
  BY DEF IInv, Typed, WriteFile
<1>2. TypedInst'
  BY DEF IInv, TypedInst, WriteFile
<1>3. Phase'
  BY DEF IInv, Phase, WriteFile
<1>4. Candidates'
  BY DEF IInv, Candidates, Built, WriteFile
<1>5. Subscriptions'
  BY DEF IInv, Subscriptions, WriteFile
<1>6. InForce'
  BY DEF IInv, InForce, On, WriteFile
<1>7. Transaction'
  BY DEF IInv, Transaction, On, WriteFile
<1>8. Caches'
  BY DEF IInv, Caches, Renamed, WriteFile
<1> QED BY <1>1, <1>2, <1>3, <1>4, <1>5, <1>6, <1>7, <1>8 DEF IInv

----------------------------------------------------------------------------
(* Operations that end without success *)

LEMMA RestoreParts ==
    ASSUME Typed, NEW S, Restore(S)
    PROVE  /\ path' \in [Http -> Maybe(Contents)]
           /\ \A p \in Http : path'[p] \in {path[p], accepted[p]} /\ (p \notin S => path'[p] = path[p])
BY DEF Typed, Restore, Maybe

\* The operation ends, and nothing runs any more.
LEMMA WithdrawnKeeps ==
    ASSUME IInv, inst' = [live |-> None, next |-> None], published' = None, Return,
           UNCHANGED <<file, accepted, versions, good>>, path' \in [Http -> Maybe(Contents)],
           torn' \in BOOLEAN, ~torn' => ~torn /\ (step \in {"commit", "rollback"} => Renamed = {})
    PROVE  IInv'
<1>1. inst'.live = None /\ inst'.next = None
  OBVIOUS
<1>2. Typed'
  BY DEF IInv, Typed, Job, Maybe, NoJob, Steps
<1>3. TypedInst' /\ Phase' /\ Candidates' /\ Subscriptions' /\ InForce' /\ Transaction'
  BY <1>1 DEF TypedInst, Phase, Candidates, Subscriptions, InForce, Transaction
<1>4. Caches'
  BY <1>1 DEF IInv, Caches, NoJob
<1> QED BY <1>2, <1>3, <1>4 DEF IInv

\* A candidate configuration is dropped; what runs goes on.
LEMMA AbandonedKeeps ==
    ASSUME IInv, Building, step # "idle", step # "capture", Abandon, Return,
           UNCHANGED <<file, accepted, versions, published, history>>,
           path' \in [Http -> Maybe(Contents)],
           step \in {"commit", "rollback"} => Renamed = {},
           ~torn /\ Running => \A p \in Http :
              path'[p] = path[p] \/ (p \notin job.todo /\ path'[p] = accepted[p])
    PROVE  IInv'
<1>1. inst'.live = inst.live /\ inst'.next = None /\ inst' = [live |-> inst'.live, next |-> inst'.next]
  BY DEF IInv, TypedInst, Abandon
<1>2. Typed'
  BY DEF IInv, Typed, Job, Maybe, NoJob, Steps
<1>3. TypedInst' /\ Phase' /\ Candidates' /\ Transaction'
  BY <1>1 DEF IInv, TypedInst, Phase, Candidates, Transaction
<1>4. Subscriptions' /\ InForce'
  BY <1>1 DEF IInv, Subscriptions, InForce
<1>5. ASSUME ~torn, Running, NEW p \in Http, Live[p].rejected # Live[p].version
      PROVE  path'[p] = Live[p].content
  <2>1. CASE path'[p] = path[p]
    BY <1>5, <2>1 DEF IInv, Caches
  <2>2. CASE p \notin job.todo /\ path'[p] = accepted[p]
    <3>1. Live[p].staged = None /\ accepted[p] = good[p] /\ Live[p].state.proxies = good[p]
      BY <1>5, <2>2 DEF IInv, Caches
    <3> QED BY <1>5, <2>2, <3>1 DEF IInv, Subscriptions, Settled
  <2> QED BY <1>5, <2>1, <2>2
<1>6. Caches'
  BY <1>1, <1>5 DEF IInv, Caches, NoJob
<1> QED BY <1>2, <1>3, <1>4, <1>6 DEF IInv

\* The candidates of some running providers are rejected, and the operation ends.
LEMMA RejectedKeeps ==
    ASSUME IInv, ~Building, step # "idle", step # "capture", NEW S \in SUBSET Providers,
           inst' = [inst EXCEPT !.live = [p \in Providers |-> IF p \in S THEN Reject(@[p]) ELSE @[p]]],
           Restore(S \cap Http), Return, UNCHANGED <<file, accepted, versions, published, history>>,
           step \in {"commit", "rollback"} => Renamed = {}
    PROVE  IInv'
<1>1. Running /\ Accepted(Live) /\ inst.next = None
  BY DEF IInv, TypedInst, Phase, Typed, Job
<1>2. /\ inst'.live = [p \in Providers |-> IF p \in S THEN Reject(inst.live[p]) ELSE inst.live[p]]
      /\ inst'.next = None /\ inst' = [live |-> inst'.live, next |-> inst'.next]
  BY <1>1 DEF IInv, TypedInst
<1>3. ASSUME NEW p \in Providers
      PROVE  /\ inst.live[p] \in Instance /\ inst'.live[p] \in Instance
             /\ inst'.live[p].state = inst.live[p].state
             /\ inst'.live[p].version = inst.live[p].version
             /\ inst'.live[p].content = inst.live[p].content
             /\ p \in S => inst'.live[p].staged = None /\ inst'.live[p].rejected = inst.live[p].version
             /\ p \notin S => inst'.live[p] = inst.live[p]
  BY <1>1, <1>2, RejectParts DEF Accepted
<1>4. /\ path' \in [Http -> Maybe(Contents)]
      /\ \A p \in Http \ S : path'[p] = path[p]
  BY RestoreParts DEF IInv
<1>5. Typed'
  BY <1>4 DEF IInv, Typed, Job, Maybe, NoJob, Steps
<1>6. Accepted(inst'.live)
  BY <1>1, <1>2, <1>3 DEF Accepted
<1>7. TypedInst' /\ Phase' /\ Candidates' /\ Transaction'
  BY <1>2, <1>6 DEF TypedInst, Phase, Candidates, Transaction
<1>8. Subscriptions'
  <2>1. ASSUME NEW p \in Http PROVE Settled(inst'.live[p])
    <3>1. inst'.live[p].version \in Nat /\ p \in Providers
      BY <1>3, InstanceParts, VersionParts DEF Providers
    <3> QED BY <1>1, <1>3, <3>1 DEF IInv, Subscriptions, Settled
  <2> QED BY <1>1, <1>3, <2>1 DEF IInv, Subscriptions, Providers
<1>9. InForce'
  BY <1>1, <1>3 DEF IInv, InForce
<1>10. Caches'
  <2>1. ASSUME NEW p \in Http, ~torn
        PROVE  /\ accepted[p] = good[p] /\ good[p] \notin Unparsable
               /\ inst'.live[p].state.proxies = good[p] /\ inst'.live[p].state.hosts = good[p]
               /\ inst'.live[p].staged # None => inst'.live[p].staged.hosts = inst'.live[p].content
               /\ inst'.live[p].rejected # inst'.live[p].version => path'[p] = inst'.live[p].content
    <3>1. p \in Providers
      BY DEF Providers
    <3>2. /\ accepted[p] = good[p] /\ good[p] \notin Unparsable
          /\ inst'.live[p].state.proxies = good[p] /\ inst'.live[p].state.hosts = good[p]
      BY <1>1, <1>3, <2>1, <3>1 DEF IInv, Caches
    <3>3. CASE p \in S
      BY <1>3, <3>1, <3>2, <3>3
    <3>4. CASE p \notin S
      BY <1>1, <1>3, <1>4, <2>1, <3>1, <3>2, <3>4 DEF IInv, Caches
    <3> QED BY <3>3, <3>4
  <2> QED BY <2>1 DEF Caches, NoJob
<1> QED BY <1>5, <1>7, <1>8, <1>9, <1>10 DEF IInv

LEMMA UnsafeKeeps == ASSUME IInv, Unsafe PROVE IInv'
<1>1. CASE Building
  BY <1>1, AbandonedKeeps DEF Unsafe, IInv, Typed
<1>2. CASE ~Building
  BY <1>2, WithdrawnKeeps DEF Unsafe, Withdraw, IInv, Typed
<1> QED BY <1>1, <1>2

LEMMA CrashKeeps == ASSUME IInv, Crash PROVE IInv'
<1>1. torn' \in BOOLEAN /\ (~torn' => ~torn /\ (step \in {"commit", "rollback"} => Renamed = {}))
  BY Zenon DEF IInv, Typed, Crash
<1> QED BY <1>1, WithdrawnKeeps DEF Crash, IInv, Typed

LEMMA InvalidKeeps == ASSUME IInv, Invalid PROVE IInv'
<1>1. path' \in [Http -> Maybe(Contents)]
  BY RestoreParts DEF Invalid, IInv
<1>2. Renamed = {}
  BY DEF Invalid, Renamed
<1> QED BY <1>1, <1>2, WithdrawnKeeps DEF Invalid, Withdraw, IInv, Typed

LEMMA CheckFailsKeeps == ASSUME IInv, CheckFails PROVE IInv'
<1>1. CASE Building
  BY <1>1, AbandonedKeeps DEF CheckFails, IInv, Typed
<1>2. CASE ~Building
  <2>1. job.keys \in SUBSET Providers
    BY DEF IInv, Typed, Job
  <2> QED BY <1>2, <2>1, RejectedKeeps DEF CheckFails
<1> QED BY <1>1, <1>2

LEMMA PrepareFailsKeeps == ASSUME IInv, PrepareFails PROVE IInv'
<1>1. PICK done \in SUBSET Entries(On) :
          /\ IF Building THEN Abandon
             ELSE inst' =
               [inst EXCEPT !.live = [p \in Providers |-> IF p \in done THEN Reject(@[p]) ELSE @[p]]]
          /\ Restore(done \cap Http)
  BY DEF PrepareFails
<1>2. done \in SUBSET Providers
  BY DEF Entries
<1>3. step = "prepare" /\ Return /\ UNCHANGED <<file, accepted, versions, published, history>>
  BY DEF PrepareFails
<1>4. CASE Building
  <2>1. /\ path' \in [Http -> Maybe(Contents)]
        /\ \A p \in Http : path'[p] \in {path[p], accepted[p]}
    BY <1>1, RestoreParts DEF IInv
  <2>2. job.todo = {}
    BY <1>3, <1>4 DEF IInv, Candidates
  <2> QED BY <1>1, <1>3, <1>4, <2>1, <2>2, AbandonedKeeps
<1>5. CASE ~Building
  BY <1>1, <1>2, <1>3, <1>5, RejectedKeeps
<1> QED BY <1>4, <1>5

LEMMA RolledBackKeeps == ASSUME IInv, RolledBack PROVE IInv'
<1>1. DOMAIN tx \in SUBSET Providers
  BY DEF IInv, Typed
<1>2. CASE Building
  <2>1. /\ path' \in [Http -> Maybe(Contents)]
        /\ \A p \in Http : path'[p] \in {path[p], accepted[p]}
    BY RestoreParts DEF IInv, RolledBack
  <2>2. job.todo = {}
    BY <1>2 DEF IInv, Candidates, RolledBack
  <2> QED BY <1>2, <2>1, <2>2, AbandonedKeeps DEF RolledBack
<1>3. CASE ~Building
  BY <1>1, <1>3, RejectedKeeps DEF RolledBack
<1> QED BY <1>2, <1>3

\* No download of an accepted subscription is needed, and it is no longer refused.
LEMMA InitialFailsKeeps == ASSUME IInv, NEW p \in Providers, InitialFails(p) PROVE IInv'
<1>1. /\ step = "init" /\ p \in job.todo /\ Abandon /\ Return
      /\ UNCHANGED <<file, accepted, versions, published, history>>
      /\ Building
  BY DEF InitialFails, IInv, Phase
<1>2. path' \in [Http -> Maybe(Contents)]
  BY DEF InitialFails, IInv, Typed
<1>3. ASSUME ~torn, Running, p \in Http PROVE FALSE
  <2>1. accepted[p] = good[p] /\ good[p] \notin Unparsable /\ Live[p].state.proxies = good[p]
    BY <1>1, <1>3 DEF IInv, Caches
  <2>2. good[p] # None /\ good[p] \in Contents
    <3>1. Live[p].state \in State
      BY <1>3 DEF IInv, TypedInst, Accepted
    <3> QED BY <2>1, <3>1, StateParts, SourcesAssumption
  <2>3. Cached(p) = good[p]
    BY <2>1, <2>2 DEF Cached
  <2>4. InitialContents(p) = {good[p]}
    BY <1>3, <2>2, <2>3, SourcesAssumption DEF InitialContents
  <2> QED BY <1>3, <2>1, <2>2, <2>3, <2>4, SourcesAssumption DEF InitialFails
<1>4. ASSUME ~torn, Running PROVE UNCHANGED path
  BY <1>3, <1>4 DEF InitialFails, Providers
<1> QED BY <1>1, <1>2, <1>4, AbandonedKeeps

----------------------------------------------------------------------------
(* What changes the running providers *)

\* One running instance is replaced: its accepted state stays.
LEMMA LiveChanged ==
    ASSUME IInv, Running, NEW p \in Providers, NEW i \in Instance, i.state = Live[p].state,
           inst' = [inst EXCEPT !.live[p] = i]
    PROVE  /\ inst'.next = inst.next /\ inst' = [live |-> inst'.live, next |-> inst'.next]
           /\ inst'.live[p] = i /\ \A q \in Providers \ {p} : inst'.live[q] = inst.live[q]
           /\ \A q \in Providers : inst'.live[q].state = inst.live[q].state
           /\ Accepted(Live) /\ Accepted(inst'.live) /\ TypedInst'
<1>1. inst = [live |-> inst.live, next |-> inst.next] /\ Accepted(Live)
  BY DEF IInv, TypedInst
<1>2. inst' = [live |-> [inst.live EXCEPT ![p] = i], next |-> inst.next]
  BY <1>1
<1>3. inst'.live[p] = i /\ \A q \in Providers \ {p} : inst'.live[q] = inst.live[q]
  BY <1>1, <1>2 DEF Accepted
<1>4. Accepted(inst'.live)
  BY <1>1, <1>2, <1>3 DEF Accepted
<1> QED BY <1>1, <1>2, <1>3, <1>4 DEF IInv, TypedInst, Accepted

LEMMA InForceStays ==
    ASSUME IInv, \A q \in Providers : inst'.live[q].state = inst.live[q].state, Running,
           UNCHANGED published, step' \notin {"prepare", "commit"}
    PROVE  InForce'
BY DEF IInv, InForce

\* What the native provider and sync make of an answer, while the operation
\* works on the running providers.
LEMMA FetchedParts ==
    ASSUME IInv, Running, inst.next = None,
           NEW p \in Providers, NEW c \in Contents, Fetch(p, c), NEW i \in {Updated(p, c)},
           inst' = [inst EXCEPT !.live[p] = i]
    PROVE  /\ Live[p] \in Instance /\ (c = Live[p].content \/ Live[p].version < MaxVersion[p])
           /\ i \in Instance /\ i.state = Live[p].state /\ i.content = c
           /\ i.version = IF c = Live[p].content THEN Live[p].version ELSE Live[p].version + 1
           /\ inst'.next = None /\ inst'.live[p] = i
           /\ \A q \in Providers \ {p} : inst'.live[q] = inst.live[q]
           /\ \A q \in Providers : inst'.live[q].state = inst.live[q].state
           /\ Accepted(inst'.live) /\ TypedInst'
           /\ path' \in [Http -> Maybe(Contents)] /\ \A q \in Http \ {p} : path'[q] = path[q]
           /\ p \in Http =>
                /\ Settled(i) /\ (Live[p].rejected = i.version => i = Live[p] /\ i.rejected = i.version)
                /\ i.rejected # i.version =>
                      i.staged # None /\ path'[p] = IF c = Live[p].content THEN path[p] ELSE c
                /\ Live[p].rejected # i.version /\ i.staged # None => i.staged.hosts = Left(p, c)
<1>0. i = Updated(p, c)
  OBVIOUS
<1>1. Accepted(Live) /\ Live[p] \in Instance
  BY DEF IInv, TypedInst, Accepted
<1>2. c = Live[p].content \/ Live[p].version < MaxVersion[p]
  BY DEF Fetch, Loadable
<1>3. /\ i \in Instance /\ i.state = Live[p].state /\ i.content = c
      /\ i.version = IF c = Live[p].content THEN Live[p].version ELSE Live[p].version + 1
      /\ Live[p].rejected = i.version => i = Load(Live[p], c)
      /\ Live[p].rejected # i.version => i = Stage(Load(Live[p], c), Left(p, c))
  BY <1>0, <1>1, <1>2, UpdateParts DEF Updated
<1>4. /\ inst'.next = None /\ inst'.live[p] = i
      /\ \A q \in Providers \ {p} : inst'.live[q] = inst.live[q]
      /\ \A q \in Providers : inst'.live[q].state = inst.live[q].state
      /\ Accepted(inst'.live) /\ TypedInst'
  BY <1>1, <1>3, LiveChanged
<1>5. path' \in [Http -> Maybe(Contents)] /\ \A q \in Http \ {p} : path'[q] = path[q]
  <2>1. p \in Http => Left(p, c) \in Maybe(Contents)
    BY SourcesAssumption DEF Left, Source, IInv, Typed, Maybe
  <2> QED BY <2>1 DEF Fetch, Downloaded, IInv, Typed, Maybe
<1>6. ASSUME p \in Http
      PROVE  /\ Settled(i) /\ (Live[p].rejected = i.version => i = Live[p] /\ i.rejected = i.version)
             /\ i.rejected # i.version => i.staged # None /\ path'[p] = IF c = Live[p].content THEN path[p] ELSE c
             /\ Live[p].rejected # i.version /\ i.staged # None => i.staged.hosts = Left(p, c)
  <2>1. Settled(Live[p]) /\ Live[p].version \in Nat \ {0} /\ Live[p].rejected \in Nat
        /\ Live[p].state \in State
    BY <1>1, <1>6, InstanceParts, VersionParts DEF IInv, Subscriptions, Accepted
  <2>2. Live[p].state.version \in Nat
    BY <2>1, StateParts, VersionParts
  <2>3. CASE Live[p].rejected = i.version
    <3>1. c = Live[p].content
      BY <1>3, <2>1, <2>3 DEF Settled
    <3>2. i = Live[p]
      BY <1>3, <2>3, <3>1 DEF Load
    <3> QED BY <2>1, <2>3, <3>2
  <2>4. CASE Live[p].rejected # i.version
    <3> DEFINE j == Load(Live[p], c)
    <3>1. j \in Instance /\ j.version = i.version /\ j.content = c /\ j.state = Live[p].state
          /\ i = Stage(j, Left(p, c)) /\ j.rejected = Live[p].rejected
      BY <1>1, <1>2, <1>3, <2>4, LoadParts
    <3> HIDE DEF j
    <3>2. /\ i.state = j.state /\ i.version \in Nat \ {0}
          /\ Left(p, c) \in Contents \ Unparsable =>
                /\ i.staged = [version |-> j.version, proxies |-> j.content, hosts |-> Left(p, c)]
                /\ i.staged \in State /\ i.rejected = 0
          /\ Left(p, c) \notin Contents \ Unparsable => i.staged = None /\ i.rejected = j.version
      BY <1>3, <3>1, StageParts, VersionParts, InstanceParts
    <3>3. i.state.version = i.version => i.state.proxies = i.content
      BY <1>3, <2>1, <2>2, <3>1 DEF Settled
    <3>4. Settled(i)
      <4>1. i.state.version \in Nat /\ i.state.version <= i.version
        BY <1>3, <2>1, <2>2 DEF Settled
      <4>2. i.staged # None => /\ i.staged.version = i.version /\ i.rejected = 0
                              /\ i.staged.proxies = i.content
        BY <1>3, <3>1, <3>2
      <4>4. i.rejected # i.version => i.content \notin Unparsable
        <5>1. CASE c = Live[p].content
          BY <1>3, <2>1, <2>4, <5>1 DEF Settled
        <5>2. CASE c # Live[p].content
          BY <1>3, <1>6, <3>1, <3>2, <5>2 DEF Left
        <5> QED BY <5>1, <5>2
      <4>3. i.rejected <= i.version /\ (i.staged = None => i.version = i.rejected)
        BY <3>1, <3>2, NoneAssumption
      <4> QED BY <3>3, <4>1, <4>2, <4>3, <4>4 DEF Settled
    <3>5. i.rejected # i.version => path'[p] = IF c = Live[p].content THEN path[p] ELSE c
      BY <1>0, <1>6, SourcesAssumption DEF Fetch, Downloaded, Left, Source, IInv, Typed
    <3> QED BY <2>4, <3>1, <3>2, <3>4, <3>5, NoneAssumption
  <2> QED BY <2>3, <2>4
<1> QED BY <1>1, <1>2, <1>3, <1>4, <1>5, <1>6

LEMMA FetchedKeeps ==
    ASSUME IInv, Running, inst.next = None, step \in {"idle", "poll"}, ~Building,
           NEW p \in Providers, NEW c \in Contents, Fetch(p, c),
           inst' = [inst EXCEPT !.live[p] = Updated(p, c)],
           UNCHANGED <<file, accepted, versions, published, history>>,
           step' \in {"idle", "poll", "check"}, job'.op \notin {"start", "apply"}
    PROVE  TypedInst' /\ path' \in [Http -> Maybe(Contents)] /\ Subscriptions' /\ InForce' /\ Caches'
           /\ Accepted(inst'.live)
<1> DEFINE i == Updated(p, c)
<1>1. i \in {Updated(p, c)} /\ inst' = [inst EXCEPT !.live[p] = i]
  OBVIOUS
<1> HIDE DEF i
<1>3. /\ i.content = c
      /\ i.version = IF c = Live[p].content THEN Live[p].version ELSE Live[p].version + 1
  BY <1>1, FetchedParts
<1>4. /\ inst'.next = None /\ inst'.live[p] = i
      /\ \A q \in Providers \ {p} : inst'.live[q] = inst.live[q]
      /\ \A q \in Providers : inst'.live[q].state = inst.live[q].state
      /\ Accepted(inst'.live) /\ TypedInst'
  BY <1>1, FetchedParts
<1>5. path' \in [Http -> Maybe(Contents)] /\ \A q \in Http \ {p} : path'[q] = path[q]
  BY <1>1, FetchedParts
<1>6. ASSUME p \in Http
      PROVE  /\ Settled(i) /\ (Live[p].rejected = i.version => i = Live[p] /\ i.rejected = i.version)
             /\ i.rejected # i.version => path'[p] = IF c = Live[p].content THEN path[p] ELSE c
             /\ Live[p].rejected # i.version /\ i.staged # None => i.staged.hosts = Left(p, c)
  BY <1>1, <1>6, FetchedParts
<1>7. Subscriptions'
  <2>1. ASSUME NEW q \in Http PROVE Settled(inst'.live[q]) /\ versions[q] = inst'.live[q].state.version
    <3>1. q \in Providers
      BY DEF Providers
    <3> QED BY <1>4, <1>6, <3>1 DEF IInv, Subscriptions
  <2> QED BY <2>1 DEF Subscriptions
<1>8. InForce'
  BY <1>4, InForceStays
<1>9. Caches'
  <2>1. ASSUME NEW q \in Http, ~torn
        PROVE  /\ accepted[q] = good[q] /\ good[q] \notin Unparsable
               /\ inst'.live[q].state.proxies = good[q] /\ inst'.live[q].state.hosts = good[q]
               /\ inst'.live[q].rejected # inst'.live[q].version => path'[q] = inst'.live[q].content
               /\ inst'.live[q].staged # None => inst'.live[q].staged.hosts = inst'.live[q].content
    <3>1. /\ accepted[q] = good[q] /\ good[q] \notin Unparsable /\ q \in Providers
          /\ inst'.live[q].state.proxies = good[q] /\ inst'.live[q].state.hosts = good[q]
      BY <1>4, <2>1 DEF IInv, Caches, Providers
    <3>2. CASE q # p
      BY <1>4, <1>5, <2>1, <3>1, <3>2 DEF IInv, Caches
    <3>3. CASE q = p
      <4>0. i.staged # None => i.staged.hosts = c
        <5>1. CASE Live[p].rejected = i.version
          BY <1>3, <1>6, <2>1, <3>3, <5>1 DEF IInv, Caches
        <5>2. CASE Live[p].rejected # i.version /\ c # Live[p].content
          BY <1>6, <3>3, <5>2 DEF Left
        <5>3. CASE Live[p].rejected # i.version /\ c = Live[p].content
          <6>1. path[p] = c
            BY <1>3, <2>1, <3>3, <5>3 DEF IInv, Caches
          <6>2. Left(p, c) = path[p]
            BY <3>3, <5>3, SourcesAssumption DEF Left, Source
          <6> QED BY <1>6, <3>3, <5>3, <6>1, <6>2
        <5> QED BY <5>1, <5>2, <5>3
      <4>1. SUFFICES ASSUME i.rejected # i.version PROVE path'[p] = c
        BY <1>3, <1>4, <3>1, <3>3, <4>0
      <4>2. path'[p] = IF c = Live[p].content THEN path[p] ELSE c
        BY <1>6, <3>3, <4>1
      <4>3. CASE c = Live[p].content
        <5>1. Live[p].rejected # Live[p].version
          BY <1>3, <1>6, <3>3, <4>1, <4>3
        <5> QED BY <2>1, <3>3, <4>2, <4>3, <5>1 DEF IInv, Caches
      <4> QED BY <4>2, <4>3
    <3> QED BY <3>2, <3>3
  <2> QED BY <2>1 DEF Caches
<1> QED BY <1>4, <1>5, <1>7, <1>8, <1>9

LEMMA RefreshKeeps == ASSUME IInv, NEW p \in Providers, Refresh(p) PROVE IInv'
<1>1. PICK c \in Contents :
          /\ Fetch(p, c)
          /\ inst' = [inst EXCEPT !.live[p] = Updated(p, c)]
          /\ IF Updated(p, c).staged = None
             THEN UNCHANGED <<job, step>>
             ELSE job' = [NoJob EXCEPT !.op = "refresh", !.keys = {p}] /\ step' = "check"
  BY DEF Refresh
<1>2. /\ step = "idle" /\ Running /\ UNCHANGED <<file, accepted, versions, published, tx, history>>
      /\ job = NoJob /\ inst.next = None /\ tx = <<>>
  BY DEF Refresh, IInv, Phase
<1>3. \/ job' = NoJob /\ step' = "idle"
      \/ job' =
        [op |-> "refresh", on |-> "live", todo |-> {}, keys |-> {p}, view |-> None] /\ step' = "check"
  BY <1>1, <1>2 DEF NoJob
<1>4. inst' = [inst EXCEPT !.live[p] = Updated(p, c)]
  BY <1>1
<1>5. TypedInst' /\ path' \in [Http -> Maybe(Contents)] /\ Subscriptions' /\ InForce' /\ Caches'
      /\ Accepted(inst'.live)
  BY <1>1, <1>2, <1>3, <1>4, FetchedKeeps DEF NoJob
<1>6. inst'.live # None /\ inst'.next = None
  BY <1>2, <1>4, <1>5, NoneAssumption DEF Accepted, IInv, TypedInst
<1>7. Typed'
  BY <1>2, <1>3, <1>5 DEF IInv, Typed, Job, NoJob, Steps
<1>8. Phase' /\ Candidates' /\ Transaction'
  BY <1>2, <1>3, <1>5, <1>6 DEF Phase, Candidates, Transaction
<1> QED BY <1>5, <1>7, <1>8 DEF IInv

LEMMA PolledParts ==
    ASSUME IInv, step = "poll", NEW p \in Providers, NEW i, Polled(p, i)
    PROVE  /\ Running /\ inst.next = None /\ tx = <<>> /\ job.op = "poll" /\ ~Building
           /\ job.on = "live"
           /\ inst' = [inst EXCEPT !.live[p] = i]
           /\ job' \in Job /\ job'.op = "poll" /\ job'.on = "live"
<1>1. job \in Job /\ job.op = "poll" /\ inst.next = None /\ tx = <<>> /\ Running /\ job.on = "live"
      /\ ~Building
  BY DEF IInv, Phase, Typed
<1>2. job = [op |-> job.op, on |-> job.on, todo |-> job.todo, keys |-> job.keys, view |-> job.view]
  BY <1>1 DEF Job
<1> DEFINE keys == IF Reported(i) # versions[p] THEN job.keys \cup {p} ELSE job.keys
<1>3. job' = [job EXCEPT !.todo = job.todo \ {p}, !.keys = keys]
  BY DEF Polled
<1>4. keys \in SUBSET Providers /\ job.todo \ {p} \in SUBSET Providers
  BY <1>1 DEF Job
<1> HIDE DEF keys
<1>5. job' = [op |-> job.op, on |-> job.on, todo |-> job.todo \ {p}, keys |-> keys, view |-> job.view]
  BY <1>2, <1>3
<1>6. job' \in Job
  BY <1>1, <1>4, <1>5 DEF Job
<1>7. inst' = [inst EXCEPT !.live[p] = i]
  BY DEF Polled
<1> QED BY <1>1, <1>5, <1>6, <1>7

LEMMA PollFetchKeeps == ASSUME IInv, NEW p \in Providers, PollFetch(p) PROVE IInv'
<1>1. PICK c \in Contents : Fetch(p, c) /\ Polled(p, Updated(p, c))
  BY DEF PollFetch
<1>2. step = "poll" /\ step' = "poll" /\ UNCHANGED <<file, accepted, versions, published, tx, history>>
  BY DEF PollFetch
<1>3. /\ Running /\ inst.next = None /\ tx = <<>> /\ ~Building
      /\ inst' = [inst EXCEPT !.live[p] = Updated(p, c)]
      /\ job' \in Job /\ job'.op = "poll" /\ job'.on = "live"
  BY <1>1, <1>2, PolledParts
<1>5. TypedInst' /\ path' \in [Http -> Maybe(Contents)] /\ Subscriptions' /\ InForce' /\ Caches'
      /\ Accepted(inst'.live)
  BY <1>1, <1>2, <1>3, FetchedKeeps
<1>6. inst'.live # None /\ inst'.next = None
  BY <1>3, <1>5, NoneAssumption DEF Accepted, IInv, TypedInst
<1>7. Typed'
  BY <1>2, <1>3, <1>5 DEF IInv, Typed, Steps
<1>8. Phase' /\ Candidates' /\ Transaction'
  BY <1>2, <1>3, <1>5, <1>6 DEF Phase, Candidates, Transaction
<1> QED BY <1>5, <1>7, <1>8 DEF IInv

\* Every version of a subscription has been staged or rejected.
LEMMA SubscriptionSeen ==
    ASSUME IInv, Running, NEW p \in Http
    PROVE  Seen(Live[p])
BY NoneAssumption DEF IInv, Subscriptions, Settled, Seen, TypedInst, Accepted, Providers

LEMMA PollVersionKeeps == ASSUME IInv, NEW p \in Providers, PollVersion(p) PROVE IInv'
<1> DEFINE i == Sync(Live[p], Source(p))
<1>1. step = "poll" /\ step' = "poll" /\ Polled(p, i)
      /\ UNCHANGED <<disk, versions, published, tx, history>>
  BY DEF PollVersion
<1>2. /\ Running /\ inst.next = None /\ tx = <<>> /\ ~Building
      /\ inst' = [inst EXCEPT !.live[p] = i]
      /\ job' \in Job /\ job'.op = "poll" /\ job'.on = "live"
  BY <1>1, PolledParts
<1>3. Live[p] \in Instance /\ Accepted(Live)
  BY <1>2 DEF IInv, TypedInst, Accepted
<1>4. i \in Instance /\ i.state = Live[p].state /\ (p \in Http => i = Live[p])
  BY <1>2, <1>3, SyncParts, SubscriptionSeen
<1> HIDE DEF i
<1>5. /\ inst'.next = None /\ inst'.live[p] = i
      /\ \A q \in Providers \ {p} : inst'.live[q] = inst.live[q]
      /\ \A q \in Providers : inst'.live[q].state = inst.live[q].state
      /\ Accepted(inst'.live) /\ TypedInst'
  BY <1>2, <1>4, LiveChanged
<1>6. inst'.live # None
  BY <1>5, NoneAssumption DEF Accepted
<1>7. \A q \in Http : inst'.live[q] = inst.live[q]
  BY <1>4, <1>5 DEF Providers
<1>8. Typed'
  BY <1>1, <1>2 DEF IInv, Typed, Steps
<1>9. Phase' /\ Candidates' /\ Transaction'
  BY <1>1, <1>2, <1>5, <1>6 DEF Phase, Candidates, Transaction
<1>10. InForce'
  BY <1>1, <1>2, <1>5, InForceStays
<1>11. Subscriptions' /\ Caches'
  BY <1>1, <1>2, <1>7 DEF IInv, Subscriptions, Caches
<1> QED BY <1>5, <1>8, <1>9, <1>10, <1>11 DEF IInv

LEMMA SameCandidates ==
    ASSUME NEW f, NEW g, \A p \in Providers : f[p].staged = g[p].staged /\ f[p].state = g[p].state
    PROVE  View(f) = View(g) /\ Entries(f) = Entries(g)
BY DEF View, Candidate, Entries

LEMMA WatchLiveKeeps == ASSUME IInv, NEW f \in Files, Watch("live", f) PROVE IInv'
<1> DEFINE i == Load(Live[f], file[f])
<1>1. /\ Running /\ Live[f].version < MaxVersion[f] /\ f \in Providers /\ f \notin Http
      /\ inst' = [inst EXCEPT !.live[f] = i]
      /\ UNCHANGED <<disk, versions, published, operation, history>>
  BY SourcesAssumption DEF Watch, Providers
<1>2. Accepted(Live) /\ Live[f] \in Instance /\ file[f] \in Contents
  BY <1>1 DEF IInv, TypedInst, Accepted, Typed
<1>3. i \in Instance /\ i.state = Live[f].state /\ i.staged = Live[f].staged
  BY <1>1, <1>2, LoadParts
<1> HIDE DEF i
<1>4. /\ inst'.next = inst.next /\ inst'.live[f] = i
      /\ \A q \in Providers \ {f} : inst'.live[q] = inst.live[q]
      /\ \A q \in Providers : inst'.live[q].state = inst.live[q].state
      /\ Accepted(inst'.live) /\ TypedInst'
  BY <1>1, <1>3, LiveChanged
<1>5. inst'.live # None
  BY <1>4, NoneAssumption DEF Accepted
<1>6. \A q \in Http : inst'.live[q] = inst.live[q]
  BY <1>1, <1>4 DEF Providers
<1>7. View(inst'.live) = View(inst.live) /\ Entries(inst'.live) = Entries(inst.live)
  <2>1. \A q \in Providers :
           inst'.live[q].staged = inst.live[q].staged /\ inst'.live[q].state = inst.live[q].state
    BY <1>3, <1>4
  <2> QED BY <2>1, SameCandidates
<1>8. Typed' /\ Phase' /\ Candidates'
  BY <1>1, <1>4, <1>5 DEF IInv, Typed, Phase, Candidates, Built
<1>9. Subscriptions' /\ Caches'
  BY <1>1, <1>6 DEF IInv, Subscriptions, Caches, Renamed
<1>10. /\ job.on = "live" => View(On)' = View(On) /\ Entries(On)' = Entries(On)
       /\ job.on # "live" => On' = On
  <2>1. job.on = "live" => On = inst.live /\ On' = inst'.live
    BY <1>1 DEF On
  <2>2. job.on # "live" => On = inst.next /\ On' = inst'.next
    BY <1>1, OnParts DEF On, IInv, Typed, Job
  <2>3. ASSUME job.on = "live" PROVE View(On)' = View(On) /\ Entries(On)' = Entries(On)
    BY <1>7, <2>1, <2>3 DEF View, Entries
  <2> QED BY <1>4, <2>2, <2>3
<1>11. View(On)' = View(On) /\ Entries(On)' = Entries(On)
  BY <1>10 DEF View, Entries
<1>12. InForce'
  BY <1>1, <1>4, <1>11 DEF IInv, InForce
<1>13. Transaction'
  BY <1>1, <1>11 DEF IInv, Transaction
<1> QED BY <1>4, <1>8, <1>9, <1>12, <1>13 DEF IInv

LEMMA WatchNextKeeps == ASSUME IInv, NEW f \in Files, Watch("next", f) PROVE IInv'
<1> DEFINE i == Load(inst.next[f], file[f])
<1>1. /\ inst.next # None /\ inst.next[f] # None /\ inst.next[f].version < MaxVersion[f]
      /\ f \in Providers /\ f \notin Http
      /\ inst' = [inst EXCEPT !.next[f] = i]
      /\ UNCHANGED <<disk, versions, published, operation, history>>
  BY SourcesAssumption DEF Watch, Providers
<1>2. inst.next \in [Providers -> Maybe(Instance)] /\ inst.next[f] \in Instance /\ file[f] \in Contents
  BY <1>1 DEF IInv, TypedInst, Typed, Maybe
<1>3. i \in Instance /\ i.state = inst.next[f].state /\ i.staged = inst.next[f].staged
  BY <1>1, <1>2, LoadParts
<1> HIDE DEF i
<1>4. /\ inst'.live = inst.live /\ inst' = [live |-> inst'.live, next |-> inst'.next]
      /\ inst'.next = [inst.next EXCEPT ![f] = i]
  BY <1>1 DEF IInv, TypedInst
<1>5. /\ inst'.next \in [Providers -> Maybe(Instance)]
      /\ inst'.next[f] = i /\ \A q \in Providers \ {f} : inst'.next[q] = inst.next[q]
  BY <1>1, <1>2, <1>3, <1>4 DEF Maybe
<1>6. step # "idle" /\ step # "capture" /\ Building /\ job.on = "next"
  BY <1>1 DEF IInv, Phase, Typed, Job
<1>7. View(On)' = View(On) /\ Entries(On)' = Entries(On)
  <2>1. On = inst.next /\ On' = inst'.next
    BY <1>1, <1>6 DEF On
  <2>2. \A q \in Providers :
           inst'.next[q].staged = inst.next[q].staged /\ inst'.next[q].state = inst.next[q].state
    BY <1>3, <1>5
  <2>3. View(inst'.next) = View(inst.next) /\ Entries(inst'.next) = Entries(inst.next)
    BY <2>2, SameCandidates
  <2> QED BY <2>1, <2>3 DEF View, Entries
<1>8. Typed' /\ TypedInst' /\ Phase'
  BY <1>1, <1>4, <1>5, <1>6 DEF IInv, Typed, TypedInst, Phase
<1>9. Subscriptions' /\ Caches'
  BY <1>1, <1>4 DEF IInv, Subscriptions, Caches, Renamed
<1>10. Candidates'
  <2>1. ASSUME NEW q \in Providers, Built(q) PROVE Built(q)'
    BY <1>1, <1>3, <1>5, <2>1 DEF Built
  <2> QED BY <1>1, <1>5, <2>1 DEF IInv, Candidates
<1>11. InForce'
  BY <1>1, <1>4, <1>7 DEF IInv, InForce
<1>12. Transaction'
  BY <1>1, <1>7 DEF IInv, Transaction
<1> QED BY <1>8, <1>9, <1>10, <1>11, <1>12 DEF IInv

LEMMA CaptureParts ==
    ASSUME IInv, Capture
    PROVE  /\ Accepted(Live) /\ Running /\ inst.next = None
           /\ inst'.live = [p \in Providers |-> Sync(inst.live[p], Source(p))]
           /\ inst'.next = None /\ inst' = [live |-> inst'.live, next |-> inst'.next]
           /\ \A p \in Providers :
                 /\ inst'.live[p] \in Instance /\ inst'.live[p].state = inst.live[p].state
                 /\ inst'.live[p].state \in State
                 /\ p \in Http => inst'.live[p] = inst.live[p]
                 /\ versions'[p] = IF inst'.live[p].staged # None THEN inst'.live[p].staged.version
                                   ELSE inst'.live[p].state.version
           /\ Accepted(inst'.live)
<1>1. /\ step = "capture" /\ inst' = [inst EXCEPT !.live = [p \in Providers |-> Sync(@[p], Source(p))]]
      /\ versions' = [p \in Providers |-> Reported(inst'.live[p])]
      /\ Return /\ UNCHANGED <<disk, published, history>>
  BY DEF Capture
<1>2. Accepted(Live) /\ Running /\ inst.next = None
  BY <1>1, NoneAssumption DEF IInv, Phase, Accepted
<1>3. /\ inst'.live = [p \in Providers |-> Sync(inst.live[p], Source(p))]
      /\ inst'.next = None /\ inst' = [live |-> inst'.live, next |-> inst'.next]
  BY <1>1, <1>2 DEF IInv, TypedInst
<1>4. ASSUME NEW p \in Providers
      PROVE  /\ inst'.live[p] \in Instance /\ inst'.live[p].state = inst.live[p].state
             /\ inst'.live[p].state \in State
             /\ p \in Http => inst'.live[p] = inst.live[p]
             /\ versions'[p] = IF inst'.live[p].staged # None THEN inst'.live[p].staged.version
                               ELSE inst'.live[p].state.version
  <2>1. inst.live[p] \in Instance /\ inst.live[p].state \in State
    BY <1>2 DEF Accepted
  <2>2. inst'.live[p] = Sync(inst.live[p], Source(p))
    BY <1>3
  <2>3. versions'[p] = IF inst'.live[p].staged # None THEN inst'.live[p].staged.version
                       ELSE inst'.live[p].state.version
    BY <1>1 DEF Reported
  <2>4. p \in Http => Seen(inst.live[p])
    BY <1>2, SubscriptionSeen
  <2> HIDE DEF Live
  <2> QED BY <2>1, <2>2, <2>3, <2>4, SyncParts
<1>5. Accepted(inst'.live)
  BY <1>3, <1>4 DEF Accepted
<1> QED BY <1>2, <1>3, <1>4, <1>5

LEMMA CaptureKeeps == ASSUME IInv, Capture PROVE IInv'
<1>1. step = "capture" /\ Return /\ UNCHANGED <<disk, published, history>>
      /\ versions' = [p \in Providers |-> Reported(inst'.live[p])]
  BY DEF Capture
<1>2. Accepted(Live) /\ Running
  BY CaptureParts
<1>3. inst'.next = None /\ inst' = [live |-> inst'.live, next |-> inst'.next]
  BY CaptureParts
<1>4. ASSUME NEW p \in Providers
      PROVE  /\ inst'.live[p] \in Instance /\ inst'.live[p].state = inst.live[p].state
             /\ inst'.live[p].state \in State
             /\ p \in Http => inst'.live[p] = inst.live[p]
             /\ versions'[p] = IF inst'.live[p].staged # None THEN inst'.live[p].staged.version
                               ELSE inst'.live[p].state.version
  BY CaptureParts
<1>5. Accepted(inst'.live)
  BY CaptureParts
<1>6. versions' \in [Providers -> Version \cup {0}]
  <2>1. \A p \in Providers : versions'[p] \in Version
    BY <1>4, InstanceParts, StateParts DEF Maybe
  <2> QED BY <1>1, <2>1
<1>7. step' = "idle" /\ job' = NoJob /\ tx' = <<>> /\ UNCHANGED <<disk, published, history>>
  BY <1>1
<1>8. Typed'
  BY <1>6, <1>7 DEF IInv, Typed, Job, Maybe, NoJob, Steps
<1>9. TypedInst' /\ Phase'
  BY <1>3, <1>5, <1>7 DEF TypedInst, Phase
<1>10. Candidates' /\ Transaction'
  BY <1>7 DEF Candidates, Transaction
<1>11. Subscriptions'
  <2> SUFFICES ASSUME NEW p \in Http
               PROVE  Settled(inst'.live[p]) /\ versions'[p] = inst'.live[p].state.version
    BY <1>7 DEF Subscriptions
  <2>1. p \in Providers /\ inst'.live[p] = inst.live[p]
    BY <1>4 DEF Providers
  <2>2. Settled(inst.live[p]) /\ inst.live[p].staged = None
    BY <1>1, <1>2 DEF IInv, Subscriptions
  <2> QED BY <1>4, <2>1, <2>2
<1>12. InForce'
  BY <1>2, <1>4, <1>7 DEF IInv, InForce
<1>13. Caches'
  <2> SUFFICES ASSUME ~torn, NEW p \in Http
               PROVE  /\ accepted[p] = good[p] /\ good[p] \notin Unparsable
                      /\ inst'.live[p].state.proxies = good[p] /\ inst'.live[p].state.hosts = good[p]
                      /\ inst'.live[p].staged # None => inst'.live[p].staged.hosts = inst'.live[p].content
                      /\ inst'.live[p].rejected # inst'.live[p].version => path[p] = inst'.live[p].content
    BY <1>7 DEF Caches, NoJob
  <2>1. p \in Providers /\ inst'.live[p] = inst.live[p]
    BY <1>4 DEF Providers
  <2> QED BY <1>1, <1>2, <2>1 DEF IInv, Caches
<1> QED BY <1>8, <1>9, <1>10, <1>11, <1>12, <1>13 DEF IInv

----------------------------------------------------------------------------
(* What builds and publishes candidates *)

\* What a provider has loaded first becomes its candidate.
LEMMA InitialParts ==
    ASSUME IInv, NEW p \in Providers, Initial(p)
    PROVE  \E c \in InitialContents(p) \ Unparsable, i \in Instance :
              /\ c \in Contents
              /\ i.version = 1 /\ i.content = c /\ i.rejected = 0 /\ i.state = None
              /\ i.staged \in State
              /\ i.staged.version = 1 /\ i.staged.proxies = c /\ i.staged.hosts = c
              /\ inst'.live = inst.live /\ inst' = [live |-> inst'.live, next |-> inst'.next]
              /\ inst'.next \in [Providers -> Maybe(Instance)] /\ inst'.next[p] = i
              /\ \A q \in Providers \ {p} : inst'.next[q] = inst.next[q]
              /\ path' \in [Http -> Maybe(Contents)]
              /\ (p \in Http => path'[p] = c) /\ \A q \in Http \ {p} : path'[q] = path[q]
<1> DEFINE loaded(c) == [version |-> 1, content |-> c, state |-> None, staged |-> None, rejected |-> 0]
<1>1. PICK c \in InitialContents(p) \ Unparsable :
          path' = Downloaded(p, c) /\ inst' = [inst EXCEPT !.next[p] = Stage(loaded(c), c)]
  BY DEF Initial
<1>2. step = "init"
  BY DEF Initial
<1>3. inst.next \in [Providers -> Maybe(Instance)] /\ inst = [live |-> inst.live, next |-> inst.next]
  BY <1>2 DEF IInv, Phase, Candidates, TypedInst
<1>4. c \in Contents
  BY <1>1 DEF InitialContents, Cached, IInv, Typed, Maybe
<1>5. loaded(c) \in Instance
  BY <1>4, InstanceMade, VersionParts DEF Maybe
<1>6. loaded(c).version = 1 /\ loaded(c).content = c /\ loaded(c).state = None
  OBVIOUS
<1> DEFINE i == Stage(loaded(c), c)
<1>7. /\ i \in Instance /\ i.version = 1 /\ i.content = c /\ i.rejected = 0 /\ i.staged \in State
      /\ i.staged.version = 1 /\ i.staged.proxies = c /\ i.staged.hosts = c /\ i.state = None
  <2> DEFINE l == loaded(c)
  <2>1. l \in Instance /\ l.version = 1 /\ l.content = c /\ l.state = None /\ i = Stage(l, c)
        /\ c \in Contents \ Unparsable
    BY <1>1, <1>4, <1>5, <1>6
  <2> HIDE DEF l, i
  <2>2. /\ i \in Instance /\ i.version = 1 /\ i.content = c /\ i.state = None /\ i.rejected = 0 /\ i.staged \in State
        /\ i.staged = [version |-> l.version, proxies |-> l.content, hosts |-> c]
    BY <2>1, StageParts
  <2> QED BY <2>1, <2>2
<1>8. inst' = [live |-> inst.live, next |-> [inst.next EXCEPT ![p] = i]]
  BY <1>1, <1>3
<1> HIDE DEF loaded, i
<1>9. /\ inst'.live = inst.live /\ inst' = [live |-> inst'.live, next |-> inst'.next]
      /\ inst'.next \in [Providers -> Maybe(Instance)] /\ inst'.next[p] = i
      /\ \A q \in Providers \ {p} : inst'.next[q] = inst.next[q]
  BY <1>3, <1>7, <1>8 DEF Maybe
<1>10. path' \in [Http -> Maybe(Contents)]
      /\ (p \in Http => path'[p] = c) /\ \A q \in Http \ {p} : path'[q] = path[q]
  BY <1>1, <1>4 DEF Downloaded, IInv, Typed, Maybe
<1> QED BY <1>1, <1>4, <1>7, <1>9, <1>10

LEMMA InitialKeeps == ASSUME IInv, NEW p \in Providers, Initial(p) PROVE IInv'
<1>1. PICK c \in InitialContents(p) \ Unparsable, i \in Instance :
              /\ c \in Contents
              /\ i.version = 1 /\ i.content = c /\ i.rejected = 0 /\ i.state = None
              /\ i.staged \in State
              /\ i.staged.version = 1 /\ i.staged.proxies = c /\ i.staged.hosts = c
              /\ inst'.live = inst.live /\ inst' = [live |-> inst'.live, next |-> inst'.next]
              /\ inst'.next \in [Providers -> Maybe(Instance)] /\ inst'.next[p] = i
              /\ \A q \in Providers \ {p} : inst'.next[q] = inst.next[q]
              /\ path' \in [Http -> Maybe(Contents)]
              /\ (p \in Http => path'[p] = c) /\ \A q \in Http \ {p} : path'[q] = path[q]
  BY InitialParts
<1>2. /\ step = "init" /\ p \in job.todo /\ job' = [job EXCEPT !.todo = @ \ {p}]
      /\ step' = IF job.todo = {p} THEN "check" ELSE "init"
      /\ torn' = (torn \/ (Running /\ p \in Http /\ Live[p].staged # None))
      /\ UNCHANGED <<file, accepted, versions, published, tx, good>>
  BY DEF Initial
<1>3. /\ Building /\ job \in Job /\ tx = <<>>
      /\ job.on = "next"
      /\ inst = [live |-> inst.live, next |-> inst.next] /\ torn \in BOOLEAN
  BY <1>2 DEF IInv, Phase, Candidates, Typed, TypedInst
<1>4. /\ i.version = 1 /\ i.content = c /\ i.rejected = 0 /\ i.staged \in State
      /\ i.staged.version = 1 /\ i.staged.proxies = c /\ i.staged.hosts = c
  BY <1>1
<1>5. /\ inst'.live = inst.live /\ inst' = [live |-> inst'.live, next |-> inst'.next]
      /\ inst'.next \in [Providers -> Maybe(Instance)] /\ inst'.next[p] = i
      /\ \A q \in Providers \ {p} : inst'.next[q] = inst.next[q]
  BY <1>1
<1>6. /\ path' \in [Http -> Maybe(Contents)]
      /\ (p \in Http => path'[p] = c) /\ \A q \in Http \ {p} : path'[q] = path[q]
  BY <1>1
<1>10. /\ job' =
            [op |-> job.op, on |-> job.on, todo |-> job.todo \ {p}, keys |-> job.keys,
             view |-> job.view]
       /\ job.todo \in SUBSET Providers
  <2>1. job = [op |-> job.op, on |-> job.on, todo |-> job.todo, keys |-> job.keys, view |-> job.view]
    BY <1>3 DEF Job
  <2> QED BY <1>2, <1>3, <2>1 DEF Job
<1>11. job' \in Job /\ Building' /\ job'.todo = job.todo \ {p} /\ job'.op = job.op /\ job'.on = "next"
  BY <1>3, <1>10 DEF Job
<1>12. /\ torn' \in BOOLEAN
       /\ ~torn' => ~torn /\ (Running /\ p \in Http => Live[p].staged = None)
  BY <1>2, <1>3, Zenon
<1>14. Typed'
  BY <1>2, <1>11, <1>12, <1>6 DEF IInv, Typed, Steps
<1>15. TypedInst' /\ Phase' /\ Transaction'
  BY <1>2, <1>3, <1>5, <1>11 DEF IInv, TypedInst, Phase, Transaction
<1>16. ASSUME ~torn, p \in Http, good[p] # None PROVE c = good[p]
  <2>1. accepted[p] = good[p] /\ good[p] \in Contents
    BY <1>2, <1>16 DEF IInv, Caches, Typed, Maybe
  <2>2. Cached(p) = good[p]
    BY <1>16, <2>1 DEF Cached
  <2>3. InitialContents(p) = {good[p]}
    BY <1>16, <2>2, SourcesAssumption DEF InitialContents
  <2> QED BY <1>1, <2>3
<1>17. Candidates'
  <2>1. Built(p)'
    BY <1>2, <1>4, <1>5, <1>12, <1>6, <1>16, <1>1 DEF Built
  <2>2. ASSUME NEW q \in Providers \ job'.todo PROVE Built(q)'
    <3>1. CASE q = p
      BY <2>1, <3>1
    <3>2. CASE q # p
      <4>1. Built(q)
        BY <1>2, <1>3, <1>11, <2>2, <3>2 DEF IInv, Candidates
      <4> QED BY <1>2, <1>5, <1>12, <1>6, <3>2, <4>1 DEF Built
    <3> QED BY <3>1, <3>2
  <2>3. step' = "check" => job'.todo = {}
    BY <1>2, <1>11
  <2> QED BY <1>2, <1>5, <2>2, <2>3 DEF Candidates
<1>18. Subscriptions' /\ InForce'
  BY <1>2, <1>5 DEF IInv, Subscriptions, InForce
<1>19. Caches'
  <2>1. ASSUME ~torn', NEW q \in Http
        PROVE  /\ accepted[q] = good[q] /\ good[q] \notin Unparsable
               /\ Running => /\ Live[q].state.proxies = good[q] /\ Live[q].state.hosts = good[q]
                             /\ Live[q].staged # None => Live[q].staged.hosts = Live[q].content
                             /\ Live[q].rejected # Live[q].version => path'[q] = Live[q].content
                             /\ q \notin job'.todo => Live[q].staged = None
    <3>1. /\ accepted[q] = good[q] /\ good[q] \notin Unparsable /\ ~torn
          /\ Running => /\ Live[q].state.proxies = good[q] /\ Live[q].state.hosts = good[q]
                        /\ Live[q].staged # None => Live[q].staged.hosts = Live[q].content
                        /\ Live[q].rejected # Live[q].version => path[q] = Live[q].content
                        /\ q \notin job.todo => Live[q].staged = None
      BY <1>2, <1>3, <1>12, <2>1 DEF IInv, Caches
    <3>2. CASE q # p
      BY <1>11, <1>6, <3>1, <3>2
    <3>3. CASE q = p
      <4>1. ASSUME Running, Live[q].rejected # Live[q].version PROVE path'[q] = Live[q].content
        <5>1. Live[q].staged = None /\ Live[q].state.version = Live[q].version
          BY <1>12, <2>1, <3>3, <4>1 DEF IInv, Subscriptions, Settled
        <5>2. Live[q].content = good[q]
          BY <3>1, <4>1, <5>1 DEF IInv, Subscriptions, Settled
        <5>3. good[q] # None
          <6>1. Live[q].state \in State
            BY <4>1 DEF IInv, TypedInst, Accepted, Providers
          <6> QED BY <3>1, <4>1, <6>1, StateParts, SourcesAssumption
        <5> QED BY <1>6, <1>16, <3>1, <3>3, <5>2, <5>3
      <4> QED BY <1>12, <2>1, <3>1, <3>3, <4>1
    <3> QED BY <3>2, <3>3
  <2>2. step' \in {"init", "check"}
    BY <1>2
  <2> QED BY <1>2, <1>5, <2>1, <2>2 DEF Caches
<1> QED BY <1>14, <1>15, <1>17, <1>18, <1>19 DEF IInv

\* The candidates of the view that was checked are the accepted states.
LEMMA PublishParts ==
    ASSUME IInv, Publish
    PROVE  /\ inst'.next = None /\ inst' = [live |-> inst'.live, next |-> inst'.next]
           /\ \A p \in Providers :
                 /\ inst'.live[p] \in Instance /\ inst'.live[p].version = On[p].version
                 /\ inst'.live[p].content = On[p].content
                 /\ inst'.live[p].state = Candidate(On[p]) /\ inst'.live[p].staged = None
                 /\ inst'.live[p].rejected = IF On[p].staged = None THEN On[p].rejected ELSE 0
                 /\ On[p] \in Instance
           /\ Accepted(inst'.live) /\ inst'.live # None
<1>1. /\ step = "commit" /\ Renamed = DOMAIN tx \cap Http
      /\ inst' =
           [live |-> [p \in Providers |-> IF p \in DOMAIN tx THEN Accept(On[p]) ELSE On[p]],
            next |-> None]
      /\ published' = job.view /\ step' = "capture" /\ good' = [p \in Http |-> job.view[p].proxies]
      /\ torn' = (torn /\ ~Building) /\ UNCHANGED <<disk, versions, job, tx>>
  BY DEF Publish
<1>2. /\ On \in [Providers -> Instance] /\ \A p \in Providers : Candidate(On[p]) \in State
      /\ Building => \A p \in Providers : On[p].staged \in State /\ On[p].staged # None
      /\ ~Building => Running /\ Accepted(Live)
      /\ Building => On = inst.next
      /\ ~Building => On = inst.live
  BY <1>1, Worked, OnParts DEF Working
<1>3. /\ job.view = View(On) /\ Passes(job.view) /\ DOMAIN tx = Entries(On) /\ job.view \in Views
      /\ \A p \in Providers :
            job.view[p] = Content(Candidate(On[p])) /\ job.view[p].proxies = Candidate(On[p]).proxies
  BY <1>1, ViewTyped DEF IInv, InForce, Transaction, Working
<1>4. /\ inst'.live = [p \in Providers |-> IF p \in DOMAIN tx THEN Accept(On[p]) ELSE On[p]]
      /\ inst'.next = None /\ inst' = [live |-> inst'.live, next |-> inst'.next]
  BY <1>1
<1>5. ASSUME NEW p \in Providers
      PROVE  /\ inst'.live[p] \in Instance /\ inst'.live[p].version = On[p].version
             /\ inst'.live[p].content = On[p].content
             /\ inst'.live[p].state = Candidate(On[p]) /\ inst'.live[p].staged = None
             /\ inst'.live[p].rejected = IF On[p].staged = None THEN On[p].rejected ELSE 0
             /\ On[p] \in Instance
  <2>1. p \in DOMAIN tx <=> On[p].staged # None
    BY <1>3 DEF Entries
  <2>2. CASE p \in DOMAIN tx
    BY <1>2, <1>4, <2>1, <2>2, AcceptParts
  <2>3. CASE p \notin DOMAIN tx
    BY <1>2, <1>4, <2>1, <2>3 DEF Candidate
  <2> QED BY <2>2, <2>3
<1>6. Accepted(inst'.live) /\ inst'.live # None
  <2>1. Accepted(inst'.live)
    BY <1>2, <1>4, <1>5 DEF Accepted
  <2> QED BY <2>1, NoneAssumption DEF Accepted
<1> QED BY <1>4, <1>5, <1>6

LEMMA PublishKeeps == ASSUME IInv, Publish PROVE IInv'
<1>1. /\ step = "commit" /\ Renamed = DOMAIN tx \cap Http
      /\ inst' =
           [live |-> [p \in Providers |-> IF p \in DOMAIN tx THEN Accept(On[p]) ELSE On[p]],
            next |-> None]
      /\ published' = job.view /\ step' = "capture" /\ good' = [p \in Http |-> job.view[p].proxies]
      /\ torn' = (torn /\ ~Building) /\ UNCHANGED <<disk, versions, job, tx>>
  BY DEF Publish
<1>2. /\ On \in [Providers -> Instance] /\ \A p \in Providers : Candidate(On[p]) \in State
      /\ Building => \A p \in Providers : On[p].staged \in State /\ On[p].staged # None
      /\ ~Building => Running /\ Accepted(Live)
      /\ Building => On = inst.next
      /\ ~Building => On = inst.live
  BY <1>1, Worked, OnParts DEF Working
<1>3. /\ job.view = View(On) /\ Passes(job.view) /\ DOMAIN tx = Entries(On) /\ job.view \in Views
      /\ \A p \in Providers :
            job.view[p] = Content(Candidate(On[p])) /\ job.view[p].proxies = Candidate(On[p]).proxies
  BY <1>1, ViewTyped DEF IInv, InForce, Transaction, Working
<1>4. /\ inst'.live = [p \in Providers |-> IF p \in DOMAIN tx THEN Accept(On[p]) ELSE On[p]]
      /\ inst'.next = None /\ inst' = [live |-> inst'.live, next |-> inst'.next]
  BY <1>1
<1>5. ASSUME NEW p \in Providers
      PROVE  /\ inst'.live[p] \in Instance /\ inst'.live[p].version = On[p].version
             /\ inst'.live[p].content = On[p].content
             /\ inst'.live[p].state = Candidate(On[p]) /\ inst'.live[p].staged = None
             /\ inst'.live[p].rejected = IF On[p].staged = None THEN On[p].rejected ELSE 0
             /\ On[p] \in Instance
  BY PublishParts
<1>6. Accepted(inst'.live) /\ inst'.live # None
  BY PublishParts
<1>7. torn' \in BOOLEAN /\ (~torn' => ~torn \/ Building)
  BY <1>1, Zenon DEF IInv, Typed
<1>8. Typed'
  <2>1. \A p \in Providers : job.view[p].proxies \in Contents
    BY <1>2, <1>3, StateParts
  <2>2. good' \in [Http -> Maybe(Contents)]
    BY <1>1, <2>1 DEF Maybe, Providers
  <2> QED BY <1>1, <1>7, <2>2 DEF IInv, Typed, Steps
<1>9. TypedInst' /\ Phase' /\ Candidates' /\ Transaction'
  BY <1>1, <1>4, <1>6 DEF IInv, TypedInst, Phase, Candidates, Transaction
<1>10. InForce'
  <2>1. published' = [p \in Providers |-> Content(inst'.live[p].state)]
    BY <1>1, <1>3, <1>5 DEF View
  <2> QED BY <1>1, <1>3, <2>1 DEF InForce
\* What is known of a subscription with a candidate.
<1>11. ASSUME NEW p \in Http, On[p].staged # None
       PROVE  /\ On[p].staged.version = On[p].version /\ On[p].rejected = 0
              /\ On[p].staged.proxies = On[p].content /\ On[p].content \notin Unparsable
              /\ Building \/ ~torn => path[p] = On[p].content /\ On[p].staged.hosts = On[p].content
  <2>1. p \in Providers /\ On[p] \in Instance /\ On[p].version # 0
    BY <1>5, InstanceParts, VersionParts DEF Providers
  <2>2. CASE Building
    BY <1>1, <1>2, <2>1, <2>2 DEF IInv, Candidates, Built
  <2>3. CASE ~Building
    <3>1. On[p].staged.version = On[p].version /\ On[p].rejected = 0
           /\ On[p].staged.proxies = On[p].content /\ On[p].content \notin Unparsable
      BY <1>2, <1>11, <2>1, <2>3 DEF IInv, Subscriptions, Settled
    <3> QED BY <1>2, <1>11, <2>1, <2>3, <3>1 DEF IInv, Caches
  <2> QED BY <2>2, <2>3
<1>12. ASSUME NEW p \in Http PROVE Settled(inst'.live[p])
  <2>1. p \in Providers
    BY DEF Providers
  <2>2. inst'.live[p].version \in Nat
    BY <1>5, <2>1, InstanceParts, VersionParts
  <2>3. CASE On[p].staged # None
    BY <1>5, <1>11, <2>1, <2>2, <2>3 DEF Settled, Candidate
  <2>4. CASE On[p].staged = None
    BY <1>2, <1>5, <2>1, <2>2, <2>4 DEF Settled, Candidate, IInv, Subscriptions
  <2> QED BY <2>3, <2>4
<1>13. Subscriptions'
  BY <1>1, <1>5, <1>12 DEF Subscriptions, Providers
<1>14. ASSUME ~torn', NEW p \in Http
       PROVE  /\ accepted[p] = job.view[p].proxies /\ job.view[p].proxies \notin Unparsable
              /\ inst'.live[p].state.proxies = job.view[p].proxies
              /\ inst'.live[p].state.hosts = job.view[p].proxies /\ inst'.live[p].staged = None
              /\ inst'.live[p].rejected # inst'.live[p].version => path[p] = inst'.live[p].content
  <2>1. p \in Providers /\ inst'.live[p].state.proxies = job.view[p].proxies
    BY <1>3, <1>5 DEF Providers
  <2>2. CASE On[p].staged # None
    <3>1. p \in DOMAIN tx /\ tx[p].committed
      BY <1>1, <1>3, <2>1, <2>2 DEF Entries, Renamed
    <3>2. accepted[p] = job.view[p].proxies
      BY <1>1, <1>7, <1>14, <3>1 DEF IInv, Transaction
    <3> QED BY <1>3, <1>5, <1>7, <1>11, <1>14, <2>1, <2>2, <3>2 DEF Candidate
  <2>3. CASE On[p].staged = None
    <3>1. ~Building /\ ~torn /\ p \notin DOMAIN tx /\ p \notin Renamed
      BY <1>2, <1>3, <1>7, <1>14, <2>1, <2>3 DEF Entries, Renamed
    <3>2. accepted[p] = good[p] /\ Live[p].state.proxies = good[p] /\ good[p] \notin Unparsable
          /\ Live[p].state.hosts = good[p]
          /\ (Live[p].rejected # Live[p].version => path[p] = Live[p].content)
      BY <1>2, <3>1 DEF IInv, Caches
    <3> QED BY <1>2, <1>3, <1>5, <2>1, <2>3, <3>1, <3>2 DEF Candidate
  <2> QED BY <2>2, <2>3
<1>15. Caches'
  BY <1>1, <1>14 DEF Caches
<1> QED BY <1>8, <1>9, <1>10, <1>13, <1>15 DEF IInv

----------------------------------------------------------------------------
(* Every step *)

LEMMA InitInv == Init => IInv
<1> SUFFICES ASSUME Init PROVE IInv
  OBVIOUS
<1>1. inst = [live |-> None, next |-> None] /\ inst.live = None /\ inst.next = None /\ job = NoJob
      /\ step = "idle" /\ tx = <<>>
  BY DEF Init
<1>2. torn \in BOOLEAN
  BY Zenon DEF Init
<1>3. Typed
  BY <1>1, <1>2 DEF Init, Typed, Job, Maybe, NoJob, Steps
<1>4. TypedInst /\ Phase /\ Candidates /\ Subscriptions /\ InForce /\ Transaction
  BY <1>1 DEF TypedInst, Phase, Candidates, Subscriptions, InForce, Transaction
<1>5. Caches
  BY <1>1, SourcesAssumption DEF Init, Caches, NoJob
<1> QED BY <1>3, <1>4, <1>5 DEF IInv

LEMMA StutterKeeps == ASSUME IInv, UNCHANGED vars PROVE IInv'
<1>1. Typed' /\ TypedInst' /\ Phase' /\ Candidates'
  BY DEF IInv, vars, Typed, TypedInst, Phase, Candidates, Built
<1>2. Subscriptions' /\ InForce' /\ Transaction' /\ Caches'
  BY DEF IInv, vars, Subscriptions, InForce, On, Transaction, Caches, Renamed
<1> QED BY <1>1, <1>2 DEF IInv

LEMMA NextKeeps == ASSUME IInv, [Next]_vars PROVE IInv'
<1>1. CASE \E p \in Providers : Refresh(p)
  BY <1>1, RefreshKeeps
<1>2. CASE Poll \/ Start \/ Apply
  BY <1>2, PollKeeps, StartKeeps, ApplyKeeps
<1>3. CASE Holder
  BY <1>3, PollFetchKeeps, PollVersionKeeps, InitialKeeps, InitialFailsKeeps, CommitKeeps,
     RollbackKeeps,
     RollbackFailsKeeps, PollDoneKeeps, CheckPassesKeeps, CheckFailsKeeps, UnsafeKeeps, PrepareKeeps,
     PrepareFailsKeeps, InvalidKeeps, CommitFailsKeeps, RolledBackKeeps, PublishKeeps, CaptureKeeps DEF Holder
<1>4. CASE \E f \in Files : WriteFile(f) \/ Watch("live", f) \/ Watch("next", f)
  BY <1>4, WriteFileKeeps, WatchLiveKeeps, WatchNextKeeps
<1>5. CASE Crash
  BY <1>5, CrashKeeps
<1>6. CASE UNCHANGED vars
  BY <1>6, StutterKeeps
<1> QED BY <1>1, <1>2, <1>3, <1>4, <1>5, <1>6 DEF Next

\* The inductive invariant holds in every state: what the instances, the native
\* caches, their accepted copies and the entries of the transaction have to do
\* with each other at each step of a refresh, a poll, a start and an apply, when
\* they succeed, are rejected, are rolled back or are cut off by a crash
\* (provider_filter.go, provider_hosts.go, provider_refresh.go, manager.go).
THEOREM ProviderInvariant == Spec => []IInv
<1>1. Init => IInv
  BY InitInv
<1>2. IInv /\ [Next]_vars => IInv'
  BY NextKeeps
<1> QED BY <1>1, <1>2, PTL DEF Spec

----------------------------------------------------------------------------
(* What follows from it *)

\* The shape of the state; every running provider has an accepted state.
THEOREM ProviderTypes == Spec => []TypeOK
<1>1. IInv => TypeOK
  BY NoneAssumption DEF IInv, Typed, TypedInst, Accepted, TypeOK
<1> QED BY <1>1, ProviderInvariant, PTL

\* Between operations, what is in force is what the running providers were
\* accepted with, and all of it together passed the joint check.
THEOREM WhatIsPublishedWasAccepted == Spec => []PublishedAccepted
<1>1. IInv => PublishedAccepted
  BY DEF IInv, InForce, PublishedAccepted
<1> QED BY <1>1, ProviderInvariant, PTL

\* Between operations, also after a crash, the accepted copy of every cache is
\* what was last published, unless an operation ended between its renames.
THEOREM CachesAreThePublished == Spec => []CachesSurvive
<1>1. ASSUME IInv, Free, ~torn PROVE accepted = good
  <2>1. \A p \in Http : accepted[p] = good[p]
    BY <1>1 DEF IInv, Caches
  <2>2. accepted \in [Http -> Maybe(Contents)] /\ good \in [Http -> Maybe(Contents)]
    BY <1>1 DEF IInv, Typed
  <2> HIDE DEF Maybe
  <2> QED BY <2>1, <2>2
<1>2. IInv => CachesSurvive
  BY <1>1 DEF CachesSurvive
<1> QED BY <1>2, ProviderInvariant, PTL

\* A candidate that waits for acceptance has a version the next poll finds
\* changed, or it is the accepted content downloaded again.
THEOREM NoCandidateForgotten == Spec => []NoneForgotten
<1>1. ASSUME IInv, Free, Running, NEW p \in Http, Live[p].staged # None
      PROVE  Live[p].staged.version \in {Live[p].state.version} \cup (Version \ {versions[p]})
  <2>1. versions[p] = Live[p].state.version
    BY <1>1 DEF IInv, Subscriptions
  <2>2. Live[p].staged.version \in Version
    BY <1>1, InstanceParts, StateParts DEF IInv, TypedInst, Accepted, Maybe, Providers
  <2> QED BY <2>1, <2>2
<1>2. IInv => NoneForgotten
  BY <1>1 DEF NoneForgotten
<1> QED BY <1>2, ProviderInvariant, PTL

\* A restart or a new configuration publishes of every subscription what was
\* last published, and nothing that was downloaded and rejected since.
THEOREM RestartKeepsTheLast == Spec => RestartsWithLast
<1> DEFINE Last == Building /\ step' = "capture" /\ ~torn =>
                       \A p \in Http : good[p] # None => job.view[p].proxies = good[p]
<1>1. ASSUME IInv, [Next]_vars PROVE [Last]_vars
  <2>1. SUFFICES ASSUME Building, step' = "capture", ~torn, NEW p \in Http, good[p] # None
                 PROVE  job.view[p].proxies = good[p]
    OBVIOUS
  <2>2. step = "capture" \/ Publish
    BY <1>1, <2>1 DEF Next, Refresh, Poll, Start, Apply, Holder, PollFetch, PollVersion, Initial,
       InitialFails, Commit,
       Rollback, RollbackFails, PollDone, CheckPasses, CheckFails, Unsafe, Prepare, PrepareFails,
       Invalid,
       CommitFails, RolledBack, Capture, WriteFile, Watch, Crash, vars
  <2>3. CASE step = "capture"
    BY <1>1, <2>3 DEF IInv, Transaction
  <2>4. CASE Publish
    <3>1. step = "commit" /\ p \in Providers
      BY <2>4 DEF Publish, Providers
    <3>2. On = inst.next /\ job.todo = {} /\ Built(p) /\ inst.next[p].staged # None
      BY <1>1, <2>1, <3>1, OnParts, NoneAssumption DEF IInv, Candidates, Built
    <3>3. job.view[p].proxies = inst.next[p].staged.proxies
      BY <1>1, <3>1, <3>2, ViewTyped DEF IInv, InForce, Candidate, Working
    <3> QED BY <2>1, <3>2, <3>3 DEF Built
  <2> QED BY <2>2, <2>3, <2>4
<1>2. Spec => [][Last]_vars
  BY <1>1, ProviderInvariant, PTL DEF Spec
<1> QED BY <1>2 DEF RestartsWithLast
===============================================================================
