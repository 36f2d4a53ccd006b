--------------------------- MODULE PublicationProofs ---------------------------
(***************************************************************************)
(* ProviderTransaction implements AtomicPublication, for any providers,    *)
(* contents and faults.  The accepted copies have to be known also after a *)
(* commit was left half done, where the invariant of                       *)
(* ProviderTransactionProofs says little of them: the first part           *)
(* strengthens it, the second maps every step to one of the abstract       *)
(* specification, or to none.                                              *)
(***************************************************************************)
EXTENDS ProviderTransactionProofs

----------------------------------------------------------------------------
(* The strengthened invariant *)

\* The hosts of a state are parsed.
Sound(s) == s.hosts \in Contents \ Unparsable
SoundOne(i) == (i.state # None => Sound(i.state)) /\ (i.staged # None => Sound(i.staged))
Assembling == Building /\ (Working \/ step = "init")
AllSound ==
    /\ Running => \A p \in Providers : SoundOne(Live[p])
    /\ Assembling => \A p \in Providers \ job.todo : SoundOne(inst.next[p])

\* A native cache holds what its provider has loaded, unless that was rejected,
\* or the accepted copy.
CachesFollow ==
    Running => \A p \in Http :
        /\ Kept[p] # None
        /\ Live[p].rejected # Live[p].version => path[p] \in {Live[p].content, Kept[p]}

\* A start or an apply loads what was kept.
Rebuilt ==
    step \in {"init", "check", "prepare", "commit"} /\ Building =>
        \A p \in Http \ job.todo : Kept[p] # None => inst.next[p].content = Kept[p]

\* What is renamed is of the view that was checked, or was there before.
Renames ==
    /\ step \in {"prepare", "commit", "rollback"} => job.view \in Checked
    /\ Renaming => \A p \in DOMAIN tx \cap Http :
          /\ tx[p].new = path[p] /\ tx[p].new # None
          /\ tx[p].new \in {job.view[p].proxies, tx[p].old}
          /\ step = "commit" /\ ~tx[p].committed => accepted[p] = tx[p].old

KInv == AllSound /\ CachesFollow /\ Rebuilt /\ Renames

USE DEF disk, memory, operation, history, Goto, Return, Live, Running, Free, Building

----------------------------------------------------------------------------
(* The copies and the instances *)

LEMMA Copies ==
    /\ Kept = [p \in Http |-> Kept[p]]
    /\ \A p \in Http : Kept[p] = IF Renaming /\ p \in Renamed THEN tx[p].old ELSE accepted[p]
BY DEF Kept

LEMMA CopiesNext ==
    /\ Kept' = [p \in Http |-> Kept'[p]]
    /\ \A p \in Http : Kept'[p] = IF Renaming' /\ p \in Renamed' THEN tx'[p].old ELSE accepted'[p]
BY DEF Kept

\* Without a commit that has begun, the copies are those on disk.
LEMMA CopiesOnDisk ==
    /\ ~Renaming \/ Renamed = {} => \A p \in Http : Kept[p] = accepted[p]
    /\ ~Renaming' \/ Renamed' = {} => \A p \in Http : Kept'[p] = accepted'[p]
BY DEF Kept

LEMMA CopiesStay ==
    ASSUME UNCHANGED accepted, ~Renaming \/ Renamed = {}, ~Renaming' \/ Renamed' = {}
    PROVE  Kept' = Kept
<1>1. \A p \in Http : Kept'[p] = Kept[p]
  BY CopiesOnDisk
<1> QED BY <1>1, Copies, CopiesNext

LEMMA CopiesSame ==
    ASSUME UNCHANGED <<accepted, tx>>, Renaming' = Renaming
    PROVE  Kept' = Kept
BY DEF Kept, Renamed

LEMMA StageSound ==
    ASSUME NEW i \in Instance, NEW hosts, SoundOne(i)
    PROVE  SoundOne(Stage(i, hosts))
<1>1. /\ Stage(i, hosts).state = i.state
      /\ hosts \in Contents \ Unparsable =>
            Stage(i, hosts).staged = [version |-> i.version, proxies |-> i.content, hosts |-> hosts]
      /\ hosts \notin Contents \ Unparsable => Stage(i, hosts).staged = None
  BY StageParts
<1> QED BY <1>1 DEF SoundOne, Sound

LEMMA UpdateSound ==
    ASSUME NEW p \in Providers, NEW i \in Instance, NEW c \in Contents, NEW hosts,
           c = i.content \/ i.version < MaxVersion[p], SoundOne(i)
    PROVE  SoundOne(Update(i, c, hosts))
<1> DEFINE j == Load(i, c)
<1>1. j \in Instance /\ j.content = c /\ j.state = i.state /\ j.staged = i.staged
  BY LoadParts
<1>2. Update(i, c, hosts) = j \/ Update(i, c, hosts) = Stage(j, hosts)
  BY DEF Update
<1> HIDE DEF j
<1>3. SoundOne(j)
  BY <1>1 DEF SoundOne
<1>4. SoundOne(Stage(j, hosts))
  BY <1>1, <1>3, StageSound
<1> QED BY <1>2, <1>3, <1>4

\* One running instance is replaced.
LEMMA LiveSound ==
    ASSUME AllSound, Running, NEW p \in Providers, SoundOne(inst'.live[p]),
           \A q \in Providers \ {p} : inst'.live[q] = inst.live[q], inst'.next = inst.next,
           Assembling' => Assembling /\ job'.todo = job.todo
    PROVE  AllSound'
BY DEF AllSound

\* The view of sound instances, once it has passed the check.
LEMMA SoundView ==
    ASSUME IInv, AllSound, Working, Passes(View(On))
    PROVE  View(On) \in Checked
<1>1. ASSUME NEW p \in Providers
      PROVE  /\ View(On)[p] = [proxies |-> Candidate(On[p]).proxies, hosts |-> Candidate(On[p]).hosts]
             /\ Candidate(On[p]) \in State /\ Sound(Candidate(On[p]))
  <2>1. Candidate(On[p]) \in State /\ On[p] \in Instance
    BY Worked
  <2>2. View(On)[p] = [proxies |-> Candidate(On[p]).proxies, hosts |-> Candidate(On[p]).hosts]
    BY DEF View, Content
  <2>3. SoundOne(On[p])
    <3>1. CASE Building
      BY <2>1, <3>1, Worked, OnParts DEF Working, IInv, Candidates, AllSound, Assembling
    <3>2. CASE ~Building
      BY <3>2, Worked, OnParts DEF Working, AllSound
    <3> QED BY <3>1, <3>2
  <2>4. On[p].staged # None \/ On[p].state # None
    BY <2>1, NoneAssumption DEF Candidate
  <2>5. Sound(Candidate(On[p]))
    BY <2>3, <2>4 DEF SoundOne, Candidate
  <2> QED BY <2>1, <2>2, <2>5
<1>2. View(On) = [p \in Providers |-> View(On)[p]]
  BY DEF View
<1>3. ASSUME NEW p \in Providers
      PROVE  View(On)[p] \in [proxies : Contents, hosts : Contents \ Unparsable]
  <2> DEFINE s == Candidate(On[p])
  <2>1. s \in State /\ Sound(s) /\ View(On)[p] = [proxies |-> s.proxies, hosts |-> s.hosts]
    BY <1>1
  <2> HIDE DEF s
  <2>2. s.proxies \in Contents
    BY <2>1, StateParts
  <2> QED BY <2>1, <2>2 DEF Sound
<1>4. View(On) \in [Providers -> [proxies : Contents, hosts : Contents \ Unparsable]]
  BY <1>2, <1>3
<1> QED BY <1>4 DEF Checked

----------------------------------------------------------------------------
(* Steps that leave the instances alone *)

\* What runs and the native caches are as they were, and no copy has changed.
LEMMA FollowSame ==
    ASSUME CachesFollow, inst'.live = inst.live, UNCHANGED path, \A p \in Http : Kept'[p] = Kept[p]
    PROVE  CachesFollow'
BY DEF CachesFollow

LEMMA SoundSame ==
    ASSUME AllSound, UNCHANGED inst,
           Assembling' => Assembling /\ job'.todo = job.todo
    PROVE  AllSound'
BY DEF AllSound

LEMMA BegunFollows ==
    ASSUME IInv, KInv, Poll \/ Start \/ Apply
    PROVE  KInv'
<1>1. /\ step = "idle" /\ UNCHANGED disk /\ inst'.live = inst.live
      /\ step' = "poll" \/ (step' = "init" /\ job'.todo = Providers)
      /\ UNCHANGED inst \/ inst'.next = Blank
  <2>1. inst = [live |-> inst.live, next |-> inst.next]
    BY DEF IInv, TypedInst
  <2> QED BY <2>1 DEF Poll, Start, Apply, NoJob
<1>2. \A p \in Http : Kept'[p] = Kept[p]
  BY <1>1, CopiesOnDisk DEF Renaming
<1>3. AllSound'
  BY <1>1 DEF KInv, AllSound, Assembling, Working
<1>4. CachesFollow'
  BY <1>1, <1>2, FollowSame DEF KInv
<1>5. Rebuilt' /\ Renames'
  BY <1>1 DEF Rebuilt, Renames, Renaming, Providers
<1> QED BY <1>3, <1>4, <1>5 DEF KInv

LEMMA CheckedFollows ==
    ASSUME IInv, KInv, PollDone \/ CheckPasses
    PROVE  KInv'
<1>1. /\ UNCHANGED <<disk, memory>> /\ step \notin {"commit", "rollback"}
      /\ \/ step' = "idle"
         \/ step = "poll" /\ step' = "check" /\ UNCHANGED job
         \/ /\ step = "check" /\ step' = "prepare" /\ Passes(View(On))
            /\ job' = [job EXCEPT !.view = View(On)]
  BY DEF PollDone, CheckPasses
<1>2. \A p \in Http : Kept'[p] = Kept[p]
  BY <1>1, CopiesOnDisk DEF Renaming
<1>3. /\ step = "poll" => ~Building
      /\ step' # "idle" => job'.op = job.op /\ job'.todo = job.todo
  BY <1>1 DEF IInv, Phase, Typed, Job
<1>4. Assembling' => Assembling /\ job'.todo = job.todo
  BY <1>1, <1>3 DEF Assembling, Working
<1>6. AllSound' /\ CachesFollow'
  BY <1>1, <1>2, <1>4, FollowSame, SoundSame DEF KInv
<1>7. Rebuilt'
  BY <1>1, <1>2, <1>3 DEF KInv, Rebuilt
<1>5. Renames'
  <2>1. ASSUME step' = "prepare" PROVE job'.view \in Checked
    <3>1. View(On) \in Checked
      BY <1>1, <2>1, SoundView DEF KInv, Working
    <3>2. job'.view = View(On)
      BY <1>1, <2>1 DEF IInv, Typed, Job
    <3> QED BY <3>1, <3>2
  <2> QED BY <1>1, <2>1 DEF Renames, Renaming
<1> QED BY <1>5, <1>6, <1>7 DEF KInv

LEMMA PrepareFollows == ASSUME IInv, KInv, Prepare PROVE KInv'
<1> DEFINE entry(p) == IF p \in Http THEN [new |-> path[p], old |-> accepted[p], committed |-> FALSE]
                                     ELSE [new |-> None, old |-> None, committed |-> TRUE]
<1>1. /\ step = "prepare" /\ step' = "commit" /\ tx' = [p \in Entries(On) |-> entry(p)]
      /\ UNCHANGED <<disk, memory, job, history>> /\ Working
  BY DEF Prepare, Working
<1>2. DOMAIN tx' = Entries(On) /\ \A p \in Entries(On) : tx'[p] = entry(p)
  BY <1>1
<1>3. \A p \in Entries(On) \cap Http :
         tx'[p].new = path[p] /\ tx'[p].old = accepted[p] /\ tx'[p].committed = FALSE
  BY <1>2
<1> HIDE DEF entry
<1>4. Renamed' = {}
  BY <1>2, <1>3 DEF Renamed
<1>5. \A p \in Http : Kept'[p] = Kept[p] /\ Kept[p] = accepted[p]
  BY <1>1, <1>4, CopiesOnDisk DEF Renaming
<1>6. ASSUME NEW p \in Entries(On) \cap Http
      PROVE  path[p] # None /\ path[p] \in {job.view[p].proxies, accepted[p]}
  <2>1. /\ On[p].staged # None /\ On[p] \in Instance /\ p \in Providers
        /\ job.view[p].proxies = On[p].staged.proxies
    BY <1>1, <1>6, Worked, ViewTyped DEF Entries, IInv, InForce, Candidate
  <2>2. On[p].content # None /\ On[p].version # 0
    BY <2>1, InstanceParts, VersionParts, SourcesAssumption
  <2>3. CASE Building
    <3>1. path[p] = On[p].content /\ On[p].staged.proxies = On[p].content
      BY <1>1, <1>6, <2>1, <2>3, OnParts DEF IInv, Candidates, Built
    <3> QED BY <2>1, <2>2, <3>1
  <2>4. CASE ~Building
    <3>1. On = Live /\ Running
      BY <1>1, <2>4, Worked, OnParts
    <3>2. Live[p].rejected = 0 /\ Live[p].staged.proxies = Live[p].content
      BY <1>6, <2>1, <3>1 DEF IInv, Subscriptions, Settled
    <3>3. Kept[p] # None /\ path[p] \in {Live[p].content, Kept[p]}
      BY <1>6, <2>2, <3>1, <3>2 DEF KInv, CachesFollow
    <3> QED BY <1>5, <1>6, <2>1, <2>2, <3>1, <3>2, <3>3
  <2> QED BY <2>3, <2>4
<1>7. AllSound' /\ CachesFollow'
  BY <1>1, <1>5, FollowSame, SoundSame DEF KInv, Assembling, Working
<1>8. Rebuilt'
  BY <1>1, <1>5 DEF KInv, Rebuilt
<1>9. Renames'
  BY <1>1, <1>2, <1>3, <1>6 DEF KInv, Renames
<1> QED BY <1>7, <1>8, <1>9 DEF KInv

LEMMA CommitFailsFollows == ASSUME IInv, KInv, CommitFails PROVE KInv'
<1>1. /\ step = "commit" /\ step' = "rollback"
      /\ UNCHANGED <<disk, memory, job, tx>>
  BY DEF CommitFails
<1>2. Kept' = Kept
  BY <1>1, CopiesSame DEF Renaming
<1>3. AllSound' /\ CachesFollow'
  BY <1>1, <1>2, FollowSame, SoundSame DEF KInv, Assembling, Working
<1> QED BY <1>1, <1>3 DEF KInv, Rebuilt, Renames, Renaming

\* A rename, or one that is undone, shows in no copy.
LEMMA RenameHidden ==
    ASSUME IInv, KInv, NEW p \in Providers, Commit(p) \/ Rollback(p)
    PROVE  Kept' = Kept
<1>1. /\ p \in DOMAIN tx \cap Http /\ Renaming /\ UNCHANGED step
      /\ \/ /\ tx' = [tx EXCEPT ![p].committed = TRUE] /\ step = "commit" /\ ~tx[p].committed
            /\ accepted' = [accepted EXCEPT ![p] = tx[p].new]
         \/ /\ tx' = [tx EXCEPT ![p].committed = FALSE] /\ tx[p].committed
            /\ accepted' = [accepted EXCEPT ![p] = tx[p].old]
  BY DEF Commit, Rollback, Renamed, Renaming
<1>2. /\ DOMAIN tx' = DOMAIN tx /\ tx'[p].old = tx[p].old /\ \A q \in DOMAIN tx \ {p} : tx'[q] = tx[q]
      /\ tx'[p].committed = ~tx[p].committed
  <2>1. TRUE \in BOOLEAN /\ FALSE \in BOOLEAN
    OBVIOUS
  <2> QED BY <1>1, <2>1, Marked DEF IInv
<1>3. \A q \in Http \ {p} : accepted'[q] = accepted[q]
  BY <1>1 DEF IInv, Typed
<1>4. ASSUME NEW q \in Http PROVE Kept'[q] = Kept[q]
  <2>1. CASE q # p
    <3>1. q \in Renamed' <=> q \in Renamed
      BY <1>2, <2>1 DEF Renamed
    <3>2. q \in Renamed => tx'[q] = tx[q]
      BY <1>2, <2>1 DEF Renamed
    <3> QED BY <1>1, <1>3, <2>1, <3>1, <3>2, Copies, CopiesNext DEF Renaming
  <2>2. CASE q = p
    <3>1. accepted'[p] = IF tx[p].committed THEN tx[p].old ELSE tx[p].new
      BY <1>1 DEF IInv, Typed
    <3>2. ~tx[p].committed => accepted[p] = tx[p].old
      BY <1>1 DEF KInv, Renames
    <3>3. Kept[p] = tx[p].old
      BY <1>1, <3>2, Copies DEF Renamed
    <3>4. Kept'[p] = tx[p].old
      BY <1>1, <1>2, <3>1, CopiesNext DEF Renamed, Renaming
    <3> QED BY <2>2, <3>3, <3>4
  <2> QED BY <2>1, <2>2
<1> QED BY <1>4, Copies, CopiesNext

LEMMA RenameFollows ==
    ASSUME IInv, KInv, NEW p \in Providers, Commit(p) \/ Rollback(p)
    PROVE  KInv'
<1>1. Kept' = Kept
  BY RenameHidden
<1>2. /\ UNCHANGED <<path, memory, job, step>> /\ p \in DOMAIN tx \cap Http
      /\ \/ /\ tx' = [tx EXCEPT ![p].committed = TRUE] /\ step = "commit"
            /\ accepted' = [accepted EXCEPT ![p] = tx[p].new]
         \/ tx' = [tx EXCEPT ![p].committed = FALSE] /\ step = "rollback"
  BY DEF Commit, Rollback, Renamed
<1>3. AllSound' /\ CachesFollow'
  BY <1>1, <1>2, FollowSame, SoundSame DEF KInv, Assembling, Working
<1>4. Rebuilt'
  BY <1>1, <1>2 DEF KInv, Rebuilt
<1>5. /\ DOMAIN tx' = DOMAIN tx /\ tx'[p].new = tx[p].new /\ tx'[p].old = tx[p].old
      /\ \A q \in DOMAIN tx \ {p} : tx'[q] = tx[q]
      /\ step = "commit" => tx'[p].committed
  <2>1. TRUE \in BOOLEAN /\ FALSE \in BOOLEAN
    OBVIOUS
  <2> QED BY <1>2, <2>1, Marked DEF IInv
<1>6. step = "commit" => \A q \in Http \ {p} : accepted'[q] = accepted[q]
  BY <1>2 DEF IInv, Typed
<1>7. Renames'
  BY <1>2, <1>5, <1>6 DEF KInv, Renames, Renaming
<1> QED BY <1>3, <1>4, <1>7 DEF KInv

LEMMA WriteFileFollows == ASSUME IInv, KInv, NEW f \in Files, WriteFile(f) PROVE KInv'
<1>1. UNCHANGED <<path, accepted, memory, operation>>
  BY DEF WriteFile
<1>2. Kept' = Kept
  BY <1>1, CopiesSame DEF Renaming
<1>3. AllSound' /\ CachesFollow'
  BY <1>1, <1>2, FollowSame, SoundSame DEF KInv, Assembling, Working
<1> QED BY <1>1, <1>2, <1>3 DEF KInv, Rebuilt, Renames, Renaming

----------------------------------------------------------------------------
(* Operations that end without success *)

\* The copy that could not be put back is the one the native cache has.
LEMMA CopyLeft ==
    ASSUME IInv, KInv, NEW p \in Providers, RollbackFails(p)
    PROVE  /\ p \in DOMAIN tx \cap Http /\ step = "rollback" /\ UNCHANGED <<disk, memory, job, step>>
           /\ DOMAIN tx' = DOMAIN tx
           /\ \A q \in DOMAIN tx : tx'[q].new = tx[q].new /\ tx'[q].old = tx[q].old
           /\ Kept'[p] = tx[p].new
           /\ \A q \in Http \ {p} : Kept'[q] = Kept[q]
<1>1. /\ tx' = [tx EXCEPT ![p].committed = FALSE] /\ p \in DOMAIN tx \cap Http /\ tx[p].committed
      /\ step = "rollback" /\ UNCHANGED <<disk, memory, job, step>>
  BY DEF RollbackFails, Renamed
<1>2. /\ DOMAIN tx' = DOMAIN tx /\ \A q \in DOMAIN tx \ {p} : tx'[q] = tx[q]
      /\ tx'[p].new = tx[p].new /\ tx'[p].old = tx[p].old /\ ~tx'[p].committed
  <2>1. FALSE \in BOOLEAN
    OBVIOUS
  <2> QED BY <1>1, <2>1, Marked DEF IInv
<1>3. accepted[p] = tx[p].new
  BY <1>1 DEF IInv, Transaction
<1>4. Kept'[p] = tx[p].new
  BY <1>1, <1>2, <1>3, CopiesNext DEF Renamed
<1>5. ASSUME NEW q \in Http \ {p} PROVE Kept'[q] = Kept[q]
  <2>1. (q \in Renamed' <=> q \in Renamed) /\ (q \in Renamed => tx'[q] = tx[q])
    BY <1>2 DEF Renamed
  <2> QED BY <1>1, <2>1, Copies, CopiesNext DEF Renaming
<1> QED BY <1>1, <1>2, <1>4, <1>5

LEMMA RollbackFailsFollows ==
    ASSUME IInv, KInv, NEW p \in Providers, RollbackFails(p)
    PROVE  KInv'
<1>1. /\ p \in DOMAIN tx \cap Http /\ step = "rollback" /\ UNCHANGED <<disk, memory, job, step>>
      /\ DOMAIN tx' = DOMAIN tx
      /\ \A q \in DOMAIN tx : tx'[q].new = tx[q].new /\ tx'[q].old = tx[q].old
      /\ Kept'[p] = tx[p].new
      /\ \A q \in Http \ {p} : Kept'[q] = Kept[q]
  BY CopyLeft
<1>2. tx[p].new = path[p] /\ tx[p].new # None
  BY <1>1 DEF KInv, Renames, Renaming
<1>3. AllSound'
  BY <1>1, SoundSame DEF KInv, Assembling, Working
<1>4. CachesFollow'
  BY <1>1, <1>2 DEF KInv, CachesFollow
<1>5. Renames'
  BY <1>1 DEF KInv, Renames, Renaming
<1> QED BY <1>1, <1>3, <1>4, <1>5 DEF KInv, Rebuilt

\* Nothing runs any more.
LEMMA WithdrawnFollows ==
    ASSUME inst' = [live |-> None, next |-> None], step' = "idle"
    PROVE  KInv'
BY DEF KInv, AllSound, Assembling, Working, CachesFollow, Rebuilt, Renames, Renaming

\* A candidate configuration is dropped; the caches may be put back.
LEMMA AbandonedFollows ==
    ASSUME IInv, KInv, Abandon, Return, UNCHANGED accepted, Renaming => Renamed = {},
           \A p \in Http : path'[p] \in {path[p], accepted[p]}
    PROVE  KInv'
<1>1. inst'.live = inst.live /\ step' = "idle" /\ job'.op = "none"
  BY DEF IInv, TypedInst, Abandon, NoJob
<1>2. \A p \in Http : Kept'[p] = Kept[p] /\ Kept[p] = accepted[p]
  BY <1>1, CopiesOnDisk DEF Renaming
<1>3. AllSound'
  BY <1>1 DEF KInv, AllSound, Assembling
<1>4. CachesFollow'
  BY <1>1, <1>2 DEF KInv, CachesFollow
<1> QED BY <1>1, <1>3, <1>4 DEF KInv, Rebuilt, Renames, Renaming

\* The candidates of some running providers are rejected.
LEMMA RejectedFollows ==
    ASSUME IInv, KInv, ~Building, step # "idle", NEW S \in SUBSET Providers,
           inst' = [inst EXCEPT !.live = [p \in Providers |-> IF p \in S THEN Reject(@[p]) ELSE @[p]]],
           Restore(S \cap Http), Return, UNCHANGED accepted, Renaming => Renamed = {}
    PROVE  KInv'
<1>1. Running /\ Accepted(Live)
  BY DEF IInv, TypedInst, Phase
<1>2. inst'.live = [p \in Providers |-> IF p \in S THEN Reject(inst.live[p]) ELSE inst.live[p]]
  BY <1>1 DEF IInv, TypedInst
<1>3. ASSUME NEW p \in Providers
      PROVE  /\ inst'.live[p].state = inst.live[p].state
             /\ p \in S => inst'.live[p].staged = None /\ inst'.live[p].rejected = inst'.live[p].version
             /\ p \notin S => inst'.live[p] = inst.live[p]
  BY <1>1, <1>2, RejectParts DEF Accepted
<1>4. \A p \in Http : path'[p] \in {path[p], accepted[p]}
  BY RestoreParts DEF IInv
<1>5. step' = "idle" /\ job'.op = "none"
  BY DEF NoJob
<1>6. \A p \in Http : Kept'[p] = Kept[p] /\ Kept[p] = accepted[p]
  BY <1>5, CopiesOnDisk DEF Renaming
<1>7. AllSound'
  BY <1>1, <1>3, <1>5 DEF KInv, AllSound, Assembling, SoundOne
<1>8. CachesFollow'
  <2> SUFFICES ASSUME NEW p \in Http
               PROVE  /\ Kept'[p] # None
                      /\ inst'.live[p].rejected # inst'.live[p].version =>
                            path'[p] \in {inst'.live[p].content, Kept'[p]}
    BY DEF CachesFollow
  <2>1. p \in Providers
    BY DEF Providers
  <2> QED BY <1>1, <1>3, <1>4, <1>6, <2>1 DEF KInv, CachesFollow
<1> QED BY <1>5, <1>7, <1>8 DEF KInv, Rebuilt, Renames, Renaming

LEMMA StoppedFollows ==
    ASSUME IInv, KInv, Unsafe \/ Crash \/ Invalid \/ \E p \in Providers : InitialFails(p)
    PROVE  KInv'
<1>1. CASE Crash \/ Invalid
  BY <1>1, WithdrawnFollows DEF Crash, Invalid, Withdraw
<1>2. CASE Unsafe
  <2>1. step = "check" /\ UNCHANGED disk /\ Return
    BY <1>2 DEF Unsafe
  <2>2. CASE Building
    BY <1>2, <2>1, <2>2, AbandonedFollows DEF Unsafe, Renaming
  <2>3. CASE ~Building
    BY <1>2, <2>3, WithdrawnFollows DEF Unsafe, Withdraw
  <2> QED BY <2>2, <2>3
<1>3. ASSUME NEW p \in Providers, InitialFails(p) PROVE KInv'
  <2>1. step = "init" /\ UNCHANGED accepted /\ Return /\ Abandon
    BY <1>3 DEF InitialFails
  <2>2. \A q \in Http : path'[q] \in {path[q], accepted[q]}
    BY <1>3 DEF InitialFails, IInv, Typed
  <2> QED BY <2>1, <2>2, AbandonedFollows DEF Renaming
<1> QED BY <1>1, <1>2, <1>3

LEMMA RefusedFollows ==
    ASSUME IInv, KInv, CheckFails \/ PrepareFails \/ RolledBack
    PROVE  KInv'
<1> DEFINE Rejected(S) == inst' =
              [inst EXCEPT !.live = [p \in Providers |-> IF p \in S THEN Reject(@[p]) ELSE @[p]]]
<1>1. ASSUME CheckFails
      PROVE  \E S \in SUBSET Providers :
                IF Building THEN Abandon /\ UNCHANGED path ELSE Rejected(S) /\ Restore(S \cap Http)
  BY <1>1 DEF CheckFails, IInv, Typed, Job
<1>2. ASSUME PrepareFails
      PROVE  \E S \in SUBSET Providers : (IF Building THEN Abandon ELSE Rejected(S)) /\ Restore(S \cap Http)
  <2>1. SUBSET Entries(On) \subseteq SUBSET Providers
    BY DEF Entries
  <2> QED BY <1>2, <2>1 DEF PrepareFails
<1>3. ASSUME RolledBack
      PROVE  \E S \in SUBSET Providers : (IF Building THEN Abandon ELSE Rejected(S)) /\ Restore(S \cap Http)
  <2>1. DOMAIN tx \in SUBSET Providers
    BY DEF IInv, Typed
  <2> QED BY <1>3, <2>1 DEF RolledBack
<1>4. PICK S \in SUBSET Providers :
          /\ IF Building THEN Abandon ELSE Rejected(S)
          /\ Restore(S \cap Http) \/ (Building /\ UNCHANGED path)
  BY <1>1, <1>2, <1>3
<1>5. Return /\ UNCHANGED accepted /\ step # "idle" /\ (Renaming => Renamed = {})
  BY DEF CheckFails, PrepareFails, RolledBack, Renaming
<1>6. CASE Building
  <2>1. \A p \in Http : path'[p] \in {path[p], accepted[p]}
    BY <1>4, RestoreParts DEF IInv
  <2> QED BY <1>4, <1>5, <1>6, <2>1, AbandonedFollows
<1>7. CASE ~Building
  BY <1>4, <1>5, <1>7, RejectedFollows
<1> QED BY <1>6, <1>7

----------------------------------------------------------------------------
(* Steps that change instances *)

LEMMA FetchedFollows ==
    ASSUME IInv, KInv, Running, inst.next = None, NEW p \in Providers, NEW c \in Contents, Fetch(p, c),
           inst' = [inst EXCEPT !.live[p] = Updated(p, c)], UNCHANGED accepted,
           step \in {"idle", "poll"}, step' \in {"idle", "poll", "check"}, ~Building'
    PROVE  KInv'
<1> DEFINE i == Updated(p, c)
<1>1. i \in {Updated(p, c)} /\ inst' = [inst EXCEPT !.live[p] = i]
  OBVIOUS
<1>2. Live[p] \in Instance /\ (c = Live[p].content \/ Live[p].version < MaxVersion[p])
  BY <1>1, FetchedParts
<1>3. SoundOne(i)
  BY <1>2, UpdateSound DEF KInv, AllSound, Updated
<1> HIDE DEF i
<1>4. /\ i.content = c
      /\ i.version = IF c = Live[p].content THEN Live[p].version ELSE Live[p].version + 1
      /\ inst'.next = None /\ inst'.live[p] = i
      /\ \A q \in Providers \ {p} : inst'.live[q] = inst.live[q]
      /\ \A q \in Http \ {p} : path'[q] = path[q]
  BY <1>1, FetchedParts
<1>5. p \in Http =>
          /\ Live[p].rejected = i.version => i = Live[p] /\ i.rejected = i.version
          /\ i.rejected # i.version => path'[p] = IF c = Live[p].content THEN path[p] ELSE c
  BY <1>1, FetchedParts
<1>6. \A q \in Http : Kept'[q] = Kept[q]
  BY CopiesOnDisk DEF Renaming
<1>7. AllSound'
  BY <1>3, <1>4, LiveSound DEF KInv, Assembling
<1>8. CachesFollow'
  <2> SUFFICES ASSUME NEW q \in Http
               PROVE  /\ Kept'[q] # None
                      /\ inst'.live[q].rejected # inst'.live[q].version =>
                            path'[q] \in {inst'.live[q].content, Kept'[q]}
    BY DEF CachesFollow
  <2>1. q \in Providers
    BY DEF Providers
  <2>2. CASE q # p
    BY <1>4, <1>6, <2>1, <2>2 DEF KInv, CachesFollow
  <2>3. CASE q = p
    <3>1. CASE c = Live[p].content
      <4>1. i.version = Live[p].version
        BY <1>4, <3>1
      <4>2. i.rejected # i.version => Live[p].rejected # Live[p].version
        BY <1>5, <2>3, <4>1
      <4> QED BY <1>4, <1>5, <1>6, <2>3, <3>1, <4>2 DEF KInv, CachesFollow
    <3>2. CASE c # Live[p].content
      BY <1>4, <1>5, <1>6, <2>3, <3>2 DEF KInv, CachesFollow
    <3> QED BY <3>1, <3>2
  <2> QED BY <2>2, <2>3
<1> QED BY <1>7, <1>8 DEF KInv, Rebuilt, Renames, Renaming

LEMMA RefreshFollows == ASSUME IInv, KInv, NEW p \in Providers, Refresh(p) PROVE KInv'
<1>1. PICK c \in Contents :
          /\ Fetch(p, c)
          /\ inst' = [inst EXCEPT !.live[p] = Updated(p, c)]
          /\ IF Updated(p, c).staged = None
             THEN UNCHANGED <<job, step>>
             ELSE job' = [NoJob EXCEPT !.op = "refresh", !.keys = {p}] /\ step' = "check"
  BY DEF Refresh
<1>2. step = "idle" /\ Running /\ UNCHANGED accepted /\ job = NoJob /\ inst.next = None
  BY DEF Refresh, IInv, Phase
<1>3. step' \in {"idle", "check"} /\ job'.op \in {"none", "refresh"}
  <2>1. \/ job' = NoJob /\ step' = "idle"
        \/ job' = [op |-> "refresh", on |-> "live", todo |-> {}, keys |-> {p}, view |-> None]
           /\ step' = "check"
    BY <1>1, <1>2 DEF NoJob
  <2> QED BY <2>1 DEF NoJob
<1>4. inst' = [inst EXCEPT !.live[p] = Updated(p, c)]
  BY <1>1
<1> QED BY <1>1, <1>2, <1>3, <1>4, FetchedFollows

LEMMA PollFetchFollows == ASSUME IInv, KInv, NEW p \in Providers, PollFetch(p) PROVE KInv'
<1>1. PICK c \in Contents : Fetch(p, c) /\ Polled(p, Updated(p, c))
  BY DEF PollFetch
<1>2. step = "poll" /\ step' = "poll" /\ UNCHANGED accepted
  BY DEF PollFetch
<1>3. /\ Running /\ inst.next = None /\ job'.op = "poll"
      /\ inst' = [inst EXCEPT !.live[p] = Updated(p, c)]
  BY <1>1, <1>2, PolledParts
<1> QED BY <1>1, <1>2, <1>3, FetchedFollows

\* The content of no subscription changes.
LEMMA FollowOthers ==
    ASSUME CachesFollow, Running, \A p \in Http : inst'.live[p] = inst.live[p] /\ Kept'[p] = Kept[p],
           UNCHANGED path
    PROVE  CachesFollow'
BY DEF CachesFollow

LEMMA PollVersionFollows == ASSUME IInv, KInv, NEW p \in Providers, PollVersion(p) PROVE KInv'
<1> DEFINE i == Sync(Live[p], Source(p))
<1>1. step = "poll" /\ step' = "poll" /\ Polled(p, i) /\ UNCHANGED disk
  BY DEF PollVersion
<1>2. /\ Running /\ inst' = [inst EXCEPT !.live[p] = i] /\ job'.op = "poll"
  BY <1>1, PolledParts
<1>3. Live[p] \in Instance /\ SoundOne(Live[p])
  BY <1>2 DEF IInv, TypedInst, Accepted, KInv, AllSound
<1>4. i \in Instance /\ i.state = Live[p].state /\ (p \in Http => i = Live[p])
  BY <1>2, <1>3, SyncParts, SubscriptionSeen
<1>5. SoundOne(i)
  <2>1. CASE p \in Http
    BY <1>3, <1>4, <2>1
  <2>2. CASE p \notin Http
    <3>1. SoundOne(Stage(Live[p], Source(p)))
      BY <1>3, StageSound
    <3> QED BY <1>3, <3>1, SyncParts
  <2> QED BY <2>1, <2>2
<1> HIDE DEF i
<1>6. /\ inst'.next = inst.next /\ inst'.live[p] = i
      /\ \A q \in Providers \ {p} : inst'.live[q] = inst.live[q]
  BY <1>2, <1>4, LiveChanged
<1>7. \A q \in Http : inst'.live[q] = inst.live[q] /\ Kept'[q] = Kept[q]
  BY <1>1, <1>4, <1>6, CopiesOnDisk DEF Providers, Renaming
<1>8. AllSound'
  BY <1>2, <1>5, <1>6, LiveSound DEF KInv, Assembling
<1>9. CachesFollow'
  BY <1>1, <1>2, <1>7, FollowOthers DEF KInv
<1> QED BY <1>1, <1>8, <1>9 DEF KInv, Rebuilt, Renames, Renaming

LEMMA CaptureFollows == ASSUME IInv, KInv, Capture PROVE KInv'
<1>1. step = "capture" /\ Return /\ UNCHANGED disk /\ job'.op = "none"
  BY DEF Capture, NoJob
<1>2. /\ Running /\ Accepted(Live)
      /\ inst'.live = [p \in Providers |-> Sync(inst.live[p], Source(p))]
      /\ \A p \in Providers : p \in Http => inst'.live[p] = inst.live[p]
  BY CaptureParts
<1>3. ASSUME NEW p \in Providers PROVE SoundOne(inst'.live[p])
  <2>1. Live[p] \in Instance /\ SoundOne(Live[p])
    BY <1>2 DEF Accepted, KInv, AllSound
  <2>2. CASE p \in Http
    BY <1>2, <2>1, <2>2
  <2>3. CASE p \notin Http
    <3>1. SoundOne(Stage(Live[p], Source(p)))
      BY <2>1, StageSound
    <3>2. inst'.live[p] \in {Live[p], Stage(Live[p], Source(p))}
      BY <1>2, <2>1, SyncParts
    <3> QED BY <2>1, <3>1, <3>2
  <2> QED BY <2>2, <2>3
<1>4. AllSound'
  BY <1>1, <1>3 DEF AllSound, Assembling
<1>5. \A q \in Http : inst'.live[q] = inst.live[q] /\ Kept'[q] = Kept[q]
  BY <1>1, <1>2, CopiesOnDisk DEF Providers, Renaming
<1>6. CachesFollow'
  BY <1>1, <1>2, <1>5, FollowOthers DEF KInv
<1> QED BY <1>1, <1>4, <1>6 DEF KInv, Rebuilt, Renames, Renaming

LEMMA WatchLiveFollows == ASSUME IInv, KInv, NEW f \in Files, Watch("live", f) PROVE KInv'
<1> DEFINE i == Load(Live[f], file[f])
<1>1. /\ Running /\ Live[f].version < MaxVersion[f] /\ f \in Providers /\ f \notin Http
      /\ inst' = [inst EXCEPT !.live[f] = i]
      /\ UNCHANGED <<disk, operation>>
  BY SourcesAssumption DEF Watch, Providers
<1>2. Live[f] \in Instance /\ file[f] \in Contents
  BY <1>1 DEF IInv, TypedInst, Accepted, Typed
<1>3. i \in Instance /\ i.state = Live[f].state /\ i.staged = Live[f].staged
  BY <1>1, <1>2, LoadParts
<1> HIDE DEF i
<1>4. /\ inst'.next = inst.next /\ inst'.live[f] = i
      /\ \A q \in Providers \ {f} : inst'.live[q] = inst.live[q]
  BY <1>1, <1>3, LiveChanged
<1>5. SoundOne(i)
  BY <1>1, <1>3 DEF KInv, AllSound, SoundOne
<1>6. Kept' = Kept
  BY <1>1, CopiesSame DEF Renaming
<1>7. \A q \in Http : inst'.live[q] = inst.live[q] /\ Kept'[q] = Kept[q]
  BY <1>1, <1>4, <1>6 DEF Providers
<1>8. AllSound'
  BY <1>1, <1>4, <1>5, LiveSound DEF KInv, Assembling, Working
<1>9. CachesFollow'
  BY <1>1, <1>7, FollowOthers DEF KInv
<1> QED BY <1>1, <1>4, <1>6, <1>8, <1>9 DEF KInv, Rebuilt, Renames, Renaming

LEMMA WatchNextFollows == ASSUME IInv, KInv, NEW f \in Files, Watch("next", f) PROVE KInv'
<1> DEFINE i == Load(inst.next[f], file[f])
<1>1. /\ inst.next # None /\ inst.next[f] # None /\ inst.next[f].version < MaxVersion[f]
      /\ f \in Providers /\ f \notin Http
      /\ inst' = [inst EXCEPT !.next[f] = i]
      /\ UNCHANGED <<disk, operation>>
  BY SourcesAssumption DEF Watch, Providers
<1>2. inst.next \in [Providers -> Maybe(Instance)] /\ inst.next[f] \in Instance /\ file[f] \in Contents
  BY <1>1 DEF IInv, TypedInst, Typed, Maybe
<1>3. i \in Instance /\ i.state = inst.next[f].state /\ i.staged = inst.next[f].staged
  BY <1>1, <1>2, LoadParts
<1> HIDE DEF i
<1>4. inst'.live = inst.live /\ inst'.next = [inst.next EXCEPT ![f] = i]
  BY <1>1 DEF IInv, TypedInst
<1>5. inst'.next[f] = i /\ \A q \in Providers \ {f} : inst'.next[q] = inst.next[q]
  BY <1>1, <1>2, <1>4
<1>6. Kept' = Kept
  BY <1>1, CopiesSame DEF Renaming
<1>7. AllSound'
  BY <1>1, <1>3, <1>4, <1>5 DEF KInv, AllSound, SoundOne, Assembling, Working
<1>8. CachesFollow'
  BY <1>1, <1>4, <1>6, FollowSame DEF KInv
<1>9. Rebuilt'
  BY <1>1, <1>5, <1>6 DEF KInv, Rebuilt, Providers
<1> QED BY <1>1, <1>7, <1>8, <1>9 DEF KInv, Renames, Renaming

LEMMA InitialFollows == ASSUME IInv, KInv, NEW p \in Providers, Initial(p) PROVE KInv'
<1>1. PICK c \in InitialContents(p) \ Unparsable, i \in Instance :
              /\ c \in Contents
              /\ i.version = 1 /\ i.content = c /\ i.rejected = 0 /\ i.state = None
              /\ i.staged \in State
              /\ i.staged.version = 1 /\ i.staged.proxies = c /\ i.staged.hosts = c
              /\ inst'.live = inst.live /\ inst' = [live |-> inst'.live, next |-> inst'.next]
              /\ inst'.next \in [Providers -> Maybe(Instance)] /\ inst'.next[p] = i
              /\ \A q \in Providers \ {p} : inst'.next[q] = inst.next[q]
              /\ path' \in [Http -> Maybe(Contents)]
              /\ (p \in Http => path'[p] = c) /\ \A q \in Http \ {p} : path'[q] = path[q]
  BY InitialParts
<1>2. /\ step = "init" /\ p \in job.todo /\ job' = [job EXCEPT !.todo = @ \ {p}]
      /\ step' \in {"check", "init"} /\ UNCHANGED accepted
  BY DEF Initial
<1>3. Building /\ Building' /\ job'.todo = job.todo \ {p} /\ Assembling
  <2>1. job \in Job /\ Building
    BY <1>2 DEF IInv, Phase, Typed
  <2> QED BY <1>2, <2>1 DEF Job, Assembling
<1>4. \A q \in Http : Kept'[q] = Kept[q] /\ Kept[q] = accepted[q]
  BY <1>2, CopiesOnDisk DEF Renaming
\* The accepted copy is loaded, if there is one.
<1>5. ASSUME p \in Http, Kept[p] # None PROVE c = Kept[p]
  BY <1>1, <1>4, <1>5, SourcesAssumption DEF InitialContents, Cached
<1>6. AllSound'
  <2>1. SoundOne(i)
    BY <1>1 DEF SoundOne, Sound
  <2>2. \A q \in Providers \ job'.todo : SoundOne(inst'.next[q])
    BY <1>1, <1>3, <2>1 DEF KInv, AllSound
  <2> QED BY <1>1, <2>2 DEF KInv, AllSound
<1>7. CachesFollow'
  BY <1>1, <1>4, <1>5 DEF KInv, CachesFollow
<1>8. Rebuilt'
  <2> SUFFICES ASSUME NEW q \in Http \ job'.todo, Kept'[q] # None
               PROVE  inst'.next[q].content = Kept'[q]
    BY DEF Rebuilt
  <2>1. CASE q = p
    BY <1>1, <1>4, <1>5, <2>1
  <2>2. CASE q # p
    BY <1>1, <1>2, <1>3, <1>4, <2>2 DEF KInv, Rebuilt, Providers
  <2> QED BY <2>1, <2>2
<1> QED BY <1>2, <1>6, <1>7, <1>8 DEF KInv, Renames, Renaming

\* After the last rename every copy stays, or is the one that was renamed.
LEMMA CopiesPublished ==
    ASSUME IInv, KInv, Publish
    PROVE  \A p \in Http :
              /\ p \in DOMAIN tx => Kept'[p] = tx[p].new
              /\ p \notin DOMAIN tx => Kept'[p] = Kept[p]
              /\ Kept'[p] \in {Kept[p], job.view[p].proxies}
<1>1. step = "commit" /\ Renamed = DOMAIN tx \cap Http /\ UNCHANGED accepted /\ step' = "capture"
  BY DEF Publish
<1>2. \A p \in Http : Kept'[p] = accepted[p]
  BY <1>1, CopiesOnDisk DEF Renaming
<1>3. ASSUME NEW p \in Http, p \notin DOMAIN tx PROVE Kept[p] = accepted[p]
  BY <1>3, Copies DEF Renamed
<1>4. ASSUME NEW p \in Http, p \in DOMAIN tx
      PROVE  accepted[p] = tx[p].new /\ tx[p].new \in {Kept[p], job.view[p].proxies}
  <2>1. p \in Renamed /\ tx[p].committed
    BY <1>1, <1>4 DEF Renamed
  <2>2. Kept[p] = tx[p].old
    BY <1>1, <2>1, Copies DEF Renaming
  <2> QED BY <1>1, <1>4, <2>1, <2>2 DEF IInv, Transaction, KInv, Renames, Renaming
<1> QED BY <1>2, <1>3, <1>4

LEMMA PublishFollows == ASSUME IInv, KInv, Publish PROVE KInv'
<1>1. step = "commit" /\ step' = "capture" /\ UNCHANGED <<disk, job>> /\ Working
  BY DEF Publish, Working
<1>2. /\ On \in [Providers -> Instance] /\ \A p \in Providers : Candidate(On[p]) \in State
      /\ Building => On = inst.next /\ job.todo = {} /\ \A p \in Providers : On[p].staged # None
      /\ ~Building => On = Live /\ Running
  BY <1>1, Worked, OnParts DEF IInv, Candidates
<1>3. ASSUME NEW p \in Providers
      PROVE  /\ inst'.live[p].version = On[p].version /\ inst'.live[p].content = On[p].content
             /\ inst'.live[p].state = Candidate(On[p]) /\ inst'.live[p].staged = None
             /\ inst'.live[p].rejected = IF On[p].staged = None THEN On[p].rejected ELSE 0
             /\ On[p] \in Instance
  BY PublishParts
<1>4. ASSUME NEW p \in Providers PROVE SoundOne(inst'.live[p])
  <2>1. SoundOne(On[p])
    <3>1. CASE Building
      BY <1>1, <1>2, <3>1 DEF KInv, AllSound, Assembling
    <3>2. CASE ~Building
      BY <1>2, <3>2 DEF KInv, AllSound
    <3> QED BY <3>1, <3>2
  <2>2. Candidate(On[p]) # None
    BY <1>2, NoneAssumption
  <2> QED BY <1>3, <2>1, <2>2 DEF SoundOne, Candidate
<1>5. AllSound'
  BY <1>1, <1>4 DEF AllSound, Assembling, Working
<1>6. CachesFollow'
  <2> SUFFICES ASSUME NEW p \in Http
               PROVE  /\ Kept'[p] # None
                      /\ inst'.live[p].rejected # inst'.live[p].version =>
                            path'[p] \in {inst'.live[p].content, Kept'[p]}
    BY DEF CachesFollow
  <2>1. p \in Providers /\ DOMAIN tx = Entries(On)
    BY <1>1 DEF Providers, IInv, Transaction
  <2>2. CASE p \in DOMAIN tx
    <3>1. tx[p].new = path[p] /\ tx[p].new # None
      BY <1>1, <2>2 DEF KInv, Renames, Renaming
    <3> QED BY <1>1, <2>2, <3>1, CopiesPublished
  <2>3. CASE p \notin DOMAIN tx
    <3>1. On[p].staged = None /\ On = Live /\ Running
      BY <1>2, <2>1, <2>3 DEF Entries
    <3>2. Kept'[p] = Kept[p]
      BY <2>3, CopiesPublished
    <3> QED BY <1>1, <1>3, <2>1, <3>1, <3>2 DEF KInv, CachesFollow
  <2> QED BY <2>2, <2>3
<1> QED BY <1>1, <1>5, <1>6 DEF KInv, Rebuilt, Renames, Renaming

----------------------------------------------------------------------------
(* Every step *)

LEMMA FollowInit == Init => KInv
<1> SUFFICES ASSUME Init PROVE KInv
  OBVIOUS
<1>1. inst.live = None /\ step = "idle" /\ job = NoJob
  BY DEF Init
<1> QED BY <1>1 DEF KInv, AllSound, Assembling, NoJob, CachesFollow, Rebuilt, Renames, Renaming

LEMMA FollowStutter == ASSUME KInv, UNCHANGED vars PROVE KInv'
<1>1. UNCHANGED <<disk, memory, operation>>
  BY DEF vars
<1>2. Kept' = Kept
  BY <1>1, CopiesSame DEF Renaming
<1>3. AllSound' /\ CachesFollow'
  BY <1>1, <1>2, FollowSame, SoundSame DEF KInv, Assembling, Working
<1> QED BY <1>1, <1>2, <1>3 DEF KInv, Rebuilt, Renames, Renaming

LEMMA FollowNext == ASSUME IInv, KInv, [Next]_vars PROVE KInv'
<1>1. CASE \E p \in Providers : Refresh(p)
  BY <1>1, RefreshFollows
<1>2. CASE Poll \/ Start \/ Apply
  BY <1>2, BegunFollows
<1>3. CASE Holder
  BY <1>3, PollFetchFollows, PollVersionFollows, InitialFollows, StoppedFollows, RenameFollows,
     RollbackFailsFollows, CheckedFollows, RefusedFollows, PrepareFollows, CommitFailsFollows,
     PublishFollows, CaptureFollows DEF Holder
<1>4. CASE \E f \in Files : WriteFile(f) \/ Watch("live", f) \/ Watch("next", f)
  BY <1>4, WriteFileFollows, WatchLiveFollows, WatchNextFollows
<1>5. CASE Crash
  BY <1>5, StoppedFollows
<1>6. CASE UNCHANGED vars
  BY <1>6, FollowStutter
<1> QED BY <1>1, <1>2, <1>3, <1>4, <1>5, <1>6 DEF Next

----------------------------------------------------------------------------
(* The steps of the abstract specification *)

LEMMA AsNothing ==
    ASSUME Effective' = Effective, Kept' = Kept, torn' = torn
    PROVE  UNCHANGED Promise!vars
BY DEF Promise!vars

LEMMA AsWithdraw ==
    ASSUME Effective' = {}, Kept' = Kept, torn' = torn
    PROVE  Promise!Next
BY DEF Promise!Next, Promise!Withdraw

LEMMA AsOvertake ==
    ASSUME Effective' = Effective, Kept' = Kept, torn'
    PROVE  Promise!Next
BY DEF Promise!Next, Promise!Overtake

LEMMA AsTear ==
    ASSUME Effective' \in {Effective, {}}, torn', NEW view \in Checked,
           \A p \in Http : Kept'[p] \in {Kept[p], view[p].proxies}
    PROVE  Promise!Next
<1>1. Kept' = [p \in Http |-> Kept'[p]]
  BY CopiesNext
<1>2. Promise!Mixes(view)
  BY <1>1 DEF Promise!Mixes
<1>3. (~torn)' = FALSE
  OBVIOUS
<1>4. Promise!Tear
  BY <1>2, <1>3 DEF Promise!Tear
<1> QED BY <1>4 DEF Promise!Next

LEMMA AsPublish ==
    ASSUME NEW view \in Checked, Effective' = {view},
           Effective = {} => \A p \in Http : Kept[p] \in {None, view[p].proxies},
           \A p \in Http : Kept'[p] \in {Kept[p], view[p].proxies},
           torn' => torn,
           ~torn' => \A p \in Http : Kept'[p] = view[p].proxies /\ view[p].hosts = view[p].proxies
    PROVE  Promise!Next
<1>1. Kept' = [p \in Http |-> Kept'[p]]
  BY CopiesNext
<1>2. Promise!Mixes(view)
  BY <1>1 DEF Promise!Mixes
<1>3. ~torn' => Kept' = Promise!Copies(view) /\ Promise!Unmixed(view)
  BY <1>1 DEF Promise!Copies, Promise!Unmixed
<1>4. view \in Effective' \cap Checked
  OBVIOUS
<1>5. Promise!Publish
  BY <1>2, <1>3, <1>4 DEF Promise!Publish
<1> QED BY <1>5 DEF Promise!Next

----------------------------------------------------------------------------
(* What each step of the gateway is *)

\* Nothing that is published changes.
Quiet == Running' = Running /\ UNCHANGED <<published, torn>> /\ Kept' = Kept

LEMMA QuietIsNothing == ASSUME Quiet PROVE UNCHANGED Promise!vars
BY AsNothing DEF Quiet, Effective

LEMMA FetchedQuiet ==
    ASSUME IInv, Running, inst.next = None, NEW p \in Providers, NEW c \in Contents, Fetch(p, c),
           inst' = [inst EXCEPT !.live[p] = Updated(p, c)],
           UNCHANGED <<accepted, published, torn>>, ~Renaming, ~Renaming'
    PROVE  Quiet
<1> DEFINE i == Updated(p, c)
<1>1. i \in {Updated(p, c)} /\ inst' = [inst EXCEPT !.live[p] = i]
  OBVIOUS
<1> HIDE DEF i
<1>2. inst'.live # None
  BY <1>1, FetchedParts, NoneAssumption DEF Accepted
<1>3. Kept' = Kept
  BY CopiesStay
<1> QED BY <1>2, <1>3 DEF Quiet

LEMMA AskedQuiet ==
    ASSUME IInv, NEW p \in Providers, Refresh(p) \/ PollFetch(p) \/ PollVersion(p)
    PROVE  Quiet
<1>1. CASE Refresh(p)
  <2>1. PICK c \in Contents : Fetch(p, c) /\ inst' = [inst EXCEPT !.live[p] = Updated(p, c)]
    BY <1>1 DEF Refresh
  <2>2. /\ step = "idle" /\ step' \in {"idle", "check"} /\ Running /\ inst.next = None
        /\ UNCHANGED <<accepted, published, torn>>
    BY <1>1 DEF Refresh, IInv, Phase
  <2> QED BY <2>1, <2>2, FetchedQuiet DEF Renaming
<1>2. CASE PollFetch(p)
  <2>1. PICK c \in Contents : Fetch(p, c) /\ Polled(p, Updated(p, c))
    BY <1>2 DEF PollFetch
  <2>2. step = "poll" /\ step' = "poll" /\ UNCHANGED <<accepted, published, torn>>
    BY <1>2 DEF PollFetch
  <2>3. Running /\ inst.next = None /\ inst' = [inst EXCEPT !.live[p] = Updated(p, c)]
    BY <2>1, <2>2, PolledParts
  <2> QED BY <2>1, <2>2, <2>3, FetchedQuiet DEF Renaming
<1>3. CASE PollVersion(p)
  <2> DEFINE i == Sync(Live[p], Source(p))
  <2>1. step = "poll" /\ step' = "poll" /\ Polled(p, i) /\ UNCHANGED <<accepted, published, torn>>
    BY <1>3 DEF PollVersion
  <2>2. Running /\ inst' = [inst EXCEPT !.live[p] = i]
    BY <2>1, PolledParts
  <2>3. Live[p] \in Instance
    BY <2>2 DEF IInv, TypedInst, Accepted
  <2>4. i \in Instance /\ i.state = Live[p].state
    BY <2>3, SyncParts
  <2> HIDE DEF i
  <2>5. inst'.live # None
    BY <2>2, <2>4, LiveChanged, NoneAssumption DEF Accepted
  <2>6. Kept' = Kept
    BY <2>1, CopiesStay DEF Renaming
  <2> QED BY <2>1, <2>2, <2>5, <2>6 DEF Quiet
<1> QED BY <1>1, <1>2, <1>3

LEMMA WatchedQuiet ==
    ASSUME IInv, NEW f \in Files, WriteFile(f) \/ Watch("live", f) \/ Watch("next", f)
    PROVE  Quiet
<1>1. Kept' = Kept /\ UNCHANGED <<published, torn>>
  <2>1. UNCHANGED <<accepted, published, operation, history>>
    BY DEF WriteFile, Watch
  <2> QED BY <2>1, CopiesSame DEF Renaming
<1>2. CASE Watch("live", f)
  <2> DEFINE i == Load(Live[f], file[f])
  <2>1. /\ Running /\ Live[f].version < MaxVersion[f] /\ f \in Providers
        /\ inst' = [inst EXCEPT !.live[f] = i]
    BY <1>2 DEF Watch, Providers
  <2>2. Live[f] \in Instance /\ file[f] \in Contents
    BY <2>1 DEF IInv, TypedInst, Accepted, Typed
  <2>3. i \in Instance /\ i.state = Live[f].state
    BY <2>1, <2>2, LoadParts
  <2> HIDE DEF i
  <2>4. inst'.live # None
    BY <2>1, <2>3, LiveChanged, NoneAssumption DEF Accepted
  <2> QED BY <1>1, <2>1, <2>4 DEF Quiet
<1>3. CASE WriteFile(f) \/ Watch("next", f)
  <2>1. inst'.live = inst.live
    BY <1>3 DEF WriteFile, Watch, IInv, TypedInst
  <2> QED BY <1>1, <2>1 DEF Quiet
<1> QED BY <1>2, <1>3

LEMMA BegunQuiet ==
    ASSUME IInv, Poll \/ Start \/ Apply \/ PollDone \/ CheckPasses \/ CommitFails \/ Capture
    PROVE  Quiet
<1>1. inst'.live # None <=> inst.live # None
  <2>1. CASE Capture
    BY <2>1, CaptureParts, NoneAssumption DEF Accepted
  <2>2. CASE Start \/ Apply
    BY <2>2 DEF Start, Apply, IInv, TypedInst
  <2> QED BY <2>1, <2>2 DEF Poll, PollDone, CheckPasses, CommitFails
<1>2. UNCHANGED <<accepted, published, torn>>
  BY DEF Poll, Start, Apply, PollDone, CheckPasses, CommitFails, Capture
<1>3. Kept' = Kept
  <2>1. CASE CommitFails
    BY <2>1, CopiesSame DEF CommitFails, Renaming
  <2>2. CASE ~CommitFails
    <3>1. ~Renaming /\ ~Renaming'
      BY <2>2 DEF Poll, Start, Apply, PollDone, CheckPasses, Capture, Renaming
    <3> QED BY <1>2, <3>1, CopiesStay
  <2> QED BY <2>1, <2>2
<1> QED BY <1>1, <1>2, <1>3 DEF Quiet

LEMMA PreparedQuiet == ASSUME IInv, Prepare PROVE Quiet
<1>1. /\ step = "prepare" /\ UNCHANGED <<accepted, inst, published, torn>>
      /\ tx' = [p \in Entries(On) |->
                  IF p \in Http THEN [new |-> path[p], old |-> accepted[p], committed |-> FALSE]
                                ELSE [new |-> None, old |-> None, committed |-> TRUE]]
  BY DEF Prepare
<1>2. \A p \in DOMAIN tx' \cap Http : tx'[p].committed = FALSE
  BY <1>1
<1>3. Renamed' = {}
  BY <1>2 DEF Renamed
<1>4. Kept' = Kept
  BY <1>1, <1>3, CopiesStay DEF Renaming
<1> QED BY <1>1, <1>4 DEF Quiet

\* An operation that is refused leaves what runs.
LEMMA RefusedQuiet ==
    ASSUME IInv, NEW S \in SUBSET Providers, step # "idle",
           IF Building THEN Abandon
           ELSE inst' =
             [inst EXCEPT !.live = [p \in Providers |-> IF p \in S THEN Reject(@[p]) ELSE @[p]]],
           Return, UNCHANGED <<accepted, published, torn>>, Renaming => Renamed = {}
    PROVE  Quiet
<1>1. Kept' = Kept
  BY CopiesStay DEF Renaming
<1>2. CASE Building
  BY <1>1, <1>2 DEF Abandon, IInv, TypedInst, Quiet
<1>3. CASE ~Building
  <2>1. Running /\ Accepted(Live)
    BY <1>3 DEF IInv, TypedInst, Phase
  <2>2. inst'.live = [p \in Providers |-> IF p \in S THEN Reject(inst.live[p]) ELSE inst.live[p]]
    BY <1>3, <2>1 DEF IInv, TypedInst
  <2>3. inst'.live \in [Providers -> Instance]
    BY <2>1, <2>2, RejectParts DEF Accepted
  <2> QED BY <1>1, <2>1, <2>3, NoneAssumption DEF Quiet
<1> QED BY <1>2, <1>3

LEMMA EndedQuiet ==
    ASSUME IInv,
           \/ CheckFails \/ PrepareFails \/ RolledBack \/ (Unsafe /\ Building)
           \/ \E p \in Providers : InitialFails(p)
    PROVE  Quiet
<1> DEFINE Leaves(S) ==
       IF Building THEN Abandon
       ELSE inst' = [inst EXCEPT !.live = [p \in Providers |-> IF p \in S THEN Reject(@[p]) ELSE @[p]]]
<1>1. \E S \in SUBSET Providers : Leaves(S)
  <2>1. CASE CheckFails
    BY <2>1 DEF CheckFails, IInv, Typed, Job
  <2>2. CASE PrepareFails
    BY <2>2 DEF PrepareFails, Entries
  <2>3. CASE RolledBack
    BY <2>3 DEF RolledBack, IInv, Typed
  <2>4. CASE (Unsafe /\ Building) \/ \E p \in Providers : InitialFails(p)
    <3>1. Building /\ Abandon
      BY <2>4 DEF Unsafe, InitialFails, IInv, Phase
    <3> QED BY <3>1
  <2> QED BY <2>1, <2>2, <2>3, <2>4
<1>2. PICK S \in SUBSET Providers : Leaves(S)
  BY <1>1
<1>3. /\ step # "idle" /\ Return /\ UNCHANGED <<accepted, published, torn>>
      /\ Renaming => Renamed = {}
  BY DEF CheckFails, PrepareFails, RolledBack, Unsafe, InitialFails, Renaming
<1> QED BY <1>2, <1>3, RefusedQuiet

LEMMA InitialIsQuiet ==
    ASSUME IInv, NEW p \in Providers, Initial(p)
    PROVE  Quiet \/ Promise!Next
<1>1. /\ step = "init" /\ step' \in {"check", "init"} /\ UNCHANGED <<accepted, published>>
      /\ torn' = (torn \/ (Running /\ p \in Http /\ Live[p].staged # None))
      /\ inst'.live = inst.live
  BY InitialParts DEF Initial
<1>2. Kept' = Kept
  BY <1>1, CopiesStay DEF Renaming
<1>3. Effective' = Effective
  BY <1>1 DEF Effective
<1>4. torn' \/ torn' = torn
  BY <1>1, Zenon DEF IInv, Typed
<1>5. CASE torn'
  BY <1>2, <1>3, <1>5, AsOvertake
<1>6. CASE torn' = torn
  BY <1>1, <1>2, <1>6 DEF Quiet
<1> QED BY <1>4, <1>5, <1>6

LEMMA StopIsWithdraw ==
    ASSUME IInv, Invalid \/ (Unsafe /\ ~Building)
    PROVE  Promise!Next
<1>1. inst'.live = None /\ step' = "idle" /\ UNCHANGED <<accepted, torn>> /\ (Renaming => Renamed = {})
  BY DEF Invalid, Unsafe, Withdraw, Renaming, Renamed
<1>2. Kept' = Kept
  BY <1>1, CopiesStay DEF Renaming
<1>3. Effective' = {}
  BY <1>1 DEF Effective
<1> QED BY <1>1, <1>2, <1>3, AsWithdraw

\* A crash between two renames leaves some copies of the new view.
LEMMA CrashIsTear ==
    ASSUME IInv, KInv, Crash
    PROVE  Promise!Next
<1>1. /\ inst'.live = None /\ step' = "idle" /\ UNCHANGED accepted
      /\ torn' = (torn \/ (step \in {"commit", "rollback"} /\ Renamed # {}))
  BY DEF Crash
<1>2. Effective' = {}
  BY <1>1 DEF Effective
<1>3. CASE Renaming /\ Renamed # {}
  <2>1. torn'
    BY <1>1, <1>3, Zenon DEF Renaming
  <2>2. job.view \in Checked
    BY <1>3 DEF KInv, Renames, Renaming
  <2>3. ASSUME NEW p \in Http PROVE Kept'[p] \in {Kept[p], job.view[p].proxies}
    <3>1. Kept'[p] = accepted[p]
      BY <1>1, CopiesOnDisk DEF Renaming
    <3>2. CASE p \in Renamed
      <4>1. p \in DOMAIN tx \cap Http /\ tx[p].committed
        BY <3>2 DEF Renamed
      <4>2. accepted[p] = tx[p].new /\ tx[p].new \in {job.view[p].proxies, tx[p].old}
        BY <1>3, <4>1 DEF IInv, Transaction, KInv, Renames, Renaming
      <4>3. Kept[p] = tx[p].old
        BY <1>3, <3>2, Copies
      <4> QED BY <3>1, <4>2, <4>3
    <3>3. CASE p \notin Renamed
      BY <3>1, <3>3, Copies
    <3> QED BY <3>2, <3>3
  <2> QED BY <1>2, <2>1, <2>2, <2>3, AsTear
<1>4. CASE ~Renaming \/ Renamed = {}
  <2>1. ~(step \in {"commit", "rollback"} /\ Renamed # {})
    BY <1>4 DEF Renaming
  <2>2. torn' = torn
    BY <1>1, <2>1, Zenon DEF IInv, Typed
  <2>3. Kept' = Kept
    BY <1>1, <1>4, CopiesStay DEF Renaming
  <2> QED BY <1>2, <2>2, <2>3, AsWithdraw
<1> QED BY <1>3, <1>4

\* So does a copy that cannot be put back.
LEMMA LeftIsTear ==
    ASSUME IInv, KInv, NEW p \in Providers, RollbackFails(p)
    PROVE  Promise!Next
<1>1. /\ p \in DOMAIN tx \cap Http /\ step = "rollback" /\ UNCHANGED <<inst, published>>
      /\ Kept'[p] = tx[p].new
      /\ \A q \in Http \ {p} : Kept'[q] = Kept[q]
  BY CopyLeft
<1>2. torn' /\ p \in Renamed
  BY DEF RollbackFails
<1>3. Kept[p] = tx[p].old
  BY <1>1, <1>2, Copies DEF Renaming
<1>4. tx[p].new \in {job.view[p].proxies, tx[p].old} /\ job.view \in Checked
  BY <1>1 DEF KInv, Renames, Renaming
<1>5. Effective' = Effective
  BY <1>1 DEF Effective
<1>6. \A q \in Http : Kept'[q] \in {Kept[q], job.view[q].proxies}
  BY <1>1, <1>3, <1>4
<1> QED BY <1>2, <1>4, <1>5, <1>6, AsTear

\* The view that was checked takes effect with its copies.
LEMMA PublishIsPublish ==
    ASSUME IInv, KInv, IInv', Publish
    PROVE  Promise!Next
<1>1. /\ step = "commit" /\ step' = "capture" /\ published' = job.view /\ UNCHANGED <<job, accepted>>
      /\ torn' = (torn /\ ~Building) /\ Working
  BY DEF Publish, Working
<1>2. Effective' = {job.view} /\ job.view \in Checked
  BY <1>1, PublishParts DEF Effective, KInv, Renames
<1>3. ASSUME Effective = {}, NEW p \in Http PROVE Kept[p] \in {None, job.view[p].proxies}
  <2>1. Building
    BY <1>1, <1>3 DEF Effective, IInv, Phase
  <2>2. On = inst.next /\ job.todo = {} /\ On[p].staged # None /\ p \in Providers /\ Built(p)
    BY <1>1, <2>1, Worked, OnParts DEF IInv, Candidates, Providers
  <2>3. job.view[p].proxies = inst.next[p].content
    BY <1>1, <2>2, ViewTyped DEF IInv, InForce, Candidate, Built
  <2> QED BY <1>1, <2>1, <2>2, <2>3 DEF KInv, Rebuilt
<1>4. \A p \in Http : Kept'[p] \in {Kept[p], job.view[p].proxies}
  BY CopiesPublished
<1>5. ASSUME ~torn', NEW p \in Http PROVE Kept'[p] = job.view[p].proxies
  <2>1. accepted'[p] = good'[p]
    BY <1>1, <1>5 DEF IInv, Caches
  <2>2. good'[p] = job.view[p].proxies
    BY DEF Publish
  <2> QED BY <1>1, <2>1, <2>2, CopiesOnDisk DEF Renaming
<1>6. torn' => torn
  BY <1>1
<1>7. ~torn' => Building \/ ~torn
  BY <1>1, Zenon
\* The cache a candidate is staged from holds what was loaded, as long as the
\* copies are whole.
<1>8. ASSUME ~torn', NEW p \in Http PROVE job.view[p].hosts = job.view[p].proxies
  <2>1. p \in Providers /\ job.view[p] = Content(Candidate(On[p]))
    BY <1>1, ViewTyped DEF IInv, InForce, Providers
  <2>2. Candidate(On[p]).hosts = Candidate(On[p]).proxies
    <3>1. CASE Building
      <4>1. On = inst.next /\ job.todo = {} /\ On[p].staged # None /\ Built(p)
        BY <1>1, <2>1, <3>1, Worked, OnParts DEF IInv, Candidates
      <4> QED BY <4>1 DEF Built, Candidate
    <3>2. CASE ~Building
      <4>1. On = Live /\ Running /\ ~torn
        BY <1>1, <1>7, <1>8, <3>2, Worked, OnParts
      <4>2. /\ Live[p].state.proxies = good[p] /\ Live[p].state.hosts = good[p]
            /\ Live[p].staged # None => /\ Live[p].staged.hosts = Live[p].content
                                        /\ Live[p].staged.proxies = Live[p].content
        BY <4>1 DEF IInv, Caches, Subscriptions, Settled
      <4> QED BY <4>1, <4>2 DEF Candidate
    <3> QED BY <3>1, <3>2
  <2> QED BY <2>1, <2>2 DEF Content
<1> QED BY <1>2, <1>3, <1>4, <1>5, <1>6, <1>8, AsPublish

LEMMA PromiseSteps ==
    ASSUME IInv, KInv, IInv', [Next]_vars
    PROVE  [Promise!Next]_(Promise!vars)
<1>1. CASE Quiet
  BY <1>1, QuietIsNothing
<1>2. CASE \E p \in Providers : Refresh(p) \/ PollFetch(p) \/ PollVersion(p)
  BY <1>1, <1>2, AskedQuiet
<1>3. CASE Poll \/ Start \/ Apply \/ PollDone \/ CheckPasses \/ CommitFails \/ Capture
  BY <1>1, <1>3, BegunQuiet
<1>4. CASE \E f \in Files : WriteFile(f) \/ Watch("live", f) \/ Watch("next", f)
  BY <1>1, <1>4, WatchedQuiet
<1>5. CASE Prepare
  BY <1>1, <1>5, PreparedQuiet
<1>6. CASE CheckFails \/ PrepareFails \/ RolledBack \/ \E p \in Providers : InitialFails(p)
  BY <1>1, <1>6, EndedQuiet
<1>7. CASE Unsafe \/ Invalid
  BY <1>1, <1>7, EndedQuiet, StopIsWithdraw
<1>8. ASSUME NEW p \in Providers, Commit(p) \/ Rollback(p) PROVE Quiet
  <2>1. UNCHANGED <<memory, torn>>
    BY <1>8 DEF Commit, Rollback
  <2> QED BY <1>8, <2>1, RenameHidden DEF Quiet
<1>9. CASE \E p \in Providers : Commit(p) \/ Rollback(p)
  BY <1>1, <1>8, <1>9
<1>10. CASE \E p \in Providers : Initial(p) \/ RollbackFails(p)
  BY <1>1, <1>10, InitialIsQuiet, LeftIsTear
<1>11. CASE Crash \/ Publish
  BY <1>11, CrashIsTear, PublishIsPublish
<1>12. CASE UNCHANGED vars
  <2>1. UNCHANGED <<accepted, inst, published, step, tx, torn>>
    BY <1>12 DEF vars
  <2>2. Kept' = Kept
    BY <2>1, CopiesSame DEF Renaming
  <2> QED BY <1>1, <2>1, <2>2 DEF Quiet
<1> QED BY <1>2, <1>3, <1>4, <1>5, <1>6, <1>7, <1>9, <1>10, <1>11, <1>12 DEF Next, Holder

\* What is published is a view that was checked as a whole, of parsed hosts.  It
\* changes at one instant, with the copies a restart publishes again, and nodes
\* and hosts of a subscription are of one version: a refresh, a poll, a start and
\* an apply (RefreshProvider, pollProviders, startLocked,
\* ApplyProvidersBeforeCommit) take effect in their commit or not at all.  The
\* exceptions last until the next start or apply: a crash or a failed restoration
\* between two renames may leave a mixture of two checked views on disk, and an
\* apply that is given up may leave a waiting candidate without its cache, from
\* which its hosts are then loaded.  ProviderTransaction implements AtomicPublication.
THEOREM Implements == Spec => PublicationsAreAtomic
<1>1. Init => KInv /\ Promise!Init
  <2> SUFFICES ASSUME Init PROVE Promise!Init
    BY FollowInit
  <2>1. /\ Effective = {} /\ torn = FALSE
        /\ step = "idle" /\ accepted = [p \in Http |-> None]
    BY DEF Init, Effective
  <2>2. Kept = [p \in Http |-> None]
    BY <2>1 DEF Kept, Renaming
  <2> QED BY <2>1, <2>2 DEF Promise!Init
<1>2. IInv /\ KInv /\ [Next]_vars => KInv'
  BY FollowNext
<1>3. IInv /\ KInv /\ IInv' /\ [Next]_vars => [Promise!Next]_(Promise!vars)
  BY PromiseSteps
<1> QED BY <1>1, <1>2, <1>3, ProviderInvariant, PTL DEF Spec, PublicationsAreAtomic, Promise!Spec
=============================================================================
