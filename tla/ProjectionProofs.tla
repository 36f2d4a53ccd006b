-------------------------- MODULE ProjectionProofs --------------------------
(***************************************************************************)
(* Proofs about Projection.  What BuildProjection computes with its three  *)
(* loops is found by induction over the entries, views and nodes it has    *)
(* seen; the invariant of the state then only needs what the lines and the *)
(* connection remember of the entry they were made from.                   *)
(***************************************************************************)
EXTENDS Projection, SequenceLemmas

Secret == {"user", "pass"} \X (Keys \X Names \X Names)
Provider == [name : Names, prefix : PrefixNames \cup {<<>>}, hidden : SUBSET Names, proxies : Seq(Proxy)]
Listing == [display : Seq(Part), username : Secret, password : Secret, provider : Names, proxy : Proxy]

\* The user name or the password of a node.
Credential(kind, key, provider, node) == <<kind, <<key, provider, node>>>>

----------------------------------------------------------------------------
(* One entry *)

LEMMA ShownName ==
    ASSUME NEW name \in Seq(Part)
    PROVE  SurgeDisplayName(name) \in Seq(Part)
<1> DEFINE shown(i) == IF name[i] \in DOMAIN Shown THEN Shown[name[i]] ELSE name[i]
<1>1. \A i \in 1 .. Len(name) : shown(i) \in Part
  <2>1. \A i \in 1 .. Len(name) : name[i] \in Part
    OBVIOUS
  <2>2. \A part \in DOMAIN Shown : Shown[part] \in Part
    BY NamesAssumption DEF Part
  <2> QED BY <2>1, <2>2
<1>2. SurgeDisplayName(name) = [i \in 1 .. Len(name) |-> shown(i)]
  BY DEF SurgeDisplayName
<1> HIDE DEF shown
<1>3. Len(name) \in Nat /\ SurgeDisplayName(name) \in [1 .. Len(name) -> Part]
  BY <1>1, <1>2
<1> QED BY <1>3

LEMMA ProviderParts ==
    ASSUME NEW view \in Provider
    PROVE  /\ view.name \in Names /\ view.name \in Seq(Part)
           /\ view.prefix \in Seq(Part) /\ view.hidden \in SUBSET Names /\ view.proxies \in Seq(Proxy)
           /\ DOMAIN view.proxies = 1 .. Len(view.proxies) /\ Len(view.proxies) \in Nat
           /\ \A j \in 1 .. Len(view.proxies) : view.proxies[j] \in Proxy
<1>1. \A e : e = <<>> => e \in Seq(Part)
  OBVIOUS
<1> QED BY <1>1, NamesAssumption DEF Provider

LEMMA EntryParts ==
    ASSUME NEW view \in Provider, NEW proxy \in Proxy, NEW options \in Options
    PROVE  /\ Entry(view, proxy, options) \in Listing
           /\ Entry(view, proxy, options).username = Credential("user", options.key, view.name, proxy.name)
           /\ Entry(view, proxy, options).password = Credential("pass", options.key, view.name, proxy.name)
           /\ Entry(view, proxy, options).provider = view.name
           /\ Entry(view, proxy, options).proxy = proxy
<1>1. options.key \in Keys /\ view.name \in Names /\ proxy.name \in Names
  BY ProviderParts DEF Options, Proxy
<1>2. Display(view, proxy, options) \in Seq(Part)
  <2>1. proxy.name \in Seq(Part)
    BY <1>1, NamesAssumption
  <2>2. view.prefix \o proxy.name \in Seq(Part) /\ view.name \o proxy.name \in Seq(Part)
    BY <2>1, ProviderParts
  <2> QED BY <2>1, <2>2, ShownName DEF Display
<1>3. \A kind \in {"user", "pass"} : Credential(kind, options.key, view.name, proxy.name) \in Secret
  BY <1>1 DEF Credential, Secret
<1>4. Entry(view, proxy, options) =
        [display |-> Display(view, proxy, options),
         username |-> Credential("user", options.key, view.name, proxy.name),
         password |-> Credential("pass", options.key, view.name, proxy.name),
         provider |-> view.name, proxy |-> proxy]
  BY DEF Entry, Identity, Credential
<1> QED BY <1>1, <1>2, <1>3, <1>4 DEF Listing

----------------------------------------------------------------------------
(* The entries of a provider *)

\* The loop over the nodes of a provider, as a function of how many it has seen.
MatchingLoop(f, view, options) ==
    /\ f[0] = <<>>
    /\ \A n \in 1 .. Len(view.proxies) :
          f[n] = IF Matches(view, view.proxies[n]) THEN Append(f[n - 1], Entry(view, view.proxies[n], options))
                 ELSE f[n - 1]

LEMMA MatchingRuns ==
    ASSUME NEW view \in Provider, NEW options \in Options
    PROVE  \E f \in [0 .. Len(view.proxies) -> Seq(Listing)] :
               MatchingLoop(f, view, options) /\ Matching(view, options) = f[Len(view.proxies)]
<1> DEFINE L == Len(view.proxies)
           T == Seq(Listing)
           E(n, s) == IF Matches(view, view.proxies[n]) THEN Append(s, Entry(view, view.proxies[n], options)) ELSE s
           next == [n \in 1 .. L |-> [s \in T |-> E(n, s)]]
           Body(f) == [n \in 0 .. L |-> IF n = 0 THEN <<>> ELSE E(n, f[n - 1])]
           upTo == CHOOSE f : f = Body(f)
           empty == <<>>
<1>1. L \in Nat /\ empty \in T /\ \A n \in 1 .. L : Entry(view, view.proxies[n], options) \in Listing
  BY ProviderParts, EntryParts
<1>2. \A n \in 1 .. L, s \in T : E(n, s) \in T
  <2> HIDE DEF L
  <2> QED BY <1>1
<1>3. Matching(view, options) = upTo[L]
  BY DEF Matching
<1> HIDE DEF L, T, E
<1>4. next \in [1 .. L -> [T -> T]] /\ \A n \in 1 .. L, s \in T : next[n][s] = E(n, s)
  BY <1>2
<1> HIDE DEF next
<1>5. PICK f \in [0 .. L -> T] : f[0] = empty /\ \A n \in 1 .. L : f[n] = next[n][f[n - 1]]
  <2> HIDE DEF empty
  <2>1. Recurs(T, empty, L, next)
    BY <1>1, <1>4, RecursionUpTo
  <2> QED BY <2>1 DEF Recurs
<1>6. \A n \in 1 .. L : n - 1 \in 0 .. L /\ n \in 0 .. L /\ n # 0
  BY <1>1
<1>7. \A n \in 1 .. L : f[n] = E(n, f[n - 1])
  BY <1>4, <1>5, <1>6
<1>8. f = Body(f)
  <2>1. \A n \in 0 .. L : n # 0 => n \in 1 .. L
    BY <1>1
  <2>2. \A n \in 0 .. L : f[n] = Body(f)[n]
    BY <1>5, <1>7, <2>1
  <2> QED BY <1>5, <2>2
<1>9. upTo = Body(upTo)
  <2> HIDE DEF Body
  <2> QED BY <1>8
<1> HIDE DEF upTo
<1>10. upTo[0] = empty /\ \A n \in 1 .. L : upTo[n] = E(n, upTo[n - 1])
  <2>1. 0 \in 0 .. L
    BY <1>1
  <2> QED BY <1>6, <1>9, <2>1
<1>11. On(upTo, L) /\ On(f, L)
  BY <1>5, <1>9 DEF On
<1>12. upTo = f
  <2> HIDE DEF Body, empty
  <2>1. \A n \in 1 .. L : upTo[n - 1] = f[n - 1] => upTo[n] = f[n]
    BY <1>7, <1>10
  <2> QED BY <1>1, <1>5, <1>10, <1>11, <2>1, SameUpTo
<1>13. MatchingLoop(f, view, options)
  BY <1>5, <1>7 DEF MatchingLoop, L, E
<1>14. Matching(view, options) = f[L]
  BY <1>3, <1>12
<1> QED BY <1>5, <1>13, <1>14 DEF L, T

LEMMA AppendedSet ==
    ASSUME NEW T, NEW s \in Seq(T), NEW e \in T
    PROVE  ToSet(Append(s, e)) = ToSet(s) \cup {e}
<1>1. /\ DOMAIN Append(s, e) = 1 .. Len(s) + 1 /\ DOMAIN s = 1 .. Len(s) /\ Len(s) \in Nat
      /\ Append(s, e)[Len(s) + 1] = e /\ \A i \in 1 .. Len(s) : Append(s, e)[i] = s[i]
  OBVIOUS
<1>2. \A i \in 1 .. Len(s) + 1 : i \in 1 .. Len(s) \/ i = Len(s) + 1
  BY <1>1
<1>3. 1 .. Len(s) \subseteq 1 .. Len(s) + 1 /\ Len(s) + 1 \in 1 .. Len(s) + 1
  BY <1>1
<1> QED BY <1>1, <1>2, <1>3 DEF ToSet

LEMMA ConcatenatedSet ==
    ASSUME NEW T, NEW s \in Seq(T), NEW t \in Seq(T)
    PROVE  ToSet(s \o t) = ToSet(s) \cup ToSet(t)
<1>1. /\ DOMAIN (s \o t) = 1 .. Len(s) + Len(t) /\ DOMAIN s = 1 .. Len(s) /\ DOMAIN t = 1 .. Len(t)
      /\ Len(s) \in Nat /\ Len(t) \in Nat
      /\ \A i \in 1 .. Len(s) : (s \o t)[i] = s[i]
      /\ \A i \in 1 .. Len(t) : (s \o t)[Len(s) + i] = t[i]
  OBVIOUS
<1>2. \A i \in 1 .. Len(s) + Len(t) : i \in 1 .. Len(s) \/ \E j \in 1 .. Len(t) : i = Len(s) + j
  <2>1. ASSUME NEW i \in 1 .. Len(s) + Len(t), i \notin 1 .. Len(s) PROVE i - Len(s) \in 1 .. Len(t) /\ i = Len(s) + (i - Len(s))
    BY <1>1, <2>1
  <2> QED BY <2>1
<1>3. /\ 1 .. Len(s) \subseteq 1 .. Len(s) + Len(t)
      /\ \A i \in 1 .. Len(t) : Len(s) + i \in 1 .. Len(s) + Len(t)
  BY <1>1
<1>4. ASSUME NEW e \in ToSet(s \o t) PROVE e \in ToSet(s) \cup ToSet(t)
  <2>1. PICK i \in 1 .. Len(s) + Len(t) : e = (s \o t)[i]
    BY <1>1, <1>4 DEF ToSet
  <2>2. CASE i \in 1 .. Len(s)
    BY <1>1, <2>1, <2>2 DEF ToSet
  <2>3. CASE i \notin 1 .. Len(s)
    <3>1. PICK j \in 1 .. Len(t) : i = Len(s) + j
      BY <1>2, <2>3
    <3> QED BY <1>1, <2>1, <3>1 DEF ToSet
  <2> QED BY <2>2, <2>3
<1>5. ASSUME NEW e \in ToSet(s) \cup ToSet(t) PROVE e \in ToSet(s \o t)
  BY <1>1, <1>3 DEF ToSet
<1> QED BY <1>4, <1>5

LEMMA EmptySequence == ASSUME NEW e, e = <<>> PROVE ToSet(e) = {}
BY DEF ToSet

\* The entries of the first n nodes.
Chosen(view, options, n) ==
    {Entry(view, view.proxies[j], options) : j \in {j \in 1 .. n : Matches(view, view.proxies[j])}}

\* A provider has an entry for each of its nodes that the filter leaves, and no other.
LEMMA MatchingEntries ==
    ASSUME NEW view \in Provider, NEW options \in Options
    PROVE  /\ Matching(view, options) \in Seq(Listing)
           /\ ToSet(Matching(view, options)) = Chosen(view, options, Len(view.proxies))
<1> DEFINE L == Len(view.proxies)
<1>1. PICK f \in [0 .. L -> Seq(Listing)] : MatchingLoop(f, view, options) /\ Matching(view, options) = f[L]
  BY MatchingRuns
<1>2. L \in Nat /\ \A n \in 1 .. L : Entry(view, view.proxies[n], options) \in Listing
  BY ProviderParts, EntryParts
<1> DEFINE S == {n \in 0 .. L : ToSet(f[n]) = Chosen(view, options, n)}
<1>3. 0 \in S
  <2>1. f[0] = <<>> /\ Chosen(view, options, 0) = {}
    BY <1>1 DEF MatchingLoop, Chosen
  <2> QED BY <1>2, <2>1, EmptySequence
<1>4. ASSUME NEW n \in 0 .. L - 1, n \in S PROVE n + 1 \in S
  <2> DEFINE proxy == view.proxies[n + 1]
             e == Entry(view, proxy, options)
  <2>1. n + 1 \in 1 .. L /\ n + 1 \in 0 .. L /\ n \in 0 .. L /\ (n + 1) - 1 = n
    BY <1>2
  <2>2. f[n] \in Seq(Listing) /\ e \in Listing /\ ToSet(f[n]) = Chosen(view, options, n)
    BY <1>2, <1>4, <2>1
  <2>3. f[n + 1] = IF Matches(view, proxy) THEN Append(f[n], e) ELSE f[n]
    BY <1>1, <2>1 DEF MatchingLoop
  <2>4. 1 .. n + 1 = (1 .. n) \cup {n + 1}
    BY <2>1
  <2>5. Chosen(view, options, n + 1) = Chosen(view, options, n) \cup (IF Matches(view, proxy) THEN {e} ELSE {})
    BY <2>4 DEF Chosen
  <2>6. ToSet(f[n + 1]) = Chosen(view, options, n + 1)
    <3> HIDE DEF proxy, e
    <3>1. ToSet(Append(f[n], e)) = ToSet(f[n]) \cup {e}
      BY <2>2, AppendedSet
    <3> QED BY <2>2, <2>3, <2>5, <3>1
  <2> QED BY <2>1, <2>6
<1>5. L \in S
  <2>1. \A n \in 0 .. L - 1 : n \in S => n + 1 \in S
    BY <1>4
  <2> HIDE DEF S, L
  <2>2. 0 .. L \subseteq S
    BY <1>2, <1>3, <2>1, InductionUpTo
  <2> QED BY <1>2, <2>2
<1> QED BY <1>1, <1>2, <1>5

----------------------------------------------------------------------------
(* The entries of all providers *)

ProjectedLoop(f, views, options) ==
    /\ f[0] = <<>>
    /\ \A n \in 1 .. Len(views) : f[n] = f[n - 1] \o Matching(views[n], options)

LEMMA ProjectedRuns ==
    ASSUME NEW views \in Seq(Provider), NEW options \in Options
    PROVE  \E f \in [0 .. Len(views) -> Seq(Listing)] :
               ProjectedLoop(f, views, options) /\ Projected(views, options) = f[Len(views)]
<1> DEFINE L == Len(views)
           T == Seq(Listing)
           E(n, s) == s \o Matching(views[n], options)
           next == [n \in 1 .. L |-> [s \in T |-> E(n, s)]]
           Body(f) == [n \in 0 .. L |-> IF n = 0 THEN <<>> ELSE E(n, f[n - 1])]
           upTo == CHOOSE f : f = Body(f)
           empty == <<>>
<1>1. L \in Nat /\ empty \in T /\ \A n \in 1 .. L : Matching(views[n], options) \in T
  BY MatchingEntries
<1>2. \A n \in 1 .. L, s \in T : E(n, s) \in T
  <2> HIDE DEF L
  <2> QED BY <1>1
<1>3. Projected(views, options) = upTo[L]
  BY DEF Projected
<1> HIDE DEF L, T, E
<1>4. next \in [1 .. L -> [T -> T]] /\ \A n \in 1 .. L, s \in T : next[n][s] = E(n, s)
  BY <1>2
<1> HIDE DEF next
<1>5. PICK f \in [0 .. L -> T] : f[0] = empty /\ \A n \in 1 .. L : f[n] = next[n][f[n - 1]]
  <2> HIDE DEF empty
  <2>1. Recurs(T, empty, L, next)
    BY <1>1, <1>4, RecursionUpTo
  <2> QED BY <2>1 DEF Recurs
<1>6. \A n \in 1 .. L : n - 1 \in 0 .. L /\ n \in 0 .. L /\ n # 0
  BY <1>1
<1>7. \A n \in 1 .. L : f[n] = E(n, f[n - 1])
  BY <1>4, <1>5, <1>6
<1>8. f = Body(f)
  <2>1. \A n \in 0 .. L : n # 0 => n \in 1 .. L
    BY <1>1
  <2>2. \A n \in 0 .. L : f[n] = Body(f)[n]
    BY <1>5, <1>7, <2>1
  <2> QED BY <1>5, <2>2
<1>9. upTo = Body(upTo)
  <2> HIDE DEF Body
  <2> QED BY <1>8
<1> HIDE DEF upTo
<1>10. upTo[0] = empty /\ \A n \in 1 .. L : upTo[n] = E(n, upTo[n - 1])
  <2>1. 0 \in 0 .. L
    BY <1>1
  <2> QED BY <1>6, <1>9, <2>1
<1>11. On(upTo, L) /\ On(f, L)
  BY <1>5, <1>9 DEF On
<1>12. upTo = f
  <2> HIDE DEF Body, empty
  <2>1. \A n \in 1 .. L : upTo[n - 1] = f[n - 1] => upTo[n] = f[n]
    BY <1>7, <1>10
  <2> QED BY <1>1, <1>5, <1>10, <1>11, <2>1, SameUpTo
<1>13. ProjectedLoop(f, views, options)
  BY <1>5, <1>7 DEF ProjectedLoop, L, E
<1>14. Projected(views, options) = f[L]
  BY <1>3, <1>12
<1> QED BY <1>5, <1>13, <1>14 DEF L, T

LEMMA ProjectedEntries ==
    ASSUME NEW views \in Seq(Provider), NEW options \in Options
    PROVE  /\ Projected(views, options) \in Seq(Listing)
           /\ ToSet(Projected(views, options)) = UNION {Chosen(views[i], options, Len(views[i].proxies)) : i \in 1 .. Len(views)}
<1> DEFINE L == Len(views)
           All(n) == UNION {Chosen(views[i], options, Len(views[i].proxies)) : i \in 1 .. n}
<1>1. PICK f \in [0 .. L -> Seq(Listing)] : ProjectedLoop(f, views, options) /\ Projected(views, options) = f[L]
  BY ProjectedRuns
<1>2. L \in Nat
  OBVIOUS
<1> DEFINE S == {n \in 0 .. L : ToSet(f[n]) = All(n)}
<1>3. 0 \in S
  <2>1. f[0] = <<>> /\ All(0) = {}
    BY <1>1 DEF ProjectedLoop
  <2> QED BY <1>2, <2>1, EmptySequence
<1>4. ASSUME NEW n \in 0 .. L - 1, n \in S PROVE n + 1 \in S
  <2> DEFINE more == Matching(views[n + 1], options)
             chosen == Chosen(views[n + 1], options, Len(views[n + 1].proxies))
  <2>1. n + 1 \in 1 .. L /\ n + 1 \in 0 .. L /\ n \in 0 .. L /\ (n + 1) - 1 = n
    BY <1>2
  <2>2. f[n] \in Seq(Listing) /\ ToSet(f[n]) = All(n)
    BY <1>4, <2>1
  <2>3. more \in Seq(Listing) /\ ToSet(more) = chosen
    BY <2>1, MatchingEntries
  <2>4. f[n + 1] = f[n] \o more
    BY <1>1, <2>1 DEF ProjectedLoop
  <2>5. 1 .. n + 1 = (1 .. n) \cup {n + 1}
    BY <2>1
  <2>6. All(n + 1) = All(n) \cup chosen
    BY <2>5
  <2>7. ToSet(f[n + 1]) = All(n + 1)
    <3> HIDE DEF more, chosen, All
    <3>1. ToSet(f[n] \o more) = ToSet(f[n]) \cup ToSet(more)
      BY <2>2, <2>3, ConcatenatedSet
    <3> QED BY <2>2, <2>3, <2>4, <2>6, <3>1
  <2> QED BY <2>1, <2>7
<1>5. L \in S
  <2>1. \A n \in 0 .. L - 1 : n \in S => n + 1 \in S
    BY <1>4
  <2> HIDE DEF S, L
  <2>2. 0 .. L \subseteq S
    BY <1>2, <1>3, <2>1, InductionUpTo
  <2> QED BY <1>2, <2>2
<1> QED BY <1>1, <1>2, <1>5

----------------------------------------------------------------------------
(* Display names *)

\* Among one more number than there are names in use, one makes a new name.
LEMMA FreeNumber ==
    ASSUME NEW base \in Seq(Part), NEW first \in Nat, NEW used, IsFiniteSet(used)
    PROVE  Numbered(base, first, used) \in Nat /\ Append(base, Numbered(base, first, used)) \notin used
<1> DEFINE K == Cardinality(used)
           free == {n \in first .. first + K : Append(base, n) \notin used}
<1>1. K \in Nat
  BY FS_CardinalityType
<1>2. free # {}
  <2>1. SUFFICES ASSUME \A n \in first .. first + K : Append(base, n) \in used PROVE FALSE
    OBVIOUS
  <2> DEFINE named == [i \in 1 .. K + 1 |-> Append(base, first + i - 1)]
  <2> HIDE DEF K
  <2>2. \A i \in 1 .. K + 1 : first + i - 1 \in first .. first + K /\ first + i - 1 \in Nat
    BY <1>1
  <2>3. named \in [1 .. K + 1 -> used]
    BY <2>1, <2>2
  <2>4. \A i, j \in 1 .. K + 1 : named[i] = named[j] => i = j
    <3>1. \A n \in Nat : Append(base, n)[Len(base) + 1] = n
      BY DEF Part
    <3>2. ASSUME NEW i \in 1 .. K + 1, NEW j \in 1 .. K + 1, named[i] = named[j] PROVE i = j
      <4>1. Append(base, first + i - 1) = Append(base, first + j - 1)
        BY <3>2
      <4>2. first + i - 1 = first + j - 1
        BY <2>2, <3>1, <4>1
      <4> QED BY <1>1, <4>2
    <3> QED BY <3>2
  <2> HIDE DEF named
  <2>5. K + 1 <= Cardinality(used)
    BY <1>1, <2>3, <2>4, InjectiveLength
  <2> QED BY <1>1, <2>5 DEF K
<1>3. free \in SUBSET Nat
  BY <1>1
<1>4. Numbered(base, first, used) = CHOOSE n \in free : \A other \in free : n <= other
  BY DEF Numbered
<1>5. \A n \in free : n \in Nat /\ Append(base, n) \notin used
  BY <1>1
<1> HIDE DEF free
<1>6. \E n \in free : \A other \in free : n <= other
  BY <1>2, <1>3, LeastNumber
<1> QED BY <1>4, <1>5, <1>6

\* What the loop of disambiguateDisplayNames keeps: the maps used and next are finite.
Naming == [list : Seq(Listing), used : {u \in SUBSET Seq(Part) : IsFiniteSet(u)},
           next : UNION {[d -> Nat] : d \in SUBSET Seq(Part)}]

\* One round of it: the entry is listed under a name that was not in use.
NamedAnew(before, after, entry) ==
    \E name \in Seq(Part) :
        /\ name \notin before.used
        /\ after.list = Append(before.list, [entry EXCEPT !.display = name])
        /\ after.used = before.used \cup {name}

LEMMA NamedParts ==
    ASSUME NEW done \in Naming, NEW entry \in Listing
    PROVE  Named(done, entry) \in Naming /\ NamedAnew(done, Named(done, entry), entry)
<1> DEFINE base == entry.display
           first == IF base \in DOMAIN done.next THEN done.next[base] ELSE 0
           number == Numbered(base, first, done.used)
           name == IF base \in done.used THEN Append(base, number) ELSE base
           next == IF base \in done.used THEN number + 1 ELSE 2
           listed == [entry EXCEPT !.display = name]
           numbers == [n \in DOMAIN done.next \cup {base} |-> IF n = base THEN next ELSE done.next[n]]
<1>1. base \in Seq(Part) /\ done.list \in Seq(Listing) /\ done.used \in SUBSET Seq(Part) /\ IsFiniteSet(done.used)
  BY DEF Naming, Listing
<1>2. PICK d \in SUBSET Seq(Part) : done.next \in [d -> Nat]
  BY DEF Naming
<1>3. first \in Nat /\ DOMAIN done.next = d
  BY <1>2
<1>4. number \in Nat /\ Append(base, number) \notin done.used
  <2> HIDE DEF base, first
  <2> QED BY <1>1, <1>3, FreeNumber
<1>5. name \in Seq(Part) /\ name \notin done.used /\ next \in Nat
  <2> HIDE DEF base, first, number
  <2>1. Append(base, number) \in Seq(Part)
    BY <1>1, <1>4 DEF Part
  <2> QED BY <1>1, <1>4, <2>1
<1>6. Named(done, entry) = [list |-> Append(done.list, listed), used |-> done.used \cup {name}, next |-> numbers]
  BY DEF Named
<1>7. listed \in Listing
  <2> HIDE DEF name
  <2> QED BY <1>5 DEF Listing
<1>8. numbers \in [d \cup {base} -> Nat] /\ d \cup {base} \in SUBSET Seq(Part)
  <2> HIDE DEF next
  <2> QED BY <1>1, <1>2, <1>3, <1>5
<1>9. IsFiniteSet(done.used \cup {name}) /\ done.used \cup {name} \in SUBSET Seq(Part)
  <2> HIDE DEF name
  <2> QED BY <1>1, <1>5, FS_AddElement
<1>10. Append(done.list, listed) \in Seq(Listing)
  <2> HIDE DEF listed
  <2> QED BY <1>1, <1>7
<1> HIDE DEF name, numbers
<1>11. numbers \in UNION {[e -> Nat] : e \in SUBSET Seq(Part)}
  BY <1>8
<1>12. Named(done, entry) \in Naming
  <2> HIDE DEF listed
  <2> QED BY <1>6, <1>9, <1>10, <1>11 DEF Naming
<1>13. NamedAnew(done, Named(done, entry), entry)
  <2>1. /\ Named(done, entry).list = Append(done.list, [entry EXCEPT !.display = name])
        /\ Named(done, entry).used = done.used \cup {name}
    BY <1>6
  <2> QED BY <1>5, <2>1 DEF NamedAnew
<1> QED BY <1>12, <1>13

DisambiguatedLoop(f, entries) ==
    /\ f[0].list = <<>> /\ f[0].used = {}
    /\ \A n \in 1 .. Len(entries) : NamedAnew(f[n - 1], f[n], entries[n])

LEMMA DisambiguatedRuns ==
    ASSUME NEW entries \in Seq(Listing)
    PROVE  \E f \in [0 .. Len(entries) -> Naming] :
               DisambiguatedLoop(f, entries) /\ Disambiguated(entries) = f[Len(entries)].list
<1> DEFINE L == Len(entries)
           T == Naming
           E(n, s) == Named(s, entries[n])
           next == [n \in 1 .. L |-> [s \in T |-> E(n, s)]]
           empty == [list |-> <<>>, used |-> {}, next |-> <<>>]
           Body(f) == [n \in 0 .. L |-> IF n = 0 THEN empty ELSE E(n, f[n - 1])]
           done == CHOOSE f : f = Body(f)
<1>1. L \in Nat /\ empty \in T /\ \A n \in 1 .. L : entries[n] \in Listing
  <2>1. \A e : e = <<>> => e \in Seq(Listing) /\ e \in [{} -> Nat]
    OBVIOUS
  <2>2. {} \in {u \in SUBSET Seq(Part) : IsFiniteSet(u)} /\ {} \in SUBSET Seq(Part)
    BY FS_EmptySet
  <2>3. \A e : e = <<>> => e \in UNION {[d -> Nat] : d \in SUBSET Seq(Part)}
    BY <2>1, <2>2
  <2>4. empty \in T
    BY <2>1, <2>2, <2>3 DEF Naming
  <2> QED BY <2>4
<1>2. \A n \in 1 .. L, s \in T : E(n, s) \in T /\ NamedAnew(s, E(n, s), entries[n])
  <2> HIDE DEF L
  <2> QED BY <1>1, NamedParts
<1>3. Disambiguated(entries) = done[L].list
  BY DEF Disambiguated
<1>0. empty.list = <<>> /\ empty.used = {}
  OBVIOUS
<1> HIDE DEF L, T, E, empty
<1>4. next \in [1 .. L -> [T -> T]] /\ \A n \in 1 .. L, s \in T : next[n][s] = E(n, s)
  BY <1>2
<1> HIDE DEF next
<1>5. PICK f \in [0 .. L -> T] : f[0] = empty /\ \A n \in 1 .. L : f[n] = next[n][f[n - 1]]
  <2>1. Recurs(T, empty, L, next)
    BY <1>1, <1>4, RecursionUpTo
  <2> QED BY <2>1 DEF Recurs
<1>6. \A n \in 1 .. L : n - 1 \in 0 .. L /\ n \in 0 .. L /\ n # 0
  BY <1>1
<1>7. \A n \in 1 .. L : f[n] = E(n, f[n - 1]) /\ f[n - 1] \in T
  BY <1>4, <1>5, <1>6
<1>8. f = Body(f)
  <2>1. \A n \in 0 .. L : n # 0 => n \in 1 .. L
    BY <1>1
  <2>2. \A n \in 0 .. L : f[n] = Body(f)[n]
    BY <1>5, <1>7, <2>1
  <2> QED BY <1>5, <2>2
<1>9. done = Body(done)
  <2> HIDE DEF Body
  <2> QED BY <1>8
<1> HIDE DEF done
<1>10. done[0] = empty /\ \A n \in 1 .. L : done[n] = E(n, done[n - 1])
  <2>1. 0 \in 0 .. L
    BY <1>1
  <2> QED BY <1>6, <1>9, <2>1
<1>11. On(done, L) /\ On(f, L)
  BY <1>5, <1>9 DEF On
<1>12. done = f
  <2> HIDE DEF Body
  <2>1. \A n \in 1 .. L : done[n - 1] = f[n - 1] => done[n] = f[n]
    BY <1>7, <1>10
  <2> QED BY <1>1, <1>5, <1>10, <1>11, <2>1, SameUpTo
<1>13. DisambiguatedLoop(f, entries)
  BY <1>0, <1>2, <1>5, <1>7 DEF DisambiguatedLoop, L
<1>14. Disambiguated(entries) = f[L].list
  BY <1>3, <1>12
<1> QED BY <1>5, <1>13, <1>14 DEF L, T

\* Another name is all that an entry gets.
Renamed(entry, other) ==
    /\ other.username = entry.username /\ other.password = entry.password
    /\ other.provider = entry.provider /\ other.proxy = entry.proxy

\* Every entry stays where it is with all but its name, and no two names are equal.
LEMMA DisambiguatedEntries ==
    ASSUME NEW entries \in Seq(Listing)
    PROVE  /\ Disambiguated(entries) \in Seq(Listing) /\ Len(Disambiguated(entries)) = Len(entries)
           /\ \A i \in 1 .. Len(entries) : Renamed(entries[i], Disambiguated(entries)[i])
           /\ \A i, j \in 1 .. Len(entries) :
                 i # j => Disambiguated(entries)[i].display # Disambiguated(entries)[j].display
<1> DEFINE L == Len(entries)
<1>1. PICK f \in [0 .. L -> Naming] : DisambiguatedLoop(f, entries) /\ Disambiguated(entries) = f[L].list
  BY DisambiguatedRuns
<1>2. L \in Nat /\ \A n \in 1 .. L : entries[n] \in Listing
  OBVIOUS
<1>3. \A n \in 0 .. L : f[n].list \in Seq(Listing)
  BY DEF Naming
<1> DEFINE Whole(n) == Len(f[n].list) = n
           Same(n) == \A i \in 1 .. n : Renamed(entries[i], f[n].list[i])
           Used(n) == \A i \in 1 .. n : f[n].list[i].display \in f[n].used
           Apart(n) == \A i, j \in 1 .. n : i # j => f[n].list[i].display # f[n].list[j].display
           S == {n \in 0 .. L : Whole(n) /\ Same(n) /\ Used(n) /\ Apart(n)}
<1>4. 0 \in S
  <2>1. Len(f[0].list) = 0
    BY <1>1 DEF DisambiguatedLoop
  <2> QED BY <1>2, <2>1
<1>5. ASSUME NEW n \in 0 .. L - 1, n \in S PROVE n + 1 \in S
  <2>1. n + 1 \in 1 .. L /\ n + 1 \in 0 .. L /\ n \in 0 .. L /\ (n + 1) - 1 = n /\ n \in Nat
    BY <1>2
  <2>2. Whole(n) /\ Same(n) /\ Used(n) /\ Apart(n)
    BY <1>5
  <2>3. PICK name \in Seq(Part) :
           /\ name \notin f[n].used
           /\ f[n + 1].list = Append(f[n].list, [entries[n + 1] EXCEPT !.display = name])
           /\ f[n + 1].used = f[n].used \cup {name}
    BY <1>1, <2>1 DEF DisambiguatedLoop, NamedAnew
  <2> DEFINE e == entries[n + 1]
             listed == [e EXCEPT !.display = name]
  <2>4. e \in Listing
    BY <1>2, <2>1
  <2>5. listed \in Listing /\ listed.display = name /\ Renamed(e, listed)
    <3> HIDE DEF e
    <3> QED BY <2>4 DEF Listing, Renamed
  <2> HIDE DEF listed
  <2>6. f[n + 1].list = Append(f[n].list, listed)
    BY <2>3 DEF listed
  <2>7. /\ Len(f[n + 1].list) = n + 1 /\ f[n + 1].list[n + 1] = listed
        /\ \A i \in 1 .. n : f[n + 1].list[i] = f[n].list[i]
    BY <1>3, <2>1, <2>2, <2>5, <2>6
  <2>8. \A i \in 1 .. n + 1 : i \in 1 .. n \/ i = n + 1
    BY <2>1
  <2>9. Same(n + 1)
    BY <2>2, <2>5, <2>7, <2>8
  <2>10. Used(n + 1)
    BY <2>2, <2>3, <2>5, <2>7, <2>8
  <2>11. Apart(n + 1)
    BY <2>2, <2>3, <2>5, <2>7, <2>8
  <2> QED BY <2>1, <2>7, <2>9, <2>10, <2>11
<1>6. L \in S
  <2>1. \A n \in 0 .. L - 1 : n \in S => n + 1 \in S
    BY <1>5
  <2> HIDE DEF S, L
  <2>2. 0 .. L \subseteq S
    BY <1>2, <1>4, <2>1, InductionUpTo
  <2> QED BY <1>2, <2>2
<1>7. Whole(L) /\ Same(L) /\ Apart(L)
  BY <1>6
<1> QED BY <1>1, <1>2, <1>3, <1>7

\* What Surge is offered: one entry for each node that a filter leaves, under
\* the credentials of its provider and name, and under a name of its own.
Offers(list, views, options) ==
    /\ list \in Seq(Listing)
    /\ \A i, j \in DOMAIN list : i # j => list[i].display # list[j].display
    /\ \A e \in ToSet(list) : \E i \in DOMAIN views : \E j \in DOMAIN views[i].proxies :
          /\ Matches(views[i], views[i].proxies[j])
          /\ Renamed(Entry(views[i], views[i].proxies[j], options), e)
    /\ \A i \in DOMAIN views : \A j \in DOMAIN views[i].proxies :
          Matches(views[i], views[i].proxies[j]) =>
             \E e \in ToSet(list) : Renamed(Entry(views[i], views[i].proxies[j], options), e)

THEOREM ProjectionOffers ==
    ASSUME NEW views \in Seq(Provider), NEW options \in Options
    PROVE  Offers(BuildProjection(views, options), views, options)
<1> DEFINE entries == Projected(views, options)
           list == Disambiguated(entries)
<1>1. /\ entries \in Seq(Listing)
      /\ ToSet(entries) = UNION {Chosen(views[i], options, Len(views[i].proxies)) : i \in 1 .. Len(views)}
  BY ProjectedEntries
<1> HIDE DEF entries
<1>2. /\ list \in Seq(Listing) /\ Len(list) = Len(entries)
      /\ \A i \in 1 .. Len(entries) : Renamed(entries[i], list[i])
      /\ \A i, j \in 1 .. Len(entries) : i # j => list[i].display # list[j].display
  BY <1>1, DisambiguatedEntries
<1> HIDE DEF list
<1>3. DOMAIN list = 1 .. Len(entries) /\ DOMAIN entries = 1 .. Len(entries)
  BY <1>1, <1>2
<1>4. \A i \in DOMAIN views : views[i] \in Provider /\ DOMAIN views[i].proxies = 1 .. Len(views[i].proxies)
  BY ProviderParts
<1>5. DOMAIN views = 1 .. Len(views)
  OBVIOUS
<1>6. \A e : e \in ToSet(entries) <=>
         \E i \in DOMAIN views : \E j \in DOMAIN views[i].proxies :
            Matches(views[i], views[i].proxies[j]) /\ e = Entry(views[i], views[i].proxies[j], options)
  <2>1. \A e, i : i \in DOMAIN views =>
           (e \in Chosen(views[i], options, Len(views[i].proxies)) <=>
              \E j \in DOMAIN views[i].proxies :
                 Matches(views[i], views[i].proxies[j]) /\ e = Entry(views[i], views[i].proxies[j], options))
    BY <1>4 DEF Chosen
  <2>2. \A e : e \in ToSet(entries) <=>
          \E i \in DOMAIN views : e \in Chosen(views[i], options, Len(views[i].proxies))
    BY <1>1, <1>5
  <2> QED BY <2>1, <2>2
<1>7. ASSUME NEW e \in ToSet(list)
      PROVE  \E i \in DOMAIN views : \E j \in DOMAIN views[i].proxies :
                Matches(views[i], views[i].proxies[j]) /\ Renamed(Entry(views[i], views[i].proxies[j], options), e)
  <2>1. PICK n \in 1 .. Len(entries) : e = list[n]
    BY <1>3 DEF ToSet
  <2>2. entries[n] \in ToSet(entries) /\ Renamed(entries[n], e)
    BY <1>2, <1>3, <2>1 DEF ToSet
  <2> QED BY <1>6, <2>2
<1>8. ASSUME NEW i \in DOMAIN views, NEW j \in DOMAIN views[i].proxies, Matches(views[i], views[i].proxies[j])
      PROVE  \E e \in ToSet(list) : Renamed(Entry(views[i], views[i].proxies[j], options), e)
  <2>1. Entry(views[i], views[i].proxies[j], options) \in ToSet(entries)
    BY <1>6, <1>8
  <2>2. PICK n \in 1 .. Len(entries) : Entry(views[i], views[i].proxies[j], options) = entries[n]
    BY <1>3, <2>1 DEF ToSet
  <2>3. list[n] \in ToSet(list)
    BY <1>3, <2>2 DEF ToSet
  <2> QED BY <1>2, <2>2, <2>3
<1>9. BuildProjection(views, options) = list
  BY DEF BuildProjection, list, entries
<1> QED BY <1>2, <1>3, <1>7, <1>8, <1>9 DEF Offers

----------------------------------------------------------------------------
(* The states *)

\* A line carries the credentials of the node it is for.
Credentialed(line) ==
    /\ line.username = Credential("user", line.key, line.provider, line.node)
    /\ line.password = Credential("pass", line.key, line.provider, line.node)

Sources == [views : Seq(Provider), options : Options]

Connected ==
    conn # None =>
        /\ conn = [line |-> conn.line, via |-> conn.via] /\ Credentialed(conn.line)
        /\ conn.via # None => conn.via.provider = conn.line.provider /\ conn.via.proxy.name = conn.line.node

IInv ==
    /\ source \in Sources
    /\ Offers(snapshot, source.views, source.options)
    /\ \A line \in lines : Credentialed(line)
    /\ Connected

LEMMA NodesTyped == \A params \in {1, 2} : Nodes(params) \subseteq Seq(Proxy)
BY BoundsAssumption DEF Nodes, BoundedSeq, SeqOf

LEMMA EditedTyped ==
    ASSUME NEW view \in Provider
    PROVE  Edited(view) \subseteq Provider
<1>1. /\ view.name \in Names /\ view.prefix \in PrefixNames \cup {<<>>}
      /\ view.hidden \in SUBSET Names /\ view.proxies \in Seq(Proxy)
  BY DEF Provider
<1>2. ASSUME NEW names \in SUBSET Names, NEW prefixes \in SUBSET (PrefixNames \cup {<<>>}),
             NEW hidden \in SUBSET SUBSET Names, NEW nodes \in SUBSET Seq(Proxy)
      PROVE  View(names, prefixes, hidden, nodes) \subseteq Provider
  BY DEF View, Provider
<1>3. {{}} \cup {{n} : n \in Names} \in SUBSET SUBSET Names /\ {view.hidden} \in SUBSET SUBSET Names
  BY <1>1
<1>4. Names \in SUBSET Names /\ {view.name} \in SUBSET Names
  BY <1>1
<1>5. PrefixNames \in SUBSET (PrefixNames \cup {<<>>}) /\ {view.prefix} \in SUBSET (PrefixNames \cup {<<>>})
  BY <1>1
<1>6. Nodes(2) \in SUBSET Seq(Proxy) /\ {view.proxies} \in SUBSET Seq(Proxy)
  BY <1>1, NodesTyped
<1>7. View(Names, {view.prefix}, {view.hidden}, {view.proxies}) \subseteq Provider
  BY <1>2, <1>3, <1>4, <1>5, <1>6
<1>8. View({view.name}, PrefixNames, {{}} \cup {{n} : n \in Names}, {view.proxies}) \subseteq Provider
  BY <1>2, <1>3, <1>4, <1>5, <1>6
<1>9. View({view.name}, {view.prefix}, {view.hidden}, Nodes(2)) \subseteq Provider
  BY <1>2, <1>3, <1>4, <1>5, <1>6
<1> QED BY <1>7, <1>8, <1>9 DEF Edited

LEMMA ChangedTyped ==
    ASSUME source \in Sources, source.views # <<>>
    PROVE  Changed \subseteq Sources
<1> DEFINE views == source.views
           options == source.options
<1>1. source = [views |-> views, options |-> options] /\ views \in Seq(Provider) /\ options \in Options
  BY DEF Sources
<1>2. [source EXCEPT !.views = Reverse(@)] \in Sources
  <2>1. Reverse(views) \in Seq(Provider)
    BY <1>1 DEF Reverse
  <2> QED BY <1>1, <2>1 DEF Sources
<1>3. [source EXCEPT !.views = Tail(@)] \in Sources
  <2>1. Tail(views) \in Seq(Provider)
    BY <1>1
  <2> QED BY <1>1, <2>1 DEF Sources
<1>4. ASSUME NEW o \in Options PROVE [source EXCEPT !.options = o] \in Sources
  BY <1>1 DEF Sources
<1>5. ASSUME NEW i \in DOMAIN views, NEW v \in Edited(views[i]) PROVE [source EXCEPT !.views[i] = v] \in Sources
  <2>1. v \in Provider
    BY <1>1, EditedTyped
  <2>2. [views EXCEPT ![i] = v] \in Seq(Provider)
    BY <1>1, <2>1
  <2>3. [source EXCEPT !.views[i] = v] = [views |-> [views EXCEPT ![i] = v], options |-> options]
    BY <1>1
  <2> QED BY <1>1, <2>2, <2>3 DEF Sources
<1>6. ASSUME NEW s \in Changed PROVE s \in Sources
  <2>1. \/ s = [source EXCEPT !.views = Reverse(@)] \/ s = [source EXCEPT !.views = Tail(@)]
        \/ \E o \in Options : s = [source EXCEPT !.options = o]
        \/ \E i \in DOMAIN views : \E v \in Edited(views[i]) : s = [source EXCEPT !.views[i] = v]
    BY DEF Changed
  <2> HIDE DEF views, options
  <2> QED BY <1>2, <1>3, <1>4, <1>5, <2>1
<1> QED BY <1>6

LEMMA EntryCredentials ==
    ASSUME IInv, NEW e \in ToSet(snapshot)
    PROVE  /\ e.username = Credential("user", source.options.key, e.provider, e.proxy.name)
           /\ e.password = Credential("pass", source.options.key, e.provider, e.proxy.name)
           /\ \E i \in DOMAIN source.views : \E j \in DOMAIN source.views[i].proxies :
                 /\ source.views[i].name = e.provider /\ source.views[i].proxies[j] = e.proxy
                 /\ e.proxy.name \notin source.views[i].hidden
<1> DEFINE views == source.views
<1>1. views \in Seq(Provider) /\ source.options \in Options
  BY DEF IInv, Sources
<1>2. PICK i \in DOMAIN views : \E j \in DOMAIN views[i].proxies :
         Matches(views[i], views[i].proxies[j]) /\ Renamed(Entry(views[i], views[i].proxies[j], source.options), e)
  BY DEF IInv, Offers
<1>3. PICK j \in DOMAIN views[i].proxies :
         Matches(views[i], views[i].proxies[j]) /\ Renamed(Entry(views[i], views[i].proxies[j], source.options), e)
  BY <1>2
<1>4. views[i] \in Provider
  BY <1>1
<1>5. views[i].proxies[j] \in Proxy
  BY <1>4, ProviderParts
<1> HIDE DEF views
<1>6. /\ e.username = Credential("user", source.options.key, views[i].name, views[i].proxies[j].name)
      /\ e.password = Credential("pass", source.options.key, views[i].name, views[i].proxies[j].name)
      /\ e.provider = views[i].name /\ e.proxy = views[i].proxies[j]
  BY <1>1, <1>3, <1>4, <1>5, EntryParts DEF Renamed
<1>7. views[i].proxies[j].name \notin views[i].hidden
  BY <1>3 DEF Matches
<1> QED BY <1>6, <1>7 DEF views

LEMMA InitKeeps == Init => IInv
<1> SUFFICES ASSUME Init PROVE IInv
  OBVIOUS
<1>1. PICK n \in Names, m \in Names, p \in Nodes(1), q \in Nodes(1), o \in Options :
         source = [views |-> <<[name |-> n, prefix |-> <<>>, hidden |-> {}, proxies |-> p],
                               [name |-> m, prefix |-> <<>>, hidden |-> {}, proxies |-> q]>>,
                   options |-> o]
  BY DEF Init
<1>2. p \in Seq(Proxy) /\ q \in Seq(Proxy)
  BY NodesTyped
<1>3. \A name \in Names, nodes \in Seq(Proxy) : [name |-> name, prefix |-> <<>>, hidden |-> {}, proxies |-> nodes] \in Provider
  BY DEF Provider
<1>4. source \in Sources
  BY <1>1, <1>2, <1>3 DEF Sources
<1>5. Offers(snapshot, source.views, source.options)
  <2>1. source.views \in Seq(Provider) /\ source.options \in Options
    BY <1>4 DEF Sources
  <2> QED BY <2>1, ProjectionOffers DEF Init
<1> QED BY <1>4, <1>5 DEF Init, IInv, Connected

LEMMA PublishKeeps == IInv /\ Publish => IInv'
<1> SUFFICES ASSUME IInv, Publish PROVE IInv'
  OBVIOUS
<1>1. UNCHANGED <<lines, conn>>
  BY DEF Publish
<1>2. PICK s \in Changed : \/ UNCHANGED <<source, snapshot>>
                           \/ source' = s /\ snapshot' = BuildProjection(s.views, s.options)
  BY DEF Publish
<1>3. s \in Sources
  BY ChangedTyped DEF IInv, Publish
<1>4. CASE UNCHANGED <<source, snapshot>>
  BY <1>1, <1>4 DEF IInv, Connected
<1>5. CASE source' = s /\ snapshot' = BuildProjection(s.views, s.options)
  <2>1. s.views \in Seq(Provider) /\ s.options \in Options
    BY <1>3 DEF Sources
  <2>2. Offers(BuildProjection(s.views, s.options), s.views, s.options)
    BY <2>1, ProjectionOffers
  <2>3. Offers(snapshot, source.views, source.options)'
    BY <1>5, <2>2
  <2> QED BY <1>1, <1>3, <1>5, <2>3 DEF IInv, Connected
<1> QED BY <1>2, <1>4, <1>5

LEMMA FetchKeeps == IInv /\ Fetch => IInv'
<1> SUFFICES ASSUME IInv, Fetch PROVE IInv'
  OBVIOUS
<1>1. UNCHANGED <<source, snapshot, conn>>
  BY DEF Fetch
<1>2. ASSUME NEW line \in lines' PROVE Credentialed(line)
  <2>1. PICK e \in ToSet(snapshot) : line = Line(e)
    BY DEF Fetch, Listed
  <2>2. /\ line.username = e.username /\ line.password = e.password /\ line.key = source.options.key
        /\ line.provider = e.provider /\ line.node = e.proxy.name
    BY <2>1 DEF Line
  <2> QED BY <2>2, EntryCredentials DEF Credentialed
<1> QED BY <1>1, <1>2 DEF IInv, Connected

LEMMA ConnectKeeps == IInv /\ Connect => IInv'
<1> SUFFICES ASSUME IInv, Connect PROVE IInv'
  OBVIOUS
<1>1. PICK line \in lines : conn' = [line |-> line, via |-> None]
  BY DEF Connect
<1>2. Connected'
  BY <1>1 DEF IInv, Connected
<1> QED BY <1>2 DEF IInv, Connect

LEMMA RouteKeeps == IInv /\ Route => IInv'
<1> SUFFICES ASSUME IInv, Route PROVE IInv'
  OBVIOUS
<1>1. UNCHANGED <<source, snapshot, lines>>
  BY DEF Route
<1>2. CASE conn' = None
  BY <1>1, <1>2 DEF IInv, Connected
<1>3. CASE conn' # None
  <2>1. PICK e \in EntryByUser(conn.line.username) : conn' = [conn EXCEPT !.via = e]
    BY <1>3 DEF Route
  <2>2. e \in ToSet(snapshot) /\ e.username = conn.line.username
    BY DEF EntryByUser
  <2>3. conn = [line |-> conn.line, via |-> conn.via] /\ Credentialed(conn.line)
    BY DEF IInv, Route, Connected
  <2>4. conn' = [line |-> conn.line, via |-> e]
    BY <2>1, <2>3
  <2>5. Credential("user", source.options.key, e.provider, e.proxy.name)
        = Credential("user", conn.line.key, conn.line.provider, conn.line.node)
    BY <2>2, <2>3, EntryCredentials DEF Credentialed
  <2>6. e.provider = conn.line.provider /\ e.proxy.name = conn.line.node
    BY <2>5 DEF Credential
  <2>7. Connected'
    BY <2>3, <2>4, <2>6 DEF Connected
  <2> QED BY <1>1, <2>7 DEF IInv
<1> QED BY <1>2, <1>3

\* The invariant: the views are as typed, what is published is what they offer,
\* and lines and connection carry the credentials of their node.
THEOREM ProjectionInvariant == Spec => []IInv
<1>1. IInv /\ [Next]_vars => IInv'
  <2> SUFFICES ASSUME IInv, [Next]_vars PROVE IInv'
    OBVIOUS
  <2>1. CASE Hangup
    BY <2>1 DEF Hangup, IInv, Connected
  <2>2. CASE UNCHANGED vars
    BY <2>2 DEF vars, IInv, Connected
  <2> QED BY <2>1, <2>2, PublishKeeps, FetchKeeps, ConnectKeeps, RouteKeeps DEF Next
<1> QED BY InitKeeps, <1>1, PTL DEF Spec

\* No two nodes are ever shown under one name, for any names, prefixes and
\* numbers: the first free number is always found among as many as there are names.
THEOREM NamesStayUnique == Spec => []NamesUnique
<1>1. IInv => NamesUnique
  BY DEF IInv, Offers, NamesUnique
<1> QED BY <1>1, ProjectionInvariant, PTL

\* Every line Surge has is accepted exactly as long as the key and the names it
\* was made from are there, and its connections go through its own node.
THEOREM LinesWork == Spec => []LinesKeepWorking
<1>1. ASSUME IInv PROVE LinesKeepWorking
  <2>1. ASSUME NEW line \in lines, Verify(line) PROVE Offered(line)
    <3>1. PICK e \in ToSet(snapshot) : e.username = line.username
      BY <2>1 DEF Verify, EntryByUser
    <3>2. Credential("user", source.options.key, e.provider, e.proxy.name)
          = Credential("user", line.key, line.provider, line.node)
      BY <1>1, <3>1, EntryCredentials DEF IInv, Credentialed
    <3>3. source.options.key = line.key /\ e.provider = line.provider /\ e.proxy.name = line.node
      BY <3>2 DEF Credential
    <3> QED BY <1>1, <3>3, EntryCredentials DEF Offered
  <2>2. ASSUME NEW line \in lines, Offered(line) PROVE Verify(line)
    <3> DEFINE views == source.views
    <3>1. PICK i \in DOMAIN views : /\ views[i].name = line.provider /\ line.node \notin views[i].hidden
                                    /\ \E j \in DOMAIN views[i].proxies : views[i].proxies[j].name = line.node
      BY <2>2 DEF Offered
    <3>2. PICK j \in DOMAIN views[i].proxies : views[i].proxies[j].name = line.node
      BY <3>1
    <3>3. views \in Seq(Provider) /\ source.options \in Options /\ line.key = source.options.key
      BY <1>1, <2>2 DEF IInv, Sources, Offered
    <3>4. views[i] \in Provider
      BY <3>3
    <3>5. views[i].proxies[j] \in Proxy
      BY <3>4, ProviderParts
    <3>6. Matches(views[i], views[i].proxies[j])
      BY <3>1, <3>2 DEF Matches
    <3>7. PICK e \in ToSet(snapshot) : Renamed(Entry(views[i], views[i].proxies[j], source.options), e)
      BY <1>1, <3>6 DEF IInv, Offers
    <3> HIDE DEF views
    <3>8. /\ e.username = Credential("user", line.key, line.provider, line.node)
          /\ e.password = Credential("pass", line.key, line.provider, line.node)
      BY <3>1, <3>2, <3>3, <3>4, <3>5, <3>7, EntryParts DEF Renamed
    <3>9. e.username = line.username /\ e.password = line.password
      BY <1>1, <3>8 DEF IInv, Credentialed
    <3> QED BY <3>9 DEF Verify, EntryByUser
  <2> QED BY <1>1, <2>1, <2>2 DEF IInv, Connected, LinesKeepWorking
<1> QED BY <1>1, ProjectionInvariant, PTL
=============================================================================
