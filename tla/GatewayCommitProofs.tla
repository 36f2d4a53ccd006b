-------------------------- MODULE GatewayCommitProofs --------------------------
(***************************************************************************)
(* Proofs about GatewayCommit and the CoreManager under it, for any number *)
(* of providers, settings, configuration objects and readers.  The first   *)
(* part is about lists of providers: what the operations make of them and  *)
(* what the filter of a policy path returns.  Then comes one inductive     *)
(* invariant over the writer, the holder of the manager's lock, the        *)
(* watcher and the readers, and the properties that follow from it; the    *)
(* last part shows that GatewayCommit implements AtomicConfiguration.      *)
(***************************************************************************)
EXTENDS GatewayCommit, SequenceLemmas

----------------------------------------------------------------------------
(* Lists of providers *)

LEMMA ListParts ==
    ASSUME NEW l \in Lists
    PROVE  /\ l \in Seq(Providers) /\ DOMAIN l = 1 .. Len(l) /\ Len(l) \in Nat
           /\ \A i, j \in 1 .. Len(l) : l[i] = l[j] => i = j
<1> DEFINE Functions == {[1 .. n -> Providers] : n \in 0 .. Cardinality(Providers)}
<1>1. Cardinality(Providers) \in Nat
  BY ProvidersAssumption, FS_CardinalityType
<1>2. l \in UNION Functions /\ \A i, j \in DOMAIN l : l[i] = l[j] => i = j
  BY DEF Lists
<1>3. PICK n \in 0 .. Cardinality(Providers) : l \in [1 .. n -> Providers]
  BY <1>2
<1>4. n \in Nat
  BY <1>1, <1>3
<1> QED BY <1>2, <1>3, <1>4

LEMMA ListMade ==
    ASSUME NEW l \in Seq(Providers), \A i, j \in 1 .. Len(l) : l[i] = l[j] => i = j
    PROVE  l \in Lists
<1> DEFINE Functions == {[1 .. n -> Providers] : n \in 0 .. Cardinality(Providers)}
<1>1. Len(l) \in Nat /\ l \in [1 .. Len(l) -> Providers] /\ DOMAIN l = 1 .. Len(l)
  OBVIOUS
<1>2. Len(l) <= Cardinality(Providers) /\ Cardinality(Providers) \in Nat
  BY <1>1, ProvidersAssumption, InjectiveLength, FS_CardinalityType
<1>3. [1 .. Len(l) -> Providers] \in Functions
  <2>1. Len(l) \in 0 .. Cardinality(Providers)
    BY <1>1, <1>2
  <2> QED BY <2>1
<1>4. l \in UNION Functions
  BY <1>1, <1>3
<1> QED BY <1>1, <1>4 DEF Lists

LEMMA EmptyList == <<>> \in Lists
<1> DEFINE l == <<>>
<1>1. l \in Seq(Providers) /\ Len(l) = 0
  OBVIOUS
<1> HIDE DEF l
<1>2. \A i, j \in 1 .. Len(l) : l[i] = l[j] => i = j
  BY <1>1
<1>3. l \in Lists
  BY <1>1, <1>2, ListMade
<1> QED BY <1>3 DEF l

LEMMA SetParts == ASSUME NEW l PROVE \A p : p \in Set(l) <=> \E i \in DOMAIN l : l[i] = p
BY DEF Set

LEMMA SetTyped == ASSUME NEW l \in Lists PROVE Set(l) \in SUBSET Providers
BY ListParts DEF Set

\* AddProvider appends an identity that is not in the list.
LEMMA ListAppended ==
    ASSUME NEW l \in Lists, NEW p \in Providers \ Set(l)
    PROVE  Append(l, p) \in Lists
<1>1. /\ l \in Seq(Providers) /\ DOMAIN l = 1 .. Len(l) /\ Len(l) \in Nat
      /\ \A i, j \in 1 .. Len(l) : l[i] = l[j] => i = j
  BY ListParts
<1>2. \A i \in 1 .. Len(l) : l[i] # p
  BY <1>1, SetParts
<1>3. Append(l, p) \in Seq(Providers) /\ Len(Append(l, p)) = Len(l) + 1
  BY <1>1
<1>4. \A i \in 1 .. Len(l) + 1 : Append(l, p)[i] = IF i = Len(l) + 1 THEN p ELSE l[i]
  BY <1>1
<1>5. \A i, j \in 1 .. Len(l) + 1 : Append(l, p)[i] = Append(l, p)[j] => i = j
  BY <1>1, <1>2, <1>4
<1> QED BY <1>3, <1>5, ListMade

\* DeleteProvider takes one element out.
LEMMA ListShortened ==
    ASSUME NEW l \in Lists, NEW k \in DOMAIN l
    PROVE  SubSeq(l, 1, k - 1) \o SubSeq(l, k + 1, Len(l)) \in Lists
<1> DEFINE a == SubSeq(l, 1, k - 1)
           b == SubSeq(l, k + 1, Len(l))
           m == a \o b
<1>1. /\ l \in Seq(Providers) /\ k \in 1 .. Len(l) /\ Len(l) \in Nat
      /\ \A i, j \in 1 .. Len(l) : l[i] = l[j] => i = j
  BY ListParts
<1>2. a \in Seq(Providers) /\ Len(a) = k - 1 /\ \A i \in 1 .. k - 1 : a[i] = l[i]
  BY <1>1
<1>3. b \in Seq(Providers) /\ Len(b) = Len(l) - k /\ \A i \in 1 .. Len(l) - k : b[i] = l[i + k]
  BY <1>1
<1> HIDE DEF a, b
<1>4. m \in Seq(Providers) /\ Len(m) = Len(l) - 1
  BY <1>1, <1>2, <1>3
<1> DEFINE at(i) == IF i < k THEN i ELSE i + 1
<1>5. \A i \in 1 .. Len(l) - 1 : m[i] = l[at(i)] /\ at(i) \in 1 .. Len(l)
  BY <1>1, <1>2, <1>3
<1>6. \A i, j \in 1 .. Len(l) - 1 : at(i) = at(j) => i = j
  BY <1>1
<1> HIDE DEF at, m
<1>7. \A i, j \in 1 .. Len(m) : m[i] = m[j] => i = j
  BY <1>1, <1>4, <1>5, <1>6
<1>8. m \in Lists
  BY <1>4, <1>7, ListMade
<1> QED BY <1>8 DEF a, b, m

\* UpdateProvider may change an identity to one that is not in the list.
LEMMA ListRenamed ==
    ASSUME NEW l \in Lists, NEW p, NEW q \in Providers \ Set(l)
    PROVE  [i \in DOMAIN l |-> IF l[i] = p THEN q ELSE l[i]] \in Lists
<1> DEFINE m == [i \in DOMAIN l |-> IF l[i] = p THEN q ELSE l[i]]
<1>1. /\ l \in Seq(Providers) /\ DOMAIN l = 1 .. Len(l) /\ Len(l) \in Nat
      /\ \A i, j \in 1 .. Len(l) : l[i] = l[j] => i = j
  BY ListParts
<1>2. \A i \in 1 .. Len(l) : l[i] # q /\ l[i] \in Providers
  BY <1>1, SetParts
<1>3. m \in Seq(Providers) /\ Len(m) = Len(l)
      /\ \A i \in 1 .. Len(l) : m[i] = IF l[i] = p THEN q ELSE l[i]
  BY <1>1, <1>2
<1> HIDE DEF m
<1>4. \A i, j \in 1 .. Len(l) : m[i] = m[j] => i = j
  BY <1>1, <1>2, <1>3
<1>5. m \in Lists
  BY <1>3, <1>4, ListMade
<1> QED BY <1>5 DEF m

----------------------------------------------------------------------------
(* FilterPolicyPathEntries *)

Chosen(path, p) == path = All \/ p \in path

\* The loop over the entries, as a function of how many it has seen.
Loop(f, path, list) ==
    /\ f[0] = <<>>
    /\ \A n \in 1 .. Len(list) : f[n] = IF Chosen(path, list[n]) THEN Append(f[n - 1], list[n]) ELSE f[n - 1]

LEMMA FilterLoop ==
    ASSUME NEW path, NEW list \in Seq(Providers)
    PROVE  \E f \in [0 .. Len(list) -> Seq(Providers)] : Loop(f, path, list) /\ Filter(path, list) = f[Len(list)]
<1> DEFINE L == Len(list)
           T == Seq(Providers)
           next == [n \in 1 .. L |-> [s \in T |-> IF Chosen(path, list[n]) THEN Append(s, list[n]) ELSE s]]
           Body(f) == [n \in 0 .. L |-> IF n = 0 THEN <<>>
                                        ELSE IF path = All \/ list[n] \in path THEN Append(f[n - 1], list[n])
                                        ELSE f[n - 1]]
           kept == CHOOSE f : f = Body(f)
<1>1. L \in Nat /\ <<>> \in T /\ \A n \in 1 .. L : list[n] \in Providers
  OBVIOUS
<1>2. next \in [1 .. L -> [T -> T]]
  BY <1>1
<1>3. \A n \in 1 .. L, s \in T : next[n][s] = IF Chosen(path, list[n]) THEN Append(s, list[n]) ELSE s
  OBVIOUS
<1> HIDE DEF next, L
<1>4. PICK f \in [0 .. L -> T] : f[0] = <<>> /\ \A n \in 1 .. L : f[n] = next[n][f[n - 1]]
  <2> DEFINE empty == <<>>
  <2>1. empty \in T
    BY <1>1
  <2> HIDE DEF T, empty
  <2>2. Recurs(T, empty, L, next)
    BY <1>1, <1>2, <2>1, RecursionUpTo
  <2> QED BY <2>2 DEF empty, Recurs
<1>5. \A n \in 1 .. L : n - 1 \in 0 .. L
  BY <1>1
<1>6. \A n \in 1 .. L : f[n] = IF Chosen(path, list[n]) THEN Append(f[n - 1], list[n]) ELSE f[n - 1]
  BY <1>3, <1>4, <1>5
<1>7. f = Body(f)
  <2>1. \A n \in 0 .. L : n # 0 => n \in 1 .. L
    BY <1>1
  <2>2. \A n \in 0 .. L : f[n] = Body(f)[n]
    BY <1>4, <1>6, <2>1 DEF Chosen
  <2> HIDE DEF T
  <2> QED BY <1>4, <2>2
<1>8. kept = Body(kept)
  <2> HIDE DEF Body
  <2> QED BY <1>7
<1>9. Filter(path, list) = kept[L]
  BY DEF Filter, L
<1>10. kept = f
  <2> DEFINE S == {n \in 0 .. L : kept[n] = f[n]}
  <2>1. kept = [n \in 0 .. L |-> kept[n]] /\ f = [n \in 0 .. L |-> f[n]]
    <3>1. DOMAIN kept = 0 .. L /\ kept = [n \in DOMAIN kept |-> kept[n]]
      <4> HIDE DEF kept
      <4> QED BY <1>8
    <3> HIDE DEF T, kept
    <3> QED BY <1>4, <3>1
  <2>2. \A n \in 0 .. L : kept[n] = IF n = 0 THEN <<>>
                                   ELSE IF Chosen(path, list[n]) THEN Append(kept[n - 1], list[n])
                                   ELSE kept[n - 1]
    <3> HIDE DEF kept
    <3> QED BY <1>8 DEF Chosen
  <2> HIDE DEF kept, Body
  <2>3. 0 \in S
    BY <1>1, <1>4, <2>2
  <2>4. ASSUME NEW n \in 0 .. L - 1, n \in S PROVE n + 1 \in S
    <3>1. n + 1 \in 1 .. L /\ n + 1 \in 0 .. L /\ n + 1 # 0 /\ (n + 1) - 1 = n
      BY <1>1
    <3>2. kept[n + 1] = IF Chosen(path, list[n + 1]) THEN Append(kept[n], list[n + 1]) ELSE kept[n]
      BY <2>2, <3>1
    <3>3. f[n + 1] = IF Chosen(path, list[n + 1]) THEN Append(f[n], list[n + 1]) ELSE f[n]
      BY <1>6, <3>1
    <3>4. kept[n] = f[n]
      BY <2>4
    <3> QED BY <3>1, <3>2, <3>3, <3>4
  <2>5. \A n \in 0 .. L - 1 : n \in S => n + 1 \in S
    BY <2>4
  <2>6. 0 .. L \subseteq S
    <3> HIDE DEF S
    <3> QED BY <1>1, <2>3, <2>5, InductionUpTo
  <2>7. \A n \in 0 .. L : kept[n] = f[n]
    BY <2>6
  <2> QED BY <2>1, <2>7
<1>11. Loop(f, path, list)
  BY <1>4, <1>6 DEF Loop, L
<1> QED
  <2> HIDE DEF T, kept
  <2>1. Filter(path, list) = f[L]
    BY <1>9, <1>10
  <2> QED BY <1>4, <1>11, <2>1 DEF L, T

\* p comes before q in a list.
Before(l, p, q) == \E i, j \in DOMAIN l : i < j /\ l[i] = p /\ l[j] = q

\* The filter of a policy path returns exactly the entries that the path
\* selects, in the order they have, and none twice.
THEOREM FilterSelects ==
    ASSUME NEW path, NEW list \in Lists
    PROVE  /\ Filter(path, list) \in Lists
           /\ \A p : p \in Set(Filter(path, list)) <=> p \in Set(list) /\ Chosen(path, p)
           /\ \A p, q : Before(Filter(path, list), p, q) => Before(list, p, q)
<1> DEFINE L == Len(list)
<1>1. /\ list \in Seq(Providers) /\ DOMAIN list = 1 .. L /\ L \in Nat
      /\ \A i, j \in 1 .. L : list[i] = list[j] => i = j
  BY ListParts
<1>2. PICK f \in [0 .. L -> Seq(Providers)] : Loop(f, path, list) /\ Filter(path, list) = f[L]
  BY <1>1, FilterLoop
<1> HIDE DEF L
<1> DEFINE From(n) == \A i \in 1 .. Len(f[n]) : \E a \in 1 .. n : list[a] = f[n][i] /\ Chosen(path, list[a])
           Every(n) == \A a \in 1 .. n : Chosen(path, list[a]) => \E i \in 1 .. Len(f[n]) : f[n][i] = list[a]
           Order(n) == \A i, j \in 1 .. Len(f[n]) : i < j => \E a,
           b \in 1 .. n : a < b /\ list[a] = f[n][i] /\ list[b] = f[n][j]
           S == {n \in 0 .. L : From(n) /\ Every(n) /\ Order(n)}
<1>3. 0 \in S
  <2>1. Len(f[0]) = 0
    BY <1>2 DEF Loop
  <2> QED BY <1>1, <2>1
<1>4. ASSUME NEW n \in 0 .. L - 1, n \in S PROVE n + 1 \in S
  <2>1. n \in 0 .. L /\ n + 1 \in 0 .. L /\ n + 1 \in 1 .. L /\ n \in Nat /\ (n + 1) - 1 = n
    BY <1>1
  <2>2. f[n] \in Seq(Providers) /\ list[n + 1] \in Providers /\ Len(f[n]) \in Nat
    BY <1>1, <2>1
  <2>3. f[n + 1] = IF Chosen(path, list[n + 1]) THEN Append(f[n], list[n + 1]) ELSE f[n]
    BY <1>2, <2>1 DEF Loop, L
  <2>4. From(n) /\ Every(n) /\ Order(n)
    BY <1>4
  <2>5. \A a \in 1 .. n + 1 : a \in 1 .. n \/ a = n + 1
    BY <2>1
  <2>6. CASE ~Chosen(path, list[n + 1])
    <3>1. f[n + 1] = f[n]
      BY <2>3, <2>6
    <3>2. From(n + 1)
      BY <2>1, <2>4, <3>1
    <3>3. Every(n + 1)
      <4>1. SUFFICES ASSUME NEW a \in 1 .. n + 1, Chosen(path, list[a])
                     PROVE  \E i \in 1 .. Len(f[n]) : f[n][i] = list[a]
        BY <3>1
      <4>2. a \in 1 .. n
        <5>1. a # n + 1
          BY <2>6, <4>1
        <5> QED BY <2>5, <5>1
      <4> QED BY <2>4, <4>1, <4>2
    <3>4. Order(n + 1)
      BY <2>1, <2>4, <3>1
    <3> HIDE DEF From, Every, Order
    <3> QED BY <2>1, <3>2, <3>3, <3>4
  <2>7. CASE Chosen(path, list[n + 1])
    <3>1. Len(f[n + 1]) = Len(f[n]) + 1
      BY <2>2, <2>3, <2>7
    <3>2. \A i \in 1 .. Len(f[n]) : f[n + 1][i] = f[n][i]
      BY <2>2, <2>3, <2>7
    <3>3. f[n + 1][Len(f[n]) + 1] = list[n + 1]
      BY <2>2, <2>3, <2>7
    <3>4. From(n + 1)
      <4>1. SUFFICES ASSUME NEW i \in 1 .. Len(f[n + 1])
                     PROVE  \E a \in 1 .. n + 1 : list[a] = f[n + 1][i] /\ Chosen(path, list[a])
        OBVIOUS
      <4>2. CASE i = Len(f[n]) + 1
        BY <2>1, <2>7, <3>3, <4>2
      <4>3. CASE i \in 1 .. Len(f[n])
        <5>1. PICK a \in 1 .. n : list[a] = f[n][i] /\ Chosen(path, list[a])
          BY <2>4, <4>3
        <5> QED BY <2>1, <3>2, <4>3, <5>1
      <4> QED BY <2>2, <3>1, <4>2, <4>3
    <3>5. Every(n + 1)
      <4>1. SUFFICES ASSUME NEW a \in 1 .. n + 1, Chosen(path, list[a])
                     PROVE  \E i \in 1 .. Len(f[n + 1]) : f[n + 1][i] = list[a]
        OBVIOUS
      <4>2. CASE a = n + 1
        BY <2>2, <3>1, <3>3, <4>2
      <4>3. CASE a \in 1 .. n
        <5>1. PICK i \in 1 .. Len(f[n]) : f[n][i] = list[a]
          BY <2>4, <4>1, <4>3
        <5> QED BY <2>2, <3>1, <3>2, <5>1
      <4> QED BY <2>5, <4>2, <4>3
    <3>6. Order(n + 1)
      <4>1. SUFFICES ASSUME NEW i \in 1 .. Len(f[n + 1]), NEW j \in 1 .. Len(f[n + 1]), i < j
                     PROVE  \E a, b \in 1 .. n + 1 : a < b /\ list[a] = f[n + 1][i] /\ list[b] = f[n + 1][j]
        OBVIOUS
      <4>2. i \in 1 .. Len(f[n]) /\ f[n + 1][i] = f[n][i]
        BY <2>2, <3>1, <3>2, <4>1
      <4>3. CASE j = Len(f[n]) + 1
        <5>1. PICK a \in 1 .. n : list[a] = f[n][i]
          BY <2>4, <4>2
        <5> QED BY <2>1, <3>3, <4>2, <4>3, <5>1
      <4>4. CASE j \in 1 .. Len(f[n])
        <5>1. PICK a \in 1 .. n, b \in 1 .. n : a < b /\ list[a] = f[n][i] /\ list[b] = f[n][j]
          BY <2>4, <4>1, <4>2, <4>4
        <5> QED BY <2>1, <3>2, <4>2, <4>4, <5>1
      <4>5. j = Len(f[n]) + 1 \/ j \in 1 .. Len(f[n])
        BY <2>2, <3>1
      <4> QED BY <4>3, <4>4, <4>5
    <3> HIDE DEF From, Every, Order
    <3> QED BY <2>1, <3>4, <3>5, <3>6
  <2> QED BY <2>6, <2>7
<1>5. L \in S
  <2>1. \A n \in 0 .. L - 1 : n \in S => n + 1 \in S
    BY <1>4
  <2>2. 0 .. L \subseteq S
    <3> HIDE DEF S
    <3> QED BY <1>1, <1>3, <2>1, InductionUpTo
  <2> HIDE DEF S
  <2> QED BY <1>1, <2>2
<1>6. From(L) /\ Every(L) /\ Order(L)
  BY <1>5
<1> DEFINE r == f[L]
<1>7. r \in Seq(Providers) /\ Len(r) \in Nat /\ DOMAIN r = 1 .. Len(r) /\ Filter(path, list) = r
  BY <1>1, <1>2
<1>8. /\ \A i \in 1 .. Len(r) : \E a \in 1 .. L : list[a] = r[i] /\ Chosen(path, list[a])
      /\ \A a \in 1 .. L : Chosen(path, list[a]) => \E i \in 1 .. Len(r) : r[i] = list[a]
      /\ \A i, j \in 1 .. Len(r) : i < j => \E a, b \in 1 .. L : a < b /\ list[a] = r[i] /\ list[b] = r[j]
  BY <1>6, Zenon
<1> HIDE DEF r, From, Every, Order
<1>9. r \in Lists
  <2>1. \A i, j \in 1 .. Len(r) : i < j => r[i] # r[j]
    <3>1. SUFFICES ASSUME NEW i \in 1 .. Len(r), NEW j \in 1 .. Len(r), i < j PROVE r[i] # r[j]
      OBVIOUS
    <3>2. PICK a \in 1 .. L, b \in 1 .. L : a < b /\ list[a] = r[i] /\ list[b] = r[j]
      BY <1>7, <1>8, <3>1
    <3> QED BY <1>1, <3>2
  <2>2. \A i, j \in 1 .. Len(r) : r[i] = r[j] => i = j
    BY <1>7, <1>8, <2>1
  <2> QED BY <1>7, <1>8, <2>2, ListMade
<1>10. ASSUME NEW p PROVE p \in Set(r) <=> p \in Set(list) /\ Chosen(path, p)
  <2>1. p \in Set(r) <=> \E i \in 1 .. Len(r) : r[i] = p
    BY <1>7, <1>8, SetParts
  <2>2. p \in Set(list) <=> \E a \in 1 .. L : list[a] = p
    BY <1>1, SetParts
  <2>3. ASSUME p \in Set(r) PROVE p \in Set(list) /\ Chosen(path, p)
    <3>1. PICK i \in 1 .. Len(r) : r[i] = p
      BY <2>1, <2>3
    <3>2. PICK a \in 1 .. L : list[a] = p /\ Chosen(path, p)
      BY <1>8, <3>1
    <3> QED BY <2>2, <3>2
  <2>4. ASSUME p \in Set(list), Chosen(path, p) PROVE p \in Set(r)
    <3>1. PICK a \in 1 .. L : list[a] = p
      BY <2>2, <2>4
    <3>2. PICK i \in 1 .. Len(r) : r[i] = p
      BY <1>8, <2>4, <3>1
    <3> QED BY <2>1, <3>2
  <2> QED BY <2>3, <2>4
<1>11. ASSUME NEW p, NEW q, Before(r, p, q) PROVE Before(list, p, q)
  <2>1. PICK i \in 1 .. Len(r), j \in 1 .. Len(r) : i < j /\ r[i] = p /\ r[j] = q
    BY <1>7, <1>8, <1>11 DEF Before
  <2>2. PICK a \in 1 .. L, b \in 1 .. L : a < b /\ list[a] = r[i] /\ list[b] = r[j]
    BY <1>7, <1>8, <2>1
  <2> QED BY <1>1, <2>1, <2>2 DEF Before
<1> QED BY <1>7, <1>9, <1>10, <1>11

LEMMA FilterEmpty == ASSUME NEW path PROVE Filter(path, <<>>) = <<>>
<1> DEFINE list == <<>>
<1>1. list \in Seq(Providers) /\ Len(list) = 0
  OBVIOUS
<1> HIDE DEF list
<1>2. PICK f \in [0 .. Len(list) -> Seq(Providers)] : Loop(f, path, list) /\ Filter(path, list) = f[Len(list)]
  BY <1>1, FilterLoop
<1> QED BY <1>1, <1>2 DEF Loop, list

----------------------------------------------------------------------------
(* Configurations *)

LEMMA ConfigParts ==
    ASSUME NEW c \in Config
    PROVE  /\ c.provs \in Lists /\ c.path \in Selections /\ c.set \in Settings
           /\ c = [provs |-> c.provs, path |-> c.path, set |-> c.set]
BY DEF Config

LEMMA ConfigMade ==
    ASSUME NEW provs \in Lists, NEW path \in Selections, NEW set \in Settings
    PROVE  [provs |-> provs, path |-> path, set |-> set] \in Config
BY DEF Config

LEMMA RuntimeParts ==
    ASSUME NEW c \in Config
    PROVE  Runtime(c) \in Option /\ Runtime(c).provs = c.provs /\ Runtime(c).set = c.set
BY ConfigParts DEF Runtime, Option

LEMMA ProviderChangeParts ==
    ASSUME NEW c \in Config, NEW d \in ProviderChanges(c)
    PROVE  d \in Config /\ d.set = c.set
<1> DEFINE Added == {[c EXCEPT !.provs = Append(@, p)] : p \in Providers \ Set(c.provs)}
           Removed == {Without(c, i) : i \in DOMAIN c.provs}
           Changed == {Renamed(c, p, q) : p \in Set(c.provs), q \in Providers \ Set(c.provs)}
<1>1. d \in Added \/ d \in Removed \/ d \in Changed \/ d = c
  BY DEF ProviderChanges
<1>2. c.provs \in Lists /\ c.path \in Selections /\ c.set \in Settings
      /\ c = [provs |-> c.provs, path |-> c.path, set |-> c.set]
  BY ConfigParts
<1>3. CASE d \in Added
  <2>1. PICK p \in Providers \ Set(c.provs) : d = [c EXCEPT !.provs = Append(@, p)]
    BY <1>3
  <2>2. d = [provs |-> Append(c.provs, p), path |-> c.path, set |-> c.set]
    BY <1>2, <2>1
  <2>3. Append(c.provs, p) \in Lists
    BY <1>2, ListAppended
  <2> QED BY <1>2, <2>2, <2>3, ConfigMade
<1>4. CASE d \in Removed
  <2>1. PICK i \in DOMAIN c.provs : d = Without(c, i)
    BY <1>4
  <2> DEFINE provs == SubSeq(c.provs, 1, i - 1) \o SubSeq(c.provs, i + 1, Len(c.provs))
             path == IF c.path = All THEN All ELSE c.path \ {c.provs[i]}
  <2>2. provs \in Lists
    BY <1>2, ListShortened
  <2>3. path \in Selections
    BY <1>2 DEF Selections
  <2>4. d = [c EXCEPT !.provs = provs, !.path = path]
    BY <2>1 DEF Without
  <2> HIDE DEF provs, path
  <2>5. d = [provs |-> provs, path |-> path, set |-> c.set]
    BY <1>2, <2>4
  <2> QED BY <1>2, <2>2, <2>3, <2>5, ConfigMade
<1>5. CASE d \in Changed
  <2>1. PICK p \in Set(c.provs), q \in Providers \ Set(c.provs) : d = Renamed(c, p, q)
    BY <1>5
  <2> DEFINE provs == [i \in DOMAIN c.provs |-> IF c.provs[i] = p THEN q ELSE c.provs[i]]
             path == IF c.path # All /\ p \in c.path THEN (c.path \ {p}) \cup {q} ELSE c.path
  <2>2. provs \in Lists
    BY <1>2, ListRenamed
  <2>3. path \in Selections
    BY <1>2 DEF Selections
  <2>4. d = [c EXCEPT !.provs = provs, !.path = path]
    BY <2>1 DEF Renamed
  <2> HIDE DEF provs, path
  <2>5. d = [provs |-> provs, path |-> path, set |-> c.set]
    BY <1>2, <2>4
  <2> QED BY <1>2, <2>2, <2>3, <2>5, ConfigMade
<1>6. CASE d = c
  BY <1>6
<1> QED BY <1>1, <1>3, <1>4, <1>5, <1>6

\* What a candidate configuration has in common with the one it comes from.
Derived(kind, d, c) ==
    /\ kind \in {"providers", "reorder", "path"} => d.set = c.set
    /\ kind \in {"settings", "path"} => d.provs = c.provs
    /\ kind = "reorder" => Set(d.provs) = Set(c.provs)

LEMMA CandidateParts ==
    ASSUME NEW kind \in Kinds, NEW c \in Config, NEW d \in Candidates(kind, c)
    PROVE  d \in Config /\ Derived(kind, d, c)
<1>1. c.provs \in Lists /\ c.path \in Selections /\ c.set \in Settings
      /\ c = [provs |-> c.provs, path |-> c.path, set |-> c.set]
  BY ConfigParts
<1>2. CASE kind = "providers"
  <2>1. d \in ProviderChanges(c)
    BY <1>2 DEF Candidates
  <2> QED BY <1>2, <2>1, ProviderChangeParts DEF Derived
<1>3. CASE kind = "reorder"
  <2>1. d \in Reorders(c)
    BY <1>3 DEF Candidates
  <2>2. PICK l \in Lists : Set(l) = Set(c.provs) /\ d = [c EXCEPT !.provs = l]
    BY <2>1 DEF Reorders
  <2>3. d = [provs |-> l, path |-> c.path, set |-> c.set]
    BY <1>1, <2>2
  <2> QED BY <1>1, <1>3, <2>2, <2>3, ConfigMade DEF Derived
<1>4. CASE kind = "settings"
  <2>1. PICK s \in Settings : d = [c EXCEPT !.set = s]
    BY <1>4 DEF Candidates
  <2>2. d = [provs |-> c.provs, path |-> c.path, set |-> s]
    BY <1>1, <2>1
  <2> QED BY <1>1, <1>4, <2>2, ConfigMade DEF Derived
<1>5. CASE kind = "path"
  <2>1. PICK s \in Selections : d = [c EXCEPT !.path = s]
    BY <1>5 DEF Candidates
  <2>2. d = [provs |-> c.provs, path |-> s, set |-> c.set]
    BY <1>1, <2>1
  <2> QED BY <1>1, <1>5, <2>2, ConfigMade DEF Derived
<1> QED BY <1>2, <1>3, <1>4, <1>5 DEF Kinds
----------------------------------------------------------------------------
(* The inductive invariant: types *)

Addresses == {Address[s] : s \in Settings}
Pcs == {"idle", "boot", "lock", "save", "commit"} \cup Calls
Writer == [pc : Pcs, kind : Kinds \cup {None}, next : Config \cup {None}, prev : Config \cup {None},
           running : BOOLEAN, saved : BOOLEAN]
Job == [op : Ops \cup {"none"}, provs : Lists, set : Settings \cup {None}, guard : BOOLEAN,
        blame : Objects \cup {None}, old : Addresses \cup {None}]
Answer == [config : Config, list : [provs : Lists, set : Settings \cup {None}] \cup {None}]

TypedRuntime ==
    /\ options \in Option /\ config \in Object \cup {None} /\ core \in Object \cup {None}
    /\ snapshot \in Option \cup {None}
TypedState ==
    /\ ready \in BOOLEAN /\ listener \in Addresses \cup {None} /\ sockets \subseteq Addresses
    /\ status \in {"stopped", "starting", "running", "stopping", "error"}
    /\ watch \in {"none", "waiting", "polling"} /\ cancelled \in BOOLEAN /\ failing \subseteq Objects
    /\ lock \in Callers \cup {"free"} /\ reply \in {"none", "pending", "ok", "error"}
    /\ writing \in BOOLEAN /\ reading \subseteq Readers
TypedJob == job \in Job /\ (step # "none" => job.set \in Settings)
TypedApp ==
    /\ disk \in Config /\ memory \in Config /\ unsaved \in BOOLEAN
    /\ writer \in Writer /\ answer \in [Readers -> Answer \cup {None}]
    /\ writer.pc # "idle" => writer.next \in Config /\ writer.prev \in Config

----------------------------------------------------------------------------
(* The inductive invariant: the manager *)

\* Who holds the lock, for which operation, and where the operation is.
Holding ==
    \/ lock = "free" /\ step = "none" /\ job = Idle
    \/ lock = "app" /\ \/ job.op = "apply" /\ step \in {"apply", "guard", "commit", "publish", "drain"}
                       \/ job.op = "reorder" /\ step \in {"reorder", "guard", "commit"}
                       \/ job.op = "project" /\ step \in {"project", "guard", "commit", "closeOld"}
                       \/ job.op = "startWith" /\ step \in {"startWith", "start", "validate", "listen", "authenticate"}
                       \/ job.op = "start" /\ step \in {"start", "validate", "listen", "authenticate"}
                       \/ job.op = "configure" /\ step = "configure"
                       \/ job.op = "stop" /\ step \in {"stop", "drain"}
    \/ lock = "watcher" /\ job.op = "poll" /\ step = "poll"
    \/ lock = "failure" /\ job.op = "failure" /\ step \in {"failure", "drain"}
    \/ lock = "refresh" /\ job.op = "refresh" /\ step \in {"refresh", "drain"}
    \/ lock = "close" /\ job.op = "stop" /\ step \in {"stop", "drain"}

Changing == {"guard", "commit", "publish", "closeOld"}
Starting == {"validate", "listen", "authenticate"}
Rebinding == step \in {"guard", "commit"} /\ job.op = "project"

\* The watcher runs as long as there is a listener, and until it has been
\* waited for; it polls while it holds the lock.
Watching ==
    /\ watch = "polling" <=> lock = "watcher"
    /\ listener # None => watch # "none"
    /\ listener = None /\ step # "drain" => watch = "none"
    /\ cancelled => step = "drain" /\ watch # "none"

\* There is a listener exactly when the manager is running, and every socket
\* belongs to it, to the one that replaces it, or to the one to be closed.
Listening ==
    /\ Running <=> listener # None
    /\ step \in Changing => listener # None
    /\ step \in Starting \cup {"drain"} => listener = None
    /\ listener # None /\ step # "closeOld" => listener = Address[options.set]
    /\ step = "closeOld" => listener = Address[job.set]

Bound ==
    /\ listener # None /\ Rebinding => sockets = {listener, Address[job.set]}
    /\ step = "closeOld" => sockets = {listener, job.old}
    /\ listener # None /\ ~Rebinding /\ step # "closeOld" => sockets = {listener}
    /\ step = "drain" => sockets = {job.old} \ {None}
    /\ step = "authenticate" => sockets = {Address[options.set]}
    /\ listener = None /\ step \notin {"drain", "authenticate"} => sockets = {}

\* What is published is what the core runs, but for the moment in which an
\* apply has replaced the core.
Serving ==
    /\ listener # None /\ step # "closeOld" => snapshot = options
    /\ step = "closeOld" => snapshot = [provs |-> options.provs, set |-> job.set]
    /\ listener # None /\ step # "publish" => core = config /\ core.provs = Set(options.provs)
    /\ step = "publish" => core.provs = Set(job.provs)
    /\ step \in Starting => core.provs = Set(options.provs)
    /\ step \in {"listen", "authenticate"} => config = core /\ snapshot = options
    /\ step \in {"guard", "commit"} /\ job.op = "reorder" => Set(job.provs) = Set(options.provs)

----------------------------------------------------------------------------
(* The inductive invariant: the writer *)

For(c) == job.provs = c.provs /\ job.set = c.set
Asked ==
    \/ writer.pc = "apply" /\ job.op = ApplyOp /\ For(writer.next) /\ job.guard
    \/ writer.pc = "rollback" /\ job.op = ApplyOp /\ For(writer.prev) /\ ~job.guard
    \/ writer.pc = "startWith" /\ job.op = "startWith" /\ For(writer.next)
    \/ writer.pc = "configure" /\ job.op = "configure" /\ For(writer.next)
    \/ writer.pc = "restore" /\ job.op = "configure" /\ For(writer.prev)
    \/ writer.pc \in {"start", "boot"} /\ job.op = "start" /\ For(writer.next)
    \/ writer.pc \in {"unstart", "halt"} /\ job.op = "stop"

\* The App waits for the manager exactly while it holds the lock, and asked
\* for what its operation needs.
Asking ==
    /\ lock = "app" <=> reply = "pending"
    /\ reply # "none" => writer.pc \in Calls
    /\ lock = "app" => Asked

\* What the kind of the operation says of its candidate.
Kinded ==
    /\ writer.pc = "idle" => writer = Nobody
    /\ writer.pc = "boot" => writer.next = memory
    /\ writer.pc # "idle" => writer.prev = memory
    /\ writer.pc \notin {"idle", "boot"} => writer.kind \in Kinds /\ Derived(writer.kind, writer.next, memory)
    /\ writer.pc \in {"apply", "rollback", "unstart", "restore", "halt"} => writer.kind # "path"
    /\ writer.pc = "startWith" => writer.kind \in {"providers", "reorder"}
    /\ writer.pc \in {"configure", "start"} => writer.kind = "settings"
    /\ disk = IF writer.pc = "commit" THEN writer.next ELSE memory
    /\ writer.pc \in {"rollback", "halt"} => ~writer.saved
    /\ writer.pc \notin {"idle", "boot"} /\ ~writer.saved /\ writer.kind = "settings" => unsaved

\* From the commit of the manager on the readers are out.
Locked ==
    /\ writer.pc \in Pcs \ {"idle", "boot", "lock", "apply"} => writing
    /\ step \in {"commit", "publish", "closeOld"} => writing
    /\ writer.pc = "apply" /\ reply = "ok" => writing
    /\ reading # {} => ~writing /\ writer.pc # "boot"

\* Where the operation knows that the core does not run.
Stopped ==
    /\ writer.pc = "lock" /\ writer.kind # "path" => listener = None
    /\ writer.pc \in {"boot", "startWith", "start"} /\ reply # "ok" => listener = None
    /\ writer.pc \in {"configure", "restore"} => listener = None
    /\ writer.pc \in {"unstart", "halt"} /\ reply \in {"ok", "error"} => listener = None
    /\ writer.pc = "unstart" /\ writer.saved =>
          listener = None /\ reply # "error" /\ (lock = "app" => job.old = None)
    /\ writer.pc = "restore" => reply # "error"

\* Which providers the manager has.
ProvidersKept ==
    /\ writer.pc = "boot" => options = Runtime(memory)
    /\ writer.pc = "start" \/ (writer.pc = "configure" /\ reply = "ok") => options = Runtime(writer.next)
    /\ lock = "app" /\ job.op = "startWith" /\ step # "startWith" /\ listener = None => options.provs = job.provs
    /\ listener # None =>
          /\ writer.pc \in {"idle", "lock"} => options.provs = memory.provs
          /\ writer.pc = "apply" /\ reply # "ok" => options.provs = memory.provs
          /\ writer.pc \in {"apply", "startWith"} /\ reply = "ok" => options.provs = writer.next.provs
          /\ writer.pc \in {"save", "commit"} => options.provs = writer.next.provs
          /\ writer.pc = "rollback" => options.provs \in {writer.next.provs, memory.provs}
          /\ writer.pc = "rollback" /\ reply = "ok" => options.provs = memory.provs

\* Which settings the manager has, running or not.
SettingsKept ==
    /\ \/ writer.pc \in {"idle", "boot", "lock"} \/ writer.kind # "settings"
       \/ writer.pc \in {"apply", "configure"} /\ reply # "ok"
       \/ writer.pc = "restore" /\ reply = "ok"
       => unsaved \/ options.set = memory.set
    /\ writer.kind = "settings" /\ (\/ writer.pc \in {"save", "commit", "start"}
                                    \/ writer.pc \in {"apply", "configure"} /\ reply = "ok")
       => options.set = writer.next.set

\* What a reader has read is still in force.
Answers ==
    \A r \in Readers : answer[r] # None =>
       /\ r \in reading /\ answer[r].config = memory
       /\ listener # None \/ config = None
       /\ answer[r].list = None => snapshot = None \/ snapshot.provs = memory.provs
       /\ answer[r].list # None => answer[r].list.provs \in {Filter(memory.path, memory.provs), <<>>}

ManagerInv == TypedRuntime /\ TypedState /\ TypedJob /\ Holding /\ Watching /\ Listening /\ Bound /\ Serving
WriterInv == Asking /\ Kinded /\ Locked /\ Stopped /\ ProvidersKept /\ SettingsKept
IInv == ManagerInv /\ TypedApp /\ WriterInv /\ Answers

LEMMA IdleTyped == Idle \in Job
BY EmptyList DEF Idle, Request, Job

USE DEF runtime, watcher, publication, mutex, Goto, Return

----------------------------------------------------------------------------
(* A start of the process *)

\* A process starts with what is on disk.
Started(c) ==
    /\ options = Runtime(c)
    /\ config = None /\ core = None /\ ready = FALSE /\ listener = None /\ sockets = {}
    /\ status = "stopped" /\ snapshot = None
    /\ watch = "none" /\ cancelled = FALSE /\ failing = {}
    /\ lock = "free" /\ job = Idle /\ step = "none" /\ reply = "none"
    /\ writing = FALSE /\ reading = {}
    /\ disk = c /\ memory = c
    /\ writer = Boot(c) /\ answer = [r \in Readers |-> None] /\ unsaved = FALSE

LEMMA StartedInv == \A c \in Config : Started(c) => IInv
<1> SUFFICES ASSUME NEW c \in Config, Started(c) PROVE IInv
  OBVIOUS
<1>1. options \in Option
  BY RuntimeParts DEF Started
<1>2. TypedRuntime /\ TypedState /\ TypedJob
  BY <1>1, IdleTyped DEF Started, TypedRuntime, TypedState, TypedJob
<1>3. Holding /\ Watching /\ Listening /\ Bound /\ Serving
  BY DEF Started, Holding, Watching, Listening, Bound, Serving, Changing, Starting, Running
<1>4. /\ writer =
           [pc |-> "boot", kind |-> None, next |-> c, prev |-> c, running |-> FALSE, saved |-> TRUE]
  BY DEF Started, Boot, Nobody
<1>5. writer \in Writer
  BY <1>4 DEF Writer, Pcs
<1>6. TypedApp
  <2>1. answer \in [Readers -> Answer \cup {None}] /\ writer.next = c /\ writer.prev = c
        /\ unsaved \in BOOLEAN
    <3>1. answer \in [Readers -> Answer \cup {None}] /\ writer.next = c /\ writer.prev = c
      BY <1>4 DEF Started
    <3>2. unsaved \in BOOLEAN
      BY Zenon DEF Started
    <3> QED BY <3>1, <3>2
  <2> QED BY <1>5, <2>1 DEF TypedApp, Started
<1>7. Asking /\ Kinded /\ Locked /\ Stopped
  BY <1>4 DEF Started, Asking, Kinded, Locked, Stopped
<1>8. ProvidersKept /\ SettingsKept
  BY <1>4, RuntimeParts DEF Started, ProvidersKept, SettingsKept
<1>9. Answers
  BY DEF Started, Answers
<1> QED BY <1>2, <1>3, <1>6, <1>7, <1>8, <1>9 DEF IInv, ManagerInv, WriterInv

LEMMA StartedAgain == \A c \in Config : Started(c)' => IInv'
<1>1. (\A c \in Config : Started(c) => IInv)'
  BY StartedInv, PTL
<1> QED BY <1>1

LEMMA InitInv == Init => IInv
<1> SUFFICES ASSUME Init PROVE IInv
  OBVIOUS
<1>1. PICK c \in Config : /\ Valid(c) /\ ManagerInit(Runtime(c))
                          /\ disk = c /\ memory = c
                          /\ writer = Boot(c) /\ answer = [r \in Readers |-> None]
                          /\ closed = FALSE /\ unsaved = FALSE
  BY DEF Init
<1>2. Started(c)
  BY <1>1 DEF Started, ManagerInit
<1> QED BY <1>2, StartedInv

LEMMA CrashKeeps == ASSUME IInv, Crash PROVE IInv'
<1>1. PICK c \in Config : disk = c
  BY DEF IInv, TypedApp
<1>2. Started(c)'
  BY <1>1 DEF Crash, Started
<1> QED BY <1>2, StartedAgain

----------------------------------------------------------------------------
(* The manager: its part of the invariant, and what it leaves of the App's *)

\* A new projection is published while no reader has an answer, or it is the
\* one that is published already.
LEMMA NoAnswers == ASSUME IInv, writing \/ writer.pc = "boot" PROVE \A r \in Readers : answer[r] = None
BY DEF IInv, WriterInv, Locked, Answers

LEMMA EmptyAnswers == ASSUME \A r \in Readers : answer[r] = None, UNCHANGED answer PROVE Answers'
BY DEF Answers

LEMMA SameAnswers ==
    ASSUME IInv, config # None, step \in {"poll", "refresh"}, snapshot' = options,
           UNCHANGED <<config, listener, reading, memory, answer>>
    PROVE  Answers'
<1>1. ASSUME NEW r \in Readers, answer[r] # None PROVE snapshot' = snapshot
  BY <1>1 DEF IInv, ManagerInv, Serving, Answers
<1> QED BY <1>1 DEF IInv, Answers

LEMMA ApplyRefusedKeeps == ASSUME ManagerInv, ApplyRefused PROVE ManagerInv'
BY IdleTyped DEF ManagerInv, TypedRuntime, ApplyRefused, Refuse, TypedState, TypedJob, Holding,
   Watching, Listening, Running, Changing, Starting, Bound, Rebinding, Serving

LEMMA ApplyRefusedWriter ==
    ASSUME IInv, ApplyRefused, UNCHANGED appVars
    PROVE  (TypedApp /\ WriterInv /\ Answers)'
BY DEF IInv, WriterInv, TypedApp, Kinded, appVars, process, Asking, ApplyRefused, Refuse, Locked,
   ManagerInv, Stopped, Holding, Asked, ProvidersKept, SettingsKept, Answers

LEMMA ApplyPreparedKeeps == ASSUME ManagerInv, ApplyPrepared PROVE ManagerInv'
BY DEF ManagerInv, TypedRuntime, ApplyPrepared, TypedState, TypedJob, Holding, Watching, Listening,
   Running, Starting, Bound, Rebinding, Serving

LEMMA ApplyPreparedWriter ==
    ASSUME IInv, ApplyPrepared, UNCHANGED appVars
    PROVE  (TypedApp /\ WriterInv /\ Answers)'
BY DEF IInv, WriterInv, TypedApp, Kinded, appVars, process, Asking, ApplyPrepared, Asked, For, ApplyOp,
   Kinds, Locked, Stopped, ProvidersKept, SettingsKept, Answers

\* Whatever withdraws the fields leaves the rest to the drain.
LEMMA WithdrawKeeps ==
    ASSUME ManagerInv, NEW state \in {"stopping", "error"}, Withdraw(state),
           step \in {"stop", "failure", "refresh", "commit"}, step = "commit" => job.op = "apply"
    PROVE  ManagerInv'
<1>1. TypedRuntime'
  BY DEF ManagerInv, TypedRuntime, Withdraw
<1>2. TypedState'
  BY DEF ManagerInv, TypedState, Withdraw
<1>3. TypedJob'
  BY DEF ManagerInv, TypedJob, TypedState, Holding, Withdraw, Job
<1>4. Holding'
  BY DEF ManagerInv, TypedJob, Holding, Withdraw, Job
<1>5. Watching'
  BY DEF ManagerInv, Watching, Withdraw
<1>6. Listening'
  BY DEF ManagerInv, Listening, Withdraw, Running, Changing, Starting
<1>7. Bound'
  BY AddressAssumption DEF ManagerInv, Bound, Rebinding, TypedState, Addresses, Withdraw
<1>8. Serving'
  BY DEF ManagerInv, Serving, Withdraw, Starting
<1> QED BY <1>1, <1>2, <1>3, <1>4, <1>5, <1>6, <1>7, <1>8 DEF ManagerInv

LEMMA ApplyInvalidKeeps == ASSUME ManagerInv, ApplyInvalid PROVE ManagerInv'
BY WithdrawKeeps DEF ApplyInvalid

LEMMA ApplyInvalidWriter ==
    ASSUME IInv, ApplyInvalid, UNCHANGED appVars
    PROVE  (TypedApp /\ WriterInv /\ Answers)'
BY DEF IInv, WriterInv, TypedApp, Kinded, appVars, process, Asking, ApplyInvalid, Withdraw, Asked, For,
   ApplyOp, Kinds, Locked, Stopped, ProvidersKept, SettingsKept, Answers

LEMMA ApplyUncommittedKeeps == ASSUME ManagerInv, ApplyUncommitted PROVE ManagerInv'
BY IdleTyped DEF ManagerInv, TypedRuntime, ApplyUncommitted, TypedState, TypedJob, Job, Ops, Holding,
   Addresses, Watching, Listening, Running, Changing, Starting, Bound, Rebinding, Serving

LEMMA ApplyUncommittedWriter ==
    ASSUME IInv, ApplyUncommitted, UNCHANGED appVars
    PROVE  (TypedApp /\ WriterInv /\ Answers)'
BY DEF IInv, WriterInv, TypedApp, Kinded, appVars, process, Asking, ApplyUncommitted, Locked, Stopped,
   Asked, ProvidersKept, SettingsKept, Answers

LEMMA ApplyReplaceKeeps == ASSUME ManagerInv, ApplyReplace PROVE ManagerInv'
BY SetTyped DEF ManagerInv, TypedRuntime, ApplyReplace, Fresh, TypedJob, Job, Object, TypedState,
   Holding, Watching, Listening, Running, Changing, Starting, Bound, Rebinding, Serving

LEMMA ApplyReplaceWriter ==
    ASSUME IInv, ApplyReplace, UNCHANGED appVars
    PROVE  (TypedApp /\ WriterInv /\ Answers)'
BY DEF IInv, WriterInv, TypedApp, Kinded, appVars, process, Asking, ApplyReplace, Asked, For, ApplyOp,
   Kinds, Locked, Stopped, ProvidersKept, SettingsKept, Answers

LEMMA ApplyPublishKeeps == ASSUME ManagerInv, ApplyPublish PROVE ManagerInv'
BY IdleTyped DEF ManagerInv, TypedRuntime, ApplyPublish, TypedJob, Job, Option, TypedState, Ops,
   Holding, Addresses, Watching, Listening, Running, Changing, Starting, Bound, Rebinding, Serving

LEMMA ApplyPublishWriter ==
    ASSUME IInv, ApplyPublish, UNCHANGED appVars
    PROVE  (TypedApp /\ WriterInv /\ Answers)'
<1>1. TypedApp' /\ Kinded' /\ Asking' /\ Locked' /\ Stopped' /\ ProvidersKept' /\ SettingsKept'
  BY DEF IInv, WriterInv, TypedApp, Kinded, appVars, process, Asking, ApplyPublish, Locked, Stopped,
     Asked, ManagerInv, ProvidersKept, Holding, For, SettingsKept, ApplyOp
<1>7. Answers'
  <2>1. writing
    BY DEF IInv, WriterInv, Locked, ApplyPublish
  <2> QED BY <2>1, NoAnswers, EmptyAnswers DEF appVars
<1> QED BY <1>1, <1>7 DEF WriterInv

LEMMA ReorderRefusedKeeps == ASSUME ManagerInv, ReorderRefused PROVE ManagerInv'
BY IdleTyped DEF ManagerInv, TypedRuntime, ReorderRefused, Refuse, TypedState, TypedJob, Holding,
   Watching, Listening, Running, Changing, Starting, Bound, Rebinding, Serving

LEMMA ReorderRefusedWriter ==
    ASSUME IInv, ReorderRefused, UNCHANGED appVars
    PROVE  (TypedApp /\ WriterInv /\ Answers)'
BY DEF IInv, WriterInv, TypedApp, Kinded, appVars, process, Asking, ReorderRefused, Refuse, Locked,
   ManagerInv, Stopped, Holding, Asked, ProvidersKept, SettingsKept, Answers

LEMMA ReorderPreparedKeeps == ASSUME IInv, ReorderPrepared PROVE ManagerInv'
BY DEF IInv, ManagerInv, TypedRuntime, ReorderPrepared, TypedState, TypedJob, Holding, Watching,
   Listening, Running, Starting, Bound, Rebinding, Serving, WriterInv, Asking, Asked, For, ApplyOp,
   Kinded, Derived, Kinds, ProvidersKept

LEMMA ReorderPreparedWriter ==
    ASSUME IInv, ReorderPrepared, UNCHANGED appVars
    PROVE  (TypedApp /\ WriterInv /\ Answers)'
BY DEF IInv, WriterInv, TypedApp, Kinded, appVars, process, Asking, ReorderPrepared, Asked, For,
   ApplyOp, Kinds, Locked, Stopped, ProvidersKept, SettingsKept, Answers

LEMMA ReorderPublishKeeps == ASSUME ManagerInv, ReorderPublish PROVE ManagerInv'
BY IdleTyped DEF ManagerInv, TypedRuntime, ReorderPublish, TypedJob, Job, Option, TypedState, Ops,
   Holding, Addresses, Watching, Listening, Running, Changing, Starting, Bound, Rebinding, Serving

LEMMA ReorderPublishWriter ==
    ASSUME IInv, ReorderPublish, UNCHANGED appVars
    PROVE  (TypedApp /\ WriterInv /\ Answers)'
<1>1. TypedApp' /\ Kinded' /\ Asking' /\ Locked' /\ Stopped' /\ ProvidersKept' /\ SettingsKept'
  BY DEF IInv, WriterInv, TypedApp, Kinded, appVars, process, Asking, ReorderPublish, Locked, Stopped,
     Asked, ManagerInv, ProvidersKept, Holding, For, SettingsKept, ApplyOp
<1>7. Answers'
  <2>1. writing
    BY DEF IInv, WriterInv, Locked, ReorderPublish
  <2> QED BY <2>1, NoAnswers, EmptyAnswers DEF appVars
<1> QED BY <1>1, <1>7 DEF WriterInv

LEMMA ProjectRefusedKeeps == ASSUME ManagerInv, ProjectRefused PROVE ManagerInv'
BY IdleTyped DEF ManagerInv, TypedRuntime, ProjectRefused, Refuse, TypedState, TypedJob, Holding,
   Watching, Listening, Running, Changing, Starting, Bound, Rebinding, Serving

LEMMA ProjectRefusedWriter ==
    ASSUME IInv, ProjectRefused, UNCHANGED appVars
    PROVE  (TypedApp /\ WriterInv /\ Answers)'
BY DEF IInv, WriterInv, TypedApp, Kinded, appVars, process, Asking, ProjectRefused, Refuse, Locked,
   ManagerInv, Stopped, Holding, Asked, ProvidersKept, SettingsKept, Answers

LEMMA ProjectPreparedKeeps == ASSUME ManagerInv, ProjectPrepared PROVE ManagerInv'
BY DEF ManagerInv, TypedRuntime, ProjectPrepared, TypedState, TypedJob, Addresses, Holding, Watching,
   Listening, Running, Starting, Bound, Rebinding, Serving

LEMMA ProjectPreparedWriter ==
    ASSUME IInv, ProjectPrepared, UNCHANGED appVars
    PROVE  (TypedApp /\ WriterInv /\ Answers)'
BY DEF IInv, WriterInv, TypedApp, Kinded, appVars, process, Asking, ProjectPrepared, Asked, For,
   ApplyOp, Kinds, Locked, Stopped, ProvidersKept, SettingsKept, Answers

LEMMA ProjectPublishKeeps == ASSUME ManagerInv, ProjectPublish PROVE ManagerInv'
BY AddressAssumption DEF ManagerInv, TypedRuntime, ProjectPublish, TypedJob, Option, TypedState,
   Addresses, Job, Holding, Watching, Listening, Changing, Running, Starting, Bound, Rebinding, Serving

LEMMA ProjectPublishWriter ==
    ASSUME IInv, ProjectPublish, UNCHANGED appVars
    PROVE  (TypedApp /\ WriterInv /\ Answers)'
<1>1. TypedApp' /\ Kinded' /\ Asking' /\ Locked' /\ Stopped' /\ ProvidersKept' /\ SettingsKept'
  BY DEF IInv, WriterInv, TypedApp, Kinded, appVars, process, Asking, ProjectPublish, Asked, For,
     ApplyOp, Kinds, Locked, ManagerInv, Stopped, Holding, ProvidersKept, Listening, Changing,
     SettingsKept
<1>7. Answers'
  <2>1. writing
    BY DEF IInv, WriterInv, Locked, ProjectPublish
  <2> QED BY <2>1, NoAnswers, EmptyAnswers DEF appVars
<1> QED BY <1>1, <1>7 DEF WriterInv

LEMMA ProjectCloseOldKeeps == ASSUME ManagerInv, ProjectCloseOld PROVE ManagerInv'
BY IdleTyped DEF ManagerInv, TypedRuntime, ProjectCloseOld, TypedJob, Option, TypedState, Holding,
   Addresses, Watching, Listening, Running, Changing, Starting, Bound, Rebinding, Serving

LEMMA ProjectCloseOldWriter ==
    ASSUME IInv, ProjectCloseOld, UNCHANGED appVars
    PROVE  (TypedApp /\ WriterInv /\ Answers)'
BY DEF IInv, WriterInv, TypedApp, Kinded, appVars, process, Asking, ProjectCloseOld, Locked,
   ManagerInv, Stopped, Holding, Asked, ProvidersKept, ApplyOp, Derived, Kinds, SettingsKept, For,
   Answers

LEMMA BeforeCommitKeeps == ASSUME ManagerInv, BeforeCommit PROVE ManagerInv'
<1>1. TypedRuntime'
  BY DEF ManagerInv, TypedRuntime, BeforeCommit
<1>2. TypedState'
  BY DEF ManagerInv, TypedState, BeforeCommit
<1>3. TypedJob' /\ Holding'
  BY DEF ManagerInv, TypedJob, Holding, BeforeCommit
<1>4. Watching' /\ Listening'
  BY DEF ManagerInv, Watching, Listening, Running, Changing, Starting, BeforeCommit
<1>5. Bound'
  BY DEF ManagerInv, Bound, Rebinding, BeforeCommit
<1>6. Serving'
  BY DEF ManagerInv, Serving, Starting, BeforeCommit
<1> QED BY <1>1, <1>2, <1>3, <1>4, <1>5, <1>6 DEF ManagerInv

LEMMA BeforeCommitWriter ==
    ASSUME IInv, BeforeCommit, UNCHANGED appVars
    PROVE  (TypedApp /\ WriterInv /\ Answers)'
BY DEF IInv, WriterInv, TypedApp, Kinded, appVars, process, Asking, BeforeCommit, Asked, For, ApplyOp,
   Kinds, ManagerInv, Locked, Holding, Writer, Stopped, ProvidersKept, SettingsKept, Answers

LEMMA StartRefusedKeeps == ASSUME ManagerInv, StartRefused PROVE ManagerInv'
BY IdleTyped DEF ManagerInv, TypedRuntime, StartRefused, Refuse, TypedState, TypedJob, Holding,
   Watching, Listening, Running, Starting, Bound, Rebinding, Serving

LEMMA StartRefusedWriter ==
    ASSUME IInv, StartRefused, UNCHANGED appVars
    PROVE  (TypedApp /\ WriterInv /\ Answers)'
BY DEF IInv, WriterInv, TypedApp, Kinded, appVars, process, Asking, StartRefused, Refuse, Locked,
   ManagerInv, Stopped, Holding, Asked, ProvidersKept, SettingsKept, Answers

LEMMA StartWithProvidersKeeps == ASSUME ManagerInv, StartWithProviders PROVE ManagerInv'
BY DEF ManagerInv, TypedRuntime, StartWithProviders, TypedJob, Job, Option, TypedState, Holding,
   Watching, Listening, Running, Changing, Bound, Serving, Starting

LEMMA StartWithProvidersWriter ==
    ASSUME IInv, StartWithProviders, UNCHANGED appVars
    PROVE  (TypedApp /\ WriterInv /\ Answers)'
BY DEF IInv, WriterInv, TypedApp, Kinded, appVars, process, Asking, StartWithProviders, Asked, For,
   ApplyOp, Kinds, Locked, Stopped, ManagerInv, ProvidersKept, Holding, SettingsKept, Answers

LEMMA StartUnpreparedKeeps == ASSUME ManagerInv, StartUnprepared PROVE ManagerInv'
BY IdleTyped DEF ManagerInv, TypedRuntime, StartUnprepared, TypedState, TypedJob, Job, Ops, Holding,
   Addresses, Watching, Listening, Running, Changing, Bound, Serving, Starting

LEMMA StartUnpreparedWriter ==
    ASSUME IInv, StartUnprepared, UNCHANGED appVars
    PROVE  (TypedApp /\ WriterInv /\ Answers)'
BY DEF IInv, WriterInv, TypedApp, Kinded, appVars, process, Asking, StartUnprepared, Locked,
   ManagerInv, Stopped, Holding, Asked, ProvidersKept, SettingsKept, Answers

LEMMA StartReplaceKeeps == ASSUME ManagerInv, StartReplace PROVE ManagerInv'
BY SetTyped DEF ManagerInv, TypedRuntime, StartReplace, Fresh, Option, Object, TypedState, TypedJob,
   Holding, Watching, Listening, Running, Changing, Bound, Serving

LEMMA StartReplaceWriter ==
    ASSUME IInv, StartReplace, UNCHANGED appVars
    PROVE  (TypedApp /\ WriterInv /\ Answers)'
BY DEF IInv, WriterInv, TypedApp, Kinded, appVars, process, Asking, StartReplace, Asked, For, ApplyOp,
   Kinds, Locked, Stopped, ProvidersKept, SettingsKept, Answers

\* A start that is abandoned leaves no core, no listener and no watcher.
LEMMA AbandonKeeps ==
    ASSUME ManagerInv, StartAbandon, step \in Starting, sockets' = {}, snapshot' \in {snapshot, None}
    PROVE  ManagerInv'
<1>1. listener = None /\ watch = "none" /\ lock # "watcher" /\ ~cancelled
  BY DEF ManagerInv, Listening, Watching, Holding, TypedState, Starting
<1>2. TypedRuntime' /\ TypedState'
  BY DEF ManagerInv, TypedRuntime, TypedState, StartAbandon, Callers
<1>3. TypedJob' /\ Holding'
  BY IdleTyped DEF TypedJob, Holding, StartAbandon
<1>4. Watching'
  BY <1>1 DEF Watching, StartAbandon
<1>5. Listening'
  BY <1>1 DEF Listening, StartAbandon, Running, Changing, Starting
<1>6. Bound' /\ Serving'
  BY <1>1 DEF Bound, Serving, StartAbandon, Starting, Rebinding
<1> QED BY <1>2, <1>3, <1>4, <1>5, <1>6 DEF ManagerInv

LEMMA StartInvalidKeeps == ASSUME ManagerInv, StartInvalid PROVE ManagerInv'
<1>1. step \in Starting /\ listener = None
  BY DEF ManagerInv, Listening, Starting, StartInvalid
<1>2. sockets' = {}
  BY <1>1 DEF ManagerInv, Bound, Starting, StartInvalid
<1> QED BY <1>1, <1>2, AbandonKeeps DEF StartInvalid

LEMMA StartInvalidWriter ==
    ASSUME IInv, StartInvalid, UNCHANGED appVars
    PROVE  (TypedApp /\ WriterInv /\ Answers)'
BY DEF IInv, WriterInv, TypedApp, Kinded, appVars, process, Asking, StartInvalid, StartAbandon, Locked,
   ManagerInv, Stopped, Holding, Asked, ProvidersKept, SettingsKept, Answers

LEMMA StartUncommittedKeeps == ASSUME ManagerInv, StartUncommitted PROVE ManagerInv'
<1>1. step \in Starting /\ listener = None
  BY DEF ManagerInv, Listening, Starting, StartUncommitted
<1>2. sockets' = {}
  BY <1>1 DEF ManagerInv, Bound, Starting, StartUncommitted
<1> QED BY <1>1, <1>2, AbandonKeeps DEF StartUncommitted

LEMMA StartUncommittedWriter ==
    ASSUME IInv, StartUncommitted, UNCHANGED appVars
    PROVE  (TypedApp /\ WriterInv /\ Answers)'
BY DEF IInv, WriterInv, TypedApp, Kinded, appVars, process, Asking, StartUncommitted, StartAbandon,
   Locked, ManagerInv, Stopped, Holding, Asked, ProvidersKept, SettingsKept, Answers

LEMMA StartPublishKeeps == ASSUME ManagerInv, StartPublish PROVE ManagerInv'
BY DEF ManagerInv, TypedRuntime, StartPublish, TypedState, TypedJob, Holding, Watching, Listening,
   Running, Changing, Starting, Bound, Serving

LEMMA StartPublishWriter ==
    ASSUME IInv, StartPublish, UNCHANGED appVars
    PROVE  (TypedApp /\ WriterInv /\ Answers)'
<1>1. TypedApp' /\ Kinded' /\ Asking' /\ Locked' /\ Stopped' /\ ProvidersKept' /\ SettingsKept'
  BY DEF IInv, WriterInv, TypedApp, Kinded, appVars, process, Asking, StartPublish, Asked, For,
     ApplyOp, Kinds, Locked, Stopped, ProvidersKept, SettingsKept
<1>7. Answers'
  <2>1. writing \/ writer.pc = "boot"
    BY DEF IInv, ManagerInv, Holding, WriterInv, Asking, Asked, ApplyOp, Kinded, Kinds, Locked, Pcs,
       StartPublish
  <2> QED BY <2>1, NoAnswers, EmptyAnswers DEF appVars
<1> QED BY <1>1, <1>7 DEF WriterInv

LEMMA StartUnboundKeeps == ASSUME ManagerInv, StartUnbound PROVE ManagerInv'
BY IdleTyped DEF ManagerInv, TypedRuntime, StartUnbound, TypedState, TypedJob, Job, Ops, Holding,
   Addresses, Watching, Listening, Starting, Running, Changing, Bound, Serving

LEMMA StartUnboundWriter ==
    ASSUME IInv, StartUnbound, UNCHANGED appVars
    PROVE  (TypedApp /\ WriterInv /\ Answers)'
BY DEF IInv, WriterInv, TypedApp, Kinded, appVars, process, Asking, StartUnbound, Locked, ManagerInv,
   Stopped, Holding, Asked, ProvidersKept, SettingsKept, Answers

LEMMA StartBindKeeps == ASSUME ManagerInv, StartBind PROVE ManagerInv'
BY DEF ManagerInv, TypedRuntime, StartBind, TypedState, Option, Addresses, TypedJob, Holding, Watching,
   Listening, Running, Changing, Starting, Bound, Serving

LEMMA StartBindWriter ==
    ASSUME IInv, StartBind, UNCHANGED appVars
    PROVE  (TypedApp /\ WriterInv /\ Answers)'
BY DEF IInv, WriterInv, TypedApp, Kinded, appVars, process, Asking, StartBind, Asked, For, ApplyOp,
   Kinds, Locked, Stopped, ProvidersKept, SettingsKept, Answers

LEMMA StartUnauthenticatedKeeps == ASSUME ManagerInv, StartUnauthenticated PROVE ManagerInv'
<1>1. step \in Starting /\ listener = None
  BY DEF ManagerInv, Listening, Starting, StartUnauthenticated
<1>2. sockets' = {}
  BY <1>1 DEF ManagerInv, Bound, Starting, StartUnauthenticated
<1> QED BY <1>1, <1>2, AbandonKeeps DEF StartUnauthenticated

LEMMA StartUnauthenticatedWriter ==
    ASSUME IInv, StartUnauthenticated, UNCHANGED appVars
    PROVE  (TypedApp /\ WriterInv /\ Answers)'
BY DEF IInv, WriterInv, TypedApp, Kinded, appVars, process, Asking, StartUnauthenticated, StartAbandon,
   Locked, ManagerInv, Stopped, Holding, Asked, ProvidersKept, SettingsKept, Answers

LEMMA StartRunKeeps == ASSUME ManagerInv, StartRun PROVE ManagerInv'
<1>1. TypedRuntime' /\ TypedState'
  BY IdleTyped, AddressAssumption DEF ManagerInv, TypedRuntime, StartRun, TypedState, Option, Job,
     TypedJob, Holding, Addresses, Callers
<1>3. TypedJob' /\ Holding'
  BY IdleTyped DEF TypedJob, StartRun, Holding
<1>5. Watching' /\ Listening' /\ Bound' /\ Serving'
  BY AddressAssumption DEF ManagerInv, Watching, StartRun, TypedRuntime, Option, Listening, Running,
     Starting, Bound, Rebinding, Serving
<1> QED BY <1>1, <1>3, <1>5 DEF ManagerInv

LEMMA StartRunWriter ==
    ASSUME IInv, StartRun, UNCHANGED appVars
    PROVE  (TypedApp /\ WriterInv /\ Answers)'
BY DEF IInv, WriterInv, TypedApp, Kinded, appVars, process, Asking, StartRun, ManagerInv, Locked,
   Holding, Asked, ApplyOp, Kinds, Stopped, ProvidersKept, Listening, For, Starting, SettingsKept,
   Answers

LEMMA ConfigureWhenStoppedKeeps == ASSUME ManagerInv, ConfigureWhenStopped PROVE ManagerInv'
BY IdleTyped DEF ManagerInv, TypedRuntime, ConfigureWhenStopped, TypedJob, Job, Option, TypedState,
   Ops, Holding, Addresses, Watching, Listening, Running, Changing, Bound, Serving, Starting

LEMMA ConfigureWhenStoppedWriter ==
    ASSUME IInv, ConfigureWhenStopped, UNCHANGED appVars
    PROVE  (TypedApp /\ WriterInv /\ Answers)'
BY DEF IInv, WriterInv, TypedApp, Kinded, appVars, process, Asking, ConfigureWhenStopped, ManagerInv,
   Locked, Holding, Asked, ApplyOp, Kinds, Stopped, ProvidersKept, For, Runtime, SettingsKept, Answers

LEMMA StopKeeps == ASSUME ManagerInv, Stop PROVE ManagerInv'
BY WithdrawKeeps DEF Stop

LEMMA StopWriter == ASSUME IInv, Stop, UNCHANGED appVars PROVE (TypedApp /\ WriterInv /\ Answers)'
BY DEF IInv, WriterInv, TypedApp, Kinded, appVars, process, Asking, Stop, Withdraw, Asked, For,
   ApplyOp, Kinds, Locked, Stopped, ManagerInv, ProvidersKept, Holding, SettingsKept, Answers

LEMMA StopFinishKeeps == ASSUME ManagerInv, StopFinish PROVE ManagerInv'
BY IdleTyped DEF ManagerInv, TypedRuntime, StopFinish, Dismantle, Drained, TypedState, TypedJob,
   Holding, Watching, Listening, Running, Changing, Bound, Serving, Starting

LEMMA StopFinishWriter ==
    ASSUME IInv, StopFinish, UNCHANGED appVars
    PROVE  (TypedApp /\ WriterInv /\ Answers)'
BY DEF IInv, WriterInv, TypedApp, Kinded, appVars, process, Asking, StopFinish, Dismantle, Locked,
   Asked, ApplyOp, Kinds, ManagerInv, Stopped, Drained, Listening, ProvidersKept, SettingsKept, Answers

LEMMA FailFinishKeeps == ASSUME ManagerInv, FailFinish PROVE ManagerInv'
BY IdleTyped DEF ManagerInv, TypedRuntime, FailFinish, Dismantle, Drained, TypedState, TypedJob,
   Holding, Watching, Listening, Running, Changing, Bound, Serving, Starting

LEMMA FailFinishWriter ==
    ASSUME IInv, FailFinish, UNCHANGED appVars
    PROVE  (TypedApp /\ WriterInv /\ Answers)'
BY DEF IInv, WriterInv, TypedApp, Kinded, appVars, process, Asking, FailFinish, Dismantle, Locked,
   ManagerInv, Stopped, Drained, Holding, Asked, ProvidersKept, SettingsKept, Answers

LEMMA AsyncCurrentKeeps == ASSUME ManagerInv, AsyncCurrent PROVE ManagerInv'
BY WithdrawKeeps DEF AsyncCurrent

LEMMA AsyncCurrentWriter ==
    ASSUME IInv, AsyncCurrent, UNCHANGED appVars
    PROVE  (TypedApp /\ WriterInv /\ Answers)'
BY DEF IInv, WriterInv, TypedApp, Kinded, appVars, process, Asking, AsyncCurrent, Withdraw, Asked,
   Kinds, Locked, Stopped, ManagerInv, ProvidersKept, Holding, SettingsKept, Answers

LEMMA AsyncStaleKeeps == ASSUME ManagerInv, AsyncStale PROVE ManagerInv'
BY IdleTyped DEF ManagerInv, TypedRuntime, AsyncStale, TypedState, TypedJob, Job, Ops, Holding,
   Addresses, Watching, Listening, Running, Changing, Starting, Bound, Rebinding, Serving

LEMMA AsyncStaleWriter ==
    ASSUME IInv, AsyncStale, UNCHANGED appVars
    PROVE  (TypedApp /\ WriterInv /\ Answers)'
BY DEF IInv, WriterInv, TypedApp, Kinded, appVars, process, Asking, AsyncStale, ManagerInv, Locked,
   Holding, Stopped, ProvidersKept, SettingsKept, Answers

LEMMA PollNothingKeeps == ASSUME ManagerInv, PollNothing PROVE ManagerInv'
BY IdleTyped DEF ManagerInv, TypedRuntime, PollNothing, TypedState, TypedJob, Job, Ops, Holding,
   Addresses, Watching, Listening, Running, Changing, Starting, Bound, Rebinding, Serving

LEMMA PollNothingWriter ==
    ASSUME IInv, PollNothing, UNCHANGED appVars
    PROVE  (TypedApp /\ WriterInv /\ Answers)'
BY DEF IInv, WriterInv, TypedApp, Kinded, appVars, process, Asking, PollNothing, ManagerInv, Locked,
   Holding, Stopped, ProvidersKept, SettingsKept, Answers

LEMMA PollPublishKeeps == ASSUME ManagerInv, PollPublish PROVE ManagerInv'
BY IdleTyped DEF ManagerInv, TypedRuntime, PollPublish, TypedState, TypedJob, Job, Ops, Holding,
   Addresses, Watching, Listening, Running, Changing, Starting, Bound, Rebinding, Serving

LEMMA PollPublishWriter ==
    ASSUME IInv, PollPublish, UNCHANGED appVars
    PROVE  (TypedApp /\ WriterInv /\ Answers)'
BY SameAnswers DEF IInv, WriterInv, TypedApp, Kinded, appVars, process, Asking, PollPublish,
   ManagerInv, Locked, Holding, Stopped, ProvidersKept, SettingsKept

LEMMA PollFailKeeps == ASSUME ManagerInv, PollFail PROVE ManagerInv'
<1>1. TypedRuntime' /\ TypedJob' /\ Holding' /\ Watching' /\ Listening' /\ Bound' /\ Serving'
  BY IdleTyped DEF ManagerInv, TypedRuntime, PollFail, TypedJob, Holding, TypedState, Addresses,
     Watching, Listening, Running, Changing, Starting, Bound, Rebinding, Serving
<1>2. TypedState'
  <2>1. config.id \in Objects
    BY DEF ManagerInv, TypedRuntime, Object, PollFail
  <2> QED BY <2>1 DEF ManagerInv, TypedState, PollFail
<1> QED BY <1>1, <1>2 DEF ManagerInv

LEMMA PollFailWriter ==
    ASSUME IInv, PollFail, UNCHANGED appVars
    PROVE  (TypedApp /\ WriterInv /\ Answers)'
BY DEF IInv, WriterInv, TypedApp, Kinded, appVars, process, Asking, PollFail, ManagerInv, Locked,
   Holding, Stopped, ProvidersKept, SettingsKept, Answers

LEMMA RefreshRefusedKeeps == ASSUME ManagerInv, RefreshRefused PROVE ManagerInv'
BY IdleTyped DEF ManagerInv, TypedRuntime, RefreshRefused, Refuse, TypedState, TypedJob, Holding,
   Watching, Listening, Running, Changing, Starting, Bound, Rebinding, Serving

LEMMA RefreshRefusedWriter ==
    ASSUME IInv, RefreshRefused, UNCHANGED appVars
    PROVE  (TypedApp /\ WriterInv /\ Answers)'
BY DEF IInv, WriterInv, TypedApp, Kinded, appVars, process, Asking, RefreshRefused, Refuse, Locked,
   ManagerInv, Stopped, Holding, ProvidersKept, SettingsKept, Answers

LEMMA RefreshPublishKeeps == ASSUME ManagerInv, RefreshPublish PROVE ManagerInv'
BY IdleTyped DEF ManagerInv, TypedRuntime, RefreshPublish, TypedState, TypedJob, Job, Ops, Holding,
   Addresses, Watching, Listening, Running, Changing, Starting, Bound, Rebinding, Serving

LEMMA RefreshPublishWriter ==
    ASSUME IInv, RefreshPublish, UNCHANGED appVars
    PROVE  (TypedApp /\ WriterInv /\ Answers)'
BY SameAnswers DEF IInv, WriterInv, TypedApp, Kinded, appVars, process, Asking, RefreshPublish,
   ManagerInv, Locked, Holding, Stopped, ProvidersKept, SettingsKept

LEMMA RefreshFailKeeps == ASSUME ManagerInv, RefreshFail PROVE ManagerInv'
BY WithdrawKeeps DEF RefreshFail

LEMMA RefreshFailWriter ==
    ASSUME IInv, RefreshFail, UNCHANGED appVars
    PROVE  (TypedApp /\ WriterInv /\ Answers)'
BY DEF IInv, WriterInv, TypedApp, Kinded, appVars, process, Asking, RefreshFail, Withdraw, Asked,
   Kinds, Locked, Stopped, ManagerInv, ProvidersKept, Holding, SettingsKept, Answers

----------------------------------------------------------------------------
(* The lock of the manager is taken, the watcher ends *)

LEMMA PollTryKeeps == ASSUME IInv, PollTry PROVE ManagerInv'
BY DEF IInv, ManagerInv, TypedRuntime, PollTry, Acquire, TypedState, Callers, TypedJob, Request,
   Option, Ops, Job, Holding, Idle, Watching, Listening, Running, Changing, Starting, Bound, Rebinding,
   Serving

LEMMA PollTryWriter == ASSUME IInv, PollTry, UNCHANGED appVars PROVE (TypedApp /\ WriterInv /\ Answers)'
BY DEF IInv, WriterInv, TypedApp, Kinded, appVars, process, Asking, PollTry, Acquire, Locked, Stopped,
   ProvidersKept, SettingsKept, Answers

LEMMA WatchExitKeeps == ASSUME IInv, WatchExit PROVE ManagerInv'
<1>1. TypedRuntime'
  BY DEF IInv, ManagerInv, TypedRuntime, WatchExit
<1>2. TypedState'
  BY DEF IInv, ManagerInv, TypedState, WatchExit
<1>3. TypedJob' /\ Holding'
  BY DEF IInv, ManagerInv, TypedJob, WatchExit, Holding
<1>4. Watching'
  BY DEF IInv, ManagerInv, Watching, Listening, TypedState, WatchExit
<1>5. Listening' /\ Bound' /\ Serving'
  BY DEF IInv, ManagerInv, WatchExit, Listening, Running, Bound, Rebinding, Serving
<1> QED BY <1>1, <1>2, <1>3, <1>4, <1>5 DEF ManagerInv

LEMMA WatchExitWriter ==
    ASSUME IInv, WatchExit, UNCHANGED appVars
    PROVE  (TypedApp /\ WriterInv /\ Answers)'
BY DEF IInv, WriterInv, TypedApp, Kinded, appVars, process, Asking, WatchExit, Asked, For, ApplyOp,
   Kinds, Locked, Stopped, ProvidersKept, SettingsKept, Answers

LEMMA RefreshAcquireKeeps == ASSUME IInv, RefreshAcquire PROVE ManagerInv'
BY DEF IInv, ManagerInv, TypedRuntime, RefreshAcquire, Acquire, TypedState, Callers, TypedJob, Request,
   Option, Ops, Job, Holding, Idle, Watching, Listening, Running, Changing, Starting, Bound, Rebinding,
   Serving

LEMMA RefreshAcquireWriter ==
    ASSUME IInv, RefreshAcquire, UNCHANGED appVars
    PROVE  (TypedApp /\ WriterInv /\ Answers)'
BY DEF IInv, WriterInv, TypedApp, Kinded, appVars, process, Asking, RefreshAcquire, Acquire, Locked,
   Stopped, ProvidersKept, SettingsKept, Answers

LEMMA CloseAcquireKeeps == ASSUME IInv, CloseAcquire PROVE ManagerInv'
BY DEF IInv, ManagerInv, TypedRuntime, CloseAcquire, Acquire, TypedState, Callers, TypedJob, Request,
   Option, Ops, Job, Holding, Idle, Watching, Listening, Running, Changing, Starting, Bound, Rebinding,
   Serving

LEMMA CloseAcquireWriter ==
    ASSUME IInv, CloseAcquire, UNCHANGED <<disk, memory, writer, answer, unsaved>>
    PROVE  (TypedApp /\ WriterInv /\ Answers)'
BY DEF IInv, WriterInv, TypedApp, Kinded, appVars, process, Asking, CloseAcquire, Acquire, Locked,
   Stopped, ProvidersKept, SettingsKept, Answers

LEMMA AsyncAcquireKeeps == ASSUME IInv, NEW o \in Objects, AsyncAcquire(o) PROVE ManagerInv'
BY DEF IInv, ManagerInv, TypedRuntime, AsyncAcquire, Acquire, TypedState, Callers, TypedJob, Request,
   Option, Ops, Job, Holding, Idle, Watching, Listening, Running, Changing, Starting, Bound, Rebinding,
   Serving

LEMMA AsyncAcquireWriter ==
    ASSUME IInv, NEW o \in Objects, AsyncAcquire(o), UNCHANGED appVars
    PROVE  (TypedApp /\ WriterInv /\ Answers)'
BY DEF IInv, WriterInv, TypedApp, Kinded, appVars, process, Asking, AsyncAcquire, Acquire, Locked,
   Stopped, ProvidersKept, SettingsKept, Answers

----------------------------------------------------------------------------
(* The writer *)

\* What only concerns the App leaves the manager alone.
LEMMA ManagerFrame ==
    ASSUME ManagerInv, UNCHANGED <<options, config, core, ready, listener, sockets, status, snapshot>>,
           UNCHANGED <<watch, cancelled, failing>>, UNCHANGED <<lock, job, step>>,
           reply' \in {"none", "pending", "ok", "error"}, writing' \in BOOLEAN,
           reading' \subseteq Readers
    PROVE  ManagerInv'
<1>1. TypedRuntime' /\ TypedState' /\ TypedJob' BY DEF ManagerInv, TypedRuntime, TypedState, TypedJob
<1>2. Holding' /\ Watching' BY DEF ManagerInv, Holding, Watching
<1>3. Listening' /\ Bound' BY DEF ManagerInv, Listening, Running, Bound, Rebinding
<1>4. Serving' BY DEF ManagerInv, Serving
<1> QED BY <1>1, <1>2, <1>3, <1>4 DEF ManagerInv

LEMMA BeginKeeps == ASSUME IInv, NEW kind \in Kinds, Begin(kind) PROVE IInv'
<1>1. PICK c \in Candidates(kind, memory) :
          writer' = [pc |-> IF status = "running" /\ kind # "path" THEN "apply" ELSE "lock",
                     kind |-> kind, next |-> c, prev |-> memory,
                     running |-> status = "running", saved |-> TRUE]
  BY DEF Begin
<1>2. c \in Config /\ Derived(kind, c, memory)
  BY CandidateParts DEF IInv, TypedApp
<1>3. writer = Nobody /\ UNCHANGED <<managerVars, disk, memory, answer, process>>
  BY DEF Begin
<1> DEFINE pc == IF status = "running" /\ kind # "path" THEN "apply" ELSE "lock"
           running == status = "running"
<1>4. running \in BOOLEAN
  OBVIOUS
<1>5. /\ pc \in {"apply", "lock"}
      /\ pc = "apply" => kind # "path"
      /\ pc = "lock" => kind = "path" \/ status # "running"
  OBVIOUS
<1>6. writer' =
        [pc |-> pc, kind |-> kind, next |-> c, prev |-> memory, running |-> running, saved |-> TRUE]
  BY <1>1
<1>7. ManagerInv'
  BY <1>3, ManagerFrame DEF IInv, ManagerInv, TypedState, managerVars
<1> HIDE DEF pc, running
<1>8. /\ writer'.pc = pc /\ writer'.kind = kind /\ writer'.next = c /\ writer'.prev = memory
      /\ writer'.saved = TRUE /\ writer.pc = "idle"
  BY <1>3, <1>6 DEF Nobody
<1>9. TypedApp'
  <2>1. writer' \in Writer
    <3>1. memory \in Config /\ pc \in Pcs /\ kind \in Kinds
      BY <1>5 DEF IInv, TypedApp, Pcs, Calls
    <3> QED BY <1>2, <1>4, <1>6, <3>1 DEF Writer
  <2> QED BY <1>2, <1>3, <1>8, <2>1 DEF IInv, TypedApp, process
<1>10. Asking'
  BY <1>2, <1>3, <1>5, <1>8 DEF IInv, WriterInv, Asking, Calls, managerVars
<1>11. Kinded'
  BY <1>2, <1>3, <1>5, <1>8 DEF IInv, WriterInv, Kinded
<1>12. Locked'
  BY <1>2, <1>3, <1>5, <1>8 DEF IInv, WriterInv, Locked, Asking, Calls, managerVars
<1>13. Stopped'
  BY <1>2, <1>3, <1>5, <1>8 DEF IInv, ManagerInv, Stopped, Listening, managerVars, Running
<1>14. ProvidersKept'
  BY <1>2, <1>3, <1>5, <1>8 DEF IInv, WriterInv, ProvidersKept, Asking, Calls, managerVars
<1>15. SettingsKept'
  BY <1>2, <1>3, <1>5, <1>8 DEF IInv, WriterInv, SettingsKept, Asking, Calls, process, managerVars
<1>16. Answers'
  BY <1>2, <1>3, <1>5, <1>8 DEF IInv, Answers, managerVars
<1> QED BY <1>7, <1>9, <1>10, <1>11, <1>12, <1>13, <1>14, <1>15, <1>16 DEF IInv, WriterInv

\* An operation ends with the configuration there was before.
LEMMA EndKeeps ==
    ASSUME IInv, ThenEnd, reply' = "none", lock # "app", disk = memory,
           unsaved \/ options.set = memory.set, listener # None => options.provs = memory.provs
    PROVE  IInv'
<1>1. /\ writer' = Nobody /\ writing' = FALSE
      /\ UNCHANGED <<runtime, watcher, lock, job, step, reading, disk, memory, answer, process>>
  BY DEF ThenEnd, End
<1>2. step \notin {"guard", "commit", "publish", "closeOld"}
  BY DEF IInv, ManagerInv, Holding
<1>3. ManagerInv'
  BY <1>1, ManagerFrame DEF IInv, ManagerInv, TypedState
<1>4. TypedApp'
  <2>1. Nobody \in Writer
    BY DEF Nobody, Writer, Pcs
  <2> QED BY <1>1, <2>1 DEF IInv, TypedApp, process, Nobody
<1>5. Asking' /\ Kinded'
  BY <1>1 DEF Asking, Kinded, Nobody
<1>6. Locked' /\ Stopped'
  BY <1>1, <1>2 DEF Locked, Stopped, Nobody
<1>7. ProvidersKept' /\ SettingsKept'
  BY <1>1 DEF ProvidersKept, SettingsKept, Nobody, process
<1>8. Answers'
  BY <1>1 DEF IInv, Answers
<1> QED BY <1>3, <1>4, <1>5, <1>6, <1>7, <1>8 DEF IInv, WriterInv

LEMMA LockPublicationKeeps == ASSUME IInv, LockPublication PROVE IInv'
BY ManagerFrame DEF IInv, LockPublication, ManagerInv, TypedState, TypedApp, Writer, Pcs, Calls, Move,
   process, WriterInv, Asking, Kinded, Kinds, Locked, Stopped, ProvidersKept, Derived, SettingsKept,
   Answers

\* Each call into the manager asks for what the operation needs.
LEMMA CallParts ==
    ASSUME IInv, writer.pc \in Calls, lock = "free", job' = Call, UNCHANGED writer
    PROVE  /\ Asked' /\ Call \in Job /\ Call.set \in Settings /\ Call.old = None
           /\ Call.op \in {"apply", "reorder", "project", "startWith", "start", "configure", "stop"}
           /\ Call.op \in {"reorder", "project"} => writer.pc \in {"apply", "rollback"}
<1>1. /\ writer.next \in Config /\ writer.prev \in Config
      /\ writer.pc \in {"apply", "rollback"} => writer.kind \in {"providers", "reorder", "settings"}
  BY DEF IInv, TypedApp, WriterInv, Kinded, Kinds, Calls
<1>2. /\ writer.next.provs \in Lists /\ writer.next.set \in Settings
      /\ writer.prev.provs \in Lists /\ writer.prev.set \in Settings
  BY <1>1, ConfigParts
<1>3. writer.pc \in {"apply", "rollback"} => ApplyOp \in {"apply", "reorder", "project"}
  BY <1>1 DEF ApplyOp
<1>4. ASSUME NEW op \in Ops, NEW c \in {writer.next, writer.prev}, NEW guard \in BOOLEAN,
             Call = Ask(op, c, guard)
      PROVE  /\ Call \in Job /\ Call.set \in Settings /\ Call.old = None /\ Call.op = op
             /\ job'.op = op /\ job'.provs = c.provs /\ job'.set = c.set /\ job'.guard = guard
  BY <1>2, <1>4 DEF Ask, Request, Job
<1>5. CASE writer.pc = "apply"
  <2>1. Call = Ask(ApplyOp, writer.next, TRUE) /\ ApplyOp \in Ops
    BY <1>3, <1>5 DEF Call, Ops
  <2> HIDE DEF Call
  <2> QED BY <1>3, <1>4, <1>5, <2>1 DEF Asked, For, ApplyOp
<1>6. CASE writer.pc = "rollback"
  <2>1. Call = Ask(ApplyOp, writer.prev, FALSE) /\ ApplyOp \in Ops
    BY <1>3, <1>6 DEF Call, Ops
  <2> QED BY <1>3, <1>4, <1>6, <2>1 DEF Asked, For, ApplyOp
<1>7. CASE writer.pc \in {"startWith", "configure", "start", "boot"}
  <2>1. PICK op \in {"startWith", "configure", "start"} :
           /\ Call = Ask(op, writer.next, FALSE)
           /\ op = IF writer.pc = "boot" THEN "start" ELSE writer.pc
    BY <1>7 DEF Call
  <2> QED BY <1>4, <1>7, <2>1 DEF Asked, For, Ops
<1>8. CASE writer.pc \in {"restore", "unstart", "halt"}
  <2>1. PICK op \in {"configure", "stop"} :
           Call = Ask(op, writer.prev, FALSE) /\ (op = "configure" <=> writer.pc = "restore")
    BY <1>8 DEF Call
  <2> QED BY <1>4, <1>8, <2>1 DEF Asked, For, Ops
<1> QED BY <1>5, <1>6, <1>7, <1>8 DEF Calls

LEMMA EnterKeeps == ASSUME IInv, Enter PROVE IInv'
<1>1. /\ writer.pc \in Calls /\ reply = "none" /\ lock = "free" /\ lock' = "app"
      /\ job' = Call /\ step' = Call.op /\ reply' = "pending"
      /\ UNCHANGED <<runtime, watcher, publication, appVars>>
  BY DEF Enter, Acquire
<1>2. /\ Asked' /\ Call \in Job /\ Call.set \in Settings /\ Call.old = None
      /\ Call.op \in {"apply", "reorder", "project", "startWith", "start", "configure", "stop"}
  BY <1>1, CallParts DEF appVars
<1>3. step = "none"
  BY <1>1 DEF IInv, ManagerInv, Holding
<1>4. TypedRuntime'
  BY <1>1 DEF IInv, ManagerInv, TypedRuntime
<1>5. TypedState'
  BY <1>1 DEF IInv, ManagerInv, TypedState, Callers
<1>6. TypedJob' /\ Holding'
  BY <1>1, <1>2 DEF TypedJob, Holding
<1>7. Watching'
  BY <1>1, <1>2, <1>3 DEF IInv, ManagerInv, Watching
<1>8. Listening'
  BY <1>1, <1>2, <1>3 DEF IInv, ManagerInv, Listening, Running, Changing, Starting
<1>9. Bound'
  BY <1>1, <1>2, <1>3 DEF IInv, ManagerInv, Bound, Rebinding
<1>10. Serving'
  BY <1>1, <1>2, <1>3 DEF IInv, ManagerInv, Serving, Starting
<1>11. TypedApp'
  BY <1>1 DEF IInv, TypedApp, appVars, process
<1>12. Asking' /\ Kinded'
  BY <1>1, <1>2 DEF IInv, WriterInv, Asking, Kinded, appVars, process
<1>13. Locked'
  BY <1>1, <1>2, <1>3 DEF IInv, WriterInv, Locked, appVars
<1>14. Stopped'
  BY <1>1, <1>2 DEF IInv, WriterInv, Stopped, appVars
<1>15. ProvidersKept'
  BY <1>1, <1>2, <1>3 DEF IInv, WriterInv, ProvidersKept, appVars
<1>16. SettingsKept'
  BY <1>1, <1>2 DEF IInv, WriterInv, SettingsKept, appVars, process
<1>17. Answers'
  BY <1>1 DEF IInv, Answers, appVars
<1> QED BY <1>4, <1>5, <1>6, <1>7, <1>8, <1>9, <1>10, <1>11, <1>12, <1>13, <1>14, <1>15, <1>16, <1>17
        DEF IInv, ManagerInv, WriterInv

LEMMA AppliedKeeps == ASSUME IInv, Applied PROVE IInv'
BY ManagerFrame DEF IInv, Applied, Took, Then, ManagerInv, TypedState, TypedApp, Writer, Pcs, Move,
   process, WriterInv, Asking, Kinded, Locked, Stopped, ProvidersKept, Runtime, SettingsKept, Answers

LEMMA ConfiguredKeeps == ASSUME IInv, Configured PROVE IInv'
BY ManagerFrame DEF IInv, Configured, Took, Then, ManagerInv, TypedState, TypedApp, Writer, Pcs, Calls,
   Move, process, WriterInv, Asking, Kinded, Locked, Stopped, ProvidersKept, SettingsKept, Answers

LEMMA ApplyFailedKeeps == ASSUME IInv, ApplyFailed PROVE IInv'
<1>1. ThenEnd /\ reply' = "none" /\ reply \in {"ok", "error"} /\ lock # "app" /\ disk = memory
  BY DEF IInv, WriterInv, Asking, Kinded, ApplyFailed, Took
<1>2. listener # None => options.provs = memory.provs
  BY DEF IInv, WriterInv, Stopped, Kinded, ProvidersKept, ApplyFailed, Took
<1>3. unsaved \/ options.set = memory.set
  BY DEF IInv, WriterInv, Kinded, SettingsKept, ApplyFailed, Took
<1> QED BY <1>1, <1>2, <1>3, EndKeeps

LEMMA StartFailedKeeps == ASSUME IInv, StartFailed PROVE IInv'
BY ManagerFrame DEF IInv, StartFailed, Took, Then, ManagerInv, TypedState, TypedApp, Writer, Pcs,
   Calls, Move, process, WriterInv, Asking, Kinded, Locked, Stopped, ProvidersKept, SettingsKept,
   Answers

LEMMA UnstartedKeeps == ASSUME IInv, Unstarted PROVE IInv'
BY ManagerFrame DEF IInv, Unstarted, Took, Then, ManagerInv, TypedState, TypedApp, Writer, Pcs, Calls,
   Move, process, WriterInv, Asking, Kinded, Locked, Stopped, ProvidersKept, SettingsKept, Answers

LEMMA RestoredKeeps == ASSUME IInv, Restored PROVE IInv'
<1>1. ThenEnd /\ reply' = "none" /\ reply \in {"ok", "error"} /\ lock # "app" /\ disk = memory
  BY DEF IInv, WriterInv, Asking, Kinded, Restored, Took
<1>2. listener # None => options.provs = memory.provs
  BY DEF IInv, WriterInv, Stopped, Kinded, ProvidersKept, Restored, Took
<1>3. unsaved \/ options.set = memory.set
  BY DEF IInv, WriterInv, Kinded, SettingsKept, Restored, Took
<1> QED BY <1>1, <1>2, <1>3, EndKeeps

LEMMA NotRestoredKeeps == ASSUME IInv, NotRestored PROVE IInv'
<1>1. writer.pc = "unstart" /\ ~writer.saved /\ reply = "error"
  BY DEF IInv, WriterInv, Stopped, NotRestored, Took
<1>2. Took("error", {"unstart", "restore"}) /\ Then("halt")
  BY <1>1 DEF NotRestored
<1>3. ManagerInv'
  BY <1>2, ManagerFrame DEF IInv, Took, Then, ManagerInv, TypedState
<1>4. TypedApp'
  BY <1>1, <1>2 DEF IInv, TypedApp, Writer, Pcs, Calls, process, Then, Move
<1>5. Asking'
  BY <1>1, <1>2 DEF IInv, WriterInv, Asking, Took, Then
<1>6. Kinded'
  BY <1>1, <1>2 DEF IInv, WriterInv, Kinded, process, Then, Move
<1>7. Locked'
  BY <1>1, <1>2 DEF IInv, WriterInv, Locked, TypedApp, Writer, Then
<1>8. Stopped'
  BY <1>1, <1>2 DEF Stopped, Took, Then, Move
<1>9. ProvidersKept'
  BY <1>1, <1>2 DEF IInv, WriterInv, ProvidersKept, Then, Move
<1>10. SettingsKept'
  BY <1>1, <1>2 DEF IInv, WriterInv, SettingsKept, process, Then, Move
<1>11. Answers'
  BY <1>1, <1>2 DEF IInv, Answers, Then
<1> QED BY <1>3, <1>4, <1>5, <1>6, <1>7, <1>8, <1>9, <1>10, <1>11 DEF IInv, WriterInv

LEMMA RolledBackKeeps == ASSUME IInv, RolledBack PROVE IInv'
<1>1. ThenEnd /\ reply' = "none" /\ reply \in {"ok", "error"} /\ lock # "app" /\ disk = memory
  BY DEF IInv, WriterInv, Asking, Kinded, RolledBack, Took
<1>2. listener # None => options.provs = memory.provs
  BY DEF IInv, WriterInv, Stopped, Kinded, ProvidersKept, RolledBack, Took
<1>3. unsaved \/ options.set = memory.set
  BY DEF IInv, WriterInv, Kinded, SettingsKept, RolledBack, Took
<1> QED BY <1>1, <1>2, <1>3, EndKeeps

LEMMA NotRolledBackKeeps == ASSUME IInv, NotRolledBack PROVE IInv'
BY ManagerFrame DEF IInv, NotRolledBack, Took, Then, ManagerInv, TypedState, TypedApp, Writer, Pcs,
   Calls, Move, process, WriterInv, Asking, Kinded, Locked, Stopped, ProvidersKept, SettingsKept,
   Answers

LEMMA HaltedKeeps == ASSUME IInv, Halted PROVE IInv'
<1>1. ThenEnd /\ reply' = "none" /\ reply \in {"ok", "error"} /\ lock # "app" /\ disk = memory
  BY DEF IInv, WriterInv, Asking, Kinded, Halted, Took
<1>2. listener # None => options.provs = memory.provs
  BY DEF IInv, WriterInv, Stopped, Kinded, ProvidersKept, Halted, Took
<1>3. unsaved \/ options.set = memory.set
  BY DEF IInv, WriterInv, Kinded, SettingsKept, Halted, Took
<1> QED BY <1>1, <1>2, <1>3, EndKeeps

LEMMA BootedKeeps == ASSUME IInv, Booted PROVE IInv'
<1>1. ThenEnd /\ reply' = "none" /\ reply \in {"ok", "error"} /\ lock # "app" /\ disk = memory
  BY DEF IInv, WriterInv, Asking, Kinded, Booted, Took
<1>2. listener # None => options.provs = memory.provs
  BY DEF IInv, WriterInv, Stopped, Kinded, ProvidersKept, Runtime, Booted, Took
<1>3. unsaved \/ options.set = memory.set
  BY DEF IInv, WriterInv, Kinded, ProvidersKept, SettingsKept, Runtime, Booted, Took
<1> QED BY <1>1, <1>2, <1>3, EndKeeps

LEMMA SaveKeeps == ASSUME IInv, Save PROVE IInv'
BY ManagerFrame DEF IInv, Save, managerVars, ManagerInv, TypedState, TypedApp, Writer, Pcs, Move,
   process, WriterInv, Asking, Calls, Kinded, Locked, Stopped, ProvidersKept, SettingsKept, Answers

LEMMA SaveFailedKeeps == ASSUME IInv, SaveFailed PROVE IInv'
<1>1. ManagerInv'
  BY ManagerFrame DEF IInv, SaveFailed, End, ManagerInv, TypedState
<1>2. CASE writer.kind = "path"
  <2>1. unsaved' = unsaved
    <3>1. unsaved' = (unsaved \/ writer.kind = "settings") /\ writer.kind # "settings" /\ unsaved \in BOOLEAN
      BY <1>2 DEF SaveFailed, IInv, TypedApp
    <3> QED BY <3>1, Zenon
  <2>2. writer.pc = "save" /\ ThenEnd /\ reply' = reply
    BY <1>2, <2>1 DEF SaveFailed, ThenEnd, process
  <2>3. reply = "none" /\ lock # "app" /\ disk = memory
    BY <2>2 DEF IInv, WriterInv, Asking, Kinded, Calls
  <2>4. listener # None => options.provs = memory.provs
    BY <1>2, <2>2 DEF IInv, WriterInv, Kinded, Derived, ProvidersKept
  <2>5. unsaved \/ options.set = memory.set
    BY <1>2 DEF IInv, WriterInv, SettingsKept
  <2> QED BY <2>2, <2>3, <2>4, <2>5, EndKeeps
<1>3. CASE writer.kind # "path"
  <2>1. /\ writer.pc = "save"
        /\ writer' =
             [writer EXCEPT !.pc = IF writer.running THEN "rollback" ELSE "unstart", !.saved = FALSE]
        /\ unsaved' = (unsaved \/ writer.kind = "settings")
        /\ UNCHANGED <<options, listener, lock, job, step, reply, config, snapshot, writing, reading>>
        /\ UNCHANGED <<disk, memory, answer>>
    BY <1>3 DEF SaveFailed
  <2> DEFINE pc == IF writer.running THEN "rollback" ELSE "unstart"
  <2>2. pc \in {"rollback", "unstart"}
    OBVIOUS
  <2>3. /\ writer'.pc = pc /\ writer'.saved = FALSE /\ writer'.kind = writer.kind
        /\ writer'.next = writer.next /\ writer'.prev = writer.prev /\ writer' \in Writer
    BY <2>1, <2>2 DEF IInv, TypedApp, Writer, Pcs, Calls
  <2> HIDE DEF pc
  <2>4. TypedApp'
    BY <1>3, <2>1, <2>2, <2>3 DEF IInv, TypedApp, appVars, process
  <2>5. Asking'
    BY <1>3, <2>1, <2>2, <2>3 DEF IInv, WriterInv, Asking, Calls
  <2>6. Kinded'
    BY <1>3, <2>1, <2>2, <2>3 DEF IInv, WriterInv, Kinded
  <2>7. Locked'
    BY <1>3, <2>1, <2>2, <2>3 DEF IInv, WriterInv, Locked, Pcs
  <2>8. Stopped'
    BY <1>3, <2>1, <2>2, <2>3 DEF IInv, WriterInv, Stopped, Asking, Calls
  <2>9. ProvidersKept'
    BY <1>3, <2>1, <2>2, <2>3 DEF IInv, WriterInv, ProvidersKept, Asking, Calls
  <2>10. SettingsKept'
    BY <1>3, <2>1, <2>2, <2>3 DEF IInv, WriterInv, SettingsKept, TypedApp
  <2>11. Answers'
    BY <1>3, <2>1, <2>2, <2>3 DEF IInv, Answers, appVars, process
  <2> QED BY <1>1, <2>4, <2>5, <2>6, <2>7, <2>8, <2>9, <2>10, <2>11 DEF IInv, WriterInv
<1> QED BY <1>2, <1>3

LEMMA CommitKeeps == ASSUME IInv, Commit PROVE IInv'
<1>1. /\ writer.pc = "commit" /\ memory' = writer.next /\ writer' = Nobody /\ writing' = FALSE
      /\ unsaved' = (unsaved /\ writer.kind # "settings")
      /\ UNCHANGED <<runtime, watcher, mutex, reading, disk, answer, closed>>
  BY DEF Commit, End
<1>2. writing /\ reading = {} /\ reply = "none" /\ lock # "app" /\ disk = writer.next
  BY <1>1 DEF IInv, WriterInv, Asking, Kinded, Locked, Pcs, Calls
<1>3. step \notin {"guard", "commit", "publish", "closeOld"}
  BY <1>2 DEF IInv, ManagerInv, Holding
<1>4. ManagerInv'
  BY <1>1, ManagerFrame DEF IInv, ManagerInv, TypedState
<1>5. TypedApp'
  <2>1. Nobody \in Writer /\ writer.next \in Config /\ unsaved' \in BOOLEAN
    BY <1>1 DEF Nobody, Writer, Pcs, IInv, TypedApp
  <2> QED BY <1>1, <2>1 DEF IInv, TypedApp, Nobody
<1>6. Asking' /\ Kinded'
  BY <1>1, <1>2 DEF Asking, Kinded, Nobody
<1>7. Locked' /\ Stopped'
  BY <1>1, <1>2, <1>3 DEF Locked, Stopped, Nobody
<1>8. ProvidersKept'
  BY <1>1 DEF IInv, WriterInv, ProvidersKept, Nobody
<1>9. SettingsKept'
  BY <1>1 DEF IInv, WriterInv, Kinded, Derived, Kinds, SettingsKept, Nobody
<1>10. Answers'
  BY <1>1, <1>2 DEF IInv, Answers
<1> QED BY <1>4, <1>5, <1>6, <1>7, <1>8, <1>9, <1>10 DEF IInv, WriterInv

----------------------------------------------------------------------------
(* Readers *)

\* A step of a reader leaves the writer alone.
LEMMA WriterFrame ==
    ASSUME TypedApp /\ WriterInv, UNCHANGED <<options, listener, lock, job, step, reply, writing>>,
           UNCHANGED <<disk, memory, writer, unsaved>>,
           reading' # {} => reading # {} \/ (~writing /\ writer.pc # "boot"), 
           answer' \in [Readers -> Answer \cup {None}]
    PROVE  (TypedApp /\ WriterInv)'
<1>1. TypedApp' /\ Kinded'
  BY DEF WriterInv, TypedApp, Kinded
<1>2. Asking' /\ Locked'
  BY DEF WriterInv, Asking, Asked, For, ApplyOp, Locked
<1>3. Stopped' /\ ProvidersKept' /\ SettingsKept'
  BY DEF WriterInv, Stopped, ProvidersKept, SettingsKept
<1> QED BY <1>1, <1>2, <1>3 DEF WriterInv

LEMMA ReadKeeps == ASSUME IInv, NEW r \in Readers, Read(r) PROVE IInv'
<1>1. ManagerInv'
  BY ManagerFrame DEF IInv, ManagerInv, TypedState, Read
<1>2. (TypedApp /\ WriterInv)'
  BY WriterFrame DEF IInv, Read, Up, WriterWaits, appVars, process, TypedApp
<1>3. Answers'
  BY DEF IInv, Answers, Read, appVars
<1> QED BY <1>1, <1>2, <1>3 DEF IInv

LEMMA LeaveKeeps == ASSUME IInv, NEW r \in Readers, Leave(r) PROVE IInv'
<1>1. ManagerInv'
  BY ManagerFrame DEF IInv, ManagerInv, TypedState, Leave
<1>2. (TypedApp /\ WriterInv)'
  BY WriterFrame DEF IInv, Leave, process, TypedApp
<1>3. ASSUME NEW q \in Readers, answer'[q] # None
      PROVE  answer[q] # None /\ answer'[q] = answer[q] /\ (q \in reading => q \in reading')
  BY <1>3 DEF IInv, TypedApp, Leave
<1>4. Answers'
  BY <1>3 DEF IInv, Answers, Leave
<1> QED BY <1>1, <1>2, <1>4 DEF IInv

LEMMA ReadConfigKeeps == ASSUME IInv, NEW r \in Readers, ReadConfig(r) PROVE IInv'
<1> DEFINE read == [config |-> memory, list |-> None]
<1>1. ManagerInv'
  BY ManagerFrame DEF IInv, ManagerInv, TypedState, ReadConfig, managerVars
<1>2. read \in Answer /\ read.config = memory /\ read.list = None
  BY DEF IInv, TypedApp, Answer
<1>3. answer' = [answer EXCEPT ![r] = read] /\ UNCHANGED <<managerVars, disk, memory, writer, process>>
  BY DEF ReadConfig
<1> HIDE DEF read
<1>4. answer'[r] = read /\ \A q \in Readers \ {r} : answer'[q] = answer[q]
  BY <1>3 DEF IInv, TypedApp
<1>5. (TypedApp /\ WriterInv)'
  BY <1>2, <1>3, WriterFrame DEF IInv, managerVars, process, TypedApp
<1>6. r \in reading /\ listener # None /\ step \notin Changing \ {"guard"}
  BY DEF ReadConfig, IInv, ManagerInv, Listening, WriterInv, Locked, Changing
<1>7. snapshot.provs = memory.provs
  <2>1. snapshot = options
    BY <1>6 DEF IInv, ManagerInv, Serving, Changing
  <2>2. writer.pc \in {"idle", "lock"} \/ (writer.pc = "apply" /\ reply # "ok")
    BY <1>6 DEF IInv, WriterInv, Locked, TypedApp, Writer
  <2> QED BY <1>6, <2>1, <2>2 DEF IInv, WriterInv, ProvidersKept
<1>8. Answers'
  BY <1>2, <1>3, <1>4, <1>6, <1>7 DEF IInv, Answers, managerVars, publication
<1> QED BY <1>1, <1>5, <1>8 DEF IInv

LEMMA ReadSnapshotKeeps == ASSUME IInv, NEW r \in Readers, ReadSnapshot(r) PROVE IInv'
<1> DEFINE path == answer[r].config.path
           list == [provs |-> Filter(path, Published.provs), set |-> Published.set]
           read == [config |-> answer[r].config, list |-> list]
<1>1. ManagerInv'
  BY ManagerFrame DEF IInv, ManagerInv, TypedState, ReadSnapshot, managerVars
<1>2. /\ answer[r] # None /\ answer[r].list = None /\ answer[r] \in Answer /\ answer[r].config = memory
      /\ r \in reading /\ (listener # None \/ config = None)
      /\ snapshot = None \/ snapshot.provs = memory.provs
  BY DEF ReadSnapshot, IInv, TypedApp, Answers
<1>3. Published.provs \in {memory.provs, <<>>} /\ Published.set \in Settings \cup {None}
  BY <1>2 DEF Published, IInv, ManagerInv, TypedRuntime, Option
<1>4. memory.provs \in Lists
  BY ConfigParts DEF IInv, TypedApp
<1>5. list.provs \in {Filter(memory.path, memory.provs), <<>>} /\ list.provs \in Lists
  BY <1>2, <1>3, <1>4, FilterSelects, FilterEmpty, EmptyList
<1>6. list \in [provs : Lists, set : Settings \cup {None}]
  BY <1>3, <1>5
<1>7. answer' = [answer EXCEPT ![r].list = list]
      /\ UNCHANGED <<managerVars, disk, memory, writer, process>>
  BY DEF ReadSnapshot
<1> HIDE DEF list
<1>8. read \in Answer /\ read.config = memory /\ read.list = list
  BY <1>2, <1>6 DEF Answer
<1>9. answer' = [answer EXCEPT ![r] = read]
  <2>1. answer[r] = [config |-> answer[r].config, list |-> answer[r].list]
    BY <1>2 DEF Answer
  <2>2. [answer[r] EXCEPT !.list = list] = read
    BY <2>1
  <2> HIDE DEF read
  <2> QED BY <1>7, <2>2
<1> HIDE DEF read
<1>10. answer'[r] = read /\ \A q \in Readers \ {r} : answer'[q] = answer[q]
  BY <1>9 DEF IInv, TypedApp
<1>11. (TypedApp /\ WriterInv)'
  BY <1>7, <1>8, <1>9, WriterFrame DEF IInv, managerVars, process, TypedApp
<1>12. Answers'
  BY <1>2, <1>5, <1>7, <1>8, <1>10 DEF IInv, Answers, managerVars, publication
<1> QED BY <1>1, <1>11, <1>12 DEF IInv

----------------------------------------------------------------------------
(* Every step *)

LEMMA HolderStepKeeps == ASSUME IInv, HolderStep, UNCHANGED appVars PROVE IInv'
<1>1. ManagerInv'
  BY ApplyRefusedKeeps, ApplyPreparedKeeps, ApplyInvalidKeeps, ApplyUncommittedKeeps,
     ApplyReplaceKeeps, ApplyPublishKeeps, ReorderRefusedKeeps, ReorderPreparedKeeps,
     ReorderPublishKeeps, ProjectRefusedKeeps, ProjectPreparedKeeps, ProjectPublishKeeps,
     ProjectCloseOldKeeps, BeforeCommitKeeps, StartRefusedKeeps, StartWithProvidersKeeps,
     StartUnpreparedKeeps, StartReplaceKeeps, StartInvalidKeeps, StartUncommittedKeeps,
     StartPublishKeeps, StartUnboundKeeps, StartBindKeeps, StartUnauthenticatedKeeps, StartRunKeeps,
     ConfigureWhenStoppedKeeps, StopKeeps, StopFinishKeeps, FailFinishKeeps, AsyncCurrentKeeps,
     AsyncStaleKeeps, PollNothingKeeps, PollPublishKeeps, PollFailKeeps, RefreshRefusedKeeps,
     RefreshPublishKeeps, RefreshFailKeeps
     DEF IInv, HolderStep
<1>2. (TypedApp /\ WriterInv /\ Answers)'
  BY ApplyRefusedWriter, ApplyPreparedWriter, ApplyInvalidWriter, ApplyUncommittedWriter,
     ApplyReplaceWriter, ApplyPublishWriter, ReorderRefusedWriter, ReorderPreparedWriter,
     ReorderPublishWriter, ProjectRefusedWriter, ProjectPreparedWriter, ProjectPublishWriter,
     ProjectCloseOldWriter, BeforeCommitWriter, StartRefusedWriter, StartWithProvidersWriter,
     StartUnpreparedWriter, StartReplaceWriter, StartInvalidWriter, StartUncommittedWriter,
     StartPublishWriter, StartUnboundWriter, StartBindWriter, StartUnauthenticatedWriter,
     StartRunWriter, ConfigureWhenStoppedWriter, StopWriter, StopFinishWriter, FailFinishWriter,
     AsyncCurrentWriter, AsyncStaleWriter, PollNothingWriter, PollPublishWriter, PollFailWriter,
     RefreshRefusedWriter, RefreshPublishWriter, RefreshFailWriter
     DEF HolderStep
<1> QED BY <1>1, <1>2 DEF IInv

LEMMA EnvironmentKeeps == ASSUME IInv, Environment, UNCHANGED appVars PROVE IInv'
BY AsyncAcquireKeeps, AsyncAcquireWriter, PollTryKeeps, PollTryWriter, WatchExitKeeps, WatchExitWriter
   DEF IInv, Environment

LEMMA AppStepKeeps == ASSUME IInv, AppStep PROVE IInv'
BY LockPublicationKeeps, EnterKeeps, AppliedKeeps, ConfiguredKeeps, ApplyFailedKeeps,
   StartFailedKeeps, UnstartedKeeps, RestoredKeeps, NotRestoredKeeps, RolledBackKeeps,
   NotRolledBackKeeps, HaltedKeeps, BootedKeeps, SaveKeeps, SaveFailedKeeps, CommitKeeps
   DEF AppStep

LEMMA ReaderStepKeeps == ASSUME IInv, NEW r \in Readers, Read(r) \/ ReaderStep(r) PROVE IInv'
BY ReadKeeps, LeaveKeeps, ReadConfigKeeps, ReadSnapshotKeeps DEF ReaderStep, ReadUnavailable, ReadDone

LEMMA StutterKeeps == ASSUME IInv, UNCHANGED vars PROVE IInv'
<1>1. ManagerInv'
  BY ManagerFrame DEF IInv, ManagerInv, TypedState, vars, managerVars
<1>2. (TypedApp /\ WriterInv)'
  BY WriterFrame DEF IInv, TypedApp, vars, managerVars, appVars, process
<1>3. Answers'
  BY DEF IInv, Answers, vars, managerVars, appVars
<1> QED BY <1>1, <1>2, <1>3 DEF IInv

LEMMA NextKeeps == ASSUME IInv, [Next]_vars PROVE IInv'
<1>1. CASE \E k \in Kinds : Begin(k)
  BY <1>1, BeginKeeps
<1>2. CASE AppStep
  BY <1>2, AppStepKeeps
<1>3. CASE (HolderStep \/ Environment) /\ UNCHANGED appVars
  BY <1>3, HolderStepKeeps, EnvironmentKeeps
<1>4. CASE \E r \in Readers : Read(r) \/ ReaderStep(r)
  BY <1>4, ReaderStepKeeps
<1>5. CASE Refresh
  BY <1>5, RefreshAcquireKeeps, RefreshAcquireWriter DEF Refresh, IInv
<1>6. CASE Close
  BY <1>6, CloseAcquireKeeps, CloseAcquireWriter DEF Close, IInv
<1>7. CASE Crash
  BY <1>7, CrashKeeps
<1>8. CASE UNCHANGED vars
  BY <1>8, StutterKeeps
<1> QED BY <1>1, <1>2, <1>3, <1>4, <1>5, <1>6, <1>7, <1>8 DEF Next

\* The inductive invariant holds in every state: of the manager, what its lock,
\* listener, sockets, core and projection have to do with each other at each
\* step of each operation (internal/mihomo/manager.go); of the App, what it
\* knows of the manager at each point of a change, of its rollback and of a
\* restart (internal/gateway/app.go); and what a reader holds meanwhile.
THEOREM GatewayInvariant == Spec => []IInv
<1>1. Init => IInv
  BY InitInv
<1>2. IInv /\ [Next]_vars => IInv'
  BY NextKeeps
<1> QED BY <1>1, <1>2, PTL DEF Spec

----------------------------------------------------------------------------
(* What follows from it *)

\* Every variable has its type: the options and the persisted configuration
\* are well formed, a listener has an address of some settings, and an answer
\* was made of a configuration.
THEOREM GatewayTypes == Spec => []TypeOK
<1>1. IInv => TypeOK
  BY DEF IInv, ManagerInv, TypedRuntime, TypedState, TypedApp, TypeOK, ManagerTypeOK, Addresses, Answer
<1> QED BY <1>1, GatewayInvariant, PTL

\* What a reader is about to send lists, in order, the providers its path
\* selects in the configuration in force, or nothing when the core was
\* withdrawn while it was served: no change is published between the two
\* reads of ProxiesForToken.
THEOREM AnswersConsistent == Spec => []AnswerConsistent
<1>1. IInv => AnswerConsistent
  BY DEF IInv, Answers, AnswerConsistent
<1> QED BY <1>1, GatewayInvariant, PTL

\* Between operations the providers of gateway.json, of the App and of the
\* running core are the same, and what is published is served by the only
\* listener there is, under a watcher.
THEOREM ProvidersInAgreement == Spec => []ProvidersAgree
<1>1. ASSUME IInv PROVE ProvidersAgree
  <2>1. writer.pc # "commit" => disk = memory
    BY <1>1 DEF IInv, WriterInv, Kinded
  <2>2. ASSUME AtRest, Running
        PROVE  /\ options.provs = memory.provs /\ snapshot = options
               /\ core = config /\ core.provs = Set(memory.provs)
               /\ sockets = {listener} /\ listener = Address[options.set] /\ watch # "none"
    <3>1. listener # None /\ step = "none" /\ writer.pc = "idle"
      BY <1>1, <2>2 DEF IInv, ManagerInv, Listening, Holding, AtRest, Nobody
    <3>2. options.provs = memory.provs
      BY <1>1, <3>1 DEF IInv, WriterInv, ProvidersKept
    <3>3. snapshot = options /\ core = config /\ core.provs = Set(options.provs)
      BY <1>1, <3>1 DEF IInv, ManagerInv, Serving
    <3>4. sockets = {listener} /\ listener = Address[options.set] /\ watch # "none"
      BY <1>1, <3>1 DEF IInv, ManagerInv, Bound, Rebinding, Listening, Watching
    <3> QED BY <3>2, <3>3, <3>4
  <2> QED BY <2>1, <2>2 DEF ProvidersAgree
<1> QED BY <1>1, GatewayInvariant, PTL

\* Once nobody holds the manager's lock, a core without listener has left no
\* socket, no watcher and no state in which it counts as running.
THEOREM NothingIsLeft == Spec => []NothingLeft
<1>1. IInv => NothingLeft
  BY DEF IInv, ManagerInv, Holding, Watching, Listening, Bound, NothingLeft
<1> QED BY <1>1, GatewayInvariant, PTL

\* Whenever the publication lock admits readers, the nodes they see are those
\* of the core that runs, at an address that is bound.
THEOREM ServedWhileItIsPublic == Spec => []ServedWhilePublic
<1>1. ASSUME IInv, ~writing, Running, snapshot # None
      PROVE  core.provs = Set(snapshot.provs) /\ Address[snapshot.set] \in sockets
  <2>1. listener # None /\ step \notin {"commit", "publish", "closeOld"}
    BY <1>1 DEF IInv, ManagerInv, Listening, WriterInv, Locked
  <2>2. snapshot = options /\ core.provs = Set(options.provs) /\ listener = Address[options.set]
    BY <1>1, <2>1 DEF IInv, ManagerInv, Serving, Listening
  <2>3. listener \in sockets
    BY <1>1, <2>1 DEF IInv, ManagerInv, Bound
  <2> QED BY <2>2, <2>3
<1>2. IInv => ServedWhilePublic
  BY <1>1 DEF ServedWhilePublic
<1> QED BY <1>2, GatewayInvariant, PTL

\* Only settings that were applied and could not be saved make the core run
\* others than the configured ones.
THEOREM SettingsAreSaved == Spec => []SettingsSaved
<1>1. ASSUME IInv, ~unsaved, AtRest, Running PROVE options.set = memory.set
  <2>1. writer.pc = "idle"
    BY <1>1 DEF AtRest, Nobody
  <2> QED BY <1>1, <2>1 DEF IInv, WriterInv, SettingsKept
<1>2. IInv => SettingsSaved
  BY <1>1 DEF SettingsSaved, SettingsAgree
<1> QED BY <1>2, GatewayInvariant, PTL

\* A queued cleanup tears a configuration down only if it is the one that
\* failed, however long it waited for the lock and whatever was applied,
\* stopped or started meanwhile (failClosedAsync).
THEOREM StaleFailuresHarmless == Spec => StaleFailureHarmless
<1> DEFINE Harmless == step = "failure" /\ step' = "drain" => config # None /\ config.id = job.blame
<1>1. ASSUME IInv, [Next]_vars PROVE [Harmless]_vars
  <2>1. SUFFICES ASSUME step = "failure", step' = "drain" PROVE config # None /\ config.id = job.blame
    OBVIOUS
  <2>2. lock = "failure"
    BY <1>1, <2>1 DEF IInv, ManagerInv, Holding
  <2>3. CASE HolderStep
    BY <2>1, <2>3 DEF HolderStep, ApplyRefused, ApplyPrepared, ApplyInvalid, ApplyUncommitted,
       ApplyReplace, ApplyPublish, ReorderRefused, ReorderPrepared, ReorderPublish, ProjectRefused,
       ProjectPrepared, ProjectPublish, ProjectCloseOld, BeforeCommit, StartRefused,
       StartWithProviders, StartUnprepared, StartReplace, StartInvalid, StartUncommitted,
       StartPublish, StartUnbound, StartBind, StartUnauthenticated, StartRun, ConfigureWhenStopped,
       Stop, StopFinish, FailFinish, AsyncCurrent, AsyncStale, PollNothing, PollPublish, PollFail,
       RefreshRefused, RefreshPublish, RefreshFail, Refuse, StartAbandon, Withdraw, Dismantle,
       Drained, Current
  <2>4. CASE Environment \/ Refresh \/ Close \/ AppStep \/ Crash
    BY <2>1, <2>2, <2>4 DEF Environment, AsyncAcquire, Acquire, PollTry, WatchExit, Refresh,
       RefreshAcquire, Close,
       CloseAcquire, Crash, AppStep, LockPublication, Enter, Applied, Configured, ApplyFailed,
       StartFailed,
       Unstarted, Restored, NotRestored, RolledBack, NotRolledBack, Halted, Booted, Save, SaveFailed,
       Commit,
       Took, Then, ThenEnd, managerVars
  <2>5. CASE (\E k \in Kinds : Begin(k)) \/ (\E r \in Readers : Read(r) \/ ReaderStep(r)) \/ UNCHANGED vars
    BY <2>1, <2>5 DEF Begin, Read, ReaderStep, ReadUnavailable, ReadConfig, ReadSnapshot, ReadDone,
       Leave, vars, managerVars
  <2> QED BY <1>1, <2>3, <2>4, <2>5 DEF Next
<1>2. Spec => [][Harmless]_vars
  BY <1>1, GatewayInvariant, PTL DEF Spec
<1> QED BY <1>2 DEF StaleFailureHarmless

----------------------------------------------------------------------------
(* What the gateway promises *)

\* Only valid configurations are reached.
AllValid ==
    /\ disk \in ValidConfig /\ memory \in ValidConfig
    /\ writer.pc # "idle" => writer.next \in ValidConfig

Between == writer.pc \notin {"idle", "boot"}
Sent(r) == IF answer[r] = None \/ answer[r].list = None THEN {} ELSE {answer[r].list.provs}
Wanted == IF writer.pc \in {"idle", "boot"} THEN {} ELSE {writer.next}

LEMMA PromiseVariables ==
    /\ Promise!vars = <<disk, Wanted, [r \in Readers |-> Sent(r)]>>
    /\ Promise!Silent = [r \in Readers |-> {}]
BY DEF Promise!vars, Promise!Silent, Wanted, Sent

\* The steps of an operation within its bounds: it goes on, or it ends.
GoesOn ==
    \/ /\ UNCHANGED <<disk, memory, answer>>
       /\ \/ Between /\ Between' /\ writer'.next = writer.next
          \/ writer' = Nobody
          \/ UNCHANGED writer

LEMMA AppStepParts ==
    ASSUME IInv, AppStep PROVE GoesOn \/ Save \/ Commit
<1>0. writer \in Writer
  BY DEF IInv, TypedApp
<1>1. ASSUME NEW pc \in Pcs \ {"idle", "boot"}, Between, Move(pc), UNCHANGED <<disk, memory, answer>>
      PROVE  GoesOn
  <2>1. writer'.pc = pc /\ writer'.next = writer.next
    BY <1>0, <1>1 DEF Move, Writer
  <2> QED BY <1>1, <2>1 DEF GoesOn, Between
<1>2. CASE LockPublication
  <2>1. PICK pc \in {"save", "configure", "startWith"} : Move(pc)
    BY <1>2 DEF LockPublication
  <2> QED BY <1>1, <1>2, <2>1 DEF LockPublication, Between, Pcs, Calls
<1>3. CASE Enter \/ ApplyFailed \/ Restored \/ RolledBack \/ Halted \/ Booted
  BY <1>3 DEF Enter, ApplyFailed, Restored, RolledBack, Halted, Booted, ThenEnd, End, GoesOn, appVars
<1>4. CASE Applied \/ Configured \/ StartFailed \/ Unstarted \/ NotRolledBack
  <2>1. PICK pc \in {"save", "start", "unstart", "restore", "halt"} :
           Between /\ Move(pc) /\ UNCHANGED <<disk, memory, answer>>
    BY <1>4 DEF Applied, Configured, StartFailed, Unstarted, NotRolledBack, Took, Then, Between
  <2> QED BY <1>1, <2>1 DEF Pcs, Calls
<1>5. CASE NotRestored
  <2>1. CASE writer.saved
    BY <1>5, <2>1 DEF NotRestored, ThenEnd, End, GoesOn
  <2>2. CASE ~writer.saved
    <3>1. Between /\ Move("halt") /\ UNCHANGED <<disk, memory, answer>>
      BY <1>5, <2>2 DEF NotRestored, Took, Then, Between
    <3> QED BY <1>1, <3>1 DEF Pcs, Calls
  <2> QED BY <2>1, <2>2
<1>6. CASE SaveFailed
  <2>1. writer.pc = "save" /\ UNCHANGED <<disk, memory, answer>>
    BY <1>6 DEF SaveFailed
  <2>2. CASE writer.kind = "path"
    BY <1>6, <2>1, <2>2 DEF SaveFailed, End, GoesOn
  <2>3. CASE writer.kind # "path"
    <3>1. writer'.pc \in {"rollback", "unstart"} /\ writer'.next = writer.next
      BY <1>0, <1>6, <2>3 DEF SaveFailed, Writer
    <3> QED BY <2>1, <3>1 DEF GoesOn, Between
  <2> QED BY <2>2, <2>3
<1> QED BY <1>2, <1>3, <1>4, <1>5, <1>6 DEF AppStep

\* Every step is one of the writer, one of a reader, a crash, or none of both.
LEMMA StepParts ==
    ASSUME IInv, [Next]_vars
    PROVE  \/ GoesOn \/ Save \/ Commit \/ Crash
           \/ \E kind \in Kinds : Begin(kind)
           \/ \E r \in Readers : Leave(r) \/ ReadConfig(r) \/ ReadSnapshot(r)
<1>1. CASE AppStep
  BY <1>1, AppStepParts
<1>2. CASE (HolderStep \/ Environment) /\ UNCHANGED appVars
  BY <1>2 DEF appVars, GoesOn
<1>3. CASE \E r \in Readers : Read(r)
  BY <1>3 DEF Read, appVars, GoesOn
<1>4. CASE Refresh \/ Close \/ UNCHANGED vars
  BY <1>4 DEF Refresh, Close, vars, appVars, GoesOn
<1> QED BY <1>1, <1>2, <1>3, <1>4 DEF Next, ReaderStep, ReadUnavailable, ReadDone

LEMMA AllValidKeeps == ASSUME IInv, AllValid, [Next]_vars PROVE AllValid'
<1>1. CASE GoesOn
  BY <1>1 DEF GoesOn, AllValid, Between, Nobody
<1>2. CASE Save
  <2>1. writer.pc = "save" /\ disk' = writer.next /\ memory' = memory /\ writer'.next = writer.next
    BY <1>2 DEF Save, Move, IInv, TypedApp, Writer
  <2> QED BY <2>1 DEF AllValid
<1>3. CASE Commit
  BY <1>3 DEF Commit, End, AllValid, Nobody
<1>4. CASE Crash
  BY <1>4 DEF Crash, Boot, Nobody, AllValid
<1>5. ASSUME NEW kind \in Kinds, Begin(kind) PROVE AllValid'
  <2>1. PICK c \in Candidates(kind, memory) : writer'.next = c
    BY <1>5 DEF Begin
  <2>2. c \in Config
    BY CandidateParts DEF AllValid, ValidConfig
  <2>3. Valid(c)
    BY <2>1 DEF Candidates
  <2> QED BY <1>5, <2>1, <2>2, <2>3 DEF Begin, AllValid, ValidConfig
<1>6. ASSUME NEW r \in Readers, Leave(r) \/ ReadConfig(r) \/ ReadSnapshot(r) PROVE AllValid'
  BY <1>6 DEF Leave, ReadConfig, ReadSnapshot, AllValid, process
<1> QED BY <1>1, <1>2, <1>3, <1>4, <1>5, <1>6, StepParts

\* Every reader is out while the configuration is replaced.
LEMMA SilentWriting == ASSUME IInv, writing PROVE \A r \in Readers : answer[r] = None
BY DEF IInv, WriterInv, Locked, Answers

LEMMA PromiseSteps ==
    ASSUME IInv, AllValid, IInv', AllValid', [Next]_vars
    PROVE  [Promise!Next]_(Promise!vars)
<1> DEFINE S == [r \in Readers |-> Sent(r)]
<1> DEFINE Same == UNCHANGED disk /\ Wanted' = Wanted /\ S' = S
<1>1. Same => UNCHANGED Promise!vars
  BY PromiseVariables DEF Promise!vars, Wanted, Sent
<1>2. CASE GoesOn
  <2>1. UNCHANGED disk /\ S' = S
    BY <1>2 DEF GoesOn, Sent
  <2>2. Wanted' = Wanted \/ Wanted' = {}
    BY <1>2 DEF GoesOn, Between, Wanted, Nobody
  <2> QED BY <1>1, <2>1, <2>2 DEF Promise!Next, Promise!Return, Wanted, Sent
<1>3. CASE Save
  <2>1. writer.pc = "save" /\ writer'.pc = "commit" /\ writer'.next = writer.next /\ disk' = writer.next
        /\ UNCHANGED answer
    BY <1>3 DEF Save, Move, IInv, TypedApp, Writer
  <2>2. Wanted = {writer.next} /\ Wanted' = Wanted
    BY <2>1 DEF Wanted
  <2>3. \A r \in Readers : answer[r] = None
    BY <2>1, SilentWriting DEF IInv, WriterInv, Locked, Pcs, Calls
  <2>4. S = [r \in Readers |-> {}] /\ S' = S
    BY <2>1, <2>3 DEF Sent
  <2> QED BY <2>1, <2>2, <2>4 DEF Promise!Next, Promise!Replace, Promise!Silent, Wanted, Sent
<1>4. CASE Commit
  <2>1. UNCHANGED disk /\ S' = S /\ Wanted' = {}
    BY <1>4 DEF Commit, End, Nobody, Wanted, Sent
  <2> QED BY <2>1 DEF Promise!Next, Promise!Return, Wanted, Sent
<1>5. CASE Crash
  <2>1. UNCHANGED disk /\ S' = [r \in Readers |-> {}] /\ Wanted' = {}
    BY <1>5 DEF Crash, Boot, Nobody, Wanted, Sent
  <2> QED BY <2>1 DEF Promise!Next, Promise!Crash, Promise!Silent, Wanted, Sent
<1>6. ASSUME NEW kind \in Kinds, Begin(kind) PROVE Promise!Next
  <2>1. /\ writer = Nobody /\ UNCHANGED <<disk, answer>>
        /\ \E c \in Candidates(kind, memory) : writer'.next = c /\ writer'.pc \in {"apply", "lock"}
    BY <1>6 DEF Begin
  <2>2. PICK c \in Candidates(kind, memory) : writer'.next = c /\ writer'.pc \in {"apply", "lock"}
    BY <2>1
  <2>3. Wanted = {} /\ Wanted' = {c} /\ S' = S
    BY <2>1, <2>2 DEF Wanted, Nobody, Sent
  <2>4. disk = memory /\ c \in ValidConfig /\ disk \in ValidConfig
    <3>1. disk = memory
      BY <2>1 DEF IInv, WriterInv, Kinded, Nobody
    <3>2. writer'.next \in ValidConfig
      BY <2>2 DEF AllValid
    <3> QED BY <2>2, <3>1, <3>2 DEF AllValid
  <2>5. <<disk, c>> \in Operations
    BY <2>4 DEF Operations
  <2> QED BY <2>1, <2>3, <2>4, <2>5 DEF Promise!Next, Promise!Ask, Wanted, Sent
<1>7. ASSUME NEW r \in Readers, Leave(r) PROVE Promise!Next
  <2>1. UNCHANGED <<disk, writer>> /\ answer' = [answer EXCEPT ![r] = None]
    BY <1>7 DEF Leave
  <2>2. S' = [S EXCEPT ![r] = {}]
    BY <2>1 DEF Sent, IInv, TypedApp
  <2> QED BY <2>1, <2>2 DEF Promise!Next, Promise!Send, Wanted, Sent
<1>8. ASSUME NEW r \in Readers, ReadConfig(r) PROVE Same
  <2>1. UNCHANGED <<disk, writer>> /\ answer[r] = None
        /\ answer' = [answer EXCEPT ![r] = [config |-> memory, list |-> None]]
    BY <1>8 DEF ReadConfig
  <2>2. S' = S
    BY <2>1 DEF Sent, IInv, TypedApp
  <2> QED BY <2>1, <2>2 DEF Wanted
<1>9. ASSUME NEW r \in Readers, ReadSnapshot(r) PROVE Same \/ Promise!Next
  <2> DEFINE a == answer'[r]
  <2>1. /\ UNCHANGED <<disk, writer, memory, writing, reading>> /\ answer[r] # None
        /\ answer[r].list = None
        /\ \A q \in Readers \ {r} : answer'[q] = answer[q]
    BY <1>9 DEF ReadSnapshot, managerVars, publication, IInv, TypedApp
  <2>2. disk = memory
    BY <2>1 DEF IInv, WriterInv, Kinded, Locked, Answers, Pcs, Calls
  <2>3. CASE a = None \/ a.list = None
    BY <2>1, <2>3 DEF Sent, Wanted
  <2>4. CASE a # None /\ a.list # None
    <3>1. a.list.provs \in {Filter(memory.path, memory.provs), <<>>}
      <4>1. a.list.provs \in {Filter(memory'.path, memory'.provs), <<>>}
        BY <2>4 DEF IInv, Answers
      <4> QED BY <2>1, <4>1
    <3>2. Offers[disk] = Filter(memory.path, memory.provs)
      BY <2>2 DEF Offers, AllValid
    <3>3. Sent(r) = {} /\ Sent(r)' = {a.list.provs} /\ \A q \in Readers \ {r} : Sent(q)' = Sent(q)
      BY <2>1, <2>4 DEF Sent
    <3>4. S' = [S EXCEPT ![r] = {a.list.provs}] /\ S[r] = {}
      BY <3>3
    <3> QED BY <2>1, <3>1, <3>2, <3>4 DEF Promise!Next, Promise!Choose, Wanted, Sent
  <2> QED BY <2>3, <2>4
<1> QED BY <1>1, <1>2, <1>3, <1>4, <1>5, <1>6, <1>7, <1>8, <1>9, StepParts

\* Every operation replaces the configuration at one instant, by what it made
\* of the one in force, or not at all; the end of the process leaves the one or
\* the other; and what a reader sends was chosen from one configuration that is in
\* force until it is sent: GatewayCommit implements AtomicConfiguration.
THEOREM Implements == Spec => ChangesAreAtomic
<1>1. Init => AllValid /\ Promise!Init
  <2> SUFFICES ASSUME Init PROVE AllValid /\ Promise!Init
    OBVIOUS
  <2>1. disk \in ValidConfig /\ memory = disk /\ writer = Boot(disk)
        /\ answer = [r \in Readers |-> None]
    BY DEF Init, ValidConfig
  <2> QED BY <2>1 DEF AllValid, Promise!Init, Promise!Silent, Boot, Nobody
<1>2. IInv /\ AllValid /\ [Next]_vars => AllValid'
  BY AllValidKeeps
<1>3. IInv /\ AllValid /\ IInv' /\ AllValid' /\ [Next]_vars => [Promise!Next]_(Promise!vars)
  BY PromiseSteps
<1> QED BY <1>1, <1>2, <1>3, GatewayInvariant, PTL DEF Spec, ChangesAreAtomic, Promise!Spec
===============================================================================
