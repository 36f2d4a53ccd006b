---------------------------- MODULE SequenceLemmas ----------------------------
(***************************************************************************)
(* Facts about numbers and sequences that the proofs of several components *)
(* rest on: induction and recursion over the natural numbers, stated with  *)
(* sets and functions, and the length of a sequence without repetition.    *)
(***************************************************************************)
EXTENDS Naturals, Sequences, FiniteSets, FiniteSetTheorems, WellFoundedInduction, TLAPS

\* A set of natural numbers that is not empty has a least element.
LEMMA LeastNumber ==
    ASSUME NEW T \in SUBSET Nat, T # {}
    PROVE  \E x \in T : \A y \in T : x <= y
<1> DEFINE Less == {p \in Nat \X Nat : p[1] < p[2]}
<1>1. IsWellFoundedOn(Less, Nat)
  BY NatLessThanWellFounded DEF OpToRel
<1> HIDE DEF Less
<1>2. PICK x \in T : \A y \in T : ~(<<y, x>> \in Less)
  BY <1>1, WFMin
<1>3. \A y \in T : ~(y < x)
  BY <1>2 DEF Less
<1> QED BY <1>3

\* Induction: a set that has 0 and the successor of each of its numbers has all.
LEMMA InductionUpTo ==
    ASSUME NEW L \in Nat, NEW S, 0 \in S, \A n \in 0 .. L - 1 : n \in S => n + 1 \in S
    PROVE  0 .. L \subseteq S
<1>1. SUFFICES ASSUME (0 .. L) \ S # {} PROVE FALSE
  OBVIOUS
<1> DEFINE T == (0 .. L) \ S
<1>2. PICK x \in T : \A y \in T : x <= y
  <2>1. T \in SUBSET Nat /\ T # {}
    BY <1>1
  <2> HIDE DEF T
  <2> QED BY <2>1, LeastNumber
<1>3. x # 0 /\ x - 1 \in 0 .. L - 1
  BY <1>2
<1>4. x - 1 \in S
  BY <1>2, <1>3
<1> QED BY <1>2, <1>3, <1>4

\* Recursion: a first value and a step define a function on 0 .. L.
Recurs(T, base, L, g) ==
    \E f \in [0 .. L -> T] : f[0] = base /\ \A n \in 1 .. L : f[n] = g[n][f[n - 1]]

LEMMA RecursionUpTo ==
    ASSUME NEW T, NEW base \in T, NEW L \in Nat, NEW g \in [1 .. L -> [T -> T]]
    PROVE  Recurs(T, base, L, g)
<1> DEFINE Defined(f, m) == f[0] = base /\ \A n \in 1 .. m : f[n] = g[n][f[n - 1]]
           S == {m \in 0 .. L : \E f \in [0 .. m -> T] : Defined(f, m)}
<1>1. 0 \in S
  <2>1. [i \in 0 .. 0 |-> base] \in [0 .. 0 -> T] /\ Defined([i \in 0 .. 0 |-> base], 0)
    OBVIOUS
  <2> HIDE DEF Defined
  <2>2. \E f \in [0 .. 0 -> T] : Defined(f, 0)
    BY <2>1
  <2> QED BY <2>2
<1>2. ASSUME NEW m \in 0 .. L - 1, m \in S PROVE m + 1 \in S
  <2>1. PICK f \in [0 .. m -> T] : Defined(f, m)
    BY <1>2
  <2> DEFINE h == [i \in 0 .. m + 1 |-> IF i = m + 1 THEN g[m + 1][f[m]] ELSE f[i]]
  <2>2. f[m] \in T /\ m + 1 \in 1 .. L /\ g[m + 1][f[m]] \in T
    <3>1. f[m] \in T /\ m + 1 \in 1 .. L
      OBVIOUS
    <3>2. g[m + 1] \in [T -> T]
      BY <3>1
    <3> QED BY <3>1, <3>2
  <2>3. h \in [0 .. m + 1 -> T]
    BY <2>2
  <2>4. h[0] = base /\ \A n \in 1 .. m + 1 : h[n] = g[n][h[n - 1]]
    BY <2>1
  <2>5. Defined(h, m + 1)
    BY <2>4
  <2> HIDE DEF Defined, h
  <2>6. \E k \in [0 .. m + 1 -> T] : Defined(k, m + 1)
    BY <2>3, <2>5
  <2> QED BY <2>6
<1>3. L \in S
  <2> HIDE DEF S
  <2>1. \A n \in 0 .. L - 1 : n \in S => n + 1 \in S
    BY <1>2
  <2>2. 0 .. L \subseteq S
    BY <1>1, <2>1, InductionUpTo
  <2> QED BY <2>2
<1> QED BY <1>3 DEF Recurs

\* Two functions that start alike and continue alike are the same.
On(f, L) == f = [n \in 0 .. L |-> f[n]]

LEMMA SameUpTo ==
    ASSUME NEW L \in Nat, NEW f, NEW k, On(f, L), On(k, L),
           f[0] = k[0], \A n \in 1 .. L : f[n - 1] = k[n - 1] => f[n] = k[n]
    PROVE  f = k
<1> DEFINE S == {n \in 0 .. L : f[n] = k[n]}
<1>1. 0 \in S
  OBVIOUS
<1>2. ASSUME NEW n \in 0 .. L - 1, n \in S PROVE n + 1 \in S
  <2>1. n + 1 \in 1 .. L /\ n + 1 \in 0 .. L /\ (n + 1) - 1 = n
    OBVIOUS
  <2>2. f[n + 1] = k[n + 1]
    BY <1>2, <2>1
  <2> QED BY <2>1, <2>2
<1>3. 0 .. L \subseteq S
  <2> HIDE DEF S
  <2> QED BY <1>1, <1>2, InductionUpTo
<1>4. \A n \in 0 .. L : f[n] = k[n]
  BY <1>3
<1> QED BY <1>4 DEF On

\* A sequence without repetition is no longer than the set it is made of.
LEMMA InjectiveLength ==
    ASSUME NEW S, IsFiniteSet(S), NEW n \in Nat, NEW l \in [1 .. n -> S],
           \A i, j \in 1 .. n : l[i] = l[j] => i = j
    PROVE  n <= Cardinality(S)
<1>1. l \in Injection(1 .. n, S)
  BY DEF Injection, IsInjective
<1>2. IsFiniteSet(1 .. n) /\ Cardinality(1 .. n) = n
  BY FS_Interval
<1> QED BY <1>1, <1>2, FS_Injection
===============================================================================
