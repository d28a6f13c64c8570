----------------------------- MODULE DataLemmas -----------------------------
(***************************************************************************)
(* Sequences, as they are used as sockets and stacks: what taking from the *)
(* front and adding at the end does to each place.  Induction over numbers *)
(* and finite sets by their least elements, and the sum of a function over *)
(* a finite set (MapThenSumSet): it exists, it is an integer, and every    *)
(* element of the set may be taken out of it first.                        *)
(***************************************************************************)
EXTENDS Integers, Sequences, FiniteSetsExt, FiniteSetTheorems, TLAPS

LEMMA SeqFacts ==
  ASSUME NEW S, NEW s \in Seq(S), s # <<>>
  PROVE  Head(s) \in S /\ Tail(s) \in Seq(S)
OBVIOUS

LEMMA EmptyType == \A S : <<>> \in Seq(S)
OBVIOUS

LEMMA EmptyLen == Len(<<>>) = 0
OBVIOUS

LEMMA TailElems ==
  ASSUME NEW S, NEW s \in Seq(S), s # <<>>
  PROVE  /\ Len(Tail(s)) = Len(s) - 1 /\ Len(s) \in Nat \ {0}
         /\ \A i \in 1..Len(Tail(s)) : i + 1 \in 1..Len(s) /\ Tail(s)[i] = s[i + 1]
         /\ Head(s) = s[1]
         /\ \A i \in 1..Len(s) : i # 1 => i - 1 \in 1..Len(Tail(s)) /\ Tail(s)[i - 1] = s[i]
OBVIOUS

LEMMA AppendElems ==
  ASSUME NEW S, NEW s \in Seq(S), NEW e \in S
  PROVE  /\ Len(s) \in Nat
         /\ Len(Append(s, e)) = Len(s) + 1
         /\ \A i \in 1..Len(s) : Append(s, e)[i] = s[i]
         /\ Append(s, e)[Len(s) + 1] = e
         /\ \A i \in 1..(Len(s) + 1) : i = Len(s) + 1 \/ i \in 1..Len(s)
OBVIOUS

LEMMA ConcatElems ==
  ASSUME NEW S, NEW s \in Seq(S), NEW t \in Seq(S)
  PROVE  /\ s \o t \in Seq(S) /\ Len(s) \in Nat /\ Len(t) \in Nat
         /\ Len(s \o t) = Len(s) + Len(t)
         /\ \A i \in 1..Len(s) : (s \o t)[i] = s[i]
         /\ \A i \in 1..Len(t) : (s \o t)[Len(s) + i] = t[i]
<1>1. s \o t \in Seq(S) /\ Len(s) \in Nat /\ Len(t) \in Nat /\ Len(s \o t) = Len(s) + Len(t)
  OBVIOUS
<1>2. \A i \in 1..Len(s) : (s \o t)[i] = s[i]
  OBVIOUS
<1>3. ASSUME NEW i \in 1..Len(t) PROVE (s \o t)[Len(s) + i] = t[i]
  OBVIOUS
<1> QED
  BY <1>1, <1>2, <1>3

LEMMA ConsElems ==
  ASSUME NEW S, NEW e \in S, NEW s \in Seq(S)
  PROVE  /\ Len(<<e>> \o s) = 1 + Len(s)
         /\ (<<e>> \o s)[1] = e
         /\ \A i \in 1..Len(s) : (<<e>> \o s)[1 + i] = s[i]
<1>1. <<e>> \in Seq(S) /\ Len(<<e>>) = 1 /\ <<e>>[1] = e
  OBVIOUS
<1> QED
  BY <1>1, ConcatElems

-----------------------------------------------------------------------------
(* Numbers, finite sets, and sums.                                         *)

LEMMA Least ==
  ASSUME NEW T, T \subseteq Nat, T # {}
  PROVE  \E n \in T : \A m \in T : n <= m
<1> DEFINE R == {ss \in Nat \X Nat : ss[1] < ss[2]}
<1>1. IsWellFoundedOn(R, Nat)
  BY NatLessThanWellFounded, Zenon DEF OpToRel
<1> HIDE DEF R
<1>2. PICK n \in T : \A m \in T : ~(<<m, n>> \in R)
  BY <1>1, WFMin
<1>3. \A m \in T : n <= m
  <2> SUFFICES ASSUME NEW m \in T, m < n PROVE FALSE
    OBVIOUS
  <2> QED
    BY <1>2 DEF R
<1> QED
  BY <1>3

LEMMA UpTo ==
  ASSUME NEW N \in Nat, NEW S, 0 \in S, \A n \in 0..(N - 1) : n \in S => n + 1 \in S
  PROVE  0..N \subseteq S
<1> DEFINE T == {n \in 0..N : n \notin S}
<1>1. CASE T = {}
  BY <1>1
<1>2. CASE T # {}
  <2>0. T \subseteq Nat
    OBVIOUS
  <2>1. PICK n \in T : \A m \in T : n <= m
    <3> HIDE DEF T
    <3> QED
      BY <1>2, <2>0, Least
  <2>2. n # 0 /\ n \in 0..N /\ n \notin S
    BY <2>1
  <2>3. n - 1 \in 0..(N - 1) /\ (n - 1) + 1 = n
    BY <2>2
  <2>4. n - 1 \in S
    BY <2>1, <2>3
  <2> QED
    BY <2>2, <2>3, <2>4
<1> QED
  BY <1>1, <1>2

\* What holds of a finite set whenever it holds of all its smaller subsets.
LEMMA Subsets ==
  ASSUME NEW S, IsFiniteSet(S), NEW G,
         \A s \in SUBSET S : (\A t \in SUBSET s : t # s => t \in G) => s \in G
  PROVE  SUBSET S \subseteq G
<1> DEFINE R == StrictSubsetOrdering(S)
           T == {s \in SUBSET S : s \notin G}
<1>1. IsWellFoundedOn(R, SUBSET S)
  BY FS_StrictSubsetOrderingWellFounded, FS_FiniteSubsetsOfFinite
<1>2. SUFFICES ASSUME T # {} PROVE FALSE
  OBVIOUS
<1>3. T \subseteq SUBSET S
  OBVIOUS
<1>4. PICK s \in T : \A t \in T : ~(<<t, s>> \in R)
  <2> HIDE DEF R, T
  <2> QED
    BY <1>1, <1>2, <1>3, WFMin
<1>5. \A t \in SUBSET s : t # s => t \in G
  <2> SUFFICES ASSUME NEW t \in SUBSET s, t # s, t \notin G PROVE FALSE
    OBVIOUS
  <2>1. t \in T
    BY <1>4
  <2>2. <<t, s>> \in R
    BY <1>4, <2>1 DEF StrictSubsetOrdering
  <2> QED
    BY <1>4, <2>1, <2>2
<1> QED
  BY <1>4, <1>5

-----------------------------------------------------------------------------
(* Sums.                                                                   *)

First(s) == CHOOSE x \in s : TRUE

LEMMA FirstIn == \A s : s # {} => First(s) \in s
BY DEF First

\* g has the sums of f over the subsets of S.
AreSums(f, S, g) ==
  \A s \in SUBSET S : g[s] = IF s = {} THEN 0 ELSE f[First(s)] + g[s \ {First(s)}]

LEMMA SmallerSums == \A f, S, g : \A T \in SUBSET S : AreSums(f, S, g) => AreSums(f, T, g)
BY DEF AreSums

LEMMA SumsInt ==
  ASSUME NEW S, IsFiniteSet(S), NEW f, \A x \in S : f[x] \in Int, NEW g, AreSums(f, S, g)
  PROVE  \A s \in SUBSET S : g[s] \in Int
<1> DEFINE G == {s \in SUBSET S : g[s] \in Int}
<1>1. ASSUME NEW s \in SUBSET S, \A t \in SUBSET s : t # s => t \in G
      PROVE  s \in G
  <2>1. CASE s = {}
    <3>1. g[s] = 0
      BY <2>1 DEF AreSums
    <3> QED
      BY <3>1
  <2>2. CASE s # {}
    <3>1. First(s) \in s
      BY <2>2, FirstIn
    <3>2. s \ {First(s)} \in SUBSET s /\ s \ {First(s)} # s
      BY <3>1
    <3>3. g[s \ {First(s)}] \in Int /\ f[First(s)] \in Int
      BY <1>1, <3>1, <3>2
    <3>4. g[s] = f[First(s)] + g[s \ {First(s)}]
      BY <2>2 DEF AreSums
    <3> QED
      BY <3>3, <3>4
  <2> QED
    BY <2>1, <2>2
<1> HIDE DEF G
<1>2. SUBSET S \subseteq G
  BY <1>1, Subsets
<1> QED
  BY <1>2 DEF G

LEMMA SumsUnique ==
  ASSUME NEW S, IsFiniteSet(S), NEW f, NEW g, AreSums(f, S, g), NEW h, AreSums(f, S, h)
  PROVE  \A s \in SUBSET S : g[s] = h[s]
<1> DEFINE G == {s \in SUBSET S : g[s] = h[s]}
<1>1. ASSUME NEW s \in SUBSET S, \A t \in SUBSET s : t # s => t \in G
      PROVE  s \in G
  <2>1. CASE s = {}
    BY <2>1 DEF AreSums
  <2>2. CASE s # {}
    <3>1. First(s) \in s
      BY <2>2, FirstIn
    <3>2. s \ {First(s)} \in SUBSET s /\ s \ {First(s)} # s
      BY <3>1
    <3>3. g[s \ {First(s)}] = h[s \ {First(s)}]
      BY <1>1, <3>2
    <3> QED
      BY <2>2, <3>3 DEF AreSums
  <2> QED
    BY <2>1, <2>2
<1> HIDE DEF G
<1>2. SUBSET S \subseteq G
  BY <1>1, Subsets
<1> QED
  BY <1>2 DEF G

LEMMA AnyFirst ==
  ASSUME NEW S, IsFiniteSet(S), NEW f, \A x \in S : f[x] \in Int, NEW g, AreSums(f, S, g)
  PROVE  \A s \in SUBSET S : \A x \in s : g[s] = f[x] + g[s \ {x}]
<1> DEFINE G == {s \in SUBSET S : \A x \in s : g[s] = f[x] + g[s \ {x}]}
<1>1. ASSUME NEW s \in SUBSET S, \A t \in SUBSET s : t # s => t \in G
      PROVE  s \in G
  <2> SUFFICES ASSUME NEW x \in s PROVE g[s] = f[x] + g[s \ {x}]
    OBVIOUS
  <2> DEFINE c == First(s)
             t == s \ {c}
             u == s \ {x}
  <2>1. c \in s /\ g[s] = f[c] + g[t]
    BY FirstIn DEF AreSums
  <2>2. CASE c = x
    BY <2>1, <2>2
  <2>3. CASE c # x
    <3> HIDE DEF c
    <3>1. t \in SUBSET s /\ t # s /\ u \in SUBSET s /\ u # s /\ x \in t /\ c \in u
      BY <2>1, <2>3
    <3>2. t \ {x} = u \ {c}
      OBVIOUS
    <3>3. g[t] = f[x] + g[t \ {x}] /\ g[u] = f[c] + g[u \ {c}]
      BY <1>1, <3>1
    <3>4. f[c] \in Int /\ f[x] \in Int /\ t \ {x} \in SUBSET S
      BY <2>1
    <3>5. g[t \ {x}] \in Int
      BY <3>4, SumsInt
    <3>6. PICK a \in Int, b \in Int, k \in Int : a = f[c] /\ b = f[x] /\ k = g[t \ {x}]
      BY <3>4, <3>5
    <3>7. g[s] = a + g[t] /\ g[t] = b + k /\ g[u] = a + k
      BY <2>1, <3>2, <3>3, <3>6
    <3> HIDE DEF t, u
    <3>8. g[s] = b + g[u]
      BY <3>7
    <3> QED
      BY <3>6, <3>8 DEF u
  <2> QED
    BY <2>2, <2>3
<1> HIDE DEF G
<1>2. SUBSET S \subseteq G
  BY <1>1, Subsets
<1> QED
  BY <1>2 DEF G

LEMMA SumsExist ==
  ASSUME NEW S, IsFiniteSet(S), NEW f
  PROVE  \E g : AreSums(f, S, g)
<1> DEFINE G == {s \in SUBSET S : \E g : AreSums(f, s, g)}
<1>1. ASSUME NEW s \in SUBSET S, \A t \in SUBSET s : t # s => t \in G
      PROVE  s \in G
  <2> DEFINE Sums(t) == CHOOSE h : AreSums(f, t, h)
             v == [t \in SUBSET s |-> Sums(t)[t]]
             g == [u \in SUBSET s |-> IF u = {} THEN 0 ELSE f[First(u)] + v[u \ {First(u)}]]
  <2>1. ASSUME NEW t \in SUBSET s, t # s PROVE AreSums(f, t, Sums(t))
    BY <1>1, <2>1
  <2>2. ASSUME NEW u \in SUBSET s, u # {}
        PROVE  First(u) \in u /\ u \ {First(u)} \in SUBSET s /\ u \ {First(u)} # s
    BY <2>2, FirstIn
  <2>3. ASSUME NEW t \in SUBSET s, t # s PROVE v[t] = g[t]
    <3>1. CASE t = {}
      BY <2>1, <2>3, <3>1 DEF AreSums
    <3>2. CASE t # {}
      <4> DEFINE r == t \ {First(t)}
      <4>1. First(t) \in t /\ r \in SUBSET t /\ r \in SUBSET s /\ r # s
        BY <2>2, <3>2
      <4>2. AreSums(f, t, Sums(t)) /\ AreSums(f, r, Sums(r))
        BY <2>1, <2>3, <4>1
      <4> HIDE DEF Sums, r
      <4>3. AreSums(f, r, Sums(t))
        BY <4>1, <4>2, SmallerSums
      <4>4. IsFiniteSet(r)
        BY <4>1, FS_Subset
      <4>5. Sums(t)[r] = Sums(r)[r]
        BY <4>2, <4>3, <4>4, SumsUnique
      <4>6. Sums(t)[t] = f[First(t)] + Sums(t)[r]
        BY <3>2, <4>2 DEF AreSums, r
      <4>7. v[t] = f[First(t)] + v[r]
        BY <4>1, <4>5, <4>6
      <4>8. g[t] = f[First(t)] + v[r]
        BY <3>2 DEF r
      <4> QED
        BY <4>7, <4>8
    <3> QED
      BY <3>1, <3>2
  <2>4. AreSums(f, s, g)
    <3> SUFFICES ASSUME NEW u \in SUBSET s
                 PROVE  g[u] = IF u = {} THEN 0 ELSE f[First(u)] + g[u \ {First(u)}]
      BY DEF AreSums
    <3>1. u # {} => v[u \ {First(u)}] = g[u \ {First(u)}]
      BY <2>2, <2>3
    <3>2. g[u] = IF u = {} THEN 0 ELSE f[First(u)] + v[u \ {First(u)}]
      OBVIOUS
    <3> HIDE DEF v, g
    <3> QED
      BY <3>1, <3>2
  <2> QED
    BY <2>4
<1> HIDE DEF G
<1>2. SUBSET S \subseteq G
  BY <1>1, Subsets
<1> QED
  BY <1>2 DEF G

\* The sum as MapThenSumSet computes it, by recursion over the set.
SumBody(f, S, g) ==
  [s \in SUBSET S |-> IF s = {} THEN 0 ELSE f[First(s)] + g[s \ {First(s)}]]
SetSum(f, S) == (CHOOSE g : g = SumBody(f, S, g))[S]

LEMMA SetSumIs ==
  ASSUME NEW S, IsFiniteSet(S), NEW f
  PROVE  \E g : AreSums(f, S, g) /\ SetSum(f, S) = g[S]
<1>1. PICK g : AreSums(f, S, g)
  BY SumsExist
<1> DEFINE h == [s \in SUBSET S |-> g[s]]
           k == CHOOSE c : c = SumBody(f, S, c)
<1>2. h = SumBody(f, S, h)
  <2>1. \A s \in SUBSET S : s \ {First(s)} \in SUBSET S
    OBVIOUS
  <2>2. \A s \in SUBSET S : h[s] = IF s = {} THEN 0 ELSE f[First(s)] + h[s \ {First(s)}]
    BY <1>1, <2>1 DEF AreSums
  <2>3. h = [s \in SUBSET S |-> h[s]]
    OBVIOUS
  <2> HIDE DEF h
  <2> QED
    BY <2>2, <2>3, Zenon DEF SumBody
<1>3. k = SumBody(f, S, k)
  BY <1>2, Zenon
<1> HIDE DEF k
<1>4. AreSums(f, S, k)
  <2> DEFINE b == SumBody(f, S, k)
  <2>1. \A s \in SUBSET S : b[s] = IF s = {} THEN 0 ELSE f[First(s)] + k[s \ {First(s)}]
    BY DEF SumBody
  <2>2. k = b
    BY <1>3
  <2> HIDE DEF b
  <2> QED
    BY <2>1, <2>2 DEF AreSums
<1> QED
  BY <1>4 DEF SetSum, k

\* Any element of the set may be added last.
LEMMA SetSumStep ==
  ASSUME NEW S, IsFiniteSet(S), NEW f, \A x \in S : f[x] \in Int
  PROVE  /\ SetSum(f, S) \in Int
         /\ S = {} => SetSum(f, S) = 0
         /\ \A x \in S : SetSum(f, S) = f[x] + SetSum(f, S \ {x})
<1>1. PICK g : AreSums(f, S, g) /\ SetSum(f, S) = g[S]
  BY SetSumIs
<1>2. SetSum(f, S) \in Int
  BY <1>1, SumsInt
<1>3. S = {} => SetSum(f, S) = 0
  BY <1>1 DEF AreSums
<1>4. ASSUME NEW x \in S PROVE SetSum(f, S) = f[x] + SetSum(f, S \ {x})
  <2> DEFINE T == S \ {x}
  <2>1. T \in SUBSET S /\ IsFiniteSet(T)
    BY FS_Subset
  <2> HIDE DEF T
  <2>2. PICK h : AreSums(f, T, h) /\ SetSum(f, T) = h[T]
    BY <2>1, SetSumIs
  <2>3. AreSums(f, T, g)
    BY <1>1, <2>1, SmallerSums
  <2>4. g[T] = h[T]
    BY <2>1, <2>2, <2>3, SumsUnique
  <2>5. g[S] = f[x] + g[T]
    BY <1>1, AnyFirst DEF T
  <2> QED
    BY <1>1, <2>2, <2>4, <2>5 DEF T
<1> QED
  BY <1>2, <1>3, <1>4

\* MapThenSumSet is that sum.
LEMMA MapThenSumIsSetSum ==
  ASSUME NEW f, NEW S
  PROVE  MapThenSumSet(LAMBDA x : f[x], S) = SetSum(f, S)
BY DEF MapThenSumSet, MapThenFoldSet, SetSum, SumBody, First
=============================================================================
