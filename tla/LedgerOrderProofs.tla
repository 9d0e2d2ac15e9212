---- MODULE LedgerOrderProofs ----
(***************************************************************************)
(* Proofs about LedgerOrder, for any files, contents, seconds and writers. *)
(***************************************************************************)
EXTENDS LedgerOrder, SequenceFacts, FiniteSetTheorems, TLAPS

\* x stands somewhere before y.
Before(s, x, y) == \E i, j \in DOMAIN s : i < j /\ s[i] = x /\ s[j] = y

-----------------------------------------------------------------------------
\* Before, in sequences

LEMMA BeforeMembers ==
    ASSUME NEW s, NEW x, NEW y, Before(s, x, y)
    PROVE  x \in ToSet(s) /\ y \in ToSet(s)
BY DEF Before, ToSet

LEMMA BeforeConcat ==
    ASSUME NEW T, NEW s \in Seq(T), NEW t \in Seq(T), NEW x, NEW y
    PROVE  Before(s \o t, x, y) <=>
             Before(s, x, y) \/ Before(t, x, y) \/ (x \in ToSet(s) /\ y \in ToSet(t))
<1> DEFINE m == Len(s)
           n == Len(t)
           c == s \o t
<1>1. /\ m \in Nat /\ n \in Nat /\ DOMAIN s = 1 .. m /\ DOMAIN t = 1 .. n /\ DOMAIN c = 1 .. (m + n)
      /\ \A i \in 1 .. m : c[i] = s[i]
      /\ \A i \in 1 .. n : c[i + m] = t[i]
      /\ \A i \in 1 .. (m + n) : i > m => i - m \in 1 .. n /\ c[i] = t[i - m]
  BY ConcatPoints
<1> HIDE DEF m, n, c
<1>2. ASSUME Before(c, x, y)
      PROVE  Before(s, x, y) \/ Before(t, x, y) \/ (x \in ToSet(s) /\ y \in ToSet(t))
  <2>1. PICK i \in 1 .. (m + n), j \in 1 .. (m + n) : i < j /\ c[i] = x /\ c[j] = y
    BY <1>1, <1>2 DEF Before
  <2>2. CASE j <= m
    <3>1. i \in 1 .. m /\ j \in 1 .. m
      BY <1>1, <2>1, <2>2
    <3> QED BY <1>1, <2>1, <3>1 DEF Before
  <2>3. CASE i > m
    <3>1. j > m
      BY <1>1, <2>1, <2>3
    <3>2. i - m \in 1 .. n /\ j - m \in 1 .. n /\ t[i - m] = x /\ t[j - m] = y
      BY <1>1, <2>1, <2>3, <3>1
    <3>3. i - m < j - m
      BY <1>1, <2>1
    <3> QED BY <1>1, <3>2, <3>3 DEF Before
  <2>4. CASE i <= m /\ j > m
    <3>1. i \in 1 .. m /\ j - m \in 1 .. n /\ s[i] = x /\ t[j - m] = y
      BY <1>1, <2>1, <2>4
    <3> QED BY <1>1, <3>1 DEF ToSet
  <2> QED BY <1>1, <2>1, <2>2, <2>3, <2>4
<1>3. ASSUME Before(s, x, y) PROVE Before(c, x, y)
  <2>1. PICK i \in 1 .. m, j \in 1 .. m : i < j /\ s[i] = x /\ s[j] = y
    BY <1>1, <1>3 DEF Before
  <2>2. i \in 1 .. (m + n) /\ j \in 1 .. (m + n)
    BY <1>1
  <2> QED BY <1>1, <2>1, <2>2 DEF Before
<1>4. ASSUME Before(t, x, y) PROVE Before(c, x, y)
  <2>1. PICK i \in 1 .. n, j \in 1 .. n : i < j /\ t[i] = x /\ t[j] = y
    BY <1>1, <1>4 DEF Before
  <2>2. i + m \in 1 .. (m + n) /\ j + m \in 1 .. (m + n) /\ i + m < j + m
    BY <1>1, <2>1
  <2>3. c[i + m] = x /\ c[j + m] = y
    BY <1>1, <2>1
  <2> QED BY <1>1, <2>2, <2>3 DEF Before
<1>5. ASSUME x \in ToSet(s), y \in ToSet(t) PROVE Before(c, x, y)
  <2>1. PICK i \in 1 .. m, j \in 1 .. n : s[i] = x /\ t[j] = y
    BY <1>1, <1>5 DEF ToSet
  <2>2. i \in 1 .. (m + n) /\ j + m \in 1 .. (m + n) /\ i < j + m
    BY <1>1
  <2> QED BY <1>1, <2>1, <2>2 DEF Before
<1> QED BY <1>2, <1>3, <1>4, <1>5 DEF c

LEMMA BeforeAppend ==
    ASSUME NEW T, NEW s \in Seq(T), NEW e \in T, NEW x, NEW y
    PROVE  Before(Append(s, e), x, y) <=> Before(s, x, y) \/ (x \in ToSet(s) /\ y = e)
<1> DEFINE m == Len(s)
           c == Append(s, e)
<1>1. /\ m \in Nat /\ DOMAIN s = 1 .. m /\ DOMAIN c = 1 .. (m + 1)
      /\ \A i \in 1 .. m : c[i] = s[i]
      /\ c[m + 1] = e
  BY AppendProperties, LenProperties
<1> HIDE DEF m, c
<1>2. ASSUME Before(c, x, y) PROVE Before(s, x, y) \/ (x \in ToSet(s) /\ y = e)
  <2>1. PICK i \in 1 .. (m + 1), j \in 1 .. (m + 1) : i < j /\ c[i] = x /\ c[j] = y
    BY <1>1, <1>2 DEF Before
  <2>2. i \in 1 .. m /\ s[i] = x
    BY <1>1, <2>1
  <2>3. CASE j \in 1 .. m
    BY <1>1, <2>1, <2>2, <2>3 DEF Before
  <2>4. CASE j = m + 1
    BY <1>1, <2>1, <2>2, <2>4 DEF ToSet
  <2> QED BY <1>1, <2>1, <2>3, <2>4
<1>3. ASSUME Before(s, x, y) PROVE Before(c, x, y)
  <2>1. PICK i \in 1 .. m, j \in 1 .. m : i < j /\ s[i] = x /\ s[j] = y
    BY <1>1, <1>3 DEF Before
  <2>2. i \in 1 .. (m + 1) /\ j \in 1 .. (m + 1)
    BY <1>1
  <2> QED BY <1>1, <2>1, <2>2 DEF Before
<1>4. ASSUME x \in ToSet(s), y = e PROVE Before(c, x, y)
  <2>1. PICK i \in 1 .. m : s[i] = x
    BY <1>1, <1>4 DEF ToSet
  <2>2. i \in 1 .. (m + 1) /\ m + 1 \in 1 .. (m + 1) /\ i < m + 1
    BY <1>1
  <2> QED BY <1>1, <1>4, <2>1, <2>2 DEF Before
<1> QED BY <1>2, <1>3, <1>4 DEF c

\* In a sequence without repetitions it is an order of places.
LEMMA BeforePlace ==
    ASSUME NEW T, NEW s \in Seq(T), IsInjective(s), NEW x, NEW y, Before(s, x, y)
    PROVE  Place(s, x) < Place(s, y)
<1>1. PICK i \in DOMAIN s, j \in DOMAIN s : i < j /\ s[i] = x /\ s[j] = y
  BY DEF Before
<1>2. ASSUME NEW k \in DOMAIN s PROVE Place(s, s[k]) = k
  <2>1. Place(s, s[k]) \in DOMAIN s /\ s[Place(s, s[k])] = s[k]
    BY DEF Place
  <2> QED BY <2>1 DEF IsInjective
<1> QED BY <1>1, <1>2

\* The parts of a concatenation, as they were cut: nothing twice, and two members
\* are in order when their part has them so or their parts are.
Cut(s, n, c) ==
    /\ IsInjective(c)
    /\ \A x : x \in ToSet(c) <=> \E i \in 1 .. n : x \in ToSet(s[i])
    /\ \A x, y : Before(c, x, y) <=>
          \/ \E i \in 1 .. n : Before(s[i], x, y)
          \/ \E i, j \in 1 .. n : i < j /\ x \in ToSet(s[i]) /\ y \in ToSet(s[j])

LEMMA CutOne ==
    ASSUME NEW s, IsInjective(s[1])
    PROVE  Cut(s, 1, s[1])
<1>1. 1 .. 1 = {1}
  OBVIOUS
<1>2. ~(1 < 1)
  OBVIOUS
<1> QED BY <1>1, <1>2 DEF Cut

LEMMA CutMore ==
    ASSUME NEW T, NEW s, NEW n \in Nat, NEW c \in Seq(T), s[n + 1] \in Seq(T), Cut(s, n, c),
           IsInjective(s[n + 1]), \A i \in 1 .. n : ~Meet(s[i], s[n + 1])
    PROVE  Cut(s, n + 1, c \o s[n + 1])
<1> DEFINE d == s[n + 1]
<1>1. 1 .. (n + 1) = (1 .. n) \union {n + 1} /\ \A i \in 1 .. n : i < n + 1 /\ ~(n + 1 < i)
  OBVIOUS
<1>a. ~(n + 1 < n + 1)
  OBVIOUS
<1>2. ~Meet(c, d)
  BY DEF Cut, Meet
<1>3. IsInjective(c \o d)
  BY <1>2, InjectiveConcat DEF Cut
<1>4. ToSet(c \o d) = ToSet(c) \union ToSet(d)
  BY ToSetConcat
<1>5. ASSUME NEW x
      PROVE  x \in ToSet(c \o d) <=> \E i \in 1 .. (n + 1) : x \in ToSet(s[i])
  BY <1>1, <1>4 DEF Cut
<1>6. ASSUME NEW x, NEW y
      PROVE  Before(c \o d, x, y) <=>
                \/ \E i \in 1 .. (n + 1) : Before(s[i], x, y)
                \/ \E i, j \in 1 .. (n + 1) : i < j /\ x \in ToSet(s[i]) /\ y \in ToSet(s[j])
  <2>1. Before(c \o d, x, y) <=> Before(c, x, y) \/ Before(d, x, y) \/ (x \in ToSet(c) /\ y \in ToSet(d))
    BY BeforeConcat
  <2>2. Before(c, x, y) <=>
          \/ \E i \in 1 .. n : Before(s[i], x, y)
          \/ \E i, j \in 1 .. n : i < j /\ x \in ToSet(s[i]) /\ y \in ToSet(s[j])
    BY DEF Cut
  <2>3. x \in ToSet(c) <=> \E i \in 1 .. n : x \in ToSet(s[i])
    BY DEF Cut
  <2>4. (\E i \in 1 .. (n + 1) : Before(s[i], x, y)) <=> (\E i \in 1 .. n : Before(s[i], x, y)) \/ Before(d, x, y)
    BY <1>1
  <2>5. (\E i, j \in 1 .. (n + 1) : i < j /\ x \in ToSet(s[i]) /\ y \in ToSet(s[j])) <=>
          \/ \E i, j \in 1 .. n : i < j /\ x \in ToSet(s[i]) /\ y \in ToSet(s[j])
          \/ (\E i \in 1 .. n : x \in ToSet(s[i])) /\ y \in ToSet(d)
    BY <1>1, <1>a
  <2> HIDE DEF d
  <2> QED BY <2>1, <2>2, <2>3, <2>4, <2>5
<1> QED BY <1>3, <1>5, <1>6 DEF Cut

LEMMA FlattenCut ==
    ASSUME NEW T, NEW s \in Seq(Seq(T)), s # <<>>,
           \A i \in 1 .. Len(s) : IsInjective(s[i]),
           \A i, j \in 1 .. Len(s) : i # j => ~Meet(s[i], s[j])
    PROVE  FlattenSeq(s) \in Seq(T) /\ Cut(s, Len(s), FlattenSeq(s))
<1>1. PICK f : FlattenUpto(s, Len(s), f) /\ FlattenSeq(s) = f[Len(s)]
  BY FlattenEquation
<1>2. \A i \in 1 .. Len(s) : f[i] = IF i = 1 THEN s[i] ELSE f[i-1] \o s[i]
  BY <1>1, Zenon DEF FlattenUpto
<1>3. Len(s) \in Nat /\ Len(s) # 0 /\ DOMAIN s = 1 .. Len(s) /\ \A i \in 1 .. Len(s) : s[i] \in Seq(T)
  BY LenProperties, EmptySeq, ElementOfSeq
<1> DEFINE S == {n \in Nat : n \in 1 .. Len(s) => f[n] \in Seq(T) /\ Cut(s, n, f[n])}
<1>4. 0 \in S
  OBVIOUS
<1>5. ASSUME NEW n \in Nat, n \in S PROVE n + 1 \in S
  <2> SUFFICES ASSUME n + 1 \in 1 .. Len(s)
               PROVE  f[n + 1] \in Seq(T) /\ Cut(s, n + 1, f[n + 1])
    OBVIOUS
  <2>1. CASE n = 0
    <3>1. n + 1 = 1 /\ 1 \in 1 .. Len(s)
      BY <2>1
    <3>2. f[1] = s[1] /\ s[1] \in Seq(T) /\ IsInjective(s[1])
      BY <1>2, <1>3, <3>1
    <3>3. Cut(s, 1, s[1])
      BY <3>2, CutOne
    <3> QED BY <3>1, <3>2, <3>3
  <2>2. CASE n # 0
    <3>1. n \in 1 .. Len(s) /\ (n + 1) - 1 = n /\ n + 1 # 1
      BY <1>3, <2>2
    <3>2. f[n] \in Seq(T) /\ Cut(s, n, f[n])
      BY <1>5, <3>1
    <3>3. f[n + 1] = f[n] \o s[n + 1]
      BY <1>2, <3>1
    <3>4. s[n + 1] \in Seq(T) /\ IsInjective(s[n + 1])
      BY <1>3
    <3>5. \A i \in 1 .. n : ~Meet(s[i], s[n + 1])
      <4>1. \A i \in 1 .. n : i \in 1 .. Len(s) /\ i # n + 1
        BY <1>3, <3>1
      <4> QED BY <4>1
    <3>6. Cut(s, n + 1, f[n] \o s[n + 1])
      BY <3>2, <3>4, <3>5, CutMore
    <3>7. f[n] \o s[n + 1] \in Seq(T)
      BY <3>2, <3>4, ConcatProperties
    <3> QED BY <3>3, <3>6, <3>7
  <2> QED BY <2>1, <2>2
<1> HIDE DEF S
<1>6. Len(s) \in S
  BY <1>3, <1>4, <1>5, Induction
<1>7. Len(s) \in 1 .. Len(s)
  BY <1>3
<1> QED BY <1>1, <1>6, <1>7 DEF S

-----------------------------------------------------------------------------
\* The heap

\* Lines that can be merged: finitely many, with keys that are compared.
Fit(l, S) == IsFiniteSet(S) /\ S \subseteq Files \X Nat /\ \A n \in S : KeyOf(l, n) \in Nat

Least(l, H, n) ==
    n \in H /\ \A m \in H \ {n} : \/ KeyOf(l, n) < KeyOf(l, m)
                                  \/ KeyOf(l, n) = KeyOf(l, m) /\ n[1] < m[1]

LEMMA LeastNumber ==
    ASSUME NEW S \in SUBSET Nat, S # {}
    PROVE  \E m \in S : \A k \in S : m <= k
<1> DEFINE R == {n \in Nat : \A j \in S : n <= j}
<1>1. ASSUME \A n \in R : n \notin S PROVE FALSE
  <2>1. 0 \in R
    OBVIOUS
  <2>2. ASSUME NEW n \in Nat, n \in R PROVE n + 1 \in R
    <3>1. \A j \in S : n <= j /\ j # n /\ j \in Nat
      BY <1>1, <2>2
    <3>2. \A j \in S : n + 1 <= j
      BY <3>1
    <3> QED BY <3>2
  <2>3. Nat \subseteq R
    <3> HIDE DEF R
    <3> QED BY <2>1, <2>2, Induction
  <2>4. PICK x \in S : TRUE
    OBVIOUS
  <2>5. x + 1 \in R
    BY <2>3
  <2> QED BY <2>4, <2>5
<1> QED BY <1>1

LEMMA HeadExists ==
    ASSUME NEW left \in SUBSET (Files \X Nat), NEW n \in left
    PROVE  \E h \in Heads(left) : h[1] = n[1]
<1> DEFINE A == {i \in Nat : <<n[1], i>> \in left}
<1>1. n[1] \in Files /\ n[2] \in Nat /\ n = <<n[1], n[2]>>
  OBVIOUS
<1>2. n[2] \in A
  BY <1>1
<1>3. PICK i \in A : \A k \in A : i <= k
  BY <1>2, LeastNumber
<1>4. <<n[1], i>> \in left
  BY <1>3
<1>5. ASSUME NEW m \in left, m[1] = n[1] PROVE i <= m[2]
  <2>1. m = <<n[1], m[2]>> /\ m[2] \in Nat
    BY <1>5
  <2> QED BY <1>3, <2>1
<1>6. <<n[1], i>> \in Heads(left)
  BY <1>4, <1>5 DEF Heads
<1> QED BY <1>6

LEMMA PoppedIs ==
    ASSUME NEW l, NEW S, Fit(l, S), NEW left \in SUBSET S, left # {}
    PROVE  Popped(l, left) \in left /\ Least(l, Heads(left), Popped(l, left))
<1> DEFINE H == Heads(left)
           Ks == {KeyOf(l, h) : h \in H}
<1>0. left \subseteq Files \X Nat /\ H \subseteq left /\ \A h \in H : KeyOf(l, h) \in Nat
  BY DEF Fit, Heads
<1>1. H # {}
  BY <1>0, HeadExists
<1>2. Ks \in SUBSET Nat /\ Ks # {}
  BY <1>0, <1>1
<1>3. PICK k \in Ks : \A j \in Ks : k <= j
  BY <1>2, LeastNumber
<1> DEFINE Fs == {h[1] : h \in {h \in H : KeyOf(l, h) = k}}
<1>4. Fs \in SUBSET Nat /\ Fs # {}
  BY <1>0, <1>3 DEF Files
<1>5. PICK f \in Fs : \A j \in Fs : f <= j
  BY <1>4, LeastNumber
<1>6. PICK n \in H : KeyOf(l, n) = k /\ n[1] = f
  BY <1>5
<1>7. ASSUME NEW m \in H, m # n
      PROVE  KeyOf(l, n) < KeyOf(l, m) \/ (KeyOf(l, n) = KeyOf(l, m) /\ n[1] < m[1])
  <2>1. k <= KeyOf(l, m) /\ k \in Nat /\ KeyOf(l, m) \in Nat
    BY <1>0, <1>2, <1>3
  <2>2. CASE KeyOf(l, m) = k
    <3>1. m[1] \in Fs
      BY <2>2
    <3>2. f <= m[1] /\ f \in Nat /\ m[1] \in Nat
      BY <1>4, <1>5, <3>1
    <3>3. m[1] # f
      <4> SUFFICES ASSUME m[1] = f PROVE FALSE
        OBVIOUS
      <4>1. n[2] <= m[2] /\ m[2] <= n[2]
        BY <1>6 DEF Heads
      <4>2. m = <<m[1], m[2]>> /\ n = <<n[1], n[2]>> /\ m[2] \in Nat /\ n[2] \in Nat
        BY <1>0
      <4>3. m[2] = n[2]
        BY <4>1, <4>2
      <4> QED BY <1>6, <1>7, <4>2, <4>3
    <3>4. f < m[1]
      BY <3>2, <3>3
    <3> QED BY <1>6, <2>2, <3>4
  <2>3. CASE KeyOf(l, m) # k
    <3>1. k < KeyOf(l, m)
      BY <2>1, <2>3
    <3> QED BY <1>6, <3>1
  <2> QED BY <2>2, <2>3
<1> HIDE DEF H
<1>8. Popped(l, left) = CHOOSE x \in H : \A m \in H \ {x} :
                            \/ KeyOf(l, x) < KeyOf(l, m)
                            \/ KeyOf(l, x) = KeyOf(l, m) /\ x[1] < m[1]
  BY DEF Popped, HeadKey, H
<1>9. Least(l, H, Popped(l, left))
  BY <1>7, <1>8 DEF Least
<1> QED BY <1>0, <1>9 DEF Least, H

LEMMA LeastUnique ==
    ASSUME NEW l, NEW S, Fit(l, S), NEW H \in SUBSET S, NEW n, NEW m,
           Least(l, H, n), Least(l, H, m)
    PROVE  n = m
<1> SUFFICES ASSUME n # m PROVE FALSE
  OBVIOUS
<1>1. n \in H /\ m \in H
  BY DEF Least
<1>2. KeyOf(l, n) \in Nat /\ KeyOf(l, m) \in Nat /\ n[1] \in Nat /\ m[1] \in Nat
  BY <1>1 DEF Fit, Files
<1>3. /\ KeyOf(l, n) < KeyOf(l, m) \/ (KeyOf(l, n) = KeyOf(l, m) /\ n[1] < m[1])
      /\ KeyOf(l, m) < KeyOf(l, n) \/ (KeyOf(l, m) = KeyOf(l, n) /\ m[1] < n[1])
  BY <1>1 DEF Least
<1> QED BY <1>2, <1>3

-----------------------------------------------------------------------------
\* The merge, pop by pop

MergeUpto(l, run, N, g) ==
    g = [i \in 0 .. N |->
           IF i = 0 THEN [out |-> <<>>, left |-> run] ELSE Pop(l, g[i - 1])]

LEMMA MergeExists ==
    ASSUME NEW l, NEW run, NEW N \in Nat
    PROVE  \E g : MergeUpto(l, run, N, g)
<1> DEFINE S == {n \in Nat : \E g : MergeUpto(l, run, n, g)}
           base == [out |-> <<>>, left |-> run]
<1>1. 0 \in S
  <2> DEFINE g == [i \in 0 .. 0 |-> base]
  <2>1. 0 .. 0 = {0}
    OBVIOUS
  <2>2. g = [i \in 0 .. 0 |-> IF i = 0 THEN base ELSE Pop(l, g[i - 1])]
    BY <2>1
  <2> HIDE DEF g
  <2>3. MergeUpto(l, run, 0, g)
    BY <2>2 DEF MergeUpto
  <2> QED BY <2>3
<1>2. ASSUME NEW n \in Nat, n \in S PROVE n + 1 \in S
  <2>1. PICK g : MergeUpto(l, run, n, g)
    BY <1>2
  <2>2. \A i \in 0 .. n : g[i] = IF i = 0 THEN base ELSE Pop(l, g[i - 1])
    BY <2>1, Zenon DEF MergeUpto
  <2> DEFINE h == [i \in 0 .. (n + 1) |-> IF i = n + 1 THEN Pop(l, g[n]) ELSE g[i]]
             rhs(i) == IF i = 0 THEN base ELSE Pop(l, h[i - 1])
  <2>3. ASSUME NEW i \in 0 .. (n + 1) PROVE h[i] = rhs(i)
    <3>1. CASE i = n + 1
      <4>1. i - 1 = n /\ i # 0 /\ n \in 0 .. (n + 1) /\ n # n + 1
        BY <3>1
      <4>2. h[i] = Pop(l, g[n]) /\ h[n] = g[n]
        BY <3>1, <4>1
      <4> HIDE DEF h
      <4> QED BY <4>1, <4>2
    <3>2. CASE i # n + 1
      <4>1. i \in 0 .. n /\ (i # 0 => i - 1 \in 0 .. (n + 1) /\ i - 1 # n + 1)
        BY <3>2
      <4>2. h[i] = g[i] /\ (i # 0 => h[i - 1] = g[i - 1])
        BY <3>2, <4>1
      <4> HIDE DEF h
      <4> QED BY <2>2, <4>1, <4>2
    <3> QED BY <3>1, <3>2
  <2>4. h = [i \in 0 .. (n + 1) |-> h[i]]
    OBVIOUS
  <2> HIDE DEF h
  <2>5. h = [i \in 0 .. (n + 1) |-> IF i = 0 THEN base ELSE Pop(l, h[i - 1])]
    BY <2>3, <2>4, Zenon
  <2>6. MergeUpto(l, run, n + 1, h)
    BY <2>5, Zenon DEF MergeUpto
  <2> QED BY <2>6
<1> HIDE DEF S
<1>3. N \in S
  BY <1>1, <1>2, Induction
<1> QED BY <1>3 DEF S

LEMMA MergeFunction ==
    ASSUME NEW l, NEW run
    PROVE  LET g == CHOOSE g : MergeUpto(l, run, Cardinality(run), g)
           IN  MergeSameTs(l, run) = g[Cardinality(run)].out
BY DEF MergeSameTs, MergeUpto

\* The merge after each pop.
Merges(l, run, g) ==
    /\ MergeSameTs(l, run) = g[Cardinality(run)].out
    /\ g[0] = [out |-> <<>>, left |-> run]
    /\ \A i \in 0 .. Cardinality(run) : i # 0 => g[i] = Pop(l, g[i - 1])

LEMMA MergeEquation ==
    ASSUME NEW l, NEW run, IsFiniteSet(run)
    PROVE  \E g : Merges(l, run, g)
<1> DEFINE N == Cardinality(run)
           g == CHOOSE g : MergeUpto(l, run, N, g)
<1>1. N \in Nat
  BY FS_CardinalityType
<1>2. MergeSameTs(l, run) = g[N].out
  BY MergeFunction
<1> HIDE DEF N
<1>3. MergeUpto(l, run, N, g)
  BY <1>1, MergeExists, Zenon
<1> HIDE DEF g
<1>4. \A i \in 0 .. N : g[i] = IF i = 0 THEN [out |-> <<>>, left |-> run] ELSE Pop(l, g[i - 1])
  BY <1>3, Zenon DEF MergeUpto
<1>5. 0 \in 0 .. N
  BY <1>1
<1>6. Merges(l, run, g)
  BY <1>2, <1>4, <1>5 DEF N, Merges
<1> QED BY <1>6

\* After n pops: n lines are out, each once, and each file's in their order.
Popping(S, n, merge) ==
    /\ merge.out \in Seq(S) /\ Len(merge.out) = n /\ IsInjective(merge.out)
    /\ merge.left = S \ ToSet(merge.out)
    /\ Cardinality(merge.left) + n = Cardinality(S)
    /\ \A x, y : Before(merge.out, x, y) /\ x[1] = y[1] => x[2] < y[2]
    /\ \A x \in ToSet(merge.out), y \in merge.left : x[1] = y[1] => x[2] < y[2]

LEMMA PoppingStart ==
    ASSUME NEW S, Cardinality(S) \in Nat
    PROVE  Popping(S, 0, [out |-> <<>>, left |-> S])
<1>1. <<>> \in Seq(S) /\ Len(<<>>) = 0 /\ DOMAIN <<>> = {}
  OBVIOUS
<1>2. ToSet(<<>>) = {} /\ IsInjective(<<>>) /\ \A x, y : ~Before(<<>>, x, y)
  BY <1>1 DEF ToSet, IsInjective, Before
<1>3. S = S \ {} /\ Cardinality(S) + 0 = Cardinality(S)
  OBVIOUS
<1> QED BY <1>1, <1>2, <1>3 DEF Popping

LEMMA AppendUnrepeated ==
    ASSUME NEW T, NEW s \in Seq(T), NEW e \in T, IsInjective(s), e \notin ToSet(s)
    PROVE  IsInjective(Append(s, e))
<1>1. /\ Len(s) \in Nat /\ DOMAIN s = 1 .. Len(s) /\ DOMAIN Append(s, e) = 1 .. (Len(s) + 1)
      /\ \A i \in 1 .. Len(s) : Append(s, e)[i] = s[i] /\ s[i] # e
      /\ Append(s, e)[Len(s) + 1] = e
  BY AppendProperties, LenProperties DEF ToSet
<1>2. \A i \in 1 .. (Len(s) + 1) : i \in 1 .. Len(s) \/ i = Len(s) + 1
  BY <1>1
<1>3. \A i, j \in 1 .. Len(s) : s[i] = s[j] => i = j
  BY <1>1 DEF IsInjective
<1> QED BY <1>1, <1>2, <1>3 DEF IsInjective

LEMMA PoppingMore ==
    ASSUME NEW l, NEW S, Fit(l, S), NEW n \in Nat, NEW merge, Popping(S, n, merge),
           n < Cardinality(S)
    PROVE  /\ merge.left # {}
           /\ Popping(S, n + 1, Pop(l, merge))
<1> DEFINE out == merge.out
           left == merge.left
           x == Popped(l, left)
           more == Append(out, x)
           rest == left \ {x}
<1>0. /\ out \in Seq(S) /\ Len(out) = n /\ IsInjective(out) /\ left = S \ ToSet(out)
      /\ Cardinality(left) + n = Cardinality(S)
      /\ \A a, b : Before(out, a, b) /\ a[1] = b[1] => a[2] < b[2]
      /\ \A a \in ToSet(out), b \in left : a[1] = b[1] => a[2] < b[2]
      /\ IsFiniteSet(S) /\ S \subseteq Files \X Nat
  BY DEF Popping, Fit
<1>1. IsFiniteSet(left) /\ Cardinality(left) \in Nat /\ left \subseteq S
  BY <1>0, FS_Subset, FS_CardinalityType
<1>2. left # {}
  <2>1. Cardinality({}) = 0
    BY FS_EmptySet
  <2>2. Cardinality(left) # 0
    BY <1>0, <1>1
  <2> QED BY <2>1, <2>2
<1>3. Pop(l, merge) = [out |-> more, left |-> rest]
  BY DEF Pop
<1>4. x \in left /\ x \in Heads(left)
  BY <1>1, <1>2, PoppedIs DEF Least
<1> HIDE DEF x
<1>5. x \in S /\ x \notin ToSet(out)
  BY <1>0, <1>4
<1>6. more \in Seq(S) /\ Len(more) = n + 1
  BY <1>0, <1>5, AppendProperties
<1>7. IsInjective(more)
  BY <1>0, <1>5, AppendUnrepeated
<1>8. ToSet(more) = ToSet(out) \union {x}
  BY <1>0, <1>5, ToSetAppend
<1>9. rest = S \ ToSet(more)
  BY <1>0, <1>8
<1>10. Cardinality(rest) + (n + 1) = Cardinality(S)
  <2>1. Cardinality(rest) = Cardinality(left) - 1
    BY <1>1, <1>4, FS_RemoveElement
  <2> QED BY <1>0, <1>1, <2>1
<1>11. ASSUME NEW a, NEW b, Before(more, a, b), a[1] = b[1] PROVE a[2] < b[2]
  <2>1. Before(out, a, b) \/ (a \in ToSet(out) /\ b = x)
    BY <1>0, <1>5, <1>11, BeforeAppend
  <2> QED BY <1>0, <1>4, <1>11, <2>1
<1>12. ASSUME NEW a \in ToSet(more), NEW b \in rest, a[1] = b[1] PROVE a[2] < b[2]
  <2>1. CASE a \in ToSet(out)
    BY <1>0, <1>12, <2>1
  <2>2. CASE a = x
    <3>1. a[2] <= b[2]
      BY <1>4, <1>12, <2>2 DEF Heads
    <3>2. a = <<a[1], a[2]>> /\ b = <<b[1], b[2]>> /\ a[2] \in Nat /\ b[2] \in Nat /\ a # b
      BY <1>0, <1>1, <1>4, <1>12, <2>2
    <3>3. a[2] # b[2]
      BY <1>12, <3>2
    <3> QED BY <3>1, <3>2, <3>3
  <2> QED BY <1>8, <1>12, <2>1, <2>2
<1> HIDE DEF more, rest
<1>13. Popping(S, n + 1, [out |-> more, left |-> rest])
  BY <1>6, <1>7, <1>9, <1>10, <1>11, <1>12 DEF Popping
<1> QED BY <1>2, <1>3, <1>13

LEMMA AllPopping ==
    ASSUME NEW l, NEW S, Fit(l, S), NEW g, Merges(l, S, g)
    PROVE  \A n \in 0 .. Cardinality(S) : Popping(S, n, g[n])
<1> DEFINE N == Cardinality(S)
           R == {n \in Nat : n <= N => Popping(S, n, g[n])}
<1>1. N \in Nat
  BY FS_CardinalityType DEF Fit
<1>2. 0 \in R
  BY <1>1, PoppingStart DEF Merges
<1>3. ASSUME NEW n \in Nat, n \in R PROVE n + 1 \in R
  <2> SUFFICES ASSUME n + 1 <= N PROVE Popping(S, n + 1, g[n + 1])
    OBVIOUS
  <2>1. n < N /\ n <= N /\ n + 1 \in 0 .. N /\ n + 1 # 0 /\ (n + 1) - 1 = n
    BY <1>1
  <2>2. g[n + 1] = Pop(l, g[n])
    BY <2>1 DEF Merges
  <2>3. Popping(S, n, g[n])
    BY <1>3, <2>1
  <2> HIDE DEF N
  <2> QED BY <2>1, <2>2, <2>3, PoppingMore DEF N
<1> HIDE DEF R
<1>4. Nat \subseteq R
  BY <1>2, <1>3, Induction
<1>5. \A n \in 0 .. N : n \in Nat /\ n <= N
  BY <1>1
<1> QED BY <1>4, <1>5 DEF R

\* A run comes out whole, nothing twice, each file's lines in their order.
LEMMA MergeIs ==
    ASSUME NEW l, NEW S, Fit(l, S)
    PROVE  /\ MergeSameTs(l, S) \in Seq(S) /\ IsInjective(MergeSameTs(l, S))
           /\ ToSet(MergeSameTs(l, S)) = S
           /\ \A x, y : Before(MergeSameTs(l, S), x, y) /\ x[1] = y[1] => x[2] < y[2]
<1> DEFINE N == Cardinality(S)
<1>1. N \in Nat /\ N \in 0 .. N /\ IsFiniteSet(S)
  BY FS_CardinalityType DEF Fit
<1>2. PICK g : Merges(l, S, g)
  BY <1>1, MergeEquation
<1>2a. /\ MergeSameTs(l, S) = g[N].out
       /\ g[0] = [out |-> <<>>, left |-> S]
       /\ \A i \in 0 .. N : i # 0 => g[i] = Pop(l, g[i - 1])
  BY <1>2 DEF Merges
<1>3. Popping(S, N, g[N])
  BY <1>1, <1>2, AllPopping
<1>4. g[N].left \in SUBSET S /\ Cardinality(g[N].left) + N = N
  BY <1>3 DEF Popping
<1>5. IsFiniteSet(g[N].left) /\ Cardinality(g[N].left) \in Nat
  BY <1>1, <1>4, FS_Subset, FS_CardinalityType
<1>6. Cardinality(g[N].left) = 0
  BY <1>1, <1>4, <1>5
<1>7. g[N].left = {}
  BY <1>5, <1>6, FS_EmptySet
<1>8. ToSet(g[N].out) \subseteq S
  BY <1>3 DEF Popping, ToSet
<1>9. ToSet(g[N].out) = S
  BY <1>3, <1>7, <1>8 DEF Popping
<1> QED BY <1>2a, <1>3, <1>9 DEF Popping

-----------------------------------------------------------------------------
\* One line more

\* All of s is in t, and in the same order.
Within(s, t) ==
    ToSet(s) \subseteq ToSet(t) /\ \A x, y : Before(s, x, y) => Before(t, x, y)

LEMMA WithinNew ==
    ASSUME NEW T, NEW s \in Seq(T), NEW e \in T
    PROVE  Within(s, Append(s, e))
BY ToSetAppend, BeforeAppend DEF Within

LEMMA WithinBoth ==
    ASSUME NEW T, NEW s \in Seq(T), NEW t \in Seq(T), NEW e \in T, Within(s, t)
    PROVE  Within(Append(s, e), Append(t, e))
<1>1. ToSet(Append(s, e)) = ToSet(s) \union {e} /\ ToSet(Append(t, e)) = ToSet(t) \union {e}
  BY ToSetAppend
<1>2. ASSUME NEW x, NEW y, Before(Append(s, e), x, y) PROVE Before(Append(t, e), x, y)
  <2>1. Before(s, x, y) \/ (x \in ToSet(s) /\ y = e)
    BY <1>2, BeforeAppend
  <2>2. Before(t, x, y) \/ (x \in ToSet(t) /\ y = e)
    BY <2>1 DEF Within
  <2> QED BY <2>2, BeforeAppend
<1> QED BY <1>1, <1>2 DEF Within

\* What is popped depends on the keys of what is left,
LEMMA SamePopped ==
    ASSUME NEW l, NEW m, NEW S, Fit(l, S), Fit(m, S),
           \A n \in S : KeyOf(m, n) = KeyOf(l, n),
           NEW left \in SUBSET S, left # {}
    PROVE  Popped(m, left) = Popped(l, left)
<1>1. Least(l, Heads(left), Popped(l, left)) /\ Least(m, Heads(left), Popped(m, left))
  BY PoppedIs
<1>2. Heads(left) \in SUBSET S
  BY DEF Heads
<1> DEFINE x == Popped(l, left)
           y == Popped(m, left)
<1> HIDE DEF x, y
<1>3. Least(l, Heads(left), y)
  BY <1>1, <1>2 DEF Least, y
<1> QED BY <1>1, <1>2, <1>3, LeastUnique DEF x, y

\* and a last line of some file is popped, or changes nothing.
LEMMA MorePopped ==
    ASSUME NEW l, NEW m, NEW S, NEW e, e \notin S, Fit(l, S), Fit(m, S \union {e}),
           \A n \in S : KeyOf(m, n) = KeyOf(l, n),
           \A n \in S : n[1] = e[1] => n[2] <= e[2],
           NEW left \in SUBSET S, left # {}
    PROVE  Popped(m, left \union {e}) = e \/ Popped(m, left \union {e}) = Popped(l, left)
<1> DEFINE more == left \union {e}
           y == Popped(m, more)
           x == Popped(l, left)
<1>1. more \in SUBSET (S \union {e}) /\ more # {}
  OBVIOUS
<1>2. y \in more /\ Least(m, Heads(more), y)
  BY <1>1, PoppedIs
<1>3. Least(l, Heads(left), x)
  BY PoppedIs
<1>4. Heads(left) \subseteq Heads(more) /\ Heads(left) \in SUBSET S
  BY DEF Heads
<1>5. y # e => y \in Heads(left)
  BY <1>2 DEF Heads, Least
<1> HIDE DEF x, y
<1>6. y # e => Least(l, Heads(left), y)
  BY <1>2, <1>4, <1>5 DEF Least
<1> QED BY <1>3, <1>4, <1>6, LeastUnique DEF x, y

\* The merge of the same lines with the same keys,
LEMMA MergeSame ==
    ASSUME NEW l, NEW m, NEW S, Fit(l, S), Fit(m, S),
           \A n \in S : KeyOf(m, n) = KeyOf(l, n)
    PROVE  MergeSameTs(m, S) = MergeSameTs(l, S)
<1> DEFINE N == Cardinality(S)
<1>1. N \in Nat /\ IsFiniteSet(S)
  BY FS_CardinalityType DEF Fit
<1>2. PICK g : Merges(l, S, g)
  BY <1>1, MergeEquation
<1>2a. /\ MergeSameTs(l, S) = g[N].out
       /\ g[0] = [out |-> <<>>, left |-> S]
       /\ \A i \in 0 .. N : i # 0 => g[i] = Pop(l, g[i - 1])
  BY <1>2 DEF Merges
<1>3. PICK h : Merges(m, S, h)
  BY <1>1, MergeEquation
<1>3a. /\ MergeSameTs(m, S) = h[N].out
       /\ h[0] = [out |-> <<>>, left |-> S]
       /\ \A i \in 0 .. N : i # 0 => h[i] = Pop(m, h[i - 1])
  BY <1>3 DEF Merges
<1>4. \A n \in 0 .. N : Popping(S, n, g[n])
  BY <1>2, AllPopping
<1> DEFINE R == {n \in Nat : n <= N => g[n] = h[n]}
<1>5. 0 \in R
  BY <1>2a, <1>3a
<1>6. ASSUME NEW n \in Nat, n \in R PROVE n + 1 \in R
  <2> SUFFICES ASSUME n + 1 <= N PROVE g[n + 1] = h[n + 1]
    OBVIOUS
  <2>1. n < N /\ n <= N /\ n + 1 \in 0 .. N /\ n + 1 # 0 /\ (n + 1) - 1 = n /\ n \in 0 .. N
    BY <1>1
  <2>2. g[n + 1] = Pop(l, g[n]) /\ h[n + 1] = Pop(m, h[n])
    BY <1>2a, <1>3a, <2>1
  <2>3. g[n] = h[n] /\ Popping(S, n, g[n])
    BY <1>4, <1>6, <2>1
  <2>4. g[n].left # {} /\ g[n].left \in SUBSET S
    <3>1. g[n].left # {}
      BY <2>1, <2>3, PoppingMore
    <3>2. g[n].left \in SUBSET S
      BY <2>3 DEF Popping
    <3> QED BY <3>1, <3>2
  <2>5. Popped(m, g[n].left) = Popped(l, g[n].left)
    BY <2>4, SamePopped
  <2> QED BY <2>2, <2>3, <2>5 DEF Pop
<1> HIDE DEF R
<1>7. N \in R
  BY <1>1, <1>5, <1>6, Induction
<1> QED BY <1>1, <1>2a, <1>3a, <1>7 DEF R

\* and of one line more, the last of its file: it is put between the others.
LEMMA MergeMore ==
    ASSUME NEW l, NEW m, NEW S, NEW e, e \notin S, Fit(l, S), Fit(m, S \union {e}),
           \A n \in S : KeyOf(m, n) = KeyOf(l, n),
           \A n \in S : n[1] = e[1] => n[2] <= e[2]
    PROVE  Within(MergeSameTs(l, S), MergeSameTs(m, S \union {e}))
<1> DEFINE N == Cardinality(S)
           S2 == S \union {e}
<1>1. N \in Nat /\ IsFiniteSet(S) /\ IsFiniteSet(S2) /\ Fit(m, S)
  <2>1. IsFiniteSet(S) /\ IsFiniteSet(S2)
    BY DEF Fit
  <2>2. Fit(m, S)
    BY <2>1 DEF Fit
  <2> QED BY <2>1, <2>2, FS_CardinalityType
<1>2. Cardinality(S2) = N + 1
  BY <1>1, FS_AddElement
<1>3. PICK g : Merges(l, S, g)
  BY <1>1, MergeEquation
<1>3a. /\ MergeSameTs(l, S) = g[N].out
       /\ g[0] = [out |-> <<>>, left |-> S]
       /\ \A i \in 0 .. N : i # 0 => g[i] = Pop(l, g[i - 1])
  BY <1>3 DEF Merges
<1>4. PICK h : Merges(m, S2, h)
  BY <1>1, MergeEquation
<1>4a. /\ MergeSameTs(m, S2) = h[Cardinality(S2)].out
       /\ h[0] = [out |-> <<>>, left |-> S2]
       /\ \A i \in 0 .. Cardinality(S2) : i # 0 => h[i] = Pop(m, h[i - 1])
  BY <1>4 DEF Merges
<1>5. \A n \in 0 .. N : Popping(S, n, g[n])
  BY <1>3, AllPopping
<1>6. \A n \in 0 .. (N + 1) : Popping(S2, n, h[n])
  BY <1>2, <1>4, AllPopping
<1> HIDE DEF S2, N
<1>7. \A n \in 0 .. N : /\ g[n].left \in SUBSET S /\ g[n].out \in Seq(S)
                        /\ g[n].out \in Seq(S2) /\ e \notin g[n].left
  <2>1. Seq(S) \subseteq Seq(S2)
    BY DEF S2
  <2> QED BY <1>5, <2>1 DEF Popping
<1>8. \A n \in 0 .. (N + 1) : h[n].out \in Seq(S2)
  BY <1>6 DEF Popping
<1> DEFINE Ahead(n) == h[n].out = g[n].out /\ h[n].left = g[n].left \union {e}
           Behind(n) == Within(g[n].out, h[n + 1].out) /\ h[n + 1].left = g[n].left
           R == {n \in Nat : n <= N => Ahead(n) \/ Behind(n)}
\* The new line is popped, when all before it are as they were.
<1>9. ASSUME NEW n \in 0 .. N, Ahead(n), Popped(m, h[n].left) = e PROVE Behind(n)
  <2>1. n + 1 \in 0 .. (N + 1) /\ n + 1 # 0 /\ (n + 1) - 1 = n
    BY <1>1
  <2>2. h[n + 1] = [out |-> Append(h[n].out, e), left |-> h[n].left \ {e}]
    BY <1>2, <1>4a, <1>9, <2>1 DEF Pop
  <2>3. h[n + 1].out = Append(g[n].out, e) /\ h[n + 1].left = g[n].left
    BY <1>7, <1>9, <2>2
  <2>4. Within(g[n].out, Append(g[n].out, e))
    <3>1. g[n].out \in Seq(S2) /\ e \in S2
      BY <1>7 DEF S2
    <3> QED BY <3>1, WithinNew
  <2> QED BY <2>3, <2>4
<1>10. 0 \in R
  BY <1>3a, <1>4a DEF S2
<1>11. ASSUME NEW n \in Nat, n \in R PROVE n + 1 \in R
  <2> SUFFICES ASSUME n + 1 <= N PROVE Ahead(n + 1) \/ Behind(n + 1)
    OBVIOUS
  <2> DEFINE left == g[n].left
             x == Popped(l, left)
  <2>1. /\ n < N /\ n <= N /\ n \in 0 .. N /\ n + 1 \in 0 .. N /\ n + 1 # 0 /\ (n + 1) - 1 = n
        /\ n + 1 \in 0 .. (N + 1) /\ (n + 1) + 1 \in 0 .. (N + 1) /\ ((n + 1) + 1) - 1 = n + 1
        /\ (n + 1) + 1 # 0
    BY <1>1
  <2>2. g[n + 1] = [out |-> Append(g[n].out, x), left |-> left \ {x}]
    BY <1>3a, <2>1 DEF Pop
  <2>3. left # {} /\ left \in SUBSET S /\ e \notin left
    BY <1>5, <1>7, <2>1, PoppingMore DEF N
  <2>4. x \in left /\ x \in S
    BY <2>3, PoppedIs
  <2> HIDE DEF x
  <2>5. ASSUME Behind(n) PROVE Behind(n + 1)
    <3>1. h[(n + 1) + 1] = Pop(m, h[n + 1])
      BY <1>2, <1>4a, <2>1
    <3>2. Popped(m, left) = x
      BY <1>1, <2>3, SamePopped DEF x
    <3>3. h[(n + 1) + 1] = [out |-> Append(h[n + 1].out, x), left |-> left \ {x}]
      BY <2>5, <3>1, <3>2 DEF Pop
    <3>4. g[n].out \in Seq(S2) /\ h[n + 1].out \in Seq(S2) /\ x \in S2
      BY <1>7, <1>8, <2>1, <2>4 DEF S2
    <3>5. Within(Append(g[n].out, x), Append(h[n + 1].out, x))
      BY <2>5, <3>4, WithinBoth
    <3> QED BY <2>2, <3>3, <3>5
  <2>6. CASE Ahead(n)
    <3>1. Popped(m, left \union {e}) = e \/ Popped(m, left \union {e}) = x
      BY <2>3, MorePopped DEF x, S2
    <3>2. CASE Popped(m, left \union {e}) = e
      <4>1. Behind(n)
        BY <1>9, <2>1, <2>6, <3>2
      <4> QED BY <2>5, <4>1
    <3>3. CASE Popped(m, left \union {e}) = x
      <4>1. h[n + 1] = Pop(m, h[n])
        BY <1>2, <1>4a, <2>1
      <4>2. h[n + 1] = [out |-> Append(g[n].out, x), left |-> (left \union {e}) \ {x}]
        BY <2>6, <3>3, <4>1 DEF Pop
      <4>3. (left \union {e}) \ {x} = (left \ {x}) \union {e}
        BY <2>3, <2>4
      <4>4. h[n + 1].out = g[n + 1].out
        BY <2>2, <4>2
      <4>5. h[n + 1].left = (left \union {e}) \ {x} /\ g[n + 1].left = left \ {x}
        BY <2>2, <4>2
      <4>6. h[n + 1].left = g[n + 1].left \union {e}
        BY <4>3, <4>5
      <4> QED BY <4>4, <4>6
    <3> QED BY <3>1, <3>2, <3>3
  <2>7. CASE Behind(n)
    BY <2>5, <2>7
  <2>8. Ahead(n) \/ Behind(n)
    BY <1>11, <2>1
  <2> QED BY <2>6, <2>7, <2>8
<1> HIDE DEF R
<1>12. N \in R
  BY <1>1, <1>10, <1>11, Induction
<1>13. Ahead(N) \/ Behind(N)
  BY <1>1, <1>12 DEF R
<1>14. N \in 0 .. N
  BY <1>1
<1>15. Ahead(N) => Behind(N)
  <2> SUFFICES ASSUME Ahead(N) PROVE Behind(N)
    OBVIOUS
  <2>1. g[N].left = {}
    <3>1. IsFiniteSet(g[N].left) /\ Cardinality(g[N].left) + N = N
      BY <1>1, <1>5, <1>7, <1>14, FS_Subset DEF Popping, N
    <3>2. Cardinality(g[N].left) \in Nat
      BY <3>1, FS_CardinalityType
    <3>3. Cardinality(g[N].left) = 0
      BY <1>1, <3>1, <3>2
    <3> QED BY <3>1, <3>3, FS_EmptySet
  <2>2. h[N].left = {e}
    BY <2>1
  <2>3. Popped(m, {e}) = e
    <3>1. {e} \in SUBSET (S \union {e}) /\ {e} # {}
      OBVIOUS
    <3>2. Popped(m, {e}) \in {e}
      BY <3>1, PoppedIs
    <3> QED BY <3>2
  <2> QED BY <1>9, <1>14, <2>2, <2>3
<1>16. Within(g[N].out, h[N + 1].out)
  BY <1>13, <1>15
<1> QED BY <1>2, <1>3a, <1>4a, <1>16 DEF S2, N

-----------------------------------------------------------------------------
\* The files, and one line more

Logs == [Files -> Seq(Line)]

LEMMA LinesAre ==
    ASSUME NEW l \in Logs, NEW n \in Lines(l)
    PROVE  /\ n \in Files \X Nat /\ n = <<n[1], n[2]>> /\ n[2] \in 1 .. Len(l[n[1]])
           /\ StampOf(l, n) \in 1 .. 2 * Seconds + 1 /\ KeyOf(l, n) \in Nat
<1>1. PICK f \in Files : n \in {f} \X (1 .. Len(l[f]))
  BY DEF Lines
<1>2. n[1] = f /\ n[2] \in 1 .. Len(l[f]) /\ n = <<n[1], n[2]>> /\ l[f] \in Seq(Line)
  BY <1>1 DEF Logs
<1>3. Len(l[f]) \in Nat /\ l[f][n[2]] \in Line
  BY <1>2, LenProperties, ElementOfSeq
<1>4. n[2] \in Nat
  BY <1>2, <1>3
<1>5. l[f][n[2]].ts \in Stamps /\ l[f][n[2]].key \in Keys
  BY <1>3 DEF Line
<1>6. Stamps \subseteq 1 .. 2 * Seconds + 1 /\ Keys \subseteq Nat
  BY OrderAssumption DEF Stamps, Keys
<1> QED BY <1>2, <1>4, <1>5, <1>6 DEF StampOf, KeyOf

\* m is l with one line more, named e.
OneMore(l, m, e) ==
    /\ l \in Logs
    /\ \E f \in Files, r \in Line :
          m = [l EXCEPT ![f] = Append(@, r)] /\ e = <<f, Len(l[f]) + 1>>

LEMMA LinesOne ==
    ASSUME NEW l, NEW m, NEW e, OneMore(l, m, e)
    PROVE  /\ m \in Logs
           /\ Lines(m) = Lines(l) \union {e} /\ e \notin Lines(l)
           /\ \A n \in Lines(l) : /\ StampOf(m, n) = StampOf(l, n) /\ KeyOf(m, n) = KeyOf(l, n)
                                  /\ n[1] = e[1] => n[2] <= e[2]
<1> PICK f \in Files, r \in Line :
           l \in Logs /\ m = [l EXCEPT ![f] = Append(@, r)] /\ e = <<f, Len(l[f]) + 1>>
  BY DEF OneMore
<1>1. l[f] \in Seq(Line) /\ Len(l[f]) \in Nat
  BY LenProperties DEF Logs
<1>2. /\ Append(l[f], r) \in Seq(Line) /\ Len(Append(l[f], r)) = Len(l[f]) + 1
      /\ \A i \in 1 .. Len(l[f]) : Append(l[f], r)[i] = l[f][i]
  BY <1>1, AppendProperties
<1>3. m[f] = Append(l[f], r) /\ \A g \in Files \ {f} : m[g] = l[g]
  BY DEF Logs
<1>4. m \in Logs
  BY <1>2, <1>3 DEF Logs
<1>5. ASSUME NEW n PROVE n \in Lines(m) <=> n \in Lines(l) \/ n = e
  <2>1. n \in Lines(m) <=> \E g \in Files : n \in {g} \X (1 .. Len(m[g]))
    BY DEF Lines
  <2>2. n \in Lines(l) <=> \E g \in Files : n \in {g} \X (1 .. Len(l[g]))
    BY DEF Lines
  <2>3. \A g \in Files \ {f} : {g} \X (1 .. Len(m[g])) = {g} \X (1 .. Len(l[g]))
    BY <1>3
  <2>4. 1 .. Len(m[f]) = (1 .. Len(l[f])) \union {Len(l[f]) + 1}
    BY <1>1, <1>2, <1>3
  <2>5. n \in {f} \X (1 .. Len(m[f])) <=> n \in {f} \X (1 .. Len(l[f])) \/ n = e
    BY <2>4
  <2> QED BY <2>1, <2>2, <2>3, <2>5
<1>6. e \notin Lines(l)
  <2> SUFFICES ASSUME e \in Lines(l) PROVE FALSE
    OBVIOUS
  <2>1. e[2] \in 1 .. Len(l[f])
    BY LinesAre
  <2> QED BY <1>1, <2>1
<1>7. ASSUME NEW n \in Lines(l)
      PROVE  m[n[1]][n[2]] = l[n[1]][n[2]] /\ (n[1] = e[1] => n[2] <= e[2])
  <2>1. n[1] \in Files /\ n[2] \in 1 .. Len(l[n[1]])
    BY LinesAre
  <2>2. CASE n[1] = f
    BY <1>1, <1>2, <1>3, <2>1, <2>2
  <2>3. CASE n[1] # f
    BY <1>3, <2>1, <2>3
  <2> QED BY <2>2, <2>3
<1> QED BY <1>4, <1>5, <1>6, <1>7 DEF StampOf, KeyOf

LEMMA RunFits ==
    ASSUME NEW l \in Logs, IsFiniteSet(Lines(l)), NEW t
    PROVE  Fit(l, Run(l, t)) /\ Run(l, t) \subseteq Lines(l)
<1>1. Run(l, t) \in SUBSET Lines(l)
  BY DEF Run
<1>2. IsFiniteSet(Run(l, t))
  BY <1>1, FS_Subset
<1>3. \A n \in Run(l, t) : n \in Files \X Nat /\ KeyOf(l, n) \in Nat
  BY <1>1, LinesAre
<1> QED BY <1>1, <1>2, <1>3 DEF Fit

-----------------------------------------------------------------------------
\* The order of a log

Runs(l) == [t \in 1 .. 2 * Seconds + 1 |-> MergeSameTs(l, Run(l, t))]

LEMMA RunsAre ==
    ASSUME NEW l \in Logs, IsFiniteSet(Lines(l))
    PROVE  /\ Len(Runs(l)) = 2 * Seconds + 1 /\ 2 * Seconds + 1 \in Nat
           /\ \A t \in 1 .. 2 * Seconds + 1 : Runs(l)[t] = MergeSameTs(l, Run(l, t))
           /\ Order(l) = FlattenSeq(Runs(l)) /\ Order(l) \in Seq(Lines(l))
           /\ Cut(Runs(l), 2 * Seconds + 1, Order(l))
<1> DEFINE K == 2 * Seconds + 1
           s == Runs(l)
<1>1. K \in Nat /\ K # 0
  BY OrderAssumption
<1>2. \A t \in 1 .. K : s[t] = MergeSameTs(l, Run(l, t))
  BY DEF Runs
<1>3. ASSUME NEW t \in 1 .. K
      PROVE  s[t] \in Seq(Lines(l)) /\ IsInjective(s[t]) /\ ToSet(s[t]) = Run(l, t)
  <2>1. Fit(l, Run(l, t)) /\ Run(l, t) \subseteq Lines(l)
    BY RunFits
  <2>2. s[t] \in Seq(Run(l, t)) /\ IsInjective(s[t]) /\ ToSet(s[t]) = Run(l, t)
    BY <1>2, <2>1, MergeIs
  <2> QED BY <2>1, <2>2
<1>4. Order(l) = FlattenSeq(s)
  BY DEF Order, Runs
<1>5. s = [t \in 1 .. K |-> s[t]]
  BY DEF Runs
<1> HIDE DEF K, s
<1>6. s \in Seq(Seq(Lines(l))) /\ Len(s) = K
  BY <1>1, <1>3, <1>5
<1>7. s # <<>>
  BY <1>1, <1>6
<1>8. ASSUME NEW i \in 1 .. K, NEW j \in 1 .. K, i # j, Meet(s[i], s[j]) PROVE FALSE
  <2>1. PICK x : x \in ToSet(s[i]) /\ x \in ToSet(s[j])
    BY <1>8 DEF Meet
  <2>2. x \in Run(l, i) /\ x \in Run(l, j)
    BY <1>3, <2>1
  <2>3. StampOf(l, x) = i /\ StampOf(l, x) = j
    BY <2>2 DEF Run
  <2> QED BY <1>8, <2>3
<1>9. Order(l) \in Seq(Lines(l)) /\ Cut(s, K, Order(l))
  BY <1>3, <1>4, <1>6, <1>7, <1>8, FlattenCut
<1> QED BY <1>1, <1>2, <1>4, <1>6, <1>9 DEF K, s

\* Two members of a sequence are one before the other.
LEMMA BeforeEither ==
    ASSUME NEW T, NEW s \in Seq(T), NEW x \in ToSet(s), NEW y \in ToSet(s), x # y
    PROVE  Before(s, x, y) \/ Before(s, y, x)
<1>1. DOMAIN s = 1 .. Len(s) /\ Len(s) \in Nat
  BY LenProperties
<1>2. PICK i \in 1 .. Len(s), j \in 1 .. Len(s) : s[i] = x /\ s[j] = y
  BY <1>1 DEF ToSet
<1>3. i < j \/ j < i
  BY <1>1, <1>2
<1> QED BY <1>1, <1>2, <1>3 DEF Before

LEMMA FileOrder ==
    ASSUME log \in Logs, IsFiniteSet(Lines(log))
    PROVE  FileOrderKept
<1> SUFFICES ASSUME NEW m \in Lines(log), NEW n \in Lines(log), m[1] = n[1], m[2] < n[2],
                    StampOf(log, m) = StampOf(log, n)
             PROVE  Place(Order(log), m) < Place(Order(log), n)
  BY DEF FileOrderKept, StampOf
<1> DEFINE t == StampOf(log, m)
           run == MergeSameTs(log, Run(log, t))
<1>1. t \in 1 .. 2 * Seconds + 1 /\ m \in Run(log, t) /\ n \in Run(log, t)
  BY LinesAre DEF Run
<1>2. Fit(log, Run(log, t))
  BY RunFits
<1> HIDE DEF t
<1>3. /\ run \in Seq(Run(log, t)) /\ ToSet(run) = Run(log, t)
      /\ \A x, y : Before(run, x, y) /\ x[1] = y[1] => x[2] < y[2]
  BY <1>2, MergeIs
<1>4. m[2] \in Nat /\ n[2] \in Nat
  BY LinesAre
<1>5. m # n /\ ~(n[2] < m[2])
  BY <1>4
<1>6. Before(run, m, n)
  <2>1. Before(run, m, n) \/ Before(run, n, m)
    BY <1>1, <1>3, <1>5, BeforeEither
  <2> QED BY <1>3, <1>5, <2>1
<1>7. /\ Order(log) \in Seq(Lines(log)) /\ Cut(Runs(log), 2 * Seconds + 1, Order(log))
      /\ Runs(log)[t] = run
  BY <1>1, RunsAre
<1>8. Before(Order(log), m, n)
  BY <1>1, <1>6, <1>7 DEF Cut
<1> QED BY <1>7, <1>8, BeforePlace DEF Cut

\* What was in order stays so, when a file has one line more.
LEMMA OrderMore ==
    ASSUME NEW l, NEW m, NEW e, OneMore(l, m, e), IsFiniteSet(Lines(l)),
           NEW x, NEW y, Before(Order(l), x, y)
    PROVE  Before(Order(m), x, y)
<1> DEFINE K == 2 * Seconds + 1
<1>0. l \in Logs
  BY DEF OneMore
<1>1. /\ m \in Logs /\ Lines(m) = Lines(l) \union {e} /\ e \notin Lines(l)
      /\ \A n \in Lines(l) : /\ StampOf(m, n) = StampOf(l, n) /\ KeyOf(m, n) = KeyOf(l, n)
                             /\ n[1] = e[1] => n[2] <= e[2]
  BY LinesOne
<1>2. IsFiniteSet(Lines(m))
  <2>1. IsFiniteSet(Lines(l) \union {e})
    BY FS_AddElement
  <2> QED BY <1>1, <2>1
<1>3. /\ \A t \in 1 .. K : Runs(l)[t] = MergeSameTs(l, Run(l, t))
      /\ Cut(Runs(l), K, Order(l))
  BY <1>0, RunsAre
<1>4. /\ \A t \in 1 .. K : Runs(m)[t] = MergeSameTs(m, Run(m, t))
      /\ Cut(Runs(m), K, Order(m))
  BY <1>1, <1>2, RunsAre
<1>5. ASSUME NEW t \in 1 .. K
      PROVE  Within(Runs(l)[t], Runs(m)[t])
  <2> DEFINE S == Run(l, t)
             S2 == Run(m, t)
  <2>1. Fit(l, S) /\ Fit(m, S2) /\ S \subseteq Lines(l) /\ e \notin S
    BY <1>0, <1>1, <1>2, RunFits
  <2>2. \A n \in S : KeyOf(m, n) = KeyOf(l, n) /\ (n[1] = e[1] => n[2] <= e[2])
    BY <1>1, <2>1
  <2>3. S2 = S \/ S2 = S \union {e}
    BY <1>1 DEF Run
  <2>4. Runs(l)[t] = MergeSameTs(l, S) /\ Runs(m)[t] = MergeSameTs(m, S2)
    BY <1>3, <1>4
  <2> HIDE DEF S, S2
  <2>5. CASE S2 = S
    <3>1. MergeSameTs(m, S) = MergeSameTs(l, S)
      BY <2>1, <2>2, <2>5, MergeSame
    <3> QED BY <2>4, <2>5, <3>1 DEF Within
  <2>6. CASE S2 = S \union {e}
    <3>1. Fit(m, S \union {e})
      BY <2>1, <2>6
    <3>2. \A n \in S : KeyOf(m, n) = KeyOf(l, n)
      BY <2>2
    <3>3. \A n \in S : n[1] = e[1] => n[2] <= e[2]
      BY <2>2
    <3>4. Within(MergeSameTs(l, S), MergeSameTs(m, S \union {e}))
      BY <2>1, <3>1, <3>2, <3>3, MergeMore
    <3> QED BY <2>4, <2>6, <3>4
  <2> QED BY <2>3, <2>5, <2>6
<1>6. \/ \E i \in 1 .. K : Before(Runs(l)[i], x, y)
      \/ \E i, j \in 1 .. K : i < j /\ x \in ToSet(Runs(l)[i]) /\ y \in ToSet(Runs(l)[j])
  BY <1>3 DEF Cut
<1>7. \/ \E i \in 1 .. K : Before(Runs(m)[i], x, y)
      \/ \E i, j \in 1 .. K : i < j /\ x \in ToSet(Runs(m)[i]) /\ y \in ToSet(Runs(m)[j])
  BY <1>5, <1>6 DEF Within
<1> QED BY <1>4, <1>7 DEF Cut

-----------------------------------------------------------------------------
\* The theorems

OrderInv == OrderTypeOK /\ IsFiniteSet(Lines(log))

LEMMA OrderStart == OrderInit => OrderInv
<1> SUFFICES ASSUME OrderInit PROVE OrderInv
  OBVIOUS
<1>1. log \in Logs
  BY DEF OrderInit, Logs
<1>2. Lines(log) = {}
  <2>1. \A f \in Files : {f} \X (1 .. Len(log[f])) = {}
    BY DEF OrderInit
  <2> QED BY <2>1 DEF Lines
<1>3. IsFiniteSet(Lines(log)) /\ Size(log) = 0
  BY <1>2, FS_EmptySet DEF Size
<1>4. 0 <= MaxLines /\ 1 \in 1 .. Seconds
  BY OrderAssumption
<1> QED BY <1>1, <1>3, <1>4 DEF OrderInv, OrderTypeOK, Logs, OrderInit

LEMMA OrderStep == OrderInv /\ [OrderNext]_orderVars => OrderInv' /\ InOrder
<1> SUFFICES ASSUME OrderInv, [OrderNext]_orderVars PROVE OrderInv' /\ InOrder
  OBVIOUS
<1>0. log \in Logs /\ IsFiniteSet(Lines(log)) /\ OrderTypeOK
  BY DEF OrderInv, OrderTypeOK, Logs
\* Every pair that is in order before the step is so after it.
<1>1. ASSUME log' \in Logs, IsFiniteSet(Lines(log')),
             \A x, y : Before(Order(log), x, y) => Before(Order(log'), x, y)
      PROVE  InOrder
  <2> SUFFICES ASSUME NEW i \in DOMAIN Order(log), NEW j \in DOMAIN Order(log), i < j
               PROVE  Place(Order(log'), Order(log)[i]) < Place(Order(log'), Order(log)[j])
    BY DEF InOrder
  <2>1. Before(Order(log), Order(log)[i], Order(log)[j])
    BY DEF Before
  <2>2. Before(Order(log'), Order(log)[i], Order(log)[j])
    BY <1>1, <2>1
  <2>3. Order(log') \in Seq(Lines(log')) /\ IsInjective(Order(log'))
    BY <1>0, <1>1, RunsAre DEF Cut
  <2> QED BY <2>2, <2>3, BeforePlace
<1>2. ASSUME log' = log, clock' \in 1 .. Seconds, stamp' \in [Writers -> Stamps \cup {0}]
      PROVE  OrderInv' /\ InOrder
  <2>1. OrderInv'
    BY <1>0, <1>2, OrderAssumption DEF OrderInv, OrderTypeOK, Lines, Size, StampOf
  <2>2. log' \in Logs /\ IsFiniteSet(Lines(log'))
    BY <1>0, <1>2
  <2>3. \A x, y : Before(Order(log), x, y) => Before(Order(log'), x, y)
    BY <1>2
  <2> QED BY <1>1, <2>1, <2>2, <2>3
<1>3. CASE Tick
  <2>1. clock' \in 1 .. Seconds
    BY <1>0, <1>3, OrderAssumption DEF Tick, OrderTypeOK
  <2> QED BY <1>0, <1>2, <1>3, <2>1 DEF Tick, OrderTypeOK
<1>4. ASSUME NEW w \in Writers, TakeStamp(w) PROVE OrderInv' /\ InOrder
  <2>1. PICK t \in {Whole(clock), Micros(clock)} : stamp' = [stamp EXCEPT ![w] = t]
    BY <1>4 DEF TakeStamp
  <2>2. t \in Stamps
    BY <1>0, <2>1, OrderAssumption DEF OrderTypeOK, Whole, Micros, Stamps
  <2>3. stamp' \in [Writers -> Stamps \cup {0}]
    BY <1>0, <2>1, <2>2 DEF OrderTypeOK
  <2> QED BY <1>0, <1>2, <1>4, <2>3 DEF TakeStamp, OrderTypeOK
<1>5. ASSUME NEW w \in Writers, AppendLine(w) PROVE OrderInv' /\ InOrder
  <2>1. PICK f \in Files, k \in Keys :
           log' = [log EXCEPT ![f] = Append(@, [ts |-> stamp[w], key |-> k])]
    BY <1>5 DEF AppendLine
  <2> DEFINE r == [ts |-> stamp[w], key |-> k]
  <2>2. r \in Line
    <3>1. stamp[w] \in Stamps
      BY <1>0, <1>5 DEF OrderTypeOK, AppendLine
    <3> QED BY <3>1 DEF Line
  <2>a. log' = [log EXCEPT ![f] = Append(@, r)]
    BY <2>1
  <2> HIDE DEF r
  <2>b. PICK e : e = <<f, Len(log[f]) + 1>>
    OBVIOUS
  <2>c. OneMore(log, log', e)
    BY <1>0, <2>2, <2>a, <2>b DEF OneMore
  <2>3. log' \in Logs /\ Lines(log') = Lines(log) \union {e} /\ e \notin Lines(log)
    BY <1>0, <2>c, LinesOne
  <2>4. IsFiniteSet(Lines(log')) /\ Cardinality(Lines(log')) = Cardinality(Lines(log)) + 1
    BY <1>0, <2>3, FS_AddElement
  <2>5. Size(log') <= MaxLines
    <3>1. Cardinality(Lines(log)) < MaxLines /\ Cardinality(Lines(log)) \in Nat
      BY <1>0, <1>5, FS_CardinalityType DEF AppendLine, Size
    <3>2. Cardinality(Lines(log)) + 1 <= MaxLines /\ Size(log') = Cardinality(Lines(log'))
      BY <1>0, <3>1, OrderAssumption DEF Size
    <3> QED BY <2>4, <3>2
  <2>6. OrderInv'
    <3>1. clock' = clock /\ stamp' = stamp
      BY <1>5 DEF AppendLine
    <3>2. OrderTypeOK'
      BY <1>0, <2>3, <2>5, <3>1 DEF OrderTypeOK, Logs
    <3> QED BY <1>0, <2>4, <3>2, OrderAssumption DEF OrderInv
  <2>7. ASSUME NEW x, NEW y, Before(Order(log), x, y) PROVE Before(Order(log'), x, y)
    BY <1>0, <2>7, <2>c, OrderMore
  <2> QED BY <1>1, <2>3, <2>4, <2>6, <2>7
<1>6. CASE UNCHANGED orderVars
  BY <1>0, <1>2, <1>6 DEF orderVars, OrderTypeOK
<1> QED BY <1>3, <1>4, <1>5, <1>6 DEF OrderNext

\* The files, the clock and the stamps keep their types.
THEOREM OrderTypeCorrect == OrderSpec => []OrderTypeOK
<1>1. OrderInv => OrderTypeOK
  BY DEF OrderInv
<1> QED BY <1>1, OrderStart, OrderStep, PTL DEF OrderSpec

\* A file's own order is never overridden among lines of one stamp, whatever the
\* other files hold: a line is popped only as the head of its queue
\* (_merge_same_ts).
THEOREM FileOrderKeptHolds == OrderSpec => []FileOrderKept
<1>1. OrderInv => FileOrderKept
  BY FileOrder DEF OrderInv, OrderTypeOK, Logs
<1> QED BY <1>1, OrderStart, OrderStep, PTL DEF OrderSpec

\* Two lines that were read never change places, whatever is appended later and to
\* whichever file: the run of the new line is merged as before up to its pop, and as
\* before after it (finish_events).
THEOREM ReadStableHolds == OrderSpec => ReadStable
<1>1. OrderInv /\ [OrderNext]_orderVars => [InOrder]_orderVars
  BY OrderStep
<1> QED BY <1>1, OrderStart, OrderStep, PTL DEF OrderSpec, ReadStable
====
