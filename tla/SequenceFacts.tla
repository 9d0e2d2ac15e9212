---------------------------- MODULE SequenceFacts ----------------------------
(***************************************************************************)
(* Facts about sequences that the proofs about the ledger rest on: what    *)
(* FlattenSeq makes of the segments of a file, and what a prefix, an order *)
(* and an injection have to do with concatenation.                         *)
(*                                                                         *)
(* Inductions over the naturals are of sets: Induction is proved from the  *)
(* least number that is not in the set.                                    *)
(***************************************************************************)
EXTENDS SequencesExt, SequenceTheorems, WellFoundedInduction, TLAPS

\* A set with 0 and with the successor of each of its numbers has them all.
LEMMA Induction ==
    ASSUME NEW S, 0 \in S, \A n \in Nat : n \in S => n + 1 \in S
    PROVE  Nat \subseteq S
<1> DEFINE T == {m \in Nat : m \notin S}
<1> SUFFICES ASSUME T # {} PROVE FALSE
    OBVIOUS
<1>1. PICK m \in T : \A k \in T : <<k, m>> \notin OpToRel(<, Nat)
    BY WFMin, NatLessThanWellFounded, Zenon
<1>2. \A k \in T : ~(k < m)
    <2> SUFFICES ASSUME NEW k \in T, k < m PROVE FALSE
        OBVIOUS
    <2>1. k \in Nat /\ m \in Nat
        OBVIOUS
    <2> QED BY <1>1, <2>1, Zenon DEF OpToRel
<1>3. m # 0 /\ m - 1 \in Nat /\ m - 1 < m
    OBVIOUS
<1>4. m - 1 \notin T
    BY <1>2, <1>3
<1> QED BY <1>3, <1>4

\* The first n values of flatten's function.
FlattenUpto(s, n, g) == g = [i \in 1..n |-> IF i = 1 THEN s[i] ELSE g[i-1] \o s[i]]

\* FlattenSeq is the last value of the function it chooses.
LEMMA FlattenFunction ==
    ASSUME NEW s, Len(s) \in Nat, Len(s) # 0
    PROVE  LET f == CHOOSE f : FlattenUpto(s, Len(s), f)
           IN  FlattenSeq(s) = f[Len(s)]
BY DEF FlattenSeq, FlattenUpto

\* A function for n parts goes on to n + 1,
LEMMA FlattenStep ==
    ASSUME NEW s, NEW n \in Nat, NEW g, FlattenUpto(s, n, g)
    PROVE  \E h : FlattenUpto(s, n + 1, h)
<1> DEFINE h == [i \in 1..(n + 1) |->
                   IF i = n + 1 THEN (IF i = 1 THEN s[i] ELSE g[i-1] \o s[i]) ELSE g[i]]
<1>1. \A i \in 1..n : g[i] = IF i = 1 THEN s[i] ELSE g[i-1] \o s[i]
    BY Zenon DEF FlattenUpto
<1>2. ASSUME NEW i \in 1..(n + 1)
      PROVE  h[i] = IF i = 1 THEN s[i] ELSE h[i-1] \o s[i]
    <2>1. CASE i = n + 1
        <3>1. i # 1 => h[i - 1] = g[i - 1]
            BY <2>1
        <3> QED BY <2>1, <3>1
    <2>2. CASE i # n + 1
        <3>1. i \in 1..n /\ h[i] = g[i]
            BY <2>2
        <3>2. i # 1 => h[i - 1] = g[i - 1]
            BY <2>2
        <3> QED BY <1>1, <3>1, <3>2
    <2> QED BY <2>1, <2>2
<1>3. FlattenUpto(s, n + 1, h)
    BY <1>2 DEF FlattenUpto
<1> QED BY <1>3

\* so that there is one for any number of parts,
LEMMA FlattenExists ==
    ASSUME NEW s, NEW n \in Nat
    PROVE  \E f : FlattenUpto(s, n, f)
<1> DEFINE S == {m \in Nat : \E g : FlattenUpto(s, m, g)}
<1>1. 0 \in S
    <2>1. FlattenUpto(s, 0, [i \in 1..0 |-> s[i]])
        BY DEF FlattenUpto
    <2> QED BY <2>1
<1>2. ASSUME NEW m \in Nat, m \in S PROVE m + 1 \in S
    BY <1>2, FlattenStep
<1> HIDE DEF S
<1>3. n \in S
    BY <1>1, <1>2, Induction
<1> QED BY <1>3 DEF S

Agree(f, g, n) == \A i \in 1..n : f[i] = g[i]

\* and two of them agree as far as their parts do.
LEMMA FlattenUnique ==
    ASSUME NEW n \in Nat, NEW k \in Nat, n <= k,
           NEW s, NEW t, NEW f, NEW g,
           FlattenUpto(s, n, f), FlattenUpto(t, k, g), Agree(s, t, n)
    PROVE  Agree(f, g, n)
<1> DEFINE S == {m \in Nat : m \in 1..n => f[m] = g[m]}
<1>a. \A i \in 1..n : f[i] = IF i = 1 THEN s[i] ELSE f[i-1] \o s[i]
    BY Zenon DEF FlattenUpto
<1>b. \A i \in 1..k : g[i] = IF i = 1 THEN t[i] ELSE g[i-1] \o t[i]
    BY Zenon DEF FlattenUpto
<1>1. 0 \in S
    OBVIOUS
<1>2. ASSUME NEW m \in Nat, m \in S PROVE m + 1 \in S
    <2> SUFFICES ASSUME m + 1 \in 1..n PROVE f[m + 1] = g[m + 1]
        OBVIOUS
    <2>1. m + 1 \in 1..k /\ s[m + 1] = t[m + 1]
        BY DEF Agree
    <2>2. CASE m = 0
        BY <2>1, <2>2, <1>a, <1>b
    <2>3. CASE m # 0
        <3>1. f[m] = g[m]
            BY <1>2, <2>3
        <3>2. m + 1 # 1 /\ (m + 1) - 1 = m
            BY <2>3
        <3> QED BY <2>1, <3>1, <3>2, <1>a, <1>b
    <2> QED BY <2>2, <2>3
<1> HIDE DEF S
<1>3. Nat \subseteq S
    BY <1>1, <1>2, Induction
<1> QED BY <1>3 DEF S, Agree

\* The function that FlattenSeq takes its last value from.
LEMMA FlattenEquation ==
    ASSUME NEW T, NEW s \in Seq(T), s # <<>>
    PROVE  \E f : FlattenUpto(s, Len(s), f) /\ FlattenSeq(s) = f[Len(s)]
<1>1. Len(s) \in Nat /\ Len(s) # 0
    BY LenProperties, EmptySeq
<1>2. \E f : FlattenUpto(s, Len(s), f)
    BY FlattenExists, <1>1
<1>3. FlattenUpto(s, Len(s), CHOOSE f : FlattenUpto(s, Len(s), f))
    BY <1>2, Zenon
<1> QED BY FlattenFunction, <1>1, <1>3, Zenon

\* No parts have nothing in them,
LEMMA FlattenEmpty == FlattenSeq(<<>>) = <<>>
BY DEF FlattenSeq

\* and one more part comes at the end.
LEMMA FlattenAppend ==
    ASSUME NEW T, NEW s \in Seq(Seq(T)), NEW e \in Seq(T)
    PROVE  FlattenSeq(Append(s, e)) = FlattenSeq(s) \o e
<1> DEFINE t == Append(s, e)
           n == Len(s)
<1>1. t \in Seq(Seq(T)) /\ t # <<>> /\ Len(t) = n + 1 /\ n \in Nat
      /\ t[n + 1] = e /\ \A i \in 1..n : s[i] = t[i]
    BY AppendProperties, LenProperties
<1>2. PICK g : FlattenUpto(t, n + 1, g) /\ FlattenSeq(t) = g[n + 1]
    BY FlattenEquation, <1>1
<1>3. \A i \in 1..(n + 1) : g[i] = IF i = 1 THEN t[i] ELSE g[i-1] \o t[i]
    BY <1>2, Zenon DEF FlattenUpto
<1>4. CASE s = <<>>
    <2>1. FlattenSeq(t) = e
        BY <1>1, <1>2, <1>3, <1>4
    <2> QED BY <2>1, <1>4, FlattenEmpty
<1>5. CASE s # <<>>
    <2>1. PICK f : FlattenUpto(s, n, f) /\ FlattenSeq(s) = f[n]
        BY FlattenEquation, <1>5
    <2>2. n \in 1..n
        BY <1>1, <1>5, EmptySeq
    <2>3. f[n] = g[n]
        <3>1. n + 1 \in Nat /\ n <= n + 1 /\ Agree(s, t, n)
            BY <1>1 DEF Agree
        <3> HIDE DEF t, n
        <3>2. Agree(f, g, n)
            BY FlattenUnique, <1>1, <1>2, <2>1, <3>1
        <3> QED BY <3>2, <2>2 DEF Agree
    <2>4. g[n + 1] = g[n] \o e
        <3>1. n + 1 \in 1..(n + 1) /\ n + 1 # 1 /\ (n + 1) - 1 = n
            BY <1>1, <2>2
        <3> HIDE DEF t, n
        <3> QED BY <1>1, <1>3, <3>1
    <2> QED BY <1>2, <2>1, <2>3, <2>4
<1> QED BY <1>4, <1>5

\* The lines of a file that is written to, and of one put together from parts.
LEMMA ToSetAppend ==
    ASSUME NEW T, NEW s \in Seq(T), NEW e \in T
    PROVE  ToSet(Append(s, e)) = ToSet(s) \cup {e}
BY AppendProperties DEF ToSet

\* So are those of two sequences, one after the other.
LEMMA ToSetConcat ==
    ASSUME NEW T, NEW s \in Seq(T), NEW t \in Seq(T)
    PROVE  ToSet(s \o t) = ToSet(s) \cup ToSet(t)
<1>1. /\ Len(s) \in Nat /\ Len(t) \in Nat /\ DOMAIN s = 1..Len(s) /\ DOMAIN t = 1..Len(t)
      /\ s \o t \in Seq(T) /\ Len(s \o t) = Len(s) + Len(t) /\ DOMAIN (s \o t) = 1..Len(s \o t)
      /\ \A i \in 1..Len(s) : (s \o t)[i] = s[i]
    BY LenProperties, ConcatProperties
<1>2. \A i \in 1..Len(t) : (s \o t)[i + Len(s)] = t[i] /\ i + Len(s) \in 1..Len(s \o t)
    BY <1>1, ConcatProperties
<1>3. ASSUME NEW i \in 1..Len(s \o t)
      PROVE  (s \o t)[i] \in ToSet(s) \cup ToSet(t)
    <2>1. CASE i <= Len(s)
        BY <1>1, <2>1 DEF ToSet
    <2>2. CASE i > Len(s)
        <3>1. i - Len(s) \in 1..Len(t) /\ (i - Len(s)) + Len(s) = i
            BY <1>1, <2>2
        <3>2. (s \o t)[i] = t[i - Len(s)]
            BY <1>2, <3>1
        <3> QED BY <1>1, <3>1, <3>2 DEF ToSet
    <2> QED BY <1>1, <2>1, <2>2
<1>4. ToSet(s \o t) \subseteq ToSet(s) \cup ToSet(t)
    BY <1>1, <1>3 DEF ToSet
<1>5. ToSet(s) \subseteq ToSet(s \o t)
    BY <1>1 DEF ToSet
<1>6. ToSet(t) \subseteq ToSet(s \o t)
    BY <1>1, <1>2 DEF ToSet
<1> QED BY <1>4, <1>5, <1>6

\* What is put together from sequences over T is one, and misses no member of a part.
LEMMA FlattenParts ==
    ASSUME NEW T, NEW s \in Seq(Seq(T))
    PROVE  /\ FlattenSeq(s) \in Seq(T)
           /\ \A i \in 1..Len(s) : ToSet(s[i]) \subseteq ToSet(FlattenSeq(s))
<1>1. CASE s = <<>>
    <2>1. FlattenSeq(s) = <<>> /\ Len(s) = 0
        BY <1>1, FlattenEmpty
    <2> QED BY <2>1
<1>2. CASE s # <<>>
    <2>1. PICK f : FlattenUpto(s, Len(s), f) /\ FlattenSeq(s) = f[Len(s)]
        BY FlattenEquation, <1>2
    <2>2. \A i \in 1..Len(s) : f[i] = IF i = 1 THEN s[i] ELSE f[i-1] \o s[i]
        BY <2>1, Zenon DEF FlattenUpto
    <2>3. Len(s) \in Nat /\ \A i \in 1..Len(s) : s[i] \in Seq(T)
        BY LenProperties
    <2> DEFINE Good(m) == /\ f[m] \in Seq(T)
                          /\ \A j \in 1..m : ToSet(s[j]) \subseteq ToSet(f[m])
               S == {m \in Nat : m \in 1..Len(s) => Good(m)}
    <2>4. 0 \in S
        OBVIOUS
    <2>5. ASSUME NEW m \in Nat, m \in S, m + 1 \in 1..Len(s) PROVE Good(m + 1)
        <3>1. CASE m = 0
            <4>0. m + 1 = 1 /\ \A j \in 1..(m + 1) : j = m + 1
                BY <3>1
            <4>1. f[m + 1] = s[m + 1]
                BY <2>2, <2>5, <4>0
            <4> QED BY <4>0, <4>1, <2>3, <2>5
        <3>2. CASE m # 0
            <4>1. m \in 1..Len(s) /\ m + 1 # 1 /\ (m + 1) - 1 = m
                BY <2>3, <2>5, <3>2
            <4>2. f[m + 1] = f[m] \o s[m + 1]
                BY <2>2, <2>5, <4>1
            <4>3. Good(m)
                BY <2>5, <4>1
            <4>4. s[m + 1] \in Seq(T)
                BY <2>3, <2>5
            <4>5. f[m + 1] \in Seq(T)
                BY <4>2, <4>3, <4>4, ConcatProperties
            <4>6. ToSet(f[m + 1]) = ToSet(f[m]) \cup ToSet(s[m + 1])
                BY <4>2, <4>3, <4>4, ToSetConcat
            <4>7. \A j \in 1..(m + 1) : j \in 1..m \/ j = m + 1
                OBVIOUS
            <4> QED BY <4>3, <4>5, <4>6, <4>7
        <3> QED BY <3>1, <3>2
    <2>6. ASSUME NEW m \in Nat, m \in S PROVE m + 1 \in S
        <3>1. m + 1 \in Nat
            OBVIOUS
        <3>2. m + 1 \in 1..Len(s) => Good(m + 1)
            BY <2>5, <2>6
        <3> HIDE DEF Good
        <3> QED BY <3>1, <3>2
    <2>7. Len(s) \in S
        <3> HIDE DEF S
        <3> QED BY <2>3, <2>4, <2>6, Induction
    <2>8. Len(s) \in 1..Len(s)
        BY <2>3, <1>2, EmptySeq
    <2> QED BY <2>1, <2>7, <2>8
<1> QED BY <1>1, <1>2

-----------------------------------------------------------------------------
(* Prefixes and order *)

\* A prefix agrees with the whole, point by point.
LEMMA PrefixPoints ==
    ASSUME NEW T, NEW s \in Seq(T), NEW t \in Seq(T)
    PROVE  IsPrefix(s, t) <=> Len(s) <= Len(t) /\ \A i \in 1..Len(s) : s[i] = t[i]
<1>1. Len(s) \in Nat /\ Len(t) \in Nat
    BY LenProperties
<1>2. SubSeq(s, 1, Len(s)) = s
    BY <1>1, SubSeqFull
<1>3. ASSUME Len(s) <= Len(t)
      PROVE  /\ SubSeq(t, 1, Len(s)) \in Seq(T) /\ Len(SubSeq(t, 1, Len(s))) = Len(s)
             /\ \A i \in 1..Len(s) : SubSeq(t, 1, Len(s))[i] = t[i]
    BY <1>1, <1>3
<1>4. ASSUME Len(s) <= Len(t), \A i \in 1..Len(s) : s[i] = t[i]
      PROVE  s = SubSeq(t, 1, Len(s))
    BY <1>1, <1>3, <1>4, SeqEqual
<1> QED BY <1>1, <1>2, <1>3, <1>4 DEF IsPrefix

\* It stays one when the whole grows,
LEMMA PrefixAppend ==
    ASSUME NEW T, NEW s \in Seq(T), NEW t \in Seq(T), NEW e \in T, IsPrefix(s, t)
    PROVE  IsPrefix(s, Append(t, e))
<1>1. Append(t, e) \in Seq(T) /\ Len(Append(t, e)) = Len(t) + 1 /\ Len(t) \in Nat /\ Len(s) \in Nat
      /\ \A i \in 1..Len(t) : Append(t, e)[i] = t[i]
    BY AppendProperties, LenProperties
<1>2. Len(s) <= Len(t) /\ \A i \in 1..Len(s) : s[i] = t[i]
    BY PrefixPoints
<1>3. Len(s) <= Len(Append(t, e)) /\ \A i \in 1..Len(s) : s[i] = Append(t, e)[i]
    BY <1>1, <1>2
<1> QED BY <1>1, <1>3, PrefixPoints

\* and everything is a prefix of itself.
LEMMA PrefixSelf ==
    ASSUME NEW T, NEW s \in Seq(T)
    PROVE  IsPrefix(s, s) /\ IsPrefix(<<>>, s) /\ <<>> \o s = s /\ s \o <<>> = s
<1>1. IsPrefix(s, s)
    BY PrefixPoints, LenProperties
<1>2. <<>> \in Seq(T) /\ Len(<<>>) = 0
    OBVIOUS
<1>3. IsPrefix(<<>>, s)
    <2>1. Len(<<>>) <= Len(s) /\ \A i \in 1..Len(<<>>) : <<>>[i] = s[i]
        BY <1>2, LenProperties
    <2> QED BY <1>2, <2>1, PrefixPoints
<1> QED BY <1>1, <1>3, ConcatEmptySeq

\* A prefix and what follows it make up the whole.
LEMMA PrefixRest ==
    ASSUME NEW T, NEW s \in Seq(T), NEW t \in Seq(T), IsPrefix(s, t)
    PROVE  s \o SubSeq(t, Len(s) + 1, Len(t)) = t
<1> DEFINE u == SubSeq(t, Len(s) + 1, Len(t))
<1>1. /\ Len(s) \in Nat /\ Len(t) \in Nat /\ Len(s) <= Len(t)
      /\ \A i \in 1..Len(s) : s[i] = t[i]
    BY PrefixPoints, LenProperties
<1>2. /\ u \in Seq(T) /\ Len(u) = Len(t) - Len(s)
      /\ \A i \in 1..Len(u) : u[i] = t[Len(s) + i]
    BY <1>1
<1> HIDE DEF u
<1>3. /\ s \o u \in Seq(T) /\ Len(s \o u) = Len(t)
      /\ \A i \in 1..Len(s) : (s \o u)[i] = s[i]
      /\ \A i \in 1..Len(t) : i > Len(s) => (s \o u)[i] = u[i - Len(s)]
    BY <1>1, <1>2
<1>4. ASSUME NEW i \in 1..Len(t) PROVE (s \o u)[i] = t[i]
    <2>1. CASE i <= Len(s)
        BY <1>1, <1>3, <2>1
    <2>2. CASE i > Len(s)
        <3>1. i - Len(s) \in 1..Len(u) /\ Len(s) + (i - Len(s)) = i
            BY <1>1, <1>2, <2>2
        <3> QED BY <1>2, <1>3, <2>2, <3>1
    <2>3. i <= Len(s) \/ i > Len(s)
        BY <1>1
    <2> QED BY <2>1, <2>2, <2>3
<1>5. s \o u = t
    BY <1>1, <1>3, <1>4, SeqEqual
<1> QED BY <1>5 DEF u

PrefixMembers(s, t) == IsPrefix(s, t) => ToSet(s) \subseteq ToSet(t)

\* A prefix has no member that the whole lacks.
LEMMA PrefixToSet ==
    ASSUME NEW T, NEW s \in Seq(T), NEW t \in Seq(T)
    PROVE  PrefixMembers(s, t)
BY PrefixPoints, LenProperties DEF ToSet, PrefixMembers

\* Numbers in increasing order.
Increasing(s) == \A i, j \in DOMAIN s : i < j => s[i] < s[j]
Below(s, t) == \A x \in ToSet(s), y \in ToSet(t) : x < y
Meet(s, t) == \E x \in ToSet(s) : x \in ToSet(t)

\* A prefix of an increasing sequence increases.
LEMMA IncreasingPrefix ==
    ASSUME NEW s \in Seq(Nat), NEW t \in Seq(Nat), IsPrefix(s, t), Increasing(t)
    PROVE  Increasing(s)
<1>1. /\ Len(s) \in Nat /\ Len(t) \in Nat /\ DOMAIN s = 1..Len(s) /\ DOMAIN t = 1..Len(t)
      /\ Len(s) <= Len(t) /\ \A i \in 1..Len(s) : s[i] = t[i]
    BY PrefixPoints, LenProperties
<1> QED BY <1>1 DEF Increasing

\* What increases has nothing twice.
LEMMA IncreasingInjective ==
    ASSUME NEW s \in Seq(Nat), Increasing(s)
    PROVE  IsInjective(s)
<1>1. DOMAIN s = 1..Len(s) /\ Len(s) \in Nat /\ \A i \in 1..Len(s) : s[i] \in Nat
    BY LenProperties
<1>2. ASSUME NEW i \in 1..Len(s), NEW j \in 1..Len(s), s[i] = s[j] PROVE i = j
    <2>1. ~(i < j) /\ ~(j < i)
        BY <1>1, <1>2 DEF Increasing
    <2> QED BY <1>1, <2>1
<1> QED BY <1>1, <1>2 DEF IsInjective

\* The points of a concatenation.
LEMMA ConcatPoints ==
    ASSUME NEW T, NEW s \in Seq(T), NEW t \in Seq(T)
    PROVE  /\ Len(s) \in Nat /\ Len(t) \in Nat /\ s \o t \in Seq(T)
           /\ DOMAIN s = 1..Len(s) /\ DOMAIN t = 1..Len(t)
           /\ DOMAIN (s \o t) = 1..(Len(s) + Len(t)) /\ Len(s \o t) = Len(s) + Len(t)
           /\ \A i \in 1..Len(s) : (s \o t)[i] = s[i]
           /\ \A i \in 1..Len(t) : (s \o t)[i + Len(s)] = t[i]
           /\ \A i \in 1..(Len(s) + Len(t)) : i > Len(s) =>
                 i - Len(s) \in 1..Len(t) /\ (s \o t)[i] = t[i - Len(s)]
<1>1. Len(s) \in Nat /\ Len(t) \in Nat /\ s \o t \in Seq(T)
    BY LenProperties, ConcatProperties
<1>2. /\ DOMAIN s = 1..Len(s) /\ DOMAIN t = 1..Len(t)
      /\ DOMAIN (s \o t) = 1..(Len(s) + Len(t)) /\ Len(s \o t) = Len(s) + Len(t)
    BY LenProperties, ConcatProperties
<1>3. \A i \in 1..Len(s) : (s \o t)[i] = s[i]
    BY ConcatProperties
<1>4. \A i \in 1..(Len(s) + Len(t)) : i > Len(s) =>
          i - Len(s) \in 1..Len(t) /\ (s \o t)[i] = t[i - Len(s)]
    BY <1>1, ConcatProperties
<1>5. \A i \in 1..Len(t) : (s \o t)[i + Len(s)] = t[i]
    BY <1>1, ConcatProperties
<1> QED BY <1>1, <1>2, <1>3, <1>4, <1>5

\* Two increasing sequences, one below the other, make one.
LEMMA IncreasingConcat ==
    ASSUME NEW s \in Seq(Nat), NEW t \in Seq(Nat), Increasing(s), Increasing(t), Below(s, t)
    PROVE  Increasing(s \o t)
<1> SUFFICES ASSUME NEW i \in 1..(Len(s) + Len(t)), NEW j \in 1..(Len(s) + Len(t)), i < j
             PROVE  (s \o t)[i] < (s \o t)[j]
    BY ConcatPoints DEF Increasing
<1>1. Len(s) \in Nat /\ Len(t) \in Nat /\ DOMAIN s = 1..Len(s) /\ DOMAIN t = 1..Len(t)
    BY LenProperties
<1>2. CASE j <= Len(s)
    <2>1. i \in 1..Len(s) /\ j \in 1..Len(s)
        BY <1>1, <1>2
    <2>2. (s \o t)[i] = s[i] /\ (s \o t)[j] = s[j]
        BY <2>1, ConcatPoints
    <2> QED BY <1>1, <2>1, <2>2 DEF Increasing
<1>3. CASE i <= Len(s) /\ j > Len(s)
    <2>1. i \in 1..Len(s) /\ j - Len(s) \in 1..Len(t)
        BY <1>1, <1>3
    <2>2. (s \o t)[i] = s[i] /\ (s \o t)[j] = t[j - Len(s)]
        BY <1>3, <2>1, ConcatPoints
    <2>3. s[i] \in ToSet(s) /\ t[j - Len(s)] \in ToSet(t)
        BY <1>1, <2>1 DEF ToSet
    <2> QED BY <2>2, <2>3 DEF Below
<1>4. CASE i > Len(s)
    <2>1. /\ i - Len(s) \in 1..Len(t) /\ j - Len(s) \in 1..Len(t) /\ j > Len(s)
          /\ i - Len(s) < j - Len(s)
        BY <1>1, <1>4
    <2>2. (s \o t)[i] = t[i - Len(s)] /\ (s \o t)[j] = t[j - Len(s)]
        BY <1>4, <2>1, ConcatPoints
    <2> QED BY <1>1, <2>1, <2>2 DEF Increasing
<1> QED BY <1>1, <1>2, <1>3, <1>4

\* A concatenation without repetition has none in its parts, and they do not meet.
LEMMA InjectiveConcat ==
    ASSUME NEW T, NEW s \in Seq(T), NEW t \in Seq(T)
    PROVE  IsInjective(s \o t) <=> IsInjective(s) /\ IsInjective(t) /\ ~Meet(s, t)
<1> DEFINE m == Len(s)
           n == Len(t)
           c == s \o t
<1>1. /\ m \in Nat /\ n \in Nat /\ DOMAIN s = 1..m /\ DOMAIN t = 1..n /\ DOMAIN c = 1..(m + n)
      /\ \A i \in 1..m : c[i] = s[i]
      /\ \A i \in 1..n : c[i + m] = t[i]
      /\ \A i \in 1..(m + n) : i > m => i - m \in 1..n /\ c[i] = t[i - m]
    BY ConcatPoints
<1> HIDE DEF m, n, c
<1>2. ASSUME IsInjective(c) PROVE IsInjective(s) /\ IsInjective(t) /\ ~Meet(s, t)
    <2>1. IsInjective(s)
        BY <1>1, <1>2 DEF IsInjective
    <2>2. ASSUME NEW i \in 1..n, NEW j \in 1..n, t[i] = t[j] PROVE i = j
        <3>1. i + m \in 1..(m + n) /\ j + m \in 1..(m + n) /\ c[i + m] = c[j + m]
            BY <1>1, <2>2
        <3>2. i + m = j + m
            BY <1>1, <1>2, <3>1 DEF IsInjective
        <3> QED BY <1>1, <3>2
    <2>3. ASSUME NEW i \in 1..m, NEW j \in 1..n, s[i] = t[j] PROVE FALSE
        <3>1. i \in 1..(m + n) /\ j + m \in 1..(m + n) /\ c[i] = c[j + m]
            BY <1>1, <2>3
        <3>2. i = j + m
            BY <1>1, <1>2, <3>1 DEF IsInjective
        <3> QED BY <1>1, <3>2
    <2> QED BY <1>1, <2>1, <2>2, <2>3 DEF IsInjective, Meet, ToSet
<1>3. ASSUME IsInjective(s), IsInjective(t), ~Meet(s, t) PROVE IsInjective(c)
    <2> SUFFICES ASSUME NEW i \in 1..(m + n), NEW j \in 1..(m + n), c[i] = c[j] PROVE i = j
        BY <1>1 DEF IsInjective
    <2>1. CASE i <= m /\ j <= m
        <3>1. i \in 1..m /\ j \in 1..m /\ s[i] = s[j]
            BY <1>1, <2>1
        <3> QED BY <1>1, <1>3, <3>1 DEF IsInjective
    <2>2. CASE i > m /\ j > m
        <3>1. i - m \in 1..n /\ j - m \in 1..n /\ t[i - m] = t[j - m]
            BY <1>1, <2>2
        <3>2. i - m = j - m
            BY <1>1, <1>3, <3>1 DEF IsInjective
        <3> QED BY <1>1, <3>2
    <2>3. ASSUME NEW k \in 1..(m + n), NEW l \in 1..(m + n), k <= m, l > m, c[k] = c[l]
          PROVE  FALSE
        <3>1. k \in 1..m /\ l - m \in 1..n /\ s[k] = t[l - m]
            BY <1>1, <2>3
        <3>2. s[k] \in ToSet(s) /\ s[k] \in ToSet(t)
            BY <1>1, <3>1 DEF ToSet
        <3> QED BY <1>3, <3>2 DEF Meet
    <2> QED BY <1>1, <2>1, <2>2, <2>3
<1> QED BY <1>2, <1>3 DEF c
=============================================================================
