---- MODULE RetriesProofs ----
(***************************************************************************)
(* Proofs about Retries, for every budget, backoff and bound.              *)
(***************************************************************************)
EXTENDS Retries, SequenceFacts, SequenceTheorems, FunctionTheorems, FiniteSetTheorems,
        TLAPS

RowType ==
    {"spec", "release", "escalated", "launch_failed", "marker", "started", "failed",
     "vanished", "refused", "stale", "done", "output"}
RowSet  == [type : RowType, who : Nat, at : Nat]
TickSet == [pc : {"idle", "launch", "escalate", "forked"}, trigger : Nat, at : Nat, fork : Nat]
Places  == {"none", "starting", "running", "closing", "hung", "over"}

TypeOK ==
    /\ now \in Nat /\ deaths \in Nat /\ ticked \in BOOLEAN
    /\ log \in Seq(RowSet)
    /\ try \in [Tries -> Places] /\ forked \in [Tries -> Nat]
    /\ tick \in TickSet

\* The rows a dispatch process has, by its own hand or a tick's.
Traces == Child \union {"output"}

\* Of a try at `place` that was forked when the log was `fork` long: it has rows
\* only after that, its start first, and none before it has started or ended.
TryFits(l, fork, place, a) ==
    /\ fork <= Len(l)
    /\ place = "none" => fork = 0 /\ Of(l, a, {"marker"}) = {}
    /\ place \in {"none", "starting"} => Of(l, a, Traces) = {}
    /\ place \in {"running", "closing", "hung"} => Of(l, a, {"started"}) # {}
    /\ Of(l, a, {"started"}) # {} => Of(l, a, {"refused"}) = {}
    /\ \A s \in Of(l, a, {"started"}) : \A i \in Of(l, a, Traces \ {"started"}) : s < i
    /\ \A i \in Of(l, a, Traces \union {"marker"}) : fork < i

LogFits(l) ==
    /\ Rows(l, {"spec"}) # {}
    /\ \A i \in Rows(l, Traces \union {"marker"}) : l[i].who \in Tries
    /\ \A r \in Rows(l, {"release"}) : \E h \in Rows(l, {"escalated"}) : h < r

\* A tick that has forked waits for its marker, and no start-up outlives its period.
TickFits ==
    /\ tick.pc = "forked" => tick.fork \in Tries /\ try[tick.fork] # "none"
    /\ tick.pc # "idle" => ticked
    /\ ~ticked => \A a \in Tries : Is(a, {"starting"}) => forked[a] = 0

TriggersOf(l) == Rows(l, {"spec", "release"})
Newly(l, T) == T \in TriggersOf(l) /\ \A U \in TriggersOf(l) : U <= T

\* In the reign of T.
During(l, n, T) == T <= n /\ n <= Len(l) /\ \A U \in TriggersOf(l) : U > T => n < U

\* What has been or can still be started of what T has forked.
Charged(T) ==
    {a \in Tries : During(log, forked[a], T)
                   /\ (Is(a, {"starting"}) \/ Of(log, a, {"started"}) # {})}

BudgetInv ==
    /\ \A T \in TriggersOf(log) : Cardinality(Charged(T)) <= Limit
    /\ tick.pc = "launch" => \A T : Newly(log, T) => Cardinality(Charged(T)) < Limit

RetryInv ==
    /\ TypeOK
    /\ LogFits(log)
    /\ \A a \in Tries : TryFits(log, forked[a], try[a], a)
    /\ TickFits

-----------------------------------------------------------------------------
\* The log and what a step adds to it

Grows(l, m) == Len(l) <= Len(m) /\ \A i \in 1 .. Len(l) : m[i] = l[i]

LEMMA LogPoints ==
    ASSUME NEW l \in Seq(RowSet)
    PROVE  Len(l) \in Nat /\ DOMAIN l = 1 .. Len(l) /\ \A i \in DOMAIN l : l[i] \in RowSet
BY LenProperties, ElementOfSeq

LEMMA LogAppends ==
    ASSUME NEW l \in Seq(RowSet), NEW e \in RowSet
    PROVE  /\ Append(l, e) \in Seq(RowSet) /\ Grows(l, Append(l, e))
           /\ Len(Append(l, e)) = Len(l) + 1 /\ Append(l, e)[Len(l) + 1] = e
BY AppendProperties, LenProperties DEF Grows

LEMMA GrowsRows ==
    ASSUME NEW l \in Seq(RowSet), NEW m \in Seq(RowSet), Grows(l, m), NEW types
    PROVE  /\ Rows(l, types) \subseteq Rows(m, types)
           /\ \A i \in Rows(m, types) : i \in Rows(l, types) \/ i > Len(l)
           /\ \A a : Of(l, a, types) \subseteq Of(m, a, types)
           /\ \A a : \A i \in Of(m, a, types) : i \in Of(l, a, types) \/ i > Len(l)
<1>1. /\ DOMAIN l = 1 .. Len(l) /\ DOMAIN m = 1 .. Len(m) /\ Len(l) \in Nat /\ Len(m) \in Nat
      /\ Len(l) <= Len(m) /\ \A i \in 1 .. Len(l) : m[i] = l[i]
  BY LogPoints DEF Grows
<1>2. \A i \in DOMAIN l : i \in DOMAIN m /\ m[i] = l[i]
  BY <1>1
<1>3. \A i \in DOMAIN m : (i \in DOMAIN l /\ m[i] = l[i]) \/ i > Len(l)
  BY <1>1
<1> QED BY <1>2, <1>3 DEF Rows, Of

\* A step that gives try a no start and no refusal.
LEMMA FitsMore ==
    ASSUME NEW l \in Seq(RowSet), NEW m \in Seq(RowSet), Grows(l, m),
           NEW a, NEW f \in Nat, NEW p \in Places, NEW q \in Places, TryFits(l, f, p, a),
           \A i \in Of(m, a, Traces \union {"marker"}) :
              i > Len(l) => /\ m[i].type \notin {"started", "refused"}
                            /\ q # "none"
                            /\ q = "starting" => m[i].type = "marker",
           q \in {"none", "starting"} => p = q,
           q \in {"running", "closing", "hung"} => Of(l, a, {"started"}) # {}
    PROVE  TryFits(m, f, q, a)
<1>1. Len(l) \in Nat /\ Len(m) \in Nat /\ Len(l) <= Len(m)
  BY LogPoints DEF Grows
<1> DEFINE All == Traces \union {"marker"}
<1>2. \A i \in Of(m, a, All) : i \in Of(l, a, All) \/ i > Len(l)
  BY GrowsRows
<1>3. \A types : Of(l, a, types) \subseteq Of(m, a, types)
  BY GrowsRows
<1>4. ASSUME NEW types, types \subseteq All
      PROVE  \A i \in Of(m, a, types) :
               /\ i \in Of(m, a, All) /\ m[i].type \in types
               /\ i \in Of(l, a, types) \/ i > Len(l)
  <2> SUFFICES ASSUME NEW i \in Of(m, a, types)
               PROVE  /\ i \in Of(m, a, All) /\ m[i].type \in types
                      /\ i \in Of(l, a, types) \/ i > Len(l)
    OBVIOUS
  <2>1. i \in Of(l, a, types) \/ i > Len(l)
    BY GrowsRows
  <2>2. i \in Of(m, a, All) /\ m[i].type \in types
    BY <1>4 DEF Of, Rows
  <2> QED BY <2>1, <2>2
<1>5. {"marker"} \subseteq All /\ Traces \subseteq All /\ {"started"} \subseteq All
      /\ {"refused"} \subseteq All /\ Traces \ {"started"} \subseteq All
      /\ "marker" \notin Traces
  BY DEF Traces, Child
<1>6. f <= Len(m)
  BY <1>1 DEF TryFits
<1>7. q = "none" => f = 0 /\ Of(m, a, {"marker"}) = {}
  <2> SUFFICES ASSUME q = "none", NEW i \in Of(m, a, {"marker"}) PROVE FALSE
    BY DEF TryFits
  <2>1. i \in Of(m, a, All) /\ (i \in Of(l, a, {"marker"}) \/ i > Len(l))
    BY <1>4, <1>5
  <2> QED BY <2>1 DEF TryFits
<1>8. q \in {"none", "starting"} => Of(m, a, Traces) = {}
  <2> SUFFICES ASSUME q \in {"none", "starting"}, NEW i \in Of(m, a, Traces) PROVE FALSE
    OBVIOUS
  <2>1. i \in Of(m, a, All) /\ m[i].type \in Traces /\ (i \in Of(l, a, Traces) \/ i > Len(l))
    BY <1>4, <1>5
  <2> QED BY <1>5, <2>1 DEF TryFits
<1>9. q \in {"running", "closing", "hung"} => Of(m, a, {"started"}) # {}
  BY <1>3
<1>10. Of(m, a, {"started"}) = Of(l, a, {"started"})
  <2>1. ASSUME NEW i \in Of(m, a, {"started"}) PROVE i \in Of(l, a, {"started"})
    <3>1. {"started"} \subseteq All
      BY <1>5
    <3>2. i \in Of(m, a, All) /\ m[i].type \in {"started"} /\ (i \in Of(l, a, {"started"}) \/ i > Len(l))
      BY <1>4, <3>1
    <3> QED BY <3>2
  <2>2. Of(l, a, {"started"}) \subseteq Of(m, a, {"started"})
    BY <1>3
  <2> QED BY <2>1, <2>2
<1>11. Of(m, a, {"refused"}) = Of(l, a, {"refused"})
  <2>1. ASSUME NEW i \in Of(m, a, {"refused"}) PROVE i \in Of(l, a, {"refused"})
    <3>1. {"refused"} \subseteq All
      BY <1>5
    <3>2. i \in Of(m, a, All) /\ m[i].type \in {"refused"} /\ (i \in Of(l, a, {"refused"}) \/ i > Len(l))
      BY <1>4, <3>1
    <3> QED BY <3>2
  <2>2. Of(l, a, {"refused"}) \subseteq Of(m, a, {"refused"})
    BY <1>3
  <2> QED BY <2>1, <2>2
<1>12. Of(m, a, {"started"}) # {} => Of(m, a, {"refused"}) = {}
  BY <1>10, <1>11 DEF TryFits
<1>13. ASSUME NEW s \in Of(m, a, {"started"}), NEW i \in Of(m, a, Traces \ {"started"}) PROVE s < i
  <2>1. s \in Of(l, a, {"started"}) /\ s \in 1 .. Len(l)
    BY <1>10, LogPoints DEF Of, Rows
  <2>2. i \in Of(l, a, Traces \ {"started"}) \/ i > Len(l)
    BY <1>4, <1>5
  <2>3. i \in Nat
    BY LogPoints DEF Of, Rows
  <2> QED BY <1>1, <2>1, <2>2, <2>3 DEF TryFits
<1>14. ASSUME NEW i \in Of(m, a, All) PROVE f < i
  <2>1. i \in Nat
    BY LogPoints DEF Of, Rows
  <2>2. f <= Len(l)
    BY DEF TryFits
  <2>3. CASE i \in Of(l, a, All)
    BY <2>3 DEF TryFits
  <2>4. CASE i > Len(l)
    BY <1>1, <2>1, <2>2, <2>4
  <2> QED BY <1>2, <2>3, <2>4
<1> QED BY <1>6, <1>7, <1>8, <1>9, <1>12, <1>13, <1>14 DEF TryFits

\* The start or the refusal of a try that is starting.
LEMMA FitsStart ==
    ASSUME NEW l \in Seq(RowSet), NEW e \in RowSet, NEW a, NEW f \in Nat,
           TryFits(l, f, "starting", a),
           e.who = a,
           NEW q, \/ e.type = "started" /\ q = "running"
                  \/ e.type = "refused" /\ q = "over"
    PROVE  TryFits(Append(l, e), f, q, a)
<1> DEFINE m == Append(l, e)
           n == Len(l) + 1
<1>1. /\ m \in Seq(RowSet) /\ Grows(l, m) /\ Len(m) = n /\ m[n] = e /\ Len(l) \in Nat
      /\ DOMAIN m = 1 .. n
  BY LogAppends, LogPoints
<1> HIDE DEF m
<1>2. Of(l, a, Traces) = {} /\ f <= Len(l) /\ \A i \in Of(l, a, Traces \union {"marker"}) : f < i
  BY DEF TryFits
<1>3. ASSUME NEW i \in Of(m, a, Traces) PROVE i = n
  <2>1. i > Len(l)
    BY <1>1, <1>2, GrowsRows
  <2>2. i \in 1 .. n
    BY <1>1 DEF Of, Rows
  <2> QED BY <1>1, <2>1, <2>2
<1>4. "started" \in Traces /\ "refused" \in Traces
  BY DEF Traces, Child
<1>5. \A types : types \subseteq Traces => \A i \in Of(m, a, types) : i = n /\ e.type \in types
  <2> SUFFICES ASSUME NEW types, types \subseteq Traces, NEW i \in Of(m, a, types)
               PROVE  i = n /\ e.type \in types
    OBVIOUS
  <2>1. i \in Of(m, a, Traces) /\ m[i].type \in types
    BY DEF Of, Rows
  <2> QED BY <1>1, <1>3, <2>1
<1>6. n \in DOMAIN m
  BY <1>1
<1>7. e.type = "started" => n \in Of(m, a, {"started"})
  BY <1>1, <1>6 DEF Of, Rows
<1>8. /\ {"started"} \subseteq Traces /\ {"refused"} \subseteq Traces
      /\ Traces \ {"started"} \subseteq Traces
  BY <1>4
<1>9. f <= Len(m)
  BY <1>1, <1>2
<1>10. q \in {"running", "closing", "hung"} => Of(m, a, {"started"}) # {}
  BY <1>7
<1>11. Of(m, a, {"started"}) # {} => Of(m, a, {"refused"}) = {}
  BY <1>5, <1>8
<1>12. \A s \in Of(m, a, {"started"}) : \A i \in Of(m, a, Traces \ {"started"}) : s < i
  BY <1>5, <1>8
<1>13. ASSUME NEW i \in Of(m, a, Traces \union {"marker"}) PROVE f < i
  <2>1. i \in Of(l, a, Traces \union {"marker"}) \/ i > Len(l)
    BY <1>1, GrowsRows
  <2>2. i \in Nat
    BY <1>1 DEF Of, Rows
  <2>3. CASE i \in Of(l, a, Traces \union {"marker"})
    BY <1>2, <2>3
  <2>4. CASE i > Len(l)
    BY <1>1, <1>2, <2>2, <2>4
  <2> QED BY <2>1, <2>3, <2>4
<1>14. TryFits(m, f, q, a)
  BY <1>9, <1>10, <1>11, <1>12, <1>13 DEF TryFits
<1> QED BY <1>14 DEF m

\* A process of its own.
LEMMA FitsFork ==
    ASSUME NEW l \in Seq(RowSet), NEW a, NEW f \in Nat, f <= Len(l),
           TryFits(l, 0, "none", a)
    PROVE  TryFits(l, f, "starting", a)
<1>1. Of(l, a, {"marker"}) = {} /\ Of(l, a, Traces) = {}
  BY DEF TryFits
<1>2. /\ Of(l, a, Traces \union {"marker"}) = {} /\ Of(l, a, {"started"}) = {}
  BY <1>1 DEF Of, Rows, Traces, Child
<1> QED BY <1>1, <1>2 DEF TryFits

-----------------------------------------------------------------------------
\* Newest and first of some rows

LEMMA NewestIs ==
    ASSUME NEW n \in Nat, NEW S \in SUBSET (1 .. n), S # {}
    PROVE  Newest(S) \in S /\ \A j \in S : j <= Newest(S)
<1> DEFINE Good(m) == \A T \in SUBSET (1 .. m) : T # {} => \E i \in T : \A j \in T : j <= i
           G == {m \in Nat : Good(m)}
<1>1. 0 \in G
  <2>1. 1 .. 0 = {}
    OBVIOUS
  <2>2. Good(0)
    BY <2>1
  <2> QED BY <2>2
<1>2. ASSUME NEW m \in Nat, m \in G PROVE m + 1 \in G
  <2> SUFFICES ASSUME NEW T \in SUBSET (1 .. (m + 1)), T # {}
               PROVE  \E i \in T : \A j \in T : j <= i
    OBVIOUS
  <2>1. CASE m + 1 \in T
    BY <2>1
  <2>2. CASE m + 1 \notin T
    <3>1. T \in SUBSET (1 .. m)
      BY <2>2
    <3>2. Good(m)
      BY <1>2
    <3> QED BY <3>1, <3>2
  <2> QED BY <2>1, <2>2
<1>3. Nat \subseteq G
  <2> HIDE DEF G
  <2> QED BY <1>1, <1>2, Induction
<1>4. \E i \in S : \A j \in S : j <= i
  BY <1>3
<1> QED BY <1>4 DEF Newest

LEMMA FirstIs ==
    ASSUME NEW S \in SUBSET Nat, S # {}
    PROVE  First(S) \in S /\ \A j \in S : First(S) <= j
<1> DEFINE R == {n \in Nat : \A j \in S : n <= j}
           K == {n \in Nat : n \in R}
<1>1. ASSUME \A n \in R : n \notin S PROVE FALSE
  <2>1. 0 \in K
    OBVIOUS
  <2>2. ASSUME NEW n \in Nat, n \in K PROVE n + 1 \in K
    <3>1. \A j \in S : n <= j /\ j # n /\ j \in Nat
      BY <1>1, <2>2
    <3>2. \A j \in S : n + 1 <= j
      BY <3>1
    <3> QED BY <3>2
  <2>3. Nat \subseteq K
    <3> HIDE DEF K
    <3> QED BY <2>1, <2>2, Induction
  <2>4. PICK x \in S : TRUE
    OBVIOUS
  <2>5. x + 1 \in K
    BY <2>3
  <2> QED BY <2>4, <2>5
<1>2. \E i \in S : \A j \in S : i <= j
  BY <1>1
<1> QED BY <1>2 DEF First

-----------------------------------------------------------------------------
\* The sets the model counts are finite

LEMMA TriesFinite == IsFiniteSet(Tries) /\ \A S \in SUBSET Tries : IsFiniteSet(S) /\ Cardinality(S) \in Nat
<1>1. IsFiniteSet(Tries)
  BY RetryAssumption, FS_Interval DEF Tries
<1>2. \A S \in SUBSET Tries : IsFiniteSet(S)
  BY <1>1, FS_Subset
<1> QED BY <1>1, <1>2, FS_CardinalityType

LEMMA ImageFinite ==
    ASSUME NEW S, IsFiniteSet(S), NEW f, DOMAIN f = S, NEW T, T = {f[x] : x \in S}
    PROVE  IsFiniteSet(T)
<1> DEFINE g == [x \in S |-> f[x]]
<1>1. g \in [S -> T]
  OBVIOUS
<1>2. \A y \in T : \E x \in S : g[x] = y
  OBVIOUS
<1>3. g \in Surjection(S, T)
  BY <1>1, <1>2 DEF Surjection
<1> HIDE DEF g
<1> QED BY <1>3, FS_Surjection

\* The rows a pass records for what it finds gone or stale, in some order.
LEMMA SetToSeqIs ==
    ASSUME NEW S, IsFiniteSet(S)
    PROVE  SetToSeq(S) \in Seq(S)
<1> DEFINE n == Cardinality(S)
<1>1. n \in Nat /\ Bijection(1 .. n, S) # {}
  BY FS_CardinalityType, Fun_ExistsBij
<1>2. PICK b : b \in Bijection(1 .. n, S)
  BY <1>1
<1>3. b \in [1 .. n -> S] /\ IsInjective(b)
  BY <1>2 DEF Bijection, Injection, IsInjective
<1>4. SetToSeq(S) \in [1 .. n -> S]
  BY <1>3 DEF SetToSeq
<1> HIDE DEF n
<1> QED BY <1>1, <1>4

LEMMA ReconciledFinite == IsFiniteSet(Reconciled)
<1> DEFINE A == {a \in Tries : Gone(a)}
           B == {a \in Tries : Stale(a)}
           X == {Row("vanished", a) : a \in A}
           Y == {Row("stale", a) : a \in B}
<1>1. IsFiniteSet(X)
  <2> DEFINE f == [a \in A |-> Row("vanished", a)]
  <2>1. IsFiniteSet(A)
    BY TriesFinite
  <2>2. DOMAIN f = A /\ X = {f[a] : a \in A}
    OBVIOUS
  <2> HIDE DEF f, A, X
  <2> QED BY <2>1, <2>2, ImageFinite
<1>2. IsFiniteSet(Y)
  <2> DEFINE f == [a \in B |-> Row("stale", a)]
  <2>1. IsFiniteSet(B)
    BY TriesFinite
  <2>2. DOMAIN f = B /\ Y = {f[a] : a \in B}
    OBVIOUS
  <2> HIDE DEF f, B, Y
  <2> QED BY <2>1, <2>2, ImageFinite
<1>3. Reconciled = X \union Y
  BY DEF Reconciled
<1> QED BY <1>1, <1>2, <1>3, FS_Union

\* What a pass records is of a try that has started.
LEMMA ReconciledIs ==
    ASSUME TypeOK, \A a \in Tries : TryFits(log, forked[a], try[a], a), NEW e \in Reconciled
    PROVE  /\ e \in RowSet /\ e.type \in {"vanished", "stale"} /\ e.at = now
           /\ e.who \in Tries /\ Of(log, e.who, {"started"}) # {}
           /\ e.type = "vanished" => /\ try[e.who] = "over"
                                     /\ Of(log, e.who, {"done", "failed", "vanished"}) = {}
           /\ e.type = "stale" => try[e.who] = "hung" /\ Of(log, e.who, {"stale"}) = {}
<1>1. Tries \subseteq Nat /\ now \in Nat
  BY RetryAssumption DEF Tries, TypeOK
<1>2. CASE \E a \in Tries : Gone(a) /\ e = Row("vanished", a)
  <2>1. PICK a \in Tries : Gone(a) /\ e = Row("vanished", a)
    BY <1>2
  <2>2. e \in RowSet /\ e.type = "vanished" /\ e.who = a /\ e.at = now
    BY <1>1, <2>1 DEF Row, RowSet, RowType
  <2> QED BY <2>1, <2>2 DEF Gone, Is
<1>3. CASE \E a \in Tries : Stale(a) /\ e = Row("stale", a)
  <2>1. PICK a \in Tries : Stale(a) /\ e = Row("stale", a)
    BY <1>3
  <2>2. e \in RowSet /\ e.type = "stale" /\ e.who = a /\ e.at = now
    BY <1>1, <2>1 DEF Row, RowSet, RowType
  <2>3. try[a] = "hung" /\ Of(log, a, {"stale"}) = {}
    BY <2>1 DEF Stale, Is
  <2>4. TryFits(log, forked[a], try[a], a)
    OBVIOUS
  <2>5. Of(log, a, {"started"}) # {}
    BY <2>3, <2>4 DEF TryFits
  <2> QED BY <2>2, <2>3, <2>5
<1>4. e \in {Row("vanished", a) : a \in {x \in Tries : Gone(x)}}
      \/ e \in {Row("stale", a) : a \in {x \in Tries : Stale(x)}}
  BY DEF Reconciled
<1> QED BY <1>2, <1>3, <1>4

\* The log after a pass has begun.
LEMMA ReconciledLog ==
    ASSUME TypeOK, \A a \in Tries : TryFits(log, forked[a], try[a], a),
           NEW m, m = log \o SetToSeq(Reconciled)
    PROVE  /\ m \in Seq(RowSet) /\ Grows(log, m)
           /\ \A i \in DOMAIN m : i > Len(log) => m[i] \in Reconciled
<1> DEFINE s == SetToSeq(Reconciled)
<1>1. log \in Seq(RowSet)
  BY DEF TypeOK
<1>2. s \in Seq(Reconciled)
  BY ReconciledFinite, SetToSeqIs
<1>3. Reconciled \subseteq RowSet
  BY ReconciledIs
<1> HIDE DEF s
<1>4. s \in Seq(RowSet) /\ Len(s) \in Nat /\ \A i \in 1 .. Len(s) : s[i] \in Reconciled
  <2>1. Len(s) \in Nat /\ \A i \in 1 .. Len(s) : s[i] \in Reconciled
    BY <1>2, ElementOfSeq, LenProperties
  <2> QED BY <1>2, <1>3, <2>1
<1>5. /\ log \o s \in Seq(RowSet) /\ Len(log) \in Nat
      /\ DOMAIN (log \o s) = 1 .. (Len(log) + Len(s)) /\ Len(log \o s) = Len(log) + Len(s)
      /\ \A i \in 1 .. Len(log) : (log \o s)[i] = log[i]
      /\ \A i \in 1 .. Len(s) : (log \o s)[i + Len(log)] = s[i]
  <2>1. log \o s \in Seq(RowSet) /\ Len(log) \in Nat
    BY <1>1, <1>4, ConcatPoints
  <2>2. DOMAIN (log \o s) = 1 .. (Len(log) + Len(s)) /\ Len(log \o s) = Len(log) + Len(s)
    BY <1>1, <1>4, ConcatPoints
  <2>3. \A i \in 1 .. Len(log) : (log \o s)[i] = log[i]
    BY <1>1, <1>4, ConcatPoints
  <2>4. \A i \in 1 .. Len(s) : (log \o s)[i + Len(log)] = s[i]
    BY <1>1, <1>4, ConcatPoints
  <2> QED BY <2>1, <2>2, <2>3, <2>4
<1>6. m = log \o s
  BY DEF s
<1>7. Grows(log, m)
  BY <1>4, <1>5, <1>6 DEF Grows
<1>8. ASSUME NEW i \in DOMAIN m, i > Len(log) PROVE m[i] \in Reconciled
  <2>1. i - Len(log) \in 1 .. Len(s) /\ (i - Len(log)) + Len(log) = i
    BY <1>4, <1>5, <1>6, <1>8
  <2> QED BY <1>4, <1>5, <1>6, <2>1
<1> QED BY <1>5, <1>6, <1>7, <1>8

-----------------------------------------------------------------------------
\* Every step keeps what the tries' rows are like

LEMMA OthersFit ==
    ASSUME NEW l \in Seq(RowSet), NEW e \in RowSet, NEW b, NEW f \in Nat, NEW p \in Places,
           TryFits(l, f, p, b),
           e.type \notin Traces \union {"marker"} \/ e.who # b
    PROVE  TryFits(Append(l, e), f, p, b)
<1> DEFINE m == Append(l, e)
<1>1. m \in Seq(RowSet) /\ Grows(l, m) /\ Len(m) = Len(l) + 1 /\ m[Len(l) + 1] = e
      /\ DOMAIN m = 1 .. Len(m) /\ Len(l) \in Nat
  BY LogAppends, LogPoints
<1> HIDE DEF m
<1>2. ASSUME NEW i \in Of(m, b, Traces \union {"marker"}), i > Len(l) PROVE FALSE
  <2>1. i \in 1 .. Len(l) + 1
    BY <1>1 DEF Of, Rows
  <2>2. i = Len(l) + 1
    BY <1>1, <1>2, <2>1
  <2>3. m[i] = e
    BY <1>1, <2>2
  <2> QED BY <2>3 DEF Of, Rows
<1>3. p \in {"running", "closing", "hung"} => Of(l, b, {"started"}) # {}
  BY DEF TryFits
<1>4. TryFits(m, f, p, b)
  BY <1>1, <1>2, <1>3, FitsMore
<1> QED BY <1>4 DEF m

LEMMA LogStays ==
    ASSUME NEW l \in Seq(RowSet), NEW e \in RowSet, LogFits(l),
           e.type \in Traces \union {"marker"} => e.who \in Tries,
           e.type = "release" => Rows(l, {"escalated"}) # {}
    PROVE  LogFits(Append(l, e))
<1> DEFINE m == Append(l, e)
           n == Len(l) + 1
<1>1. m \in Seq(RowSet) /\ Grows(l, m) /\ Len(m) = n /\ m[n] = e
      /\ DOMAIN m = 1 .. n /\ DOMAIN l = 1 .. Len(l) /\ Len(l) \in Nat
      /\ \A i \in 1 .. Len(l) : m[i] = l[i]
  BY LogAppends, LogPoints DEF Grows
<1> HIDE DEF m
<1>2. \A i \in DOMAIN m : (i \in DOMAIN l /\ m[i] = l[i]) \/ (i = n /\ m[i] = e)
  BY <1>1
<1>3. \A i \in Rows(m, Traces \union {"marker"}) : m[i].who \in Tries
  BY <1>2 DEF LogFits, Rows
<1>4. Rows(l, {"escalated"}) \subseteq Rows(m, {"escalated"})
  BY <1>1, GrowsRows
<1>5. ASSUME NEW r \in Rows(m, {"release"}) PROVE \E h \in Rows(m, {"escalated"}) : h < r
  <2>1. CASE r \in DOMAIN l /\ m[r] = l[r]
    BY <1>4, <1>5, <2>1 DEF LogFits, Rows
  <2>2. CASE r = n /\ m[r] = e
    <3>1. PICK h \in Rows(l, {"escalated"}) : TRUE
      BY <1>5, <2>2 DEF Rows
    <3>2. h < n
      BY <1>1, <3>1 DEF Rows
    <3> QED BY <1>4, <2>2, <3>2
  <2> QED BY <1>2, <1>5, <2>1, <2>2 DEF Rows
<1>6. LogFits(m)
  <2>1. Rows(m, {"spec"}) # {}
    BY <1>1, GrowsRows DEF LogFits
  <2> QED BY <1>3, <1>5, <2>1 DEF LogFits
<1> QED BY <1>6 DEF m

LEMMA RowIs ==
    ASSUME TypeOK, NEW type \in RowType, NEW who \in Nat
    PROVE  Row(type, who) \in RowSet /\ Row(type, who).type = type /\ Row(type, who).who = who
BY DEF Row, RowSet, TypeOK

\* A row of people or of the tick.
LEMMA PlainRow ==
    ASSUME RetryInv, NEW type \in {"spec", "release", "escalated", "launch_failed"},
           NEW who \in Nat, Write(type, who), UNCHANGED <<try, forked>>,
           type = "release" => Rows(log, {"escalated"}) # {}
    PROVE  /\ log' \in Seq(RowSet) /\ LogFits(log') /\ Grows(log, log')
           /\ (\A a \in Tries : TryFits(log, forked[a], try[a], a))'
<1> DEFINE e == Row(type, who)
<1>1. /\ log \in Seq(RowSet) /\ LogFits(log) /\ TypeOK
      /\ \A a \in Tries : TryFits(log, forked[a], try[a], a)
      /\ \A a \in Tries : forked[a] \in Nat /\ try[a] \in Places
  BY DEF RetryInv, TypeOK
<1>2. type \in RowType /\ type \notin Traces \union {"marker"}
  BY DEF RowType, Traces, Child
<1>3. e \in RowSet /\ e.type = type /\ log' = Append(log, e)
  BY <1>1, <1>2, RowIs DEF Write
<1> HIDE DEF e
<1>4. log' \in Seq(RowSet) /\ Grows(log, log')
  BY <1>1, <1>3, LogAppends
<1>5. LogFits(log')
  BY <1>1, <1>2, <1>3, LogStays
<1>6. \A a \in Tries : TryFits(log', forked[a], try[a], a)
  BY <1>1, <1>2, <1>3, OthersFit
<1> QED BY <1>4, <1>5, <1>6

\* A row of try a, which it or a tick writes.
LEMMA OwnRow ==
    ASSUME RetryInv, NEW a \in Tries, NEW type \in Traces \union {"marker"},
           NEW q \in Places, Write(type, a), forked' = forked, try' = [try EXCEPT ![a] = q],
           q # "none",
           \/ try[a] = "starting" /\ type = "started" /\ q = "running"
           \/ try[a] = "starting" /\ type = "refused" /\ q = "over"
           \/ try[a] \in {"starting", "running", "closing", "hung"} /\ q = "over"
              /\ type \notin {"started", "refused"}
           \/ try[a] \in {"running", "hung"} /\ q = "closing" /\ type = "output"
           \/ q = try[a] /\ type = "marker"
    PROVE  /\ log' \in Seq(RowSet) /\ LogFits(log') /\ Grows(log, log')
           /\ try' \in [Tries -> Places]
           /\ (\A b \in Tries : TryFits(log, forked[b], try[b], b))'
<1> DEFINE e == Row(type, a)
<1>1. /\ log \in Seq(RowSet) /\ LogFits(log) /\ TypeOK
      /\ \A b \in Tries : TryFits(log, forked[b], try[b], b)
      /\ \A b \in Tries : forked[b] \in Nat /\ try[b] \in Places
      /\ try \in [Tries -> Places]
  BY DEF RetryInv, TypeOK
<1>2. type \in RowType /\ type # "release" /\ a \in Nat
  <2>1. type \in RowType /\ type # "release"
    BY DEF RowType, Traces, Child
  <2>2. a \in Nat
    BY RetryAssumption DEF Tries
  <2> QED BY <2>1, <2>2
<1>3. e \in RowSet /\ e.type = type /\ e.who = a /\ log' = Append(log, e)
  BY <1>1, <1>2, RowIs DEF Write
<1> HIDE DEF e
<1>4. log' \in Seq(RowSet) /\ Grows(log, log') /\ Len(log') = Len(log) + 1
      /\ log'[Len(log) + 1] = e /\ Len(log) \in Nat /\ DOMAIN log' = 1 .. Len(log')
  BY <1>1, <1>3, LogAppends, LogPoints
<1>5. LogFits(log')
  BY <1>1, <1>2, <1>3, LogStays
<1>6. \A b \in Tries \ {a} : TryFits(log', forked[b], try[b], b)
  BY <1>1, <1>3, OthersFit
<1>7. TryFits(log', forked[a], q, a)
  <2>1. CASE type \in {"started", "refused"}
    <3>1. /\ try[a] = "starting"
          /\ (e.type = "started" /\ q = "running") \/ (e.type = "refused" /\ q = "over")
      BY <1>3, <2>1
    <3>2. TryFits(log, forked[a], "starting", a)
      BY <1>1, <3>1
    <3> QED BY <1>1, <1>3, <3>1, <3>2, FitsStart
  <2>2. CASE type \notin {"started", "refused"}
    <3>1. \A i \in Of(log', a, Traces \union {"marker"}) : i > Len(log) => log'[i] = e
      <4> SUFFICES ASSUME NEW i \in Of(log', a, Traces \union {"marker"}), i > Len(log)
                   PROVE  log'[i] = e
        OBVIOUS
      <4>1. i \in 1 .. Len(log) + 1
        BY <1>4 DEF Of, Rows
      <4>2. i = Len(log) + 1
        BY <1>4, <4>1
      <4> QED BY <1>4, <4>2
    <3>2. /\ q \in {"none", "starting"} => try[a] = q /\ type = "marker"
          /\ q \in {"running", "closing", "hung"} => try[a] \in {"running", "closing", "hung"}
      BY <2>2
    <3>3. q \in {"running", "closing", "hung"} => Of(log, a, {"started"}) # {}
      BY <1>1, <3>2 DEF TryFits
    <3>4. \A i \in Of(log', a, Traces \union {"marker"}) :
             i > Len(log) => /\ log'[i].type \notin {"started", "refused"}
                             /\ q # "none"
                             /\ q = "starting" => log'[i].type = "marker"
      BY <1>3, <2>2, <3>1, <3>2
    <3>5. TryFits(log, forked[a], try[a], a) /\ log' \in Seq(RowSet) /\ Grows(log, log')
          /\ forked[a] \in Nat /\ try[a] \in Places /\ q \in Places
          /\ (q \in {"none", "starting"} => try[a] = q)
      BY <1>1, <1>4, <3>2
    <3> QED BY <1>1, <3>3, <3>4, <3>5, FitsMore
  <2> QED BY <2>1, <2>2
<1>8. try' \in [Tries -> Places] /\ try'[a] = q /\ \A b \in Tries \ {a} : try'[b] = try[b]
  BY <1>1
<1>9. \A b \in Tries : TryFits(log', forked'[b], try'[b], b)
  <2> SUFFICES ASSUME NEW b \in Tries PROVE TryFits(log', forked[b], try'[b], b)
    OBVIOUS
  <2>1. CASE b = a
    BY <1>7, <1>8, <2>1
  <2>2. CASE b # a
    BY <1>6, <1>8, <2>2
  <2> QED BY <2>1, <2>2
<1> QED BY <1>4, <1>5, <1>8, <1>9

\* A try that goes on without a row.
LEMMA Moves ==
    ASSUME RetryInv, NEW a \in Tries, NEW q \in Places, UNCHANGED <<log, forked>>,
           try' = [try EXCEPT ![a] = q], try[a] # "none",
           q = "over" \/ (q = "hung" /\ try[a] = "running")
    PROVE  /\ try' \in [Tries -> Places]
           /\ (\A b \in Tries : TryFits(log, forked[b], try[b], b))'
<1>1. /\ log \in Seq(RowSet) /\ try \in [Tries -> Places]
      /\ \A b \in Tries : TryFits(log, forked[b], try[b], b)
      /\ \A b \in Tries : forked[b] \in Nat /\ try[b] \in Places
  BY DEF RetryInv, TypeOK
<1>2. try' \in [Tries -> Places] /\ try'[a] = q /\ \A b \in Tries \ {a} : try'[b] = try[b]
  BY <1>1
<1>3. TryFits(log, forked[a], q, a)
  BY <1>1 DEF TryFits
<1>4. \A b \in Tries : TryFits(log', forked'[b], try'[b], b)
  <2> SUFFICES ASSUME NEW b \in Tries PROVE TryFits(log, forked[b], try'[b], b)
    OBVIOUS
  <2>1. CASE b = a
    BY <1>2, <1>3, <2>1
  <2>2. CASE b # a
    BY <1>1, <1>2, <2>2
  <2> QED BY <2>1, <2>2
<1> QED BY <1>2, <1>4

\* A new process, of a tick (f is the log's length then) or of a person (0).
LEMMA Begins ==
    ASSUME RetryInv, NEW f \in Nat, f <= Len(log), Free # {}, log' = log,
           Goto(First(Free), "starting"),
           forked' = [forked EXCEPT ![First(Free)] = f]
    PROVE  /\ First(Free) \in Tries /\ try[First(Free)] = "none" /\ forked[First(Free)] = 0
           /\ Of(log, First(Free), {"started"}) = {}
           /\ try' \in [Tries -> Places] /\ forked' \in [Tries -> Nat]
           /\ try'[First(Free)] = "starting" /\ forked'[First(Free)] = f
           /\ \A b \in Tries \ {First(Free)} : try'[b] = try[b] /\ forked'[b] = forked[b]
           /\ (\A b \in Tries : TryFits(log, forked[b], try[b], b))'
<1> DEFINE a == First(Free)
<1>1. /\ log \in Seq(RowSet) /\ try \in [Tries -> Places] /\ forked \in [Tries -> Nat]
      /\ \A b \in Tries : TryFits(log, forked[b], try[b], b)
  BY DEF RetryInv, TypeOK
<1>2. a \in Free
  <2>1. Free \in SUBSET Nat
    BY RetryAssumption DEF Free, Tries
  <2> QED BY <2>1, FirstIs
<1> HIDE DEF a
<1>3. a \in Tries /\ try[a] = "none"
  BY <1>2 DEF Free
<1>4. forked[a] = 0 /\ TryFits(log, 0, "none", a) /\ Of(log, a, Traces) = {}
  <2>1. TryFits(log, forked[a], "none", a)
    BY <1>1, <1>3
  <2>2. forked[a] = 0 /\ Of(log, a, Traces) = {}
    BY <2>1 DEF TryFits
  <2> QED BY <2>1, <2>2
<1>5. Of(log, a, {"started"}) = {}
  <2>1. "started" \in Traces
    BY DEF Traces, Child
  <2> QED BY <1>4, <2>1 DEF Of, Rows
<1>6. TryFits(log, f, "starting", a)
  BY <1>1, <1>4, FitsFork
<1>7. /\ try' = [try EXCEPT ![a] = "starting"] /\ forked' = [forked EXCEPT ![a] = f]
  BY DEF Goto, a
<1>8. try' \in [Tries -> Places] /\ try'[a] = "starting" /\ \A b \in Tries \ {a} : try'[b] = try[b]
  BY <1>1, <1>3, <1>7 DEF Places
<1>9. forked' \in [Tries -> Nat] /\ forked'[a] = f /\ \A b \in Tries \ {a} : forked'[b] = forked[b]
  BY <1>1, <1>3, <1>7
<1>10. \A b \in Tries : TryFits(log', forked'[b], try'[b], b)
  <2> SUFFICES ASSUME NEW b \in Tries PROVE TryFits(log, forked'[b], try'[b], b)
    OBVIOUS
  <2>1. CASE b = a
    BY <1>6, <1>8, <1>9, <2>1
  <2>2. CASE b # a
    BY <1>1, <1>8, <1>9, <2>2
  <2> QED BY <2>1, <2>2
<1> QED BY <1>3, <1>4, <1>5, <1>8, <1>9, <1>10 DEF a

\* The governing trigger is a row of the log, and while there is no output the
\* newest that is one.
LEMMA TriggerIs ==
    ASSUME NEW l \in Seq(RowSet), LogFits(l)
    PROVE  /\ Trigger(l) \in TriggersOf(l)
           /\ Rows(l, {"output"}) = {} => Newly(l, Trigger(l))
<1> DEFINE n == Len(l)
           spec == Newest(Rows(l, {"spec"}))
           Heads == {h \in Rows(l, {"escalated"}) :
                      /\ Released(l, h) # {}
                      /\ \A i \in Rows(l, {"output"}) : i < h}
           releases == {Newest(Released(l, h)) : h \in Heads}
           late == {r \in releases : r > spec}
           all == {spec} \union late
<1>1. n \in Nat /\ DOMAIN l = 1 .. n /\ \A i \in DOMAIN l : l[i] \in RowSet
  BY LogPoints
<1>2. \A types : Rows(l, types) \in SUBSET (1 .. n)
  BY <1>1 DEF Rows
<1>3. spec \in Rows(l, {"spec"}) /\ \A j \in Rows(l, {"spec"}) : j <= spec
  <2>1. Rows(l, {"spec"}) # {}
    BY DEF LogFits
  <2> QED BY <1>1, <1>2, <2>1, NewestIs
<1>4. ASSUME NEW h \in Heads
      PROVE  /\ Newest(Released(l, h)) \in Rows(l, {"release"})
             /\ \A j \in Released(l, h) : j <= Newest(Released(l, h))
  <2>1. Released(l, h) # {} /\ Released(l, h) \subseteq Rows(l, {"release"})
    BY DEF Released
  <2>2. Released(l, h) \in SUBSET (1 .. n)
    BY <1>2, <2>1
  <2> QED BY <1>1, <2>1, <2>2, NewestIs
<1>5. releases \subseteq Rows(l, {"release"})
  BY <1>4
<1>6. all \in SUBSET (1 .. n) /\ all # {}
  BY <1>2, <1>3, <1>5
<1>7. Trigger(l) = Newest(all)
  BY DEF Trigger
<1>8. Trigger(l) \in all /\ \A j \in all : j <= Trigger(l)
  <2> HIDE DEF all
  <2> QED BY <1>1, <1>6, <1>7, NewestIs
<1>9. TriggersOf(l) = Rows(l, {"spec"}) \union Rows(l, {"release"})
  BY DEF TriggersOf, Rows
<1>10. Trigger(l) \in TriggersOf(l)
  BY <1>3, <1>5, <1>8, <1>9
<1>11. ASSUME Rows(l, {"output"}) = {}, NEW U \in TriggersOf(l) PROVE U <= Trigger(l)
  <2>1. U \in 1 .. n /\ spec \in 1 .. n /\ Trigger(l) \in 1 .. n
    BY <1>2, <1>3, <1>6, <1>8, <1>9, <1>11
  <2>2. spec <= Trigger(l)
    BY <1>8
  <2>3. CASE U \in Rows(l, {"spec"})
    <3>1. U <= spec
      BY <1>3, <2>3
    <3> QED BY <2>1, <2>2, <3>1
  <2>4. CASE U \in Rows(l, {"release"})
    <3>1. PICK h \in Rows(l, {"escalated"}) : h < U
      BY <2>4 DEF LogFits
    <3>2. h \in 1 .. n
      BY <1>2, <3>1
    <3>3. U \in Released(l, h)
      BY <2>1, <2>4, <3>1, <3>2 DEF Released
    <3>4. h \in Heads
      BY <1>11, <3>1, <3>3
    <3> DEFINE r == Newest(Released(l, h))
    <3>5. U <= r /\ r \in releases /\ r \in 1 .. n
      BY <1>2, <1>4, <3>3, <3>4
    <3>6. r <= spec \/ r \in late
      BY <2>1, <3>5
    <3> HIDE DEF r
    <3>7. r <= Trigger(l)
      BY <1>8, <2>1, <2>2, <3>5, <3>6
    <3> QED BY <2>1, <3>5, <3>7
  <2> QED BY <1>9, <1>11, <2>3, <2>4
<1>12. Rows(l, {"output"}) = {} => Newly(l, Trigger(l))
  BY <1>10, <1>11 DEF Newly
<1> QED BY <1>10, <1>12

LEMMA TriggersGrow ==
    ASSUME NEW l \in Seq(RowSet), LogFits(l)
    PROVE  TriggersOf(l) \in SUBSET (1 .. Len(l)) /\ Trigger(l) \in Nat
<1>1. TriggersOf(l) \in SUBSET (1 .. Len(l))
  BY LogPoints DEF TriggersOf, Rows
<1> QED BY <1>1, TriggerIs, LogPoints

\* A step of a process alone does not touch what the tick knows.
LEMMA OwnStep ==
    ASSUME RetryInv, NEW a \in Tries, NEW q \in Places,
           try[a] # "none", try' = [try EXCEPT ![a] = q], q \notin {"none", "starting"},
           UNCHANGED <<now, forked, tick, ticked, deaths>>,
           log' \in Seq(RowSet), LogFits(log'), try' \in [Tries -> Places],
           (\A b \in Tries : TryFits(log, forked[b], try[b], b))'
    PROVE  RetryInv'
<1>1. TypeOK /\ TickFits
  BY DEF RetryInv
<1>2. TypeOK'
  BY <1>1 DEF TypeOK
<1>3. \A b \in Tries : try'[b] = try[b] \/ (try'[b] = q /\ try[b] # "none")
  BY <1>1 DEF TypeOK
<1>4. TickFits'
  BY <1>1, <1>3 DEF TickFits, Is
<1> QED BY <1>2, <1>4 DEF RetryInv

\* The initial state.
LEMMA RetryStart == Init => RetryInv
<1> SUFFICES ASSUME Init PROVE RetryInv
  OBVIOUS
<1> DEFINE e == [type |-> "spec", who |-> 0, at |-> 1]
<1>1. e \in RowSet /\ e.type = "spec" /\ log = <<e>>
  BY DEF Init, RowSet, RowType
<1> HIDE DEF e
<1>2. log \in Seq(RowSet) /\ Len(log) = 1 /\ log[1] = e /\ DOMAIN log = 1 .. 1
  BY <1>1
<1>3. \A i \in DOMAIN log : i = 1 /\ log[i].type = "spec"
  BY <1>1, <1>2
<1>4. TypeOK
  BY <1>2 DEF Init, Idle, TypeOK, TickSet, Places
<1>5. LogFits(log)
  <2>1. 1 \in Rows(log, {"spec"})
    BY <1>1, <1>2 DEF Rows
  <2> QED BY <1>3, <2>1 DEF LogFits, Rows, Traces, Child
<1>6. \A a \in Tries : TryFits(log, forked[a], try[a], a)
  <2> SUFFICES ASSUME NEW a \in Tries PROVE TryFits(log, 0, "none", a)
    BY DEF Init
  <2>1. \A types : "spec" \notin types => Of(log, a, types) = {}
    BY <1>3 DEF Of, Rows
  <2>2. "spec" \notin Traces /\ "spec" \notin Traces \union {"marker"}
    BY DEF Traces, Child
  <2>3. Of(log, a, Traces) = {} /\ Of(log, a, Traces \union {"marker"}) = {}
        /\ Of(log, a, {"marker"}) = {} /\ Of(log, a, {"started"}) = {}
    BY <2>1, <2>2
  <2>4. 0 <= Len(log)
    BY <1>2
  <2>5. "none" \notin {"running", "closing", "hung"}
    OBVIOUS
  <2> QED BY <2>3, <2>4, <2>5 DEF TryFits
<1>7. TickFits
  BY DEF Init, Idle, TickFits, Is
<1> QED BY <1>4, <1>5, <1>6, <1>7 DEF RetryInv

\* Every step keeps it.
LEMMA RetryStep == RetryInv /\ [Next]_vars => RetryInv'
<1> SUFFICES ASSUME RetryInv, [Next]_vars PROVE RetryInv'
  OBVIOUS
<1>0. /\ TypeOK /\ LogFits(log) /\ TickFits
      /\ \A a \in Tries : TryFits(log, forked[a], try[a], a)
      /\ log \in Seq(RowSet) /\ Tries \subseteq Nat
  BY RetryAssumption DEF RetryInv, TypeOK, Tries
<1>a. Idle \in TickSet /\ Idle.pc = "idle"
  BY DEF Idle, TickSet
<1>1. CASE TickBegin
  <2> DEFINE m == log \o SetToSeq(Reconciled)
  <2>1. /\ log' = m /\ tick.pc = "idle" /\ ticked' = TRUE
        /\ UNCHANGED <<now, try, forked, deaths>>
        /\ LET choice == Choice(log, now) IN
             tick' = IF choice = "idle" THEN Idle
                     ELSE [Idle EXCEPT !.pc = choice, !.trigger = Trigger(log), !.at = now]
    BY <1>1 DEF TickBegin
  <2>2. /\ m \in Seq(RowSet) /\ Grows(log, m)
        /\ \A i \in DOMAIN m : i > Len(log) => m[i] \in Reconciled
    BY <1>0, ReconciledLog
  <2> HIDE DEF m
  <2>3. tick' \in TickSet /\ tick'.pc # "forked"
    <3>1. Trigger(log) \in Nat /\ now \in Nat
      BY <1>0, TriggersGrow DEF TypeOK
    <3>2. Choice(log, now) \in {"idle", "escalate", "launch"}
      BY DEF Choice
    <3> QED BY <1>a, <2>1, <3>1, <3>2 DEF Idle, TickSet
  <2>4. TypeOK'
    BY <1>0, <2>1, <2>2, <2>3 DEF TypeOK
  <2>5. TickFits'
    BY <2>1, <2>3 DEF TickFits, Is
  <2>6. \A i \in DOMAIN m : (i \in DOMAIN log /\ m[i] = log[i]) \/ (i > Len(log) /\ m[i] \in Reconciled)
    BY <2>2, <1>0, LogPoints DEF Grows
  <2>7. \A e \in Reconciled : e.type \in {"vanished", "stale"} /\ e.who \in Tries
                             /\ Of(log, e.who, {"started"}) # {}
    BY <1>0, ReconciledIs
  <2>8. LogFits(m)
    <3>1. \A i \in Rows(m, Traces \union {"marker"}) : m[i].who \in Tries
      BY <1>0, <2>6, <2>7 DEF LogFits, Rows
    <3>2. \A i \in Rows(m, {"release"}) : i \in Rows(log, {"release"})
      BY <2>6, <2>7 DEF Rows
    <3>3. Rows(log, {"escalated"}) \subseteq Rows(m, {"escalated"})
      BY <1>0, <2>2, GrowsRows
    <3>4. Rows(log, {"spec"}) \subseteq Rows(m, {"spec"})
      BY <1>0, <2>2, GrowsRows
    <3> QED BY <1>0, <3>1, <3>2, <3>3, <3>4 DEF LogFits
  <2>9. ASSUME NEW a \in Tries PROVE TryFits(m, forked[a], try[a], a)
    <3>1. forked[a] \in Nat /\ try[a] \in Places /\ TryFits(log, forked[a], try[a], a)
      BY <1>0 DEF TypeOK
    <3>2. ASSUME NEW i \in Of(m, a, Traces \union {"marker"}), i > Len(log)
          PROVE  /\ m[i].type \notin {"started", "refused"}
                 /\ try[a] \notin {"none", "starting"}
      <4>1. m[i] \in Reconciled /\ m[i].who = a
        BY <2>2, <3>2 DEF Of, Rows
      <4>2. "started" \in Traces
        BY DEF Traces, Child
      <4>3. Of(log, a, Traces) # {}
        BY <2>7, <4>1, <4>2 DEF Of, Rows
      <4> QED BY <2>7, <3>1, <4>1, <4>3 DEF TryFits
    <3>3. try[a] \in {"running", "closing", "hung"} => Of(log, a, {"started"}) # {}
      BY <3>1 DEF TryFits
    <3> QED BY <1>0, <2>2, <3>1, <3>2, <3>3, FitsMore
  <2> QED BY <2>1, <2>4, <2>5, <2>8, <2>9 DEF RetryInv
<1>2. CASE Escalate
  <2>1. tick' = Idle /\ UNCHANGED <<now, try, forked, ticked, deaths>>
        /\ (UNCHANGED log \/ Write("escalated", tick.trigger))
    BY <1>2 DEF Escalate
  <2>2. tick.trigger \in Nat
    BY <1>0 DEF TypeOK, TickSet
  <2>3. log' \in Seq(RowSet) /\ LogFits(log') /\ (\A a \in Tries : TryFits(log, forked[a], try[a], a))'
    <3>1. CASE UNCHANGED log
      BY <1>0, <2>1, <3>1
    <3>2. CASE Write("escalated", tick.trigger)
      BY <2>1, <2>2, <3>2, PlainRow
    <3> QED BY <2>1, <3>1, <3>2
  <2>4. TypeOK'
    BY <1>0, <1>a, <2>1, <2>3 DEF TypeOK
  <2>5. TickFits'
    BY <1>0, <1>a, <2>1 DEF TickFits, Is
  <2> QED BY <2>3, <2>4, <2>5 DEF RetryInv
<1>3. CASE LaunchFails
  <2>1. tick' = Idle /\ UNCHANGED <<now, try, forked, ticked, deaths>> /\ Write("launch_failed", 0)
    BY <1>3 DEF LaunchFails
  <2>2. log' \in Seq(RowSet) /\ LogFits(log') /\ (\A a \in Tries : TryFits(log, forked[a], try[a], a))'
    BY <2>1, PlainRow
  <2>3. TypeOK'
    BY <1>0, <1>a, <2>1, <2>2 DEF TypeOK
  <2>4. TickFits'
    BY <1>0, <1>a, <2>1 DEF TickFits, Is
  <2> QED BY <2>2, <2>3, <2>4 DEF RetryInv
<1>4. CASE Fork
  <2>1. /\ tick.pc = "launch" /\ Free # {} /\ Goto(First(Free), "starting")
        /\ forked' = [forked EXCEPT ![First(Free)] = Len(log)]
        /\ tick' = [Idle EXCEPT !.pc = "forked", !.fork = First(Free)]
        /\ UNCHANGED <<now, log, ticked, deaths>>
    BY <1>4 DEF Fork
  <2>2. Len(log) \in Nat /\ Len(log) <= Len(log)
    BY <1>0, LogPoints
  <2>3. /\ First(Free) \in Tries /\ try' \in [Tries -> Places] /\ forked' \in [Tries -> Nat]
        /\ try'[First(Free)] = "starting"
        /\ (\A b \in Tries : TryFits(log, forked[b], try[b], b))'
    BY <2>1, <2>2, Begins
  <2>4. tick' \in TickSet /\ tick'.pc = "forked" /\ tick'.fork = First(Free)
    BY <1>0, <2>1, <2>3 DEF Idle, TickSet
  <2>5. TypeOK'
    BY <1>0, <2>1, <2>3, <2>4 DEF TypeOK
  <2>6. ticked
    BY <1>0, <2>1 DEF TickFits
  <2>7. TickFits'
    BY <2>1, <2>3, <2>4, <2>6 DEF TickFits
  <2> QED BY <1>0, <2>1, <2>3, <2>5, <2>7 DEF RetryInv
<1>5. CASE Mark
  <2>1. tick' = Idle /\ UNCHANGED <<now, try, forked, ticked, deaths>> /\ Write("marker", tick.fork)
        /\ tick.fork \in Tries /\ try[tick.fork] # "none"
    BY <1>0, <1>5 DEF Mark, TickFits
  <2>2. try[tick.fork] \in Places /\ try' = [try EXCEPT ![tick.fork] = try[tick.fork]]
    BY <1>0, <2>1 DEF TypeOK
  <2>3. log' \in Seq(RowSet) /\ LogFits(log') /\ (\A a \in Tries : TryFits(log, forked[a], try[a], a))'
    BY <2>1, <2>2, OwnRow
  <2>4. TypeOK'
    BY <1>0, <1>a, <2>1, <2>3 DEF TypeOK
  <2>5. TickFits'
    BY <1>0, <1>a, <2>1 DEF TickFits, Is
  <2> QED BY <2>3, <2>4, <2>5 DEF RetryInv
<1>6. CASE TickDie
  <2>1. tick' = Idle /\ deaths' = deaths + 1 /\ UNCHANGED <<now, log, try, forked, ticked>>
    BY <1>6 DEF TickDie
  <2>2. TypeOK'
    BY <1>0, <1>a, <2>1 DEF TypeOK
  <2>3. TickFits'
    BY <1>0, <1>a, <2>1 DEF TickFits, Is
  <2> QED BY <1>0, <2>1, <2>2, <2>3 DEF RetryInv
<1>7. CASE Manual
  <2>1. /\ Free # {} /\ Goto(First(Free), "starting") /\ UNCHANGED <<now, log, forked, tick, ticked, deaths>>
    BY <1>7 DEF Manual
  <2>2. First(Free) \in Tries /\ forked[First(Free)] = 0
    <3>1. Free # {} /\ Free \in SUBSET Nat
      BY <1>0, <2>1 DEF Free
    <3>2. First(Free) \in Free
      BY <3>1, FirstIs
    <3>3. First(Free) \in Tries /\ try[First(Free)] = "none"
      BY <3>2 DEF Free
    <3> QED BY <1>0, <3>3 DEF TryFits
  <2>3. forked' = [forked EXCEPT ![First(Free)] = 0]
    BY <1>0, <2>1, <2>2 DEF TypeOK
  <2>4. 0 <= Len(log)
    BY <1>0, LogPoints
  <2>5. /\ try' \in [Tries -> Places] /\ forked' \in [Tries -> Nat]
        /\ \A b \in Tries \ {First(Free)} : try'[b] = try[b]
        /\ try'[First(Free)] = "starting"
        /\ (\A b \in Tries : TryFits(log, forked[b], try[b], b))'
    BY <2>1, <2>3, <2>4, Begins
  <2>6. TypeOK'
    BY <1>0, <2>1, <2>5 DEF TypeOK
  <2>7. \A b \in Tries : Is(b, {"starting"})' => Is(b, {"starting"}) \/ forked[b] = 0
    BY <2>2, <2>5 DEF Is
  <2>8. TickFits'
    <3>1. \A b \in Tries : try[b] # "none" => try'[b] # "none"
      BY <2>5
    <3> QED BY <1>0, <2>1, <2>7, <3>1 DEF TickFits
  <2> QED BY <1>0, <2>1, <2>5, <2>6, <2>8 DEF RetryInv
<1>8. CASE \E a \in Tries : \/ Start(a) \/ Refuse(a) \/ Fail(a) \/ Output(a) \/ Close(a)
                              \/ Empty(a) \/ Vanish(a) \/ Hang(a)
  <2> PICK a \in Tries : \/ Start(a) \/ Refuse(a) \/ Fail(a) \/ Output(a) \/ Close(a)
                         \/ Empty(a) \/ Vanish(a) \/ Hang(a)
    BY <1>8
  <2>1. CASE Start(a)
    <3>1. /\ try[a] \in {"starting"} /\ Write("started", a)
          /\ try' = [try EXCEPT ![a] = "running"] /\ UNCHANGED <<now, forked, tick, ticked, deaths>>
      BY <2>1 DEF Start, Step, Is, Goto
    <3>2. "started" \in Traces \union {"marker"} /\ "running" \in Places
      BY DEF Traces, Child, Places
    <3>3. log' \in Seq(RowSet) /\ LogFits(log') /\ try' \in [Tries -> Places]
          /\ (\A b \in Tries : TryFits(log, forked[b], try[b], b))'
      BY <3>1, <3>2, OwnRow
    <3> QED BY <3>1, <3>2, <3>3, OwnStep
  <2>2. CASE Refuse(a)
    <3>1. /\ try[a] \in {"starting"} /\ Write("refused", a)
          /\ try' = [try EXCEPT ![a] = "over"] /\ UNCHANGED <<now, forked, tick, ticked, deaths>>
      BY <2>2 DEF Refuse, Step, Is, Goto
    <3>2. "refused" \in Traces \union {"marker"} /\ "over" \in Places
      BY DEF Traces, Child, Places
    <3>3. log' \in Seq(RowSet) /\ LogFits(log') /\ try' \in [Tries -> Places]
          /\ (\A b \in Tries : TryFits(log, forked[b], try[b], b))'
      BY <3>1, <3>2, OwnRow
    <3> QED BY <3>1, <3>2, <3>3, OwnStep
  <2>3. CASE Fail(a)
    <3>1. /\ try[a] \in {"starting", "running", "hung"} /\ Write("failed", a)
          /\ try' = [try EXCEPT ![a] = "over"] /\ UNCHANGED <<now, forked, tick, ticked, deaths>>
      BY <2>3 DEF Fail, Step, Is, Goto
    <3>2. "failed" \in Traces \union {"marker"} /\ "over" \in Places
      BY DEF Traces, Child, Places
    <3>3. log' \in Seq(RowSet) /\ LogFits(log') /\ try' \in [Tries -> Places]
          /\ (\A b \in Tries : TryFits(log, forked[b], try[b], b))'
      BY <3>1, <3>2, OwnRow
    <3> QED BY <3>1, <3>2, <3>3, OwnStep
  <2>4. CASE Output(a)
    <3>1. /\ try[a] \in {"running", "hung"} /\ Write("output", a)
          /\ try' = [try EXCEPT ![a] = "closing"] /\ UNCHANGED <<now, forked, tick, ticked, deaths>>
      BY <2>4 DEF Output, Step, Is, Goto
    <3>2. "output" \in Traces \union {"marker"} /\ "closing" \in Places
      BY DEF Traces, Child, Places
    <3>3. log' \in Seq(RowSet) /\ LogFits(log') /\ try' \in [Tries -> Places]
          /\ (\A b \in Tries : TryFits(log, forked[b], try[b], b))'
      BY <3>1, <3>2, OwnRow
    <3> QED BY <3>1, <3>2, <3>3, OwnStep
  <2>5. CASE Close(a)
    <3>1. /\ try[a] \in {"closing"} /\ Write("done", a)
          /\ try' = [try EXCEPT ![a] = "over"] /\ UNCHANGED <<now, forked, tick, ticked, deaths>>
      BY <2>5 DEF Close, Step, Is, Goto
    <3>2. "done" \in Traces \union {"marker"} /\ "over" \in Places
      BY DEF Traces, Child, Places
    <3>3. log' \in Seq(RowSet) /\ LogFits(log') /\ try' \in [Tries -> Places]
          /\ (\A b \in Tries : TryFits(log, forked[b], try[b], b))'
      BY <3>1, <3>2, OwnRow
    <3> QED BY <3>1, <3>2, <3>3, OwnStep
  <2>6. CASE Empty(a)
    <3>1. /\ try[a] \in {"running", "hung"} /\ Write("done", a)
          /\ try' = [try EXCEPT ![a] = "over"] /\ UNCHANGED <<now, forked, tick, ticked, deaths>>
      BY <2>6 DEF Empty, Step, Is, Goto
    <3>2. "done" \in Traces \union {"marker"} /\ "over" \in Places
      BY DEF Traces, Child, Places
    <3>3. log' \in Seq(RowSet) /\ LogFits(log') /\ try' \in [Tries -> Places]
          /\ (\A b \in Tries : TryFits(log, forked[b], try[b], b))'
      BY <3>1, <3>2, OwnRow
    <3> QED BY <3>1, <3>2, <3>3, OwnStep
  <2>7. CASE Vanish(a)
    <3>1. /\ try[a] \in {"starting", "running", "closing", "hung"}
          /\ try' = [try EXCEPT ![a] = "over"] /\ UNCHANGED <<now, log, forked, tick, ticked, deaths>>
      BY <2>7 DEF Vanish, Is, Goto
    <3>2. "over" \in Places
      BY DEF Places
    <3>3. /\ try' \in [Tries -> Places]
          /\ (\A b \in Tries : TryFits(log, forked[b], try[b], b))'
      BY <3>1, <3>2, Moves
    <3> QED BY <1>0, <3>1, <3>2, <3>3, OwnStep
  <2>8. CASE Hang(a)
    <3>1. /\ try[a] = "running"
          /\ try' = [try EXCEPT ![a] = "hung"] /\ UNCHANGED <<now, log, forked, tick, ticked, deaths>>
      BY <2>8 DEF Hang, Is, Goto
    <3>2. "hung" \in Places
      BY DEF Places
    <3>3. /\ try' \in [Tries -> Places]
          /\ (\A b \in Tries : TryFits(log, forked[b], try[b], b))'
      BY <3>1, <3>2, Moves
    <3> QED BY <1>0, <3>1, <3>2, <3>3, OwnStep
  <2> QED BY <2>1, <2>2, <2>3, <2>4, <2>5, <2>6, <2>7, <2>8
<1>9. CASE Rewrite
  <2>1. UNCHANGED <<now, try, forked, tick, ticked, deaths>> /\ Write("spec", 0)
    BY <1>9 DEF Rewrite
  <2>2. log' \in Seq(RowSet) /\ LogFits(log') /\ (\A a \in Tries : TryFits(log, forked[a], try[a], a))'
    BY <2>1, PlainRow
  <2>3. TypeOK'
    BY <1>0, <2>1, <2>2 DEF TypeOK
  <2>4. TickFits'
    BY <1>0, <2>1 DEF TickFits, Is
  <2> QED BY <2>2, <2>3, <2>4 DEF RetryInv
<1>10. CASE Release
  <2>1. UNCHANGED <<now, try, forked, tick, ticked, deaths>> /\ Write("release", 0)
        /\ Rows(log, {"escalated"}) # {}
    BY <1>10 DEF Release, Held
  <2>2. log' \in Seq(RowSet) /\ LogFits(log') /\ (\A a \in Tries : TryFits(log, forked[a], try[a], a))'
    BY <2>1, PlainRow
  <2>3. TypeOK'
    BY <1>0, <2>1, <2>2 DEF TypeOK
  <2>4. TickFits'
    BY <1>0, <2>1 DEF TickFits, Is
  <2> QED BY <2>2, <2>3, <2>4 DEF RetryInv
<1>11. CASE Clock
  <2>1. /\ now' = now + 1 /\ ticked' = (tick.pc # "idle") /\ UNCHANGED <<log, try, forked, tick, deaths>>
        /\ \A a \in Tries : ~Is(a, {"starting"})
    BY <1>11 DEF Clock, Is
  <2>2. TypeOK'
    BY <1>0, <2>1 DEF TypeOK
  <2>3. TickFits'
    BY <1>0, <2>1 DEF TickFits, Is
  <2> QED BY <1>0, <2>1, <2>2, <2>3 DEF RetryInv
<1>12. CASE UNCHANGED vars
  BY <1>12 DEF vars, RetryInv, TypeOK, LogFits, TickFits, Is
<1> QED
  BY <1>1, <1>2, <1>3, <1>4, <1>5, <1>6, <1>7, <1>8, <1>9, <1>10, <1>11, <1>12 DEF Next, Done

-----------------------------------------------------------------------------
\* The budget

\* A step that starts nothing new charges nothing to an old trigger, and a new
\* trigger is charged nothing.
LEMMA ChargedKept ==
    ASSUME RetryInv, forked' = forked, log' \in Seq(RowSet), Grows(log, log'),
           \A a \in Tries :
              (forked[a] > 0 /\ (Is(a, {"starting"})' \/ Of(log', a, {"started"}) # {}))
              => (Is(a, {"starting"}) \/ Of(log, a, {"started"}) # {}),
           NEW T \in TriggersOf(log')
    PROVE  /\ T \in TriggersOf(log) => Charged(T)' \subseteq Charged(T)
           /\ T \notin TriggersOf(log) => Charged(T)' = {}
           /\ Newly(log', T) => T \notin TriggersOf(log) \/ Newly(log, T)
<1>1. /\ log \in Seq(RowSet) /\ \A a \in Tries : forked[a] \in Nat /\ forked[a] <= Len(log)
      /\ Len(log) \in Nat
  BY LogPoints DEF RetryInv, TypeOK, TryFits
<1>2. /\ TriggersOf(log) \subseteq TriggersOf(log')
      /\ \A i \in TriggersOf(log') : i \in TriggersOf(log) \/ i > Len(log)
  BY <1>1, GrowsRows DEF TriggersOf
<1>3. T \in Nat /\ T > 0
  BY LogPoints DEF TriggersOf, Rows
<1>4. ASSUME NEW a \in Charged(T)' PROVE T \in TriggersOf(log) /\ a \in Charged(T)
  <2>1. a \in Tries /\ During(log', forked[a], T)
        /\ (Is(a, {"starting"})' \/ Of(log', a, {"started"}) # {})
    BY <1>4 DEF Charged
  <2>2. T <= forked[a] /\ \A U \in TriggersOf(log') : U > T => forked[a] < U
    BY <2>1 DEF During
  <2>3. T \in TriggersOf(log)
    BY <1>1, <1>2, <1>3, <2>1, <2>2
  <2>4. During(log, forked[a], T)
    BY <1>1, <1>2, <2>1, <2>2 DEF During
  <2>5. forked[a] > 0
    BY <1>1, <1>3, <2>1, <2>2
  <2>6. Is(a, {"starting"}) \/ Of(log, a, {"started"}) # {}
    BY <2>1, <2>5
  <2> QED BY <2>1, <2>3, <2>4, <2>6 DEF Charged
<1>5. Newly(log', T) => T \notin TriggersOf(log) \/ Newly(log, T)
  BY <1>2 DEF Newly
<1> QED BY <1>4, <1>5

LEMMA Smaller ==
    ASSUME NEW S, NEW T, S \subseteq T, T \subseteq Tries
    PROVE  Cardinality(S) \in Nat /\ Cardinality(T) \in Nat /\ Cardinality(S) <= Cardinality(T)
<1>1. IsFiniteSet(T) /\ S \in SUBSET Tries /\ T \in SUBSET Tries
  BY TriesFinite
<1> QED BY <1>1, TriesFinite, FS_Subset

\* Such a step keeps the budget.
LEMMA Calm ==
    ASSUME RetryInv, BudgetInv, forked' = forked, log' \in Seq(RowSet), Grows(log, log'),
           \A a \in Tries :
              (forked[a] > 0 /\ (Is(a, {"starting"})' \/ Of(log', a, {"started"}) # {}))
              => (Is(a, {"starting"}) \/ Of(log, a, {"started"}) # {}),
           tick'.pc = "launch" =>
              \/ tick.pc = "launch"
              \/ \A T : Newly(log, T) => Cardinality(Charged(T)) < Limit
    PROVE  BudgetInv'
<1>0. Limit \in Nat /\ Limit > 0
  BY RetryAssumption
<1>1. \A T : Charged(T) \subseteq Tries
  BY DEF Charged
<1>2. \A T \in TriggersOf(log) : Cardinality(Charged(T)) <= Limit
  BY DEF BudgetInv
<1>3. tick'.pc = "launch" => \A T : Newly(log, T) => Cardinality(Charged(T)) < Limit
  BY DEF BudgetInv
<1>4. ASSUME NEW T \in TriggersOf(log')
      PROVE  /\ Cardinality(Charged(T)') <= Limit
             /\ tick'.pc = "launch" => (Newly(log', T) => Cardinality(Charged(T)') < Limit)
  <2>1. /\ T \in TriggersOf(log) => Charged(T)' \subseteq Charged(T)
        /\ T \notin TriggersOf(log) => Charged(T)' = {}
        /\ Newly(log', T) => T \notin TriggersOf(log) \/ Newly(log, T)
    BY ChargedKept
  <2> DEFINE C == Charged(T)
             D == Charged(T)'
  <2>2. CASE T \in TriggersOf(log)
    <3>1. D \subseteq C /\ C \subseteq Tries
      BY <1>1, <2>1, <2>2
    <3>2. Cardinality(C) <= Limit
      BY <1>2, <2>2
    <3>3. tick'.pc = "launch" => (Newly(log', T) => Cardinality(C) < Limit)
      BY <1>3, <2>1, <2>2
    <3> HIDE DEF C, D
    <3>4. Cardinality(D) \in Nat /\ Cardinality(C) \in Nat /\ Cardinality(D) <= Cardinality(C)
      BY <3>1, Smaller
    <3>5. Cardinality(D) <= Limit
      BY <1>0, <3>2, <3>4
    <3>6. Cardinality(C) < Limit => Cardinality(D) < Limit
      BY <1>0, <3>4
    <3> QED BY <3>3, <3>5, <3>6 DEF D
  <2>3. CASE T \notin TriggersOf(log)
    <3>1. D = {}
      BY <2>1, <2>3
    <3>2. Cardinality(D) = 0
      BY <3>1, FS_EmptySet
    <3> QED BY <1>0, <3>2
  <2> QED BY <2>2, <2>3
<1>5. \A T : Newly(log', T) => T \in TriggersOf(log')
  BY DEF Newly
<1> QED BY <1>4, <1>5 DEF BudgetInv

\* Neither does a fork: when it is due, one less than the budget is charged.
LEMMA ForkKeeps == RetryInv /\ BudgetInv /\ Fork => BudgetInv'
<1> SUFFICES ASSUME RetryInv, BudgetInv, Fork PROVE BudgetInv'
  OBVIOUS
<1> DEFINE a == First(Free)
<1>0. Limit \in Nat /\ log \in Seq(RowSet) /\ Len(log) \in Nat /\ Len(log) <= Len(log)
  BY RetryAssumption, LogPoints DEF RetryInv, TypeOK
<1>1. /\ tick.pc = "launch" /\ Free # {} /\ Goto(a, "starting")
      /\ forked' = [forked EXCEPT ![a] = Len(log)] /\ tick'.pc = "forked" /\ log' = log
  BY DEF Fork, Idle
<1>2. /\ a \in Tries /\ forked'[a] = Len(log)
      /\ \A b \in Tries \ {a} : try'[b] = try[b] /\ forked'[b] = forked[b]
  BY <1>0, <1>1, Begins
<1> HIDE DEF a
<1>3. ASSUME NEW T \in TriggersOf(log) PROVE Cardinality(Charged(T)') <= Limit
  <2>1. ASSUME NEW b \in Charged(T)', b # a PROVE b \in Charged(T)
    BY <1>1, <1>2, <2>1 DEF Charged, Is
  <2>2. a \in Charged(T)' => Newly(log, T)
    <3>1. a \in Charged(T)' => During(log, Len(log), T)
      BY <1>1, <1>2 DEF Charged
    <3>2. TriggersOf(log) \in SUBSET (1 .. Len(log))
      BY <1>0 DEF RetryInv, TriggersOf, Rows
    <3>3. ASSUME During(log, Len(log), T), NEW U \in TriggersOf(log) PROVE U <= T
      BY <1>0, <3>2, <3>3 DEF During
    <3> QED BY <3>1, <3>3 DEF Newly
  <2> DEFINE C == Charged(T)
             D == Charged(T)'
  <2>3. C \subseteq Tries /\ D \subseteq Tries /\ D \subseteq C \union {a}
        /\ (a \notin D => D \subseteq C)
    BY <2>1 DEF Charged
  <2>4. Cardinality(C) <= Limit /\ (a \in D => Cardinality(C) < Limit)
    BY <1>1, <2>2 DEF BudgetInv
  <2> HIDE DEF C, D
  <2>5. Cardinality(C) \in Nat /\ Cardinality(D) \in Nat /\ IsFiniteSet(C)
    BY <2>3, TriesFinite
  <2>6. CASE a \in D
    <3>1. Cardinality(C \union {a}) <= Cardinality(C) + 1 /\ IsFiniteSet(C \union {a})
      BY <2>5, FS_AddElement
    <3>2. C \union {a} \subseteq Tries
      BY <1>2, <2>3
    <3>3. Cardinality(C \union {a}) \in Nat /\ Cardinality(D) <= Cardinality(C \union {a})
      BY <2>3, <3>2, Smaller
    <3> QED BY <1>0, <2>4, <2>5, <2>6, <3>1, <3>3 DEF D
  <2>7. CASE a \notin D
    <3>1. Cardinality(D) <= Cardinality(C)
      BY <2>3, <2>7, Smaller
    <3> QED BY <1>0, <2>4, <2>5, <3>1 DEF D
  <2> QED BY <2>6, <2>7
<1> QED BY <1>1, <1>3 DEF BudgetInv

\* The moments at which a group failed are at most one.
LEMMA FailedOnce ==
    ASSUME NEW l, NEW g, NEW t, NEW x \in FailedAt(l, g, t), NEW y \in FailedAt(l, g, t)
    PROVE  x = y
<1> DEFINE real == In(l, g, Real)
           stale == In(l, g, {"stale"})
           done == In(l, g, {"done"})
           both == In(l, g, Real \union {"stale"})
           rest == In(l, g, Child \union {"launch_failed"})
<1>1. real \subseteq both /\ stale \subseteq both /\ both = real \union stale
  BY DEF In
<1>2. real \subseteq rest /\ stale \subseteq rest /\ done \subseteq rest
  BY DEF In, Real, Child
<1>3. EndedEmpty(l, g) => done # {}
  BY DEF EndedEmpty
<1>4. Unheard(l, g) => rest = {}
  BY DEF Unheard
<1>5. CASE real # {}
  <2>1. ~Unheard(l, g) /\ both # {} /\ ~(real = {})
    BY <1>1, <1>2, <1>4, <1>5
  <2>2. FailedAt(l, g, t) = {l[First(real)].at}
    BY <1>5, <2>1 DEF FailedAt
  <2> QED BY <2>2
<1>6. CASE real = {} /\ stale # {}
  <2>1. ~Unheard(l, g) /\ both # {}
    BY <1>1, <1>2, <1>4, <1>6
  <2>2. FailedAt(l, g, t) = {l[First(stale)].at}
    BY <1>6, <2>1 DEF FailedAt
  <2> QED BY <2>2
<1>7. CASE both = {} /\ EndedEmpty(l, g)
  <2>1. ~Unheard(l, g) /\ real = {} /\ stale = {}
    BY <1>1, <1>2, <1>3, <1>4, <1>7
  <2>2. FailedAt(l, g, t) = {l[First(done)].at}
    BY <1>7, <2>1 DEF FailedAt
  <2> QED BY <2>2
<1>8. CASE both = {} /\ ~EndedEmpty(l, g)
  <2>1. real = {} /\ stale = {}
    BY <1>1, <1>8
  <2>2. CASE Unheard(l, g) /\ Expired(l, g, t)
    <3>1. FailedAt(l, g, t) = {Deadline(l, g)}
      BY <1>8, <2>1, <2>2 DEF FailedAt
    <3> QED BY <3>1
  <2>3. CASE ~(Unheard(l, g) /\ Expired(l, g, t))
    <3>1. FailedAt(l, g, t) = {}
      BY <1>8, <2>1, <2>3 DEF FailedAt
    <3> QED BY <3>1
  <2> QED BY <2>2, <2>3
<1> QED BY <1>1, <1>5, <1>6, <1>7, <1>8

LEMMA FailuresFinite ==
    ASSUME NEW l \in Seq(RowSet), NEW t
    PROVE  IsFiniteSet(Failures(l, t))
<1> DEFINE gs == {GroupOf(l, i) : i \in Grouped(l)}
           the(g) == CHOOSE x : x \in FailedAt(l, g, t)
           f == [g \in Current(l) |-> [group |-> g, at |-> the(g)]]
           T == {f[g] : g \in Current(l)}
<1>1. IsFiniteSet(Grouped(l))
  <2>1. Len(l) \in Nat /\ Grouped(l) \in SUBSET (1 .. Len(l))
    BY LogPoints DEF Grouped, Rows
  <2>2. IsFiniteSet(1 .. Len(l))
    BY <2>1, FS_Interval
  <2> QED BY <2>1, <2>2, FS_Subset
<1>2. IsFiniteSet(gs)
  <2> DEFINE h == [i \in Grouped(l) |-> GroupOf(l, i)]
  <2>1. DOMAIN h = Grouped(l) /\ gs = {h[i] : i \in Grouped(l)}
    OBVIOUS
  <2> HIDE DEF h, gs
  <2> QED BY <1>1, <2>1, ImageFinite
<1>3. Current(l) \in SUBSET gs
  BY DEF Current
<1> HIDE DEF gs
<1>4. IsFiniteSet(Current(l))
  BY <1>2, <1>3, FS_Subset
<1>5. IsFiniteSet(T)
  <2>1. DOMAIN f = Current(l)
    OBVIOUS
  <2> HIDE DEF f
  <2> QED BY <1>4, <2>1, ImageFinite
<1>6. Failures(l, t) \in SUBSET T
  <2> SUFFICES ASSUME NEW e \in Failures(l, t) PROVE e \in T
    OBVIOUS
  <2>1. PICK g \in Current(l) : \E at \in FailedAt(l, g, t) : e = [group |-> g, at |-> at]
    BY DEF Failures
  <2>2. PICK at \in FailedAt(l, g, t) : e = [group |-> g, at |-> at]
    BY <2>1
  <2>3. the(g) \in FailedAt(l, g, t)
    BY <2>2
  <2>4. the(g) = at
    <3> HIDE DEF the
    <3> QED BY <2>2, <2>3, FailedOnce
  <2> HIDE DEF the
  <2>5. e = f[g]
    BY <2>2, <2>4
  <2> QED BY <2>5
<1> HIDE DEF T
<1> QED BY <1>5, <1>6, FS_Subset

\* The group of a try that has started: all its rows are after the fork.
LEMMA GroupOfTry ==
    ASSUME RetryInv, NEW a \in Tries, NEW s \in Of(log, a, {"started"})
    PROVE  /\ \A i \in Of(log, a, Child) : i \in Group(log, a)
           /\ \A i \in Group(log, a) : i \in Nat /\ forked[a] < i
<1>0. /\ log \in Seq(RowSet) /\ TryFits(log, forked[a], try[a], a) /\ forked[a] \in Nat
      /\ DOMAIN log = 1 .. Len(log) /\ Len(log) \in Nat
      /\ Tries \subseteq Nat /\ MaxTries \in Nat /\ a \in 1 .. MaxTries
  BY RetryAssumption, LogPoints DEF RetryInv, TypeOK, Tries
<1>1. "marker" \notin Child /\ "launch_failed" \notin Child
  BY DEF Child
<1>2. \A i \in Of(log, a, Child) : i \in Group(log, a)
  BY <1>1 DEF Of, Rows, Group, Grouped, GroupOf, ReceiptGroup
<1>3. \A i \in Of(log, a, Traces \union {"marker"}) : forked[a] < i
  BY <1>0 DEF TryFits
<1>4. \A i \in Of(log, a, Traces \ {"started"}) : s < i
  BY <1>0 DEF TryFits
<1>5. s \in Nat /\ s \in Rows(log, {"started"}) /\ forked[a] < s
  <2>1. s \in Of(log, a, Traces \union {"marker"})
    BY DEF Of, Rows, Traces, Child
  <2> QED BY <1>0, <1>3, <2>1 DEF Of, Rows
<1>6. \A i \in DOMAIN log : Alone(i) # a
  BY <1>0 DEF Alone
<1>7. ASSUME NEW i \in Group(log, a) PROVE i \in Nat /\ forked[a] < i
  <2>1. /\ i \in DOMAIN log /\ i \in Nat /\ GroupOf(log, i) = a
        /\ log[i].type \in Child \union {"marker", "launch_failed"}
    <3>1. i \in Grouped(log) /\ GroupOf(log, i) = a
      BY <1>7 DEF Group
    <3>2. i \in DOMAIN log /\ log[i].type \in Child \union {"marker", "launch_failed"}
      BY <3>1 DEF Grouped, Rows
    <3>3. DOMAIN log \subseteq Nat
      BY LogPoints DEF RetryInv, TypeOK
    <3> QED BY <3>1, <3>2, <3>3
  <2>2. CASE log[i].type # "marker"
    <3>1. ReceiptGroup(log, i) = a
      BY <2>1, <2>2 DEF GroupOf
    <3>2. log[i].type # "launch_failed" /\ log[i].who = a
      BY <1>6, <2>1, <3>1 DEF ReceiptGroup
    <3>3. i \in Of(log, a, Traces \union {"marker"})
      BY <2>1, <2>2, <3>2 DEF Of, Rows, Traces
    <3> QED BY <1>3, <2>1, <3>3
  <2>3. CASE log[i].type = "marker"
    <3>1. MarkerGroup(log, i) = a
      BY <2>1, <2>3 DEF GroupOf
    <3> DEFINE w == log[i].who
               next == Following(log, i)
    <3>2. CASE Of(log, w, {"started"}) # {}
      <4>1. MarkerGroup(log, i) = w
        BY <3>2 DEF MarkerGroup
      <4>2. i \in Of(log, a, Traces \union {"marker"})
        BY <2>1, <2>3, <3>1, <4>1 DEF Of, Rows
      <4> QED BY <1>3, <2>1, <4>2
    <3>3. CASE Of(log, w, {"started"}) = {} /\ next # {} /\ log[First(next)].type \in Receipt
      <4>1. MarkerGroup(log, i) = ReceiptGroup(log, First(next))
        BY <3>3 DEF MarkerGroup
      <4>2. next \in SUBSET Nat /\ next \subseteq DOMAIN log
        BY <1>0 DEF Following, Rows
      <4>3. First(next) \in next /\ \A j \in next : First(next) <= j
        BY <3>3, <4>2, FirstIs
      <4> DEFINE r == First(next)
      <4> HIDE DEF r
      <4>4. r \in DOMAIN log /\ r \in Nat
        BY <4>2, <4>3 DEF r
      <4>5. ReceiptGroup(log, r) = a
        BY <3>1, <4>1 DEF r
      <4>6. log[r].type # "launch_failed" /\ log[r].who = a
        BY <1>6, <4>4, <4>5 DEF ReceiptGroup
      <4>7. log[r].type \in Traces \ {"started"}
        <5>1. log[r].type \in Receipt
          BY <3>3 DEF r
        <5> QED BY <4>6, <5>1 DEF Receipt, Real, Traces, Child
      <4>8. r \in Of(log, a, Traces \ {"started"})
        BY <4>4, <4>6, <4>7 DEF Of, Rows
      <4>9. s < r
        BY <1>4, <4>8
      <4>10. s \notin next
        BY <1>5, <4>3, <4>4, <4>9 DEF r
      <4>11. ~(s > i)
        BY <1>5, <4>10 DEF Following, Rows
      <4>12. i \in Nat /\ s \in Nat /\ forked[a] \in Nat /\ forked[a] < s
        BY <1>0, <1>5, <2>1
      <4> QED BY <4>11, <4>12
    <3>4. CASE Of(log, w, {"started"}) = {} /\ ~(next # {} /\ log[First(next)].type \in Receipt)
      <4>1. MarkerGroup(log, i) = Alone(i)
        BY <3>4 DEF MarkerGroup
      <4> QED BY <1>6, <2>1, <3>1, <4>1
    <3> QED BY <3>2, <3>3, <3>4
  <2> QED BY <2>2, <2>3
<1> QED BY <1>2, <1>7

\* What has begun and not ended is waited for: of what a due launch finds charged,
\* every try has failed.
LEMMA ChargedFailed ==
    ASSUME RetryInv, ~ticked, ~Idles(log, now), Newly(log, Trigger(log)),
           NEW a \in Charged(Trigger(log))
    PROVE  a \in Current(log) /\ FailedAt(log, a, now) # {}
<1> DEFINE T == Trigger(log)
<1>0. /\ log \in Seq(RowSet) /\ TickFits /\ a \in Tries /\ forked[a] \in Nat
      /\ T \in Nat /\ T > 0 /\ During(log, forked[a], T)
      /\ Is(a, {"starting"}) \/ Of(log, a, {"started"}) # {}
  <2>1. log \in Seq(RowSet) /\ TickFits /\ a \in Tries /\ forked[a] \in Nat
    BY DEF RetryInv, TypeOK, Charged
  <2>2. During(log, forked[a], T) /\ (Is(a, {"starting"}) \/ Of(log, a, {"started"}) # {})
    BY DEF Charged
  <2>3. T \in 1 .. Len(log) /\ Len(log) \in Nat
    BY <2>1, LogPoints DEF Newly, TriggersOf, Rows
  <2>4. T \in Nat /\ T > 0
    BY <2>3
  <2> QED BY <2>1, <2>2, <2>4
<1>1. T <= forked[a] /\ forked[a] # 0
  BY <1>0 DEF During
<1>2. PICK s \in Of(log, a, {"started"}) : TRUE
  BY <1>0, <1>1 DEF TickFits
<1>3. /\ Rows(log, {"output"}) = {} /\ ~Busy(log)
  BY DEF Idles
<1>4. PICK e \in Of(log, a, Child \ {"started"}) : TRUE
  BY <1>0, <1>2, <1>3 DEF Busy
<1>5. /\ \A i \in Of(log, a, Child) : i \in Group(log, a)
      /\ \A i \in Group(log, a) : i \in Nat /\ forked[a] < i
  BY <1>0, <1>2, GroupOfTry
<1>6. e \in Group(log, a) /\ log[e].type \in Child \ {"started"}
  BY <1>4, <1>5 DEF Of, Rows
<1>7. log[e].type # "refused"
  <2>1. TryFits(log, forked[a], try[a], a)
    BY <1>0 DEF RetryInv
  <2>2. Of(log, a, {"refused"}) = {}
    BY <1>2, <2>1 DEF TryFits
  <2> QED BY <1>4, <2>2 DEF Of, Rows
<1>8. a \in Current(log)
  <2>1. Group(log, a) \in SUBSET Nat /\ Group(log, a) # {}
    BY <1>5, <1>6
  <2>2. First(Group(log, a)) \in Group(log, a)
    BY <2>1, FirstIs
  <2>3. First(Group(log, a)) \in Nat /\ forked[a] < First(Group(log, a))
    BY <1>5, <2>2
  <2>4. First(Group(log, a)) >= T
    BY <1>0, <1>1, <2>3
  <2>5. e \in Grouped(log) /\ GroupOf(log, e) = a
    BY <1>6 DEF Group
  <2> HIDE DEF T
  <2>6. a \in {GroupOf(log, i) : i \in Grouped(log)}
    BY <2>5
  <2> QED BY <2>4, <2>6 DEF Current, T
<1>9. FailedAt(log, a, now) # {}
  <2> DEFINE real == In(log, a, Real)
             stale == In(log, a, {"stale"})
             done == In(log, a, {"done"})
             both == In(log, a, Real \union {"stale"})
             rest == In(log, a, Child \union {"launch_failed"})
  <2>1. both = real \union stale
    BY DEF In
  <2>2. rest # {}
    BY <1>6 DEF In
  <2>3. ~Unheard(log, a)
    BY <2>2 DEF Unheard
  <2>4. CASE real # {}
    <3>1. FailedAt(log, a, now) = {log[First(real)].at}
      BY <2>1, <2>3, <2>4 DEF FailedAt
    <3> QED BY <3>1
  <2>5. CASE real = {} /\ stale # {}
    <3>1. FailedAt(log, a, now) = {log[First(stale)].at}
      BY <2>1, <2>3, <2>5 DEF FailedAt
    <3> QED BY <3>1
  <2>6. CASE real = {} /\ stale = {}
    <3>1. log[e].type = "done"
      BY <1>6, <1>7, <2>6 DEF In, Child, Real
    <3>2. done # {}
      BY <1>6, <3>1 DEF In
    <3>3. EndedEmpty(log, a)
      BY <1>3, <3>2 DEF EndedEmpty, HasOutput, Of
    <3>4. FailedAt(log, a, now) = {log[First(done)].at}
      BY <2>1, <2>3, <2>6, <3>3 DEF FailedAt
    <3> QED BY <3>4
  <2> QED BY <2>4, <2>5, <2>6
<1> QED BY <1>8, <1>9

\* So a launch is due only while less than the budget is charged.
LEMMA Counted ==
    ASSUME RetryInv, ~ticked, Choice(log, now) = "launch", NEW T, Newly(log, T)
    PROVE  Cardinality(Charged(T)) < Limit
<1>0. log \in Seq(RowSet) /\ LogFits(log) /\ Limit \in Nat /\ Len(log) \in Nat
  BY RetryAssumption, LogPoints DEF RetryInv, TypeOK
<1>1. ~Idles(log, now) /\ ~Exhausted(log, now)
  <2>1. CASE Idles(log, now)
    <3>1. Choice(log, now) = "idle"
      BY <2>1 DEF Choice
    <3> QED BY <3>1
  <2>2. CASE ~Idles(log, now) /\ Exhausted(log, now)
    <3>1. Choice(log, now) = "escalate"
      BY <2>2 DEF Choice
    <3> QED BY <3>1
  <2> QED BY <2>1, <2>2
<1>2. ~(Failed(log, now) >= Limit) /\ Rows(log, {"output"}) = {}
  BY <1>1 DEF Idles, Exhausted
<1>3. Newly(log, Trigger(log))
  BY <1>0, <1>2, TriggerIs
<1>4. Trigger(log) = T
  <2>1. TriggersOf(log) \subseteq Nat
    BY <1>0, LogPoints DEF TriggersOf, Rows
  <2>2. T <= Trigger(log) /\ Trigger(log) <= T /\ T \in Nat /\ Trigger(log) \in Nat
    BY <1>3, <2>1 DEF Newly
  <2> QED BY <2>2
<1> DEFINE C == Charged(T)
           F == Failures(log, now)
           the(a) == CHOOSE x : x \in FailedAt(log, a, now)
           f == [a \in C |-> [group |-> a, at |-> the(a)]]
<1>5. \A a \in C : a \in Current(log) /\ FailedAt(log, a, now) # {}
  BY <1>1, <1>3, <1>4, ChargedFailed
<1>6. \A a \in C : the(a) \in FailedAt(log, a, now)
  BY <1>5
<1>7. IsFiniteSet(F)
  BY <1>0, FailuresFinite
<1> HIDE DEF the
<1>8. \A a \in C : [group |-> a, at |-> the(a)] \in F
  BY <1>5, <1>6 DEF Failures
<1> HIDE DEF C, F
<1>9. f \in [C -> F]
  BY <1>8
<1>10. \A a \in C : f[a].group = a
  OBVIOUS
<1> HIDE DEF f
<1>11. \A a, b \in C : f[a] = f[b] => a = b
  BY <1>10
<1>12. f \in Injection(C, F)
  BY <1>9, <1>11 DEF Injection, IsInjective
<1>13. Cardinality(C) <= Cardinality(F) /\ IsFiniteSet(C)
  BY <1>7, <1>12, FS_Injection
<1>14. Cardinality(C) \in Nat /\ Cardinality(F) \in Nat
  BY <1>7, <1>13, FS_CardinalityType
<1>15. Cardinality(F) < Limit
  BY <1>0, <1>2, <1>14 DEF Failed, F
<1>16. Cardinality(C) < Limit
  BY <1>0, <1>13, <1>14, <1>15
<1> QED BY <1>16 DEF C

LEMMA BudgetStart == Init /\ RetryInv => BudgetInv
<1> SUFFICES ASSUME Init, RetryInv PROVE BudgetInv
  OBVIOUS
<1>1. \A T \in TriggersOf(log) : T > 0
  BY LogPoints DEF RetryInv, TypeOK, TriggersOf, Rows
<1>2. ASSUME NEW T \in TriggersOf(log) PROVE Charged(T) = {}
  <2>1. T \in Nat /\ T > 0
    BY <1>1, LogPoints DEF RetryInv, TypeOK, TriggersOf, Rows
  <2>2. \A a \in Tries : forked[a] = 0
    BY DEF Init
  <2> QED BY <2>1, <2>2 DEF Charged, During
<1>3. \A T \in TriggersOf(log) : Cardinality(Charged(T)) = 0
  BY <1>2, FS_EmptySet
<1>4. tick.pc # "launch"
  BY DEF Init, Idle
<1> QED BY <1>3, <1>4, RetryAssumption DEF BudgetInv

LEMMA BudgetStep == RetryInv /\ RetryInv' /\ BudgetInv /\ [Next]_vars => BudgetInv'
<1> SUFFICES ASSUME RetryInv, RetryInv', BudgetInv, [Next]_vars PROVE BudgetInv'
  OBVIOUS
<1>0. /\ TypeOK /\ TickFits /\ LogFits(log)
      /\ \A a \in Tries : TryFits(log, forked[a], try[a], a)
      /\ log \in Seq(RowSet) /\ log' \in Seq(RowSet)
      /\ Tries \subseteq Nat /\ Idle.pc = "idle"
  BY RetryAssumption DEF RetryInv, TypeOK, Tries, Idle
\* What a step must show: it starts nothing of a tick's, and begins no launch.
<1> DEFINE Quiet ==
             \A a \in Tries :
               (forked[a] > 0 /\ (Is(a, {"starting"})' \/ Of(log', a, {"started"}) # {}))
               => (Is(a, {"starting"}) \/ Of(log, a, {"started"}) # {})
           Began == tick'.pc = "launch" => tick.pc = "launch"
<1>a. ASSUME Quiet, Began, forked' = forked, Grows(log, log') PROVE BudgetInv'
  BY <1>0, <1>a, Calm
<1>b. Grows(log, log)
  BY <1>0, LogPoints DEF Grows
<1>c. ASSUME NEW e \in RowSet, log' = Append(log, e), try' = try, e.type # "started"
      PROVE  Quiet /\ Grows(log, log')
  <2>1. Grows(log, log') /\ Len(log') = Len(log) + 1 /\ log'[Len(log) + 1] = e
    BY <1>0, <1>c, LogAppends
  <2>2. DOMAIN log' = 1 .. Len(log') /\ Len(log) \in Nat
    BY <1>0, LogPoints
  <2>3. ASSUME NEW a, NEW i \in Of(log', a, {"started"}) PROVE Of(log, a, {"started"}) # {}
    <3>1. i \in Of(log, a, {"started"}) \/ i > Len(log)
      BY <1>0, <2>1, GrowsRows
    <3>2. i \in 1 .. Len(log) + 1 /\ log'[i].type = "started"
      BY <2>1, <2>2 DEF Of, Rows
    <3>3. i <= Len(log)
      BY <1>c, <2>1, <2>2, <3>2
    <3> QED BY <2>2, <3>1, <3>2, <3>3
  <2> QED BY <1>c, <2>1, <2>3 DEF Is
<1>d. ASSUME NEW type \in RowType \ {"started"}, NEW who \in Nat, Write(type, who), try' = try
      PROVE  Quiet /\ Grows(log, log')
  <2>1. Row(type, who) \in RowSet /\ Row(type, who).type # "started" /\ log' = Append(log, Row(type, who))
    BY <1>0, <1>d, RowIs DEF Write
  <2> HIDE DEF Quiet
  <2> QED BY <1>c, <1>d, <2>1
<1>e. ASSUME log' = log, try' = try PROVE Quiet /\ Grows(log, log')
  BY <1>b, <1>e DEF Is
<1> HIDE DEF Quiet, Began
<1>1. CASE TickBegin
  <2> DEFINE m == log \o SetToSeq(Reconciled)
  <2>1. /\ log' = m /\ tick.pc = "idle" /\ ~ticked /\ UNCHANGED <<try, forked>>
        /\ LET choice == Choice(log, now) IN
             tick' = IF choice = "idle" THEN Idle
                     ELSE [Idle EXCEPT !.pc = choice, !.trigger = Trigger(log), !.at = now]
    BY <1>1 DEF TickBegin
  <2>2. /\ Grows(log, m)
        /\ \A i \in DOMAIN m : i > Len(log) => m[i] \in Reconciled
    BY <1>0, ReconciledLog
  <2> HIDE DEF m
  <2>3. \A e \in Reconciled : e.type # "started"
    BY <1>0, ReconciledIs
  <2>4. ASSUME NEW a, NEW i \in Of(log', a, {"started"}) PROVE Of(log, a, {"started"}) # {}
    <3>1. i \in Of(log, a, {"started"}) \/ i > Len(log)
      BY <1>0, <2>1, <2>2, GrowsRows
    <3>2. i \in DOMAIN m /\ m[i].type = "started"
      BY <2>1 DEF Of, Rows
    <3> QED BY <2>2, <2>3, <3>1, <3>2
  <2>5. Quiet
    BY <2>1, <2>4 DEF Is, Quiet
  <2>6. tick'.pc = "launch" => Choice(log, now) = "launch"
    BY <1>0, <2>1 DEF Idle
  <2>7. tick'.pc = "launch" => \A T : Newly(log, T) => Cardinality(Charged(T)) < Limit
    BY <2>1, <2>6, Counted
  <2> QED BY <1>0, <2>1, <2>2, <2>5, <2>7, Calm DEF Quiet
<1>2. CASE Escalate
  <2>1. tick'.pc = "idle" /\ UNCHANGED <<try, forked>>
        /\ (UNCHANGED log \/ Write("escalated", tick.trigger)) /\ tick.trigger \in Nat
    BY <1>0, <1>2 DEF Escalate, TypeOK, TickSet
  <2>2. Began
    BY <2>1 DEF Began
  <2>3. CASE UNCHANGED log
    BY <1>a, <1>e, <2>1, <2>2, <2>3
  <2>4. CASE Write("escalated", tick.trigger)
    <3>1. "escalated" \in RowType \ {"started"}
      BY DEF RowType
    <3> QED BY <1>a, <1>d, <2>1, <2>2, <2>4, <3>1
  <2> QED BY <2>1, <2>3, <2>4
<1>3. CASE LaunchFails
  <2>1. tick'.pc = "idle" /\ UNCHANGED <<try, forked>> /\ Write("launch_failed", 0)
    BY <1>0, <1>3 DEF LaunchFails
  <2>2. Began
    BY <2>1 DEF Began
  <2>3. "launch_failed" \in RowType \ {"started"} /\ 0 \in Nat
    BY DEF RowType
  <2> QED BY <1>a, <1>d, <2>1, <2>2, <2>3
<1>4. CASE Fork
  BY <1>4, ForkKeeps
<1>5. CASE Mark
  <2>1. tick'.pc = "idle" /\ UNCHANGED <<try, forked>> /\ Write("marker", tick.fork) /\ tick.fork \in Nat
    BY <1>0, <1>5 DEF Mark, TypeOK, TickSet
  <2>2. Began
    BY <2>1 DEF Began
  <2>3. "marker" \in RowType \ {"started"}
    BY DEF RowType
  <2> QED BY <1>a, <1>d, <2>1, <2>2, <2>3
<1>6. CASE TickDie
  <2>1. tick'.pc = "idle" /\ UNCHANGED <<log, try, forked>>
    BY <1>0, <1>6 DEF TickDie
  <2>2. Began
    BY <2>1 DEF Began
  <2> QED BY <1>a, <1>e, <2>1, <2>2
<1>7. CASE Manual
  <2>1. /\ Free # {} /\ try' = [try EXCEPT ![First(Free)] = "starting"]
        /\ UNCHANGED <<log, forked, tick>>
    BY <1>7 DEF Manual, Goto
  <2>2. First(Free) \in Tries /\ forked[First(Free)] = 0
    <3>1. Free # {} /\ Free \in SUBSET Nat
      BY <1>0, <2>1 DEF Free
    <3>2. First(Free) \in Free
      BY <3>1, FirstIs
    <3>3. First(Free) \in Tries /\ try[First(Free)] = "none"
      BY <3>2 DEF Free
    <3> QED BY <1>0, <3>3 DEF TryFits
  <2>3. Began
    BY <2>1 DEF Began
  <2>4. Quiet
    <3> SUFFICES ASSUME NEW a \in Tries, forked[a] > 0,
                        Is(a, {"starting"})' \/ Of(log', a, {"started"}) # {}
                 PROVE  Is(a, {"starting"}) \/ Of(log, a, {"started"}) # {}
      BY DEF Quiet
    <3>1. a # First(Free)
      BY <2>2
    <3>2. try'[a] = try[a]
      BY <1>0, <2>1, <3>1 DEF TypeOK
    <3> QED BY <2>1, <3>2 DEF Is
  <2> QED BY <1>a, <1>b, <2>1, <2>3, <2>4
<1>8. CASE \E a \in Tries : \/ Start(a) \/ Refuse(a) \/ Fail(a) \/ Output(a) \/ Close(a)
                              \/ Empty(a) \/ Vanish(a) \/ Hang(a)
  <2> PICK a \in Tries : \/ Start(a) \/ Refuse(a) \/ Fail(a) \/ Output(a) \/ Close(a)
                         \/ Empty(a) \/ Vanish(a) \/ Hang(a)
    BY <1>8
  \* It was starting or has started, and does not start again.
  <2>1. ASSUME NEW q, q # "starting", try' = [try EXCEPT ![a] = q], UNCHANGED <<forked, tick>>,
               Grows(log, log'),
               \A b \in Tries \ {a} : Of(log', b, {"started"}) \subseteq Of(log, b, {"started"}),
               \/ Is(a, {"starting"})
               \/ Of(log', a, {"started"}) \subseteq Of(log, a, {"started"})
        PROVE  BudgetInv'
    <3>1. Began
      BY <2>1 DEF Began
    <3>2. ASSUME NEW b \in Tries, Is(b, {"starting"})' \/ Of(log', b, {"started"}) # {}
          PROVE  Is(b, {"starting"}) \/ Of(log, b, {"started"}) # {}
      <4>1. CASE b = a
        <5>1. ~Is(b, {"starting"})'
          BY <1>0, <2>1, <4>1 DEF Is, TypeOK
        <5> QED BY <2>1, <3>2, <4>1, <5>1
      <4>2. CASE b # a
        <5>1. try'[b] = try[b]
          BY <1>0, <2>1, <4>2 DEF TypeOK
        <5> QED BY <2>1, <3>2, <4>2, <5>1 DEF Is
      <4> QED BY <4>1, <4>2
    <3>3. Quiet
      BY <3>2 DEF Quiet
    <3> QED BY <1>a, <2>1, <3>1, <3>3
  <2>2. ASSUME NEW from, NEW q, q # "starting", NEW type \in RowType, Step(a, from, q, type),
               type = "started" => from = {"starting"}
        PROVE  BudgetInv'
    <3>1. /\ try' = [try EXCEPT ![a] = q] /\ UNCHANGED <<forked, tick>> /\ try[a] \in from
          /\ log' = Append(log, Row(type, a))
      BY <2>2 DEF Step, Goto, Is, Write
    <3> DEFINE e == Row(type, a)
    <3>2. e \in RowSet /\ e.type = type /\ e.who = a
      BY <1>0, RowIs
    <3> HIDE DEF e
    <3>3. /\ Grows(log, log') /\ Len(log') = Len(log) + 1 /\ log'[Len(log) + 1] = e
          /\ DOMAIN log' = 1 .. Len(log') /\ Len(log) \in Nat
      BY <1>0, <3>1, <3>2, LogAppends, LogPoints DEF e
    <3>4. ASSUME NEW b, NEW i \in Of(log', b, {"started"})
          PROVE  i \in Of(log, b, {"started"}) \/ (e.type = "started" /\ b = a)
      <4>1. i \in Of(log, b, {"started"}) \/ i > Len(log)
        BY <1>0, <3>3, GrowsRows
      <4>2. i \in 1 .. Len(log) + 1 /\ log'[i].type = "started" /\ log'[i].who = b
        BY <3>3 DEF Of, Rows
      <4>3. i > Len(log) => i = Len(log) + 1
        BY <3>3, <4>2
      <4> QED BY <3>2, <3>3, <4>1, <4>2, <4>3
    <3>5. \A b \in Tries \ {a} : Of(log', b, {"started"}) \subseteq Of(log, b, {"started"})
      BY <3>4
    <3>6. Is(a, {"starting"}) \/ Of(log', a, {"started"}) \subseteq Of(log, a, {"started"})
      <4>1. CASE type = "started"
        BY <2>2, <3>1, <4>1 DEF Is
      <4>2. CASE type # "started"
        BY <3>2, <3>4, <4>2
      <4> QED BY <4>1, <4>2
    <3> QED BY <2>1, <2>2, <3>1, <3>3, <3>5, <3>6
  <2>3. CASE Start(a)
    <3>1. Step(a, {"starting"}, "running", "started")
      BY <2>3 DEF Start
    <3>2. "started" \in RowType
      BY DEF RowType
    <3> QED BY <2>2, <3>1, <3>2
  <2>4. CASE Refuse(a)
    <3>1. Step(a, {"starting"}, "over", "refused")
      BY <2>4 DEF Refuse
    <3>2. "refused" \in RowType
      BY DEF RowType
    <3> QED BY <2>2, <3>1, <3>2
  <2>5. CASE Fail(a)
    <3>1. Step(a, {"starting", "running", "hung"}, "over", "failed")
      BY <2>5 DEF Fail
    <3>2. "failed" \in RowType
      BY DEF RowType
    <3> QED BY <2>2, <3>1, <3>2
  <2>6. CASE Output(a)
    <3>1. Step(a, {"running", "hung"}, "closing", "output")
      BY <2>6 DEF Output
    <3>2. "output" \in RowType
      BY DEF RowType
    <3> QED BY <2>2, <3>1, <3>2
  <2>7. CASE Close(a)
    <3>1. Step(a, {"closing"}, "over", "done")
      BY <2>7 DEF Close
    <3>2. "done" \in RowType
      BY DEF RowType
    <3> QED BY <2>2, <3>1, <3>2
  <2>8. CASE Empty(a)
    <3>1. Step(a, {"running", "hung"}, "over", "done")
      BY <2>8 DEF Empty
    <3>2. "done" \in RowType
      BY DEF RowType
    <3> QED BY <2>2, <3>1, <3>2
  <2>9. CASE Vanish(a)
    <3>1. try' = [try EXCEPT ![a] = "over"] /\ UNCHANGED <<log, forked, tick>>
      BY <2>9 DEF Vanish, Goto
    <3> QED BY <1>b, <2>1, <3>1
  <2>10. CASE Hang(a)
    <3>1. try' = [try EXCEPT ![a] = "hung"] /\ UNCHANGED <<log, forked, tick>>
      BY <2>10 DEF Hang, Goto
    <3> QED BY <1>b, <2>1, <3>1
  <2> QED BY <2>3, <2>4, <2>5, <2>6, <2>7, <2>8, <2>9, <2>10
<1>9. CASE Rewrite
  <2>1. UNCHANGED <<try, forked, tick>> /\ Write("spec", 0)
    BY <1>9 DEF Rewrite
  <2>2. Began
    BY <2>1 DEF Began
  <2>3. "spec" \in RowType \ {"started"} /\ 0 \in Nat
    BY DEF RowType
  <2> QED BY <1>a, <1>d, <2>1, <2>2, <2>3
<1>10. CASE Release
  <2>1. UNCHANGED <<try, forked, tick>> /\ Write("release", 0)
    BY <1>10 DEF Release
  <2>2. Began
    BY <2>1 DEF Began
  <2>3. "release" \in RowType \ {"started"} /\ 0 \in Nat
    BY DEF RowType
  <2> QED BY <1>a, <1>d, <2>1, <2>2, <2>3
<1>11. CASE Clock
  <2>1. UNCHANGED <<log, try, forked, tick>>
    BY <1>11 DEF Clock
  <2>2. Began
    BY <2>1 DEF Began
  <2> QED BY <1>a, <1>e, <2>1, <2>2
<1>12. CASE UNCHANGED vars
  <2>1. UNCHANGED <<log, try, forked, tick>>
    BY <1>12 DEF vars
  <2>2. Began
    BY <2>1 DEF Began
  <2> QED BY <1>a, <1>e, <2>1, <2>2
<1> QED
  BY <1>1, <1>2, <1>3, <1>4, <1>5, <1>6, <1>7, <1>8, <1>9, <1>10, <1>11, <1>12 DEF Next, Done

LEMMA BudgetIs == RetryInv /\ BudgetInv => BudgetKept
<1> SUFFICES ASSUME RetryInv, BudgetInv, NEW T \in Triggers
             PROVE  Cardinality({a \in Tries : forked[a] \in Reign(T) /\ Of(log, a, {"started"}) # {}}) <= Limit
  BY DEF BudgetKept
<1> DEFINE C == Charged(T)
           D == {a \in Tries : forked[a] \in Reign(T) /\ Of(log, a, {"started"}) # {}}
           S == {Len(log) + 1} \union {U \in Triggers : U > T}
<1>0. Len(log) \in Nat /\ Limit \in Nat /\ Triggers \subseteq 1 .. Len(log) /\ Triggers = TriggersOf(log)
  BY RetryAssumption, LogPoints DEF RetryInv, TypeOK, Triggers, TriggersOf, Rows
<1>1. S \in SUBSET Nat /\ S # {}
  BY <1>0
<1>2. Min(S) = First(S)
  BY DEF Min, First
<1>3. Min(S) \in S /\ \A j \in S : Min(S) <= j
  <2> HIDE DEF S
  <2> QED BY <1>1, <1>2, FirstIs
<1>4. Reign(T) = T .. Min(S) - 1
  BY DEF Reign
<1>5. ASSUME NEW a \in D PROVE a \in C
  <2>1. a \in Tries /\ forked[a] \in T .. Min(S) - 1 /\ Of(log, a, {"started"}) # {}
    BY <1>4
  <2>2. Min(S) <= Len(log) + 1 /\ \A U \in TriggersOf(log) : U > T => Min(S) <= U
    BY <1>0, <1>3
  <2>3. Min(S) \in Nat /\ T \in Nat /\ \A U \in TriggersOf(log) : U \in Nat
    BY <1>0, <1>1, <1>3
  <2> HIDE DEF S
  <2>4. During(log, forked[a], T)
    BY <1>0, <2>1, <2>2, <2>3 DEF During
  <2> QED BY <2>1, <2>4 DEF Charged
<1>6. C \subseteq Tries /\ D \subseteq C
  BY <1>5 DEF Charged
<1>7. Cardinality(C) <= Limit
  BY <1>0 DEF BudgetInv
<1> HIDE DEF C, D
<1>8. Cardinality(D) \in Nat /\ Cardinality(C) \in Nat /\ Cardinality(D) <= Cardinality(C)
  BY <1>6, Smaller
<1>9. Cardinality(D) <= Limit
  BY <1>0, <1>7, <1>8
<1> QED BY <1>9 DEF D

\* Every row of the log is of a known type and of a try or a row of the model, and
\* every process and tick is at a place the code has (tick.py, dispatch.py).
THEOREM RetryTypeCorrect == Spec => []TypeOK
<1>1. RetryInv => TypeOK
  BY DEF RetryInv
<1> QED BY <1>1, RetryStart, RetryStep, PTL DEF Spec

\* A trigger never starts more than MAX_ATTEMPTS dispatches by itself: whenever a
\* tick's pass finds a launch due, every earlier start of the trigger has failed in
\* the ledger it read, and the tick forks at most once on that read
\* (attempts.history, tick.launch).
THEOREM BudgetKeptHolds == Spec => []BudgetKept
<1>1. Init => RetryInv /\ BudgetInv
  BY RetryStart, BudgetStart
<1>2. RetryInv /\ BudgetInv /\ [Next]_vars => (RetryInv /\ BudgetInv)'
  BY RetryStep, BudgetStep
<1> QED BY <1>1, <1>2, BudgetIs, PTL DEF Spec

-----------------------------------------------------------------------------
\* How the rows of a try end

Final == Receipt \union {"done"}

\* Of a try at `place` at moment t: its end is its last row of its own, what ends
\* a run was preceded by its start, it has one marker, and that in its start-up.
TryEnds(l, place, t, a) ==
    /\ Of(l, a, Final) # {} => place = "over"
    /\ Of(l, a, {"stale", "vanished", "done"}) # {} => Of(l, a, {"started"}) # {}
    /\ \A i, j \in Of(l, a, {"marker"}) : i = j
    /\ place = "starting" => \A m \in Of(l, a, {"marker"}) : l[m].at = t

EndsInv ==
    /\ \A a \in Tries : TryEnds(log, try[a], now, a)
    /\ \A i \in Rows(log, {"launch_failed"}) : log[i].who \notin Tries
    /\ tick.pc = "forked" => Of(log, tick.fork, {"marker"}) = {}

\* The rows of a try that a step adds, and what they may be.
News(a, types) == {i \in Of(log', a, types) : i > Len(log)}

Orderly(a) ==
    /\ try[a] = "over" =>
         /\ try'[a] = "over"
         /\ \A i \in News(a, Traces) : log'[i].type = "vanished"
         /\ News(a, Traces) # {} => Of(log, a, {"done", "failed", "vanished"}) = {}
    /\ News(a, Final) # {} => try'[a] = "over"
    /\ News(a, {"stale", "vanished", "done"}) # {} => Of(log, a, {"started"}) # {}
    /\ News(a, {"marker"}) # {} => Of(log, a, {"marker"}) = {}
    /\ \A i, j \in News(a, {"marker"}) : i = j
    /\ \A i \in News(a, {"marker"}) : log'[i].at = now'
    /\ try'[a] = "starting" => (try[a] = "starting" /\ now' = now) \/ Of(log, a, {"marker"}) = {}

LEMMA TypesOfTraces ==
    /\ "started" \in Traces /\ "failed" \in Traces /\ "vanished" \in Traces
    /\ "refused" \in Traces /\ "stale" \in Traces /\ "done" \in Traces /\ "output" \in Traces
    /\ "marker" \notin Traces /\ "launch_failed" \notin Traces
    /\ Traces = {"started", "failed", "vanished", "refused", "stale", "done", "output"}
    /\ Final = {"failed", "vanished", "launch_failed", "refused", "done"}
BY DEF Traces, Child, Final, Receipt, Real

\* The new rows are among those of the types that some of theirs are of.
LEMMA NewsIn ==
    ASSUME NEW a, NEW types, NEW more, types \subseteq more
    PROVE  News(a, types) \subseteq News(a, more)
BY DEF News, Of, Rows

\* A step that adds no row of the try.
LEMMA OrderlyQuiet ==
    ASSUME NEW a, News(a, Traces \union {"marker"}) = {}, News(a, {"launch_failed"}) = {},
           try[a] = "over" => try'[a] = "over",
           try'[a] = "starting" => (try[a] = "starting" /\ now' = now) \/ Of(log, a, {"marker"}) = {}
    PROVE  Orderly(a)
<1>1. \A types : types \subseteq Traces \union {"marker"} => News(a, types) = {}
  BY NewsIn
<1>2. /\ News(a, Traces) = {} /\ News(a, {"marker"}) = {}
      /\ News(a, {"stale", "vanished", "done"}) = {}
  BY <1>1, TypesOfTraces
<1>3. News(a, Final) = {}
  <2>1. ASSUME NEW i \in News(a, Final) PROVE FALSE
    <3>1. log'[i].type \in Final /\ i \in Of(log', a, {log'[i].type}) /\ i > Len(log)
      BY DEF News, Of, Rows
    <3>2. i \in News(a, {log'[i].type})
      BY <3>1 DEF News
    <3>3. CASE log'[i].type = "launch_failed"
      BY <3>2, <3>3
    <3>4. CASE log'[i].type # "launch_failed"
      <4>1. {log'[i].type} \subseteq Traces \union {"marker"}
        BY <3>1, <3>4, TypesOfTraces
      <4> QED BY <1>1, <3>2, <4>1
    <3> QED BY <3>3, <3>4
  <2> QED BY <2>1
<1> QED BY <1>2, <1>3 DEF Orderly

\* What a step that adds one row adds.
LEMMA OneRow ==
    ASSUME log \in Seq(RowSet), NEW e \in RowSet, log' = Append(log, e), NEW a, NEW types
    PROVE  \A i \in News(a, types) : i = Len(log) + 1 /\ log'[i] = e /\ e.who = a /\ e.type \in types
<1>1. /\ log' \in Seq(RowSet) /\ Len(log') = Len(log) + 1 /\ log'[Len(log) + 1] = e
      /\ Len(log) \in Nat /\ DOMAIN log' = 1 .. Len(log')
  BY LogAppends, LogPoints
<1> SUFFICES ASSUME NEW i \in News(a, types)
             PROVE  i = Len(log) + 1 /\ log'[i] = e /\ e.who = a /\ e.type \in types
  OBVIOUS
<1>2. i > Len(log) /\ i \in DOMAIN log' /\ log'[i].who = a /\ log'[i].type \in types
  BY DEF News, Of, Rows
<1>3. i = Len(log) + 1
  BY <1>1, <1>2
<1> QED BY <1>1, <1>2, <1>3

\* The rows of a step of try a alone; the marker too.
LEMMA OrderlyRow ==
    ASSUME RetryInv, NEW a \in Tries, NEW type \in Traces \union {"marker"}, NEW q \in Places,
           Write(type, a), try' = [try EXCEPT ![a] = q], now' = now,
           type \in {"started", "output"} => try[a] # "over" /\ q # "over",
           type \in Final => try[a] # "over" /\ q = "over",
           type # "stale" /\ type # "vanished",
           type = "done" => Of(log, a, {"started"}) # {},
           type = "marker" => Of(log, a, {"marker"}) = {} /\ q = try[a],
           q = "starting" => type = "marker"
    PROVE  \A b \in Tries : Orderly(b)
<1> DEFINE e == Row(type, a)
<1>0. TypeOK /\ log \in Seq(RowSet) /\ try \in [Tries -> Places] /\ a \in Nat
  BY RetryAssumption DEF RetryInv, TypeOK, Tries
<1>1. type \in RowType
  BY TypesOfTraces DEF RowType
<1>2. e \in RowSet /\ e.type = type /\ e.who = a /\ e.at = now /\ log' = Append(log, e)
  BY <1>0, <1>1, RowIs DEF Write, Row
<1> HIDE DEF e
<1>3. \A b, types : \A i \in News(b, types) : i = Len(log) + 1 /\ log'[i] = e /\ e.who = b /\ e.type \in types
  BY <1>0, <1>2, OneRow
<1>4. ASSUME NEW b \in Tries, b # a PROVE Orderly(b)
  <2>1. \A types : News(b, types) = {}
    BY <1>2, <1>3, <1>4
  <2>2. try'[b] = try[b]
    BY <1>0, <1>4
  <2> QED BY <2>1, <2>2, OrderlyQuiet
<1>5. Orderly(a)
  <2>1. try'[a] = q
    BY <1>0
  <2>2. News(a, Traces) # {} => type \in Traces
    BY <1>2, <1>3
  <2>3. News(a, Final) # {} => type \in Final
    BY <1>2, <1>3
  <2>4. News(a, {"stale", "vanished", "done"}) # {} => type = "done"
    BY <1>2, <1>3
  <2>5. News(a, {"marker"}) # {} => type = "marker"
    BY <1>2, <1>3
  <2>6. (\A i, j \in News(a, {"marker"}) : i = j) /\ (\A i \in News(a, {"marker"}) : log'[i].at = now')
    BY <1>2, <1>3
  <2>7. type \in Traces => type \in {"started", "output"} \/ type \in Final
    BY TypesOfTraces
  <2>8. try[a] = "over" => type \notin Traces /\ q = "over"
    BY <2>7, TypesOfTraces
  <2>9. try[a] = "over" => News(a, Traces) = {} /\ try'[a] = "over"
    BY <2>1, <2>2, <2>8
  <2>10. try'[a] = "starting" => Of(log, a, {"marker"}) = {}
    BY <2>1
  <2> QED BY <2>1, <2>3, <2>4, <2>5, <2>6, <2>9, <2>10 DEF Orderly
<1> QED BY <1>4, <1>5

LEMMA EndsStart == Init => EndsInv
<1> SUFFICES ASSUME Init PROVE EndsInv
  OBVIOUS
<1>1. \A i \in DOMAIN log : log[i].type = "spec"
  BY DEF Init
<1>2. \A a, types : "spec" \notin types => Of(log, a, types) = {} /\ Rows(log, types) = {}
  BY <1>1 DEF Of, Rows
<1>3. "spec" \notin Final
  BY TypesOfTraces
<1>4. /\ Rows(log, {"launch_failed"}) = {}
      /\ \A a : /\ Of(log, a, Final) = {} /\ Of(log, a, {"marker"}) = {}
               /\ Of(log, a, {"stale", "vanished", "done"}) = {}
  BY <1>2, <1>3
<1> QED BY <1>4 DEF EndsInv, TryEnds, Init, Idle

\* What the steps of a log are in terms of the rows they add.
LEMMA OldOrNew ==
    ASSUME NEW a, NEW types, log \in Seq(RowSet), log' \in Seq(RowSet), Grows(log, log')
    PROVE  /\ Of(log', a, types) = Of(log, a, types) \union News(a, types)
           /\ \A i \in Of(log, a, types) : i \in 1 .. Len(log) /\ log'[i] = log[i]
<1>1. Of(log, a, types) \subseteq Of(log', a, types)
  BY GrowsRows
<1>2. \A i \in Of(log', a, types) : i \in Of(log, a, types) \/ i > Len(log)
  BY GrowsRows
<1>3. \A i \in Of(log, a, types) : i \in 1 .. Len(log)
  BY LogPoints DEF Of, Rows
<1> QED BY <1>1, <1>2, <1>3 DEF News, Grows

LEMMA OrderlyEnds ==
    ASSUME RetryInv, EndsInv, log' \in Seq(RowSet), Grows(log, log'),
           \A a \in Tries : Orderly(a),
           \A i \in Rows(log', {"launch_failed"}) : i > Len(log) => log'[i].who \notin Tries,
           tick'.pc = "forked" => Of(log', tick'.fork, {"marker"}) = {}
    PROVE  EndsInv'
<1>0. log \in Seq(RowSet)
  BY DEF RetryInv, TypeOK
<1>2. ASSUME NEW a \in Tries PROVE TryEnds(log', try'[a], now', a)
  <2>1. TryEnds(log, try[a], now, a) /\ Orderly(a)
    BY DEF EndsInv
  <2>2. Of(log', a, Final) # {} => try'[a] = "over"
    <3>1. Of(log', a, Final) = Of(log, a, Final) \union News(a, Final)
      BY <1>0, OldOrNew
    <3>2. Of(log, a, Final) # {} => try[a] = "over"
      BY <2>1 DEF TryEnds
    <3>3. (try[a] = "over" => try'[a] = "over") /\ (News(a, Final) # {} => try'[a] = "over")
      BY <2>1 DEF Orderly
    <3> QED BY <3>1, <3>2, <3>3
  <2>3. Of(log', a, {"stale", "vanished", "done"}) # {} => Of(log', a, {"started"}) # {}
    <3> DEFINE ends == {"stale", "vanished", "done"}
    <3>1. Of(log', a, ends) = Of(log, a, ends) \union News(a, ends)
      BY <1>0, OldOrNew
    <3>2. Of(log', a, {"started"}) = Of(log, a, {"started"}) \union News(a, {"started"})
      BY <1>0, OldOrNew
    <3>3. Of(log, a, ends) # {} => Of(log, a, {"started"}) # {}
      BY <2>1 DEF TryEnds
    <3>4. News(a, ends) # {} => Of(log, a, {"started"}) # {}
      BY <2>1 DEF Orderly
    <3> QED BY <3>1, <3>2, <3>3, <3>4
  <2> DEFINE old == Of(log, a, {"marker"})
             new == News(a, {"marker"})
  <2>4. Of(log', a, {"marker"}) = old \union new /\ \A i \in old : log'[i] = log[i]
    BY <1>0, OldOrNew
  <2>5. \A i, j \in Of(log', a, {"marker"}) : i = j
    <3>1. \A i, j \in old : i = j
      BY <2>1 DEF TryEnds
    <3>2. (new # {} => old = {}) /\ \A i, j \in new : i = j
      BY <2>1 DEF Orderly
    <3> QED BY <2>4, <3>1, <3>2
  <2>6. try'[a] = "starting" => \A m \in Of(log', a, {"marker"}) : log'[m].at = now'
    <3>1. try[a] = "starting" => \A m \in old : log[m].at = now
      BY <2>1 DEF TryEnds
    <3>2. \A m \in new : log'[m].at = now'
      BY <2>1 DEF Orderly
    <3>3. try'[a] = "starting" => (try[a] = "starting" /\ now' = now) \/ old = {}
      BY <2>1 DEF Orderly
    <3> QED BY <2>4, <3>1, <3>2, <3>3
  <2> QED BY <2>2, <2>3, <2>5, <2>6 DEF TryEnds
<1>3. ASSUME NEW i \in Rows(log', {"launch_failed"}) PROVE log'[i].who \notin Tries
  <2>1. i \in Rows(log, {"launch_failed"}) \/ i > Len(log)
    BY <1>0, GrowsRows
  <2>2. CASE i \in Rows(log, {"launch_failed"})
    <3>1. i \in 1 .. Len(log)
      BY <1>0, <2>2, LogPoints DEF Rows
    <3>2. log'[i] = log[i]
      BY <3>1 DEF Grows
    <3> QED BY <2>2, <3>2 DEF EndsInv
  <2> QED BY <2>1, <2>2
<1> QED BY <1>2, <1>3 DEF EndsInv

\* What each step adds is orderly.
Tidy ==
    /\ log' \in Seq(RowSet) /\ Grows(log, log')
    /\ \A a \in Tries : Orderly(a)
    /\ \A i \in Rows(log', {"launch_failed"}) : i > Len(log) => log'[i].who \notin Tries
    /\ tick'.pc = "forked" => Of(log', tick'.fork, {"marker"}) = {}
    /\ \A i \in Rows(log', {"escalated"}) :
          i > Len(log) => /\ i = Len(log') /\ tick.pc = "escalate"
                          /\ log'[i].who = tick.trigger

\* A row that is no try's.
LEMMA TidyRow ==
    ASSUME RetryInv, NEW type \in RowType \ (Traces \union {"marker"}), NEW who \in Nat,
           EndsInv, Write(type, who), UNCHANGED <<now, try>>,
           tick'.pc # "forked" \/ UNCHANGED tick,
           type = "launch_failed" => who = 0,
           type = "escalated" => tick.pc = "escalate" /\ who = tick.trigger
    PROVE  Tidy
<1> DEFINE e == Row(type, who)
<1>0. TypeOK /\ log \in Seq(RowSet)
  BY DEF RetryInv, TypeOK
<1>1. e \in RowSet /\ e.type = type /\ e.who = who /\ log' = Append(log, e)
  BY <1>0, RowIs DEF Write
<1> HIDE DEF e
<1>2. log' \in Seq(RowSet) /\ Grows(log, log') /\ Len(log') = Len(log) + 1 /\ log'[Len(log) + 1] = e
      /\ Len(log) \in Nat /\ DOMAIN log' = 1 .. Len(log')
  BY <1>0, <1>1, LogAppends, LogPoints
<1>3. \A b, types : \A i \in News(b, types) : e.who = b /\ e.type \in types
  BY <1>0, <1>1, OneRow
<1>4. 0 \notin Tries
  BY DEF Tries
<1>5. ASSUME NEW b \in Tries PROVE Orderly(b)
  <2>1. News(b, Traces \union {"marker"}) = {}
    BY <1>1, <1>3
  <2>2. News(b, {"launch_failed"}) = {}
    <3> SUFFICES ASSUME NEW i \in News(b, {"launch_failed"}) PROVE FALSE
      OBVIOUS
    <3>1. e.who = b /\ e.type \in {"launch_failed"}
      BY <1>3
    <3> QED BY <1>1, <1>4, <3>1
  <2> QED BY <2>1, <2>2, OrderlyQuiet
<1>6. ASSUME NEW i \in Rows(log', {"launch_failed"}), i > Len(log) PROVE log'[i].who \notin Tries
  <2>1. i \in 1 .. Len(log) + 1 /\ log'[i].type = "launch_failed"
    BY <1>2 DEF Rows
  <2>2. i = Len(log) + 1
    <3>1. Len(log) \in Nat
      BY <1>0, LogPoints
    <3> QED BY <1>6, <2>1, <3>1
  <2> QED BY <1>1, <1>2, <1>4, <2>1, <2>2
<1>7. tick'.pc = "forked" => Of(log', tick'.fork, {"marker"}) = {}
  <2> SUFFICES ASSUME tick'.pc = "forked", NEW i \in Of(log', tick'.fork, {"marker"}) PROVE FALSE
    OBVIOUS
  <2>1. tick' = tick /\ Of(log, tick'.fork, {"marker"}) = {}
    BY DEF EndsInv
  <2>2. i \in News(tick'.fork, {"marker"})
    BY <1>0, <1>2, <2>1, OldOrNew
  <2>3. e.type = "marker"
    BY <1>0, <1>1, <2>2, OneRow
  <2> QED BY <1>1, <2>3
<1>8. ASSUME NEW i \in Rows(log', {"escalated"}), i > Len(log)
      PROVE  i = Len(log') /\ tick.pc = "escalate" /\ log'[i].who = tick.trigger
  <2>1. i \in 1 .. Len(log) + 1 /\ log'[i].type = "escalated"
    BY <1>2 DEF Rows
  <2>2. i = Len(log) + 1
    <3>1. Len(log) \in Nat
      BY <1>0, LogPoints
    <3> QED BY <1>8, <2>1, <3>1
  <2> QED BY <1>1, <1>2, <2>1, <2>2
<1> QED BY <1>2, <1>5, <1>6, <1>7, <1>8 DEF Tidy

\* No row at all.
LEMMA TidyQuiet ==
    ASSUME RetryInv, log' = log,
           \A a \in Tries : try[a] = "over" => try'[a] = "over",
           \A a \in Tries : try'[a] = "starting" =>
              (try[a] = "starting" /\ now' = now) \/ Of(log, a, {"marker"}) = {},
           tick'.pc = "forked" => Of(log, tick'.fork, {"marker"}) = {}
    PROVE  Tidy
<1>0. log \in Seq(RowSet)
  BY DEF RetryInv, TypeOK
<1>1. Grows(log, log) /\ DOMAIN log = 1 .. Len(log) /\ Len(log) \in Nat
  BY <1>0, LogPoints DEF Grows
<1>2. \A i \in DOMAIN log' : ~(i > Len(log))
  BY <1>1
<1>3. \A a, types : News(a, types) = {}
  BY <1>2 DEF News, Of, Rows
<1>4. \A a \in Tries : Orderly(a)
  BY <1>3, OrderlyQuiet
<1>5. \A types : \A i \in Rows(log', types) : ~(i > Len(log))
  BY <1>2 DEF Rows
<1> QED BY <1>0, <1>1, <1>4, <1>5 DEF Tidy

\* A row of a try.
LEMMA TidyOwn ==
    ASSUME RetryInv, NEW a \in Tries, NEW type \in Traces \union {"marker"}, NEW q \in Places,
           Write(type, a), try' = [try EXCEPT ![a] = q], now' = now,
           type \in {"started", "output"} => try[a] # "over" /\ q # "over",
           type \in Final => try[a] # "over" /\ q = "over",
           type # "stale" /\ type # "vanished",
           type = "done" => Of(log, a, {"started"}) # {},
           type = "marker" => Of(log, a, {"marker"}) = {} /\ q = try[a],
           q = "starting" => type = "marker",
           tick'.pc = "forked" =>
              type # "marker" /\ Of(log, tick'.fork, {"marker"}) = {}
    PROVE  Tidy
<1> DEFINE e == Row(type, a)
<1>0. TypeOK /\ log \in Seq(RowSet)
  BY DEF RetryInv, TypeOK
<1>1. type \in RowType /\ a \in Nat
  <2>1. type \in RowType
    BY TypesOfTraces DEF RowType
  <2>2. a \in Nat
    BY RetryAssumption DEF Tries
  <2> QED BY <2>1, <2>2
<1>2. e \in RowSet /\ e.type = type /\ log' = Append(log, e)
  BY <1>0, <1>1, RowIs DEF Write
<1> HIDE DEF e
<1>3. log' \in Seq(RowSet) /\ Grows(log, log') /\ Len(log') = Len(log) + 1 /\ log'[Len(log) + 1] = e
      /\ Len(log) \in Nat /\ DOMAIN log' = 1 .. Len(log')
  BY <1>0, <1>2, LogAppends, LogPoints
<1>4. \A b \in Tries : Orderly(b)
  BY OrderlyRow
<1>5. ASSUME NEW i \in DOMAIN log', i > Len(log)
      PROVE  log'[i].type \notin {"launch_failed", "escalated"}
  <2>1. i \in 1 .. Len(log) + 1
    BY <1>3
  <2>2. i = Len(log) + 1
    <3>1. Len(log) \in Nat
      BY <1>0, LogPoints
    <3> QED BY <1>5, <2>1, <3>1
  <2>3. "escalated" \notin Traces /\ "launch_failed" \notin Traces
    BY TypesOfTraces
  <2> QED BY <1>2, <1>3, <2>2, <2>3
<1>6. tick'.pc = "forked" => Of(log', tick'.fork, {"marker"}) = {}
  <2> SUFFICES ASSUME tick'.pc = "forked", NEW i \in Of(log', tick'.fork, {"marker"}) PROVE FALSE
    OBVIOUS
  <2>1. type # "marker" /\ Of(log, tick'.fork, {"marker"}) = {}
    OBVIOUS
  <2>2. i \in News(tick'.fork, {"marker"})
    BY <1>0, <1>3, <2>1, OldOrNew
  <2>3. e.type = "marker"
    BY <1>0, <1>2, <2>2, OneRow
  <2> QED BY <1>2, <2>1, <2>3
<1>7. \A i \in Rows(log', {"launch_failed", "escalated"}) : ~(i > Len(log))
  BY <1>5 DEF Rows
<1>8. /\ \A i \in Rows(log', {"launch_failed"}) : ~(i > Len(log))
      /\ \A i \in Rows(log', {"escalated"}) : ~(i > Len(log))
  BY <1>7 DEF Rows
<1> QED BY <1>3, <1>4, <1>6, <1>8 DEF Tidy

LEMMA StepTidy == RetryInv /\ EndsInv /\ [Next]_vars => Tidy
<1> SUFFICES ASSUME RetryInv, EndsInv, [Next]_vars PROVE Tidy
  OBVIOUS
<1>0. /\ TypeOK /\ TickFits /\ LogFits(log)
      /\ \A a \in Tries : TryFits(log, forked[a], try[a], a)
      /\ log \in Seq(RowSet) /\ Tries \subseteq Nat /\ Idle.pc = "idle"
      /\ try \in [Tries -> Places]
  BY RetryAssumption DEF RetryInv, TypeOK, Tries, Idle
<1>a. \A a \in Tries : TryEnds(log, try[a], now, a)
  BY DEF EndsInv
<1>b. ASSUME UNCHANGED <<log, try, now>>, tick'.pc # "forked" \/ UNCHANGED tick PROVE Tidy
  <2>1. tick'.pc = "forked" => Of(log, tick'.fork, {"marker"}) = {}
    BY <1>b DEF EndsInv
  <2> QED BY <1>b, <2>1, TidyQuiet
<1>1. CASE TickBegin
  <2> DEFINE m == log \o SetToSeq(Reconciled)
  <2>1. log' = m /\ UNCHANGED <<now, try>>
    BY <1>1 DEF TickBegin
  <2>2. tick'.pc # "forked"
    <3>1. Choice(log, now) \in {"idle", "escalate", "launch"}
      BY DEF Choice
    <3> QED BY <1>1, <3>1 DEF TickBegin, Idle
  <2>3. /\ m \in Seq(RowSet) /\ Grows(log, m)
        /\ \A i \in DOMAIN m : i > Len(log) => m[i] \in Reconciled
    BY <1>0, ReconciledLog
  <2> HIDE DEF m
  <2>4. ASSUME NEW a, NEW types, NEW i \in News(a, types)
        PROVE  /\ m[i].who = a /\ m[i].type \in types /\ m[i].type \in {"vanished", "stale"}
               /\ a \in Tries /\ Of(log, a, {"started"}) # {}
               /\ m[i].type = "vanished" => /\ try[a] = "over"
                                            /\ Of(log, a, {"done", "failed", "vanished"}) = {}
               /\ m[i].type = "stale" => try[a] = "hung"
    <3>1. i \in DOMAIN m /\ i > Len(log) /\ m[i].who = a /\ m[i].type \in types
      BY <2>1 DEF News, Of, Rows
    <3>2. m[i] \in Reconciled
      BY <2>3, <3>1
    <3> QED BY <1>0, <3>1, <3>2, ReconciledIs
  <2>5. ASSUME NEW a \in Tries PROVE Orderly(a)
    <3>1. try[a] = "over" => /\ \A i \in News(a, Traces) : log'[i].type = "vanished"
                             /\ News(a, Traces) # {} => Of(log, a, {"done", "failed", "vanished"}) = {}
      BY <2>1, <2>4
    <3>2. News(a, Final) # {} => try[a] = "over"
      BY <2>4, TypesOfTraces
    <3>3. News(a, {"stale", "vanished", "done"}) # {} => Of(log, a, {"started"}) # {}
      BY <2>4
    <3>4. News(a, {"marker"}) = {}
      BY <2>4
    <3> QED BY <2>1, <3>1, <3>2, <3>3, <3>4 DEF Orderly
  <2>6. ASSUME NEW types, types \subseteq {"launch_failed", "escalated"},
               NEW i \in Rows(log', types), i > Len(log)
        PROVE  FALSE
    <3>1. i \in DOMAIN m /\ m[i].type \in {"launch_failed", "escalated"}
      BY <2>1, <2>6 DEF Rows
    <3>2. m[i] \in Reconciled
      BY <2>3, <2>6, <3>1
    <3>3. m[i].type \in {"vanished", "stale"}
      BY <1>0, <3>2, ReconciledIs
    <3> QED BY <3>1, <3>3
  <2>7. /\ \A i \in Rows(log', {"launch_failed"}) : ~(i > Len(log))
        /\ \A i \in Rows(log', {"escalated"}) : ~(i > Len(log))
    BY <2>6
  <2> QED BY <2>1, <2>2, <2>3, <2>5, <2>7 DEF Tidy
<1>2. CASE Escalate
  <2>1. tick'.pc # "forked" /\ UNCHANGED <<try, now>>
        /\ (UNCHANGED log \/ Write("escalated", tick.trigger)) /\ tick.trigger \in Nat
        /\ tick.pc = "escalate"
    BY <1>0, <1>2 DEF Escalate, TypeOK, TickSet
  <2>2. "escalated" \in RowType \ (Traces \union {"marker"})
    BY TypesOfTraces DEF RowType
  <2> QED BY <1>b, <2>1, <2>2, TidyRow
<1>3. CASE LaunchFails
  <2>1. tick'.pc # "forked" /\ UNCHANGED <<try, now>> /\ Write("launch_failed", 0)
    BY <1>0, <1>3 DEF LaunchFails
  <2>2. "launch_failed" \in RowType \ (Traces \union {"marker"})
    BY TypesOfTraces DEF RowType
  <2> QED BY <2>1, <2>2, TidyRow
<1>4. CASE Fork
  <2>1. /\ Free # {} /\ Goto(First(Free), "starting") /\ UNCHANGED <<log, now>>
        /\ tick'.fork = First(Free)
    BY <1>4 DEF Fork, Idle
  <2>2. First(Free) \in Tries /\ try[First(Free)] = "none"
    <3>1. Free # {} /\ Free \in SUBSET Nat
      BY <1>0, <2>1 DEF Free
    <3>2. First(Free) \in Free
      BY <3>1, FirstIs
    <3> QED BY <3>2 DEF Free
  <2>3. Of(log, First(Free), {"marker"}) = {}
    BY <1>0, <2>2 DEF TryFits
  <2>4. \A a \in Tries : IF a = First(Free) THEN try'[a] = "starting" ELSE try'[a] = try[a]
    BY <1>0, <2>1, <2>2 DEF Goto
  <2>5. \A a \in Tries : try[a] = "over" => try'[a] = "over"
    BY <2>2, <2>4
  <2>6. \A a \in Tries : try'[a] = "starting" =>
           (try[a] = "starting" /\ now' = now) \/ Of(log, a, {"marker"}) = {}
    BY <2>1, <2>3, <2>4
  <2> QED BY <2>1, <2>3, <2>5, <2>6, TidyQuiet
<1>5. CASE Mark
  <2>1. tick'.pc # "forked" /\ UNCHANGED <<try, now>> /\ Write("marker", tick.fork)
        /\ tick.pc = "forked" /\ tick.fork \in Tries
    BY <1>0, <1>5 DEF Mark, TickFits
  <2>2. Of(log, tick.fork, {"marker"}) = {}
    BY <2>1 DEF EndsInv
  <2>3. try[tick.fork] \in Places /\ try' = [try EXCEPT ![tick.fork] = try[tick.fork]]
    BY <1>0, <2>1
  <2>4. "marker" \notin Final /\ "marker" \in Traces \union {"marker"}
    BY TypesOfTraces
  <2> QED BY <2>1, <2>2, <2>3, <2>4, TidyOwn
<1>6. CASE TickDie
  BY <1>0, <1>b, <1>6 DEF TickDie
<1>7. CASE Manual
  <2>1. Free # {} /\ Goto(First(Free), "starting") /\ UNCHANGED <<log, now, tick>>
    BY <1>7 DEF Manual
  <2>2. First(Free) \in Tries /\ try[First(Free)] = "none"
    <3>1. Free # {} /\ Free \in SUBSET Nat
      BY <1>0, <2>1 DEF Free
    <3>2. First(Free) \in Free
      BY <3>1, FirstIs
    <3> QED BY <3>2 DEF Free
  <2>3. Of(log, First(Free), {"marker"}) = {}
    BY <1>0, <2>2 DEF TryFits
  <2>4. \A a \in Tries : IF a = First(Free) THEN try'[a] = "starting" ELSE try'[a] = try[a]
    BY <1>0, <2>1, <2>2 DEF Goto
  <2>5. \A a \in Tries : try[a] = "over" => try'[a] = "over"
    BY <2>2, <2>4
  <2>6. \A a \in Tries : try'[a] = "starting" =>
           (try[a] = "starting" /\ now' = now) \/ Of(log, a, {"marker"}) = {}
    BY <2>1, <2>3, <2>4
  <2>7. tick'.pc = "forked" => Of(log, tick'.fork, {"marker"}) = {}
    BY <2>1 DEF EndsInv
  <2> QED BY <2>1, <2>5, <2>6, <2>7, TidyQuiet
<1>8. CASE \E a \in Tries : \/ Start(a) \/ Refuse(a) \/ Fail(a) \/ Output(a) \/ Close(a)
                            \/ Empty(a) \/ Vanish(a) \/ Hang(a)
  <2> PICK a \in Tries : \/ Start(a) \/ Refuse(a) \/ Fail(a) \/ Output(a) \/ Close(a)
                       \/ Empty(a) \/ Vanish(a) \/ Hang(a)
    BY <1>8
  <2>1. try[a] \in {"running", "closing", "hung"} => Of(log, a, {"started"}) # {}
    BY <1>0 DEF TryFits
  <2>2. ASSUME NEW from, NEW q \in Places, NEW type \in Traces, Step(a, from, q, type),
               from \subseteq Places \ {"none", "over"}, q # "starting",
               type \in {"started", "output"} => q # "over",
               type \in Final => q = "over",
               type # "stale" /\ type # "vanished",
               type = "done" => from \subseteq {"running", "closing", "hung"}
        PROVE  Tidy
    <3>1. /\ try' = [try EXCEPT ![a] = q] /\ UNCHANGED <<now, tick>> /\ try[a] \in from
          /\ Write(type, a)
      BY <2>2 DEF Step, Goto, Is
    <3>2. try[a] # "over" /\ (type = "done" => Of(log, a, {"started"}) # {})
      BY <2>1, <2>2, <3>1
    <3>3. type # "marker" /\ type \in Traces \union {"marker"}
      BY <2>2, TypesOfTraces
    <3>4. tick'.pc = "forked" => Of(log, tick'.fork, {"marker"}) = {}
      BY <3>1 DEF EndsInv
    <3> QED BY <2>2, <3>1, <3>2, <3>3, <3>4, TidyOwn
  <2>3. CASE Start(a)
    <3>1. Step(a, {"starting"}, "running", "started")
      BY <2>3 DEF Start
    <3>2. "started" \in Traces /\ "running" \in Places /\ {"starting"} \subseteq Places \ {"none", "over"}
          /\ ("started" \in Final => "running" = "over")
      BY TypesOfTraces DEF Places
    <3> QED BY <2>2, <3>1, <3>2
  <2>4. CASE Refuse(a)
    <3>1. Step(a, {"starting"}, "over", "refused")
      BY <2>4 DEF Refuse
    <3>2. "refused" \in Traces /\ "over" \in Places /\ {"starting"} \subseteq Places \ {"none", "over"}
          /\ ("refused" \in Final => "over" = "over")
      BY TypesOfTraces DEF Places
    <3> QED BY <2>2, <3>1, <3>2
  <2>5. CASE Fail(a)
    <3>1. Step(a, {"starting", "running", "hung"}, "over", "failed")
      BY <2>5 DEF Fail
    <3>2. "failed" \in Traces /\ "over" \in Places /\ {"starting", "running", "hung"} \subseteq Places \ {"none", "over"}
          /\ ("failed" \in Final => "over" = "over")
      BY TypesOfTraces DEF Places
    <3> QED BY <2>2, <3>1, <3>2
  <2>6. CASE Output(a)
    <3>1. Step(a, {"running", "hung"}, "closing", "output")
      BY <2>6 DEF Output
    <3>2. "output" \in Traces /\ "closing" \in Places /\ {"running", "hung"} \subseteq Places \ {"none", "over"}
          /\ ("output" \in Final => "closing" = "over")
      BY TypesOfTraces DEF Places
    <3> QED BY <2>2, <3>1, <3>2
  <2>7. CASE Close(a)
    <3>1. Step(a, {"closing"}, "over", "done")
      BY <2>7 DEF Close
    <3>2. "done" \in Traces /\ "over" \in Places /\ {"closing"} \subseteq Places \ {"none", "over"}
          /\ ("done" \in Final => "over" = "over")
      BY TypesOfTraces DEF Places
    <3> QED BY <2>2, <3>1, <3>2
  <2>8. CASE Empty(a)
    <3>1. Step(a, {"running", "hung"}, "over", "done")
      BY <2>8 DEF Empty
    <3>2. "done" \in Traces /\ "over" \in Places /\ {"running", "hung"} \subseteq Places \ {"none", "over"}
          /\ ("done" \in Final => "over" = "over")
      BY TypesOfTraces DEF Places
    <3> QED BY <2>2, <3>1, <3>2
  <2>9. CASE Vanish(a)
    <3>1. try' = [try EXCEPT ![a] = "over"] /\ UNCHANGED <<now, log, tick>> /\ try[a] # "over"
      BY <2>9 DEF Vanish, Goto, Is
    <3>2. \A b \in Tries : IF b = a THEN try'[b] = "over" ELSE try'[b] = try[b]
      BY <1>0, <3>1
    <3>3. \A b \in Tries : try[b] = "over" => try'[b] = "over"
      BY <3>1, <3>2
    <3>4. \A b \in Tries : try'[b] = "starting" =>
             (try[b] = "starting" /\ now' = now) \/ Of(log, b, {"marker"}) = {}
      BY <3>1, <3>2
    <3>5. tick'.pc = "forked" => Of(log, tick'.fork, {"marker"}) = {}
      BY <3>1 DEF EndsInv
    <3> QED BY <3>1, <3>3, <3>4, <3>5, TidyQuiet
  <2>10. CASE Hang(a)
    <3>1. try' = [try EXCEPT ![a] = "hung"] /\ UNCHANGED <<now, log, tick>> /\ try[a] # "over"
      BY <2>10 DEF Hang, Goto, Is
    <3>2. \A b \in Tries : IF b = a THEN try'[b] = "hung" ELSE try'[b] = try[b]
      BY <1>0, <3>1
    <3>3. \A b \in Tries : try[b] = "over" => try'[b] = "over"
      BY <3>1, <3>2
    <3>4. \A b \in Tries : try'[b] = "starting" =>
             (try[b] = "starting" /\ now' = now) \/ Of(log, b, {"marker"}) = {}
      BY <3>1, <3>2
    <3>5. tick'.pc = "forked" => Of(log, tick'.fork, {"marker"}) = {}
      BY <3>1 DEF EndsInv
    <3> QED BY <3>1, <3>3, <3>4, <3>5, TidyQuiet
  <2> QED BY <2>3, <2>4, <2>5, <2>6, <2>7, <2>8, <2>9, <2>10
<1>9. CASE Rewrite
  <2>1. UNCHANGED <<now, try, tick>> /\ Write("spec", 0)
    BY <1>9 DEF Rewrite
  <2>2. "spec" \in RowType \ (Traces \union {"marker"})
    BY TypesOfTraces DEF RowType
  <2> QED BY <2>1, <2>2, TidyRow
<1>10. CASE Release
  <2>1. UNCHANGED <<now, try, tick>> /\ Write("release", 0)
    BY <1>10 DEF Release
  <2>2. "release" \in RowType \ (Traces \union {"marker"})
    BY TypesOfTraces DEF RowType
  <2> QED BY <2>1, <2>2, TidyRow
<1>11. CASE Clock
  <2>1. UNCHANGED <<log, try, tick>> /\ tick.pc # "forked" /\ \A a \in Tries : try[a] # "starting"
    BY <1>11 DEF Clock, Is
  <2> QED BY <2>1, TidyQuiet
<1>12. CASE UNCHANGED vars
  BY <1>b, <1>12 DEF vars
<1> QED
  BY <1>1, <1>2, <1>3, <1>4, <1>5, <1>6, <1>7, <1>8, <1>9, <1>10, <1>11, <1>12 DEF Next, Done

LEMMA EndsStep == RetryInv /\ EndsInv /\ [Next]_vars => EndsInv'
BY StepTidy, OrderlyEnds DEF Tidy

-----------------------------------------------------------------------------
\* What an escalation has behind it

\* EscalationEarned of log l.
TypesIn(l, a, rows) == {l[i].type : i \in {i \in rows \intersect Grouped(l) : l[i].who = a}}
WrongIn(l, a, rows) ==
    \/ TypesIn(l, a, rows) \intersect {"failed", "vanished", "stale"} # {}
    \/ "done" \in TypesIn(l, a, rows) /\ ~HasOutput(l, a)
    \/ TypesIn(l, a, rows) = {"marker"}
After(l, m) == {i \in Grouped(l) : i > m}
ApartIn(l, m) ==
    /\ Of(l, l[m].who, Receipt) # {}
    /\ After(l, m) = {} \/ l[First(After(l, m))].who # l[m].who

\* S is a set of tries that went wrong.
Enough(l, S, rows) ==
    Limit <= Cardinality(S)
           + Cardinality(rows \intersect Rows(l, {"launch_failed"}))
           + Cardinality({m \in rows \intersect Rows(l, {"marker"}) : ApartIn(l, m)})
EarnedIn(l) ==
    \A h \in Rows(l, {"escalated"}) :
        Enough(l, {a \in Tries : WrongIn(l, a, l[h].who .. h)}, l[h].who .. h)

\* What stays wrong: a try that failed or ended empty among these rows, and one
\* that is over and has left its marker alone.
Bad(l, a, rows) ==
    \/ \E i \in Of(l, a, {"failed", "vanished", "stale"}) : i \in rows
    \/ ~HasOutput(l, a) /\ \E i \in Of(l, a, {"done"}) : i \in rows
Lost(l, place, a, T) ==
    /\ place = "over" /\ Of(l, a, Child) = {}
    /\ \E m \in Of(l, a, {"marker"}) : T <= m
Sure(l, places, T) ==
    {a \in Tries : Bad(l, a, T .. Len(l)) \/ Lost(l, places[a], a, T)}

\* A tick that is about to escalate its trigger has what it needs, and so has
\* every escalation.
EarnInv ==
    /\ tick.pc = "escalate" =>
          Enough(log, Sure(log, try, tick.trigger), tick.trigger .. Len(log))
    /\ EarnedIn(log)

LEMMA EarnedIs == EscalationEarned <=> EarnedIn(log)
<1>1. \A a, rows : WentWrong(a, rows) <=> WrongIn(log, a, rows)
  BY DEF WentWrong, WrongIn, TypesIn
<1>2. \A m : Apart(m) <=> ApartIn(log, m)
  BY DEF Apart, ApartIn, After
<1>3. ASSUME NEW h \in Rows(log, {"escalated"})
      PROVE  LET rows == log[h].who .. h
             IN  /\ {a \in Tries : WentWrong(a, rows)} = {a \in Tries : WrongIn(log, a, rows)}
                 /\ {m \in rows \intersect Rows(log, {"marker"}) : Apart(m)}
                      = {m \in rows \intersect Rows(log, {"marker"}) : ApartIn(log, m)}
  BY <1>1, <1>2
<1> QED BY <1>3 DEF EscalationEarned, EarnedIn, Enough

\* Both kinds of what stays wrong are wrong.
LEMMA SureIsWrong ==
    ASSUME NEW l \in Seq(RowSet), NEW places, NEW T \in Nat, NEW a \in Sure(l, places, T),
           \A i \in Rows(l, {"launch_failed"}) : l[i].who \notin Tries
    PROVE  WrongIn(l, a, T .. Len(l))
<1> DEFINE rows == T .. Len(l)
           types == TypesIn(l, a, rows)
<1>0. a \in Tries /\ (Bad(l, a, rows) \/ Lost(l, places[a], a, T))
  BY DEF Sure
<1>1. ASSUME NEW x, NEW i \in Of(l, a, {x}), i \in rows, x \in Child \union {"marker"}
      PROVE  x \in types
  BY <1>1 DEF TypesIn, Of, Rows, Grouped
<1>2. \A x \in {"failed", "vanished", "stale", "done"} : x \in Child
  BY DEF Child
<1>3. CASE \E i \in Of(l, a, {"failed", "vanished", "stale"}) : i \in rows
  <2>1. PICK i \in Of(l, a, {"failed", "vanished", "stale"}) : i \in rows
    BY <1>3
  <2>2. l[i].type \in {"failed", "vanished", "stale"} /\ i \in Of(l, a, {l[i].type})
    BY <2>1 DEF Of, Rows
  <2>3. l[i].type \in types
    BY <1>1, <1>2, <2>1, <2>2
  <2> QED BY <2>2, <2>3 DEF WrongIn
<1>4. CASE ~HasOutput(l, a) /\ \E i \in Of(l, a, {"done"}) : i \in rows
  <2>1. "done" \in types
    BY <1>1, <1>2, <1>4
  <2> QED BY <1>4, <2>1 DEF WrongIn
<1>5. CASE Lost(l, places[a], a, T)
  <2>1. Of(l, a, Child) = {}
    BY <1>5 DEF Lost
  <2>2. PICK m \in Of(l, a, {"marker"}) : T <= m
    BY <1>5 DEF Lost
  <2>3. m \in 1 .. Len(l) /\ Len(l) \in Nat
    BY LogPoints DEF Of, Rows
  <2>4. m \in rows
    BY <2>2, <2>3
  <2>5. "marker" \in types
    BY <1>1, <2>4
  <2>6. ASSUME NEW x \in types PROVE x = "marker"
    <3>1. PICK i \in rows \intersect Grouped(l) : l[i].who = a /\ x = l[i].type
      BY DEF TypesIn
    <3>2. i \in DOMAIN l /\ x \in Child \union {"marker", "launch_failed"}
      BY <3>1 DEF Grouped, Rows
    <3>3. x \notin Child
      BY <2>1, <3>1, <3>2 DEF Of, Rows
    <3>4. x # "launch_failed"
      BY <1>0, <3>1, <3>2 DEF Rows
    <3> QED BY <3>2, <3>3, <3>4
  <2>7. types = {"marker"}
    BY <2>5, <2>6
  <2> QED BY <2>7 DEF WrongIn
<1>6. Bad(l, a, rows) => \/ \E i \in Of(l, a, {"failed", "vanished", "stale"}) : i \in rows
                         \/ ~HasOutput(l, a) /\ \E i \in Of(l, a, {"done"}) : i \in rows
  BY DEF Bad
<1> QED BY <1>0, <1>3, <1>4, <1>5, <1>6

-----------------------------------------------------------------------------
\* No step takes any of it away

LEMMA OutputLasts ==
    ASSUME RetryInv, EndsInv, Tidy, NEW a \in Tries, Of(log, a, {"done"}) # {}
    PROVE  HasOutput(log', a) => HasOutput(log, a)
<1>1. try[a] = "over"
  <2>1. Of(log, a, Final) # {}
    BY TypesOfTraces DEF Of, Rows
  <2> QED BY <2>1 DEF EndsInv, TryEnds
<1>2. \A i \in News(a, Traces) : log'[i].type = "vanished"
  BY <1>1 DEF Tidy, Orderly
<1>3. News(a, {"output"}) = {}
  <2> SUFFICES ASSUME NEW i \in News(a, {"output"}) PROVE FALSE
    OBVIOUS
  <2>1. i \in News(a, Traces) /\ log'[i].type = "output"
    BY TypesOfTraces DEF News, Of, Rows
  <2> QED BY <1>2, <2>1
<1>4. Of(log', a, {"output"}) = Of(log, a, {"output"}) \union News(a, {"output"})
  BY OldOrNew DEF RetryInv, TypeOK, Tidy
<1> QED BY <1>3, <1>4 DEF HasOutput

LEMMA BadLasts ==
    ASSUME RetryInv, EndsInv, Tidy, NEW a \in Tries, NEW rows, NEW more, rows \subseteq more,
           Bad(log, a, rows)
    PROVE  Bad(log', a, more)
<1>1. \A types : Of(log, a, types) \subseteq Of(log', a, types)
  BY GrowsRows DEF RetryInv, TypeOK, Tidy
<1>2. CASE \E i \in Of(log, a, {"failed", "vanished", "stale"}) : i \in rows
  BY <1>1, <1>2 DEF Bad
<1>3. CASE ~HasOutput(log, a) /\ \E i \in Of(log, a, {"done"}) : i \in rows
  <2>1. ~HasOutput(log', a)
    BY <1>3, OutputLasts
  <2> QED BY <1>1, <1>3, <2>1 DEF Bad
<1> QED BY <1>2, <1>3 DEF Bad

LEMMA LostLasts ==
    ASSUME RetryInv, EndsInv, Tidy, NEW a \in Tries, NEW T, Lost(log, try[a], a, T)
    PROVE  Lost(log', try'[a], a, T)
<1>1. \A types : Of(log, a, types) \subseteq Of(log', a, types)
  BY GrowsRows DEF RetryInv, TypeOK, Tidy
<1>2. try[a] = "over" /\ Of(log, a, Child) = {} /\ \E m \in Of(log, a, {"marker"}) : T <= m
  BY DEF Lost
<1>3. try'[a] = "over" /\ \A i \in News(a, Traces) : log'[i].type = "vanished"
  BY <1>2 DEF Tidy, Orderly
<1>4. Of(log', a, Child) = Of(log, a, Child) \union News(a, Child)
  BY OldOrNew DEF RetryInv, TypeOK, Tidy
<1>5. News(a, Child) = {}
  <2> SUFFICES ASSUME NEW i \in News(a, Child) PROVE FALSE
    OBVIOUS
  <2>1. i \in News(a, Traces)
    BY DEF News, Of, Rows, Traces
  <2>2. log'[i].type = "vanished"
    BY <1>3, <2>1
  <2>3. i \in News(a, {"stale", "vanished", "done"})
    BY <2>2 DEF News, Of, Rows
  <2>4. Of(log, a, {"started"}) # {}
    BY <2>3 DEF Tidy, Orderly
  <2> QED BY <1>2, <2>4 DEF Of, Rows, Child
<1> QED BY <1>1, <1>2, <1>3, <1>4, <1>5 DEF Lost

LEMMA ApartLasts ==
    ASSUME RetryInv, EndsInv, Tidy, NEW m \in Rows(log, {"marker"}), ApartIn(log, m)
    PROVE  ApartIn(log', m)
<1> DEFINE a == log[m].who
           old == After(log, m)
           new == After(log', m)
<1>0. log \in Seq(RowSet) /\ log' \in Seq(RowSet) /\ Grows(log, log')
  BY DEF RetryInv, TypeOK, Tidy
<1>1. /\ DOMAIN log = 1 .. Len(log) /\ DOMAIN log' = 1 .. Len(log') /\ Len(log) \in Nat
      /\ \A i \in 1 .. Len(log) : log'[i] = log[i]
  BY <1>0, LogPoints DEF Grows
<1>2. m \in 1 .. Len(log) /\ log'[m] = log[m] /\ m \in Of(log, a, {"marker"})
  BY <1>1 DEF Rows, Of
<1>3. a \in Tries
  BY DEF RetryInv, LogFits, Rows
<1> HIDE DEF a
<1>4. Of(log, a, Receipt) # {} /\ (old = {} \/ log[First(old)].who # a)
  BY DEF ApartIn, a
<1>5. Of(log', a, Receipt) # {}
  BY <1>0, <1>4, GrowsRows
<1>6. Grouped(log) \subseteq Grouped(log') /\ \A i \in Grouped(log') : i \in Grouped(log) \/ i > Len(log)
  BY <1>0, GrowsRows DEF Grouped
<1>7. old \subseteq new /\ \A i \in new : i \in old \/ i > Len(log)
  BY <1>6 DEF After
<1>8. old \subseteq 1 .. Len(log) /\ new \subseteq 1 .. Len(log')
  BY <1>1 DEF After, Grouped, Rows
<1>9. old \in SUBSET Nat /\ new \in SUBSET Nat
  BY <1>8
<1>10. new = {} \/ log'[First(new)].who # a
  <2>1. CASE old # {}
    <3> DEFINE r == First(old)
               q == First(new)
    <3>1. r \in old /\ \A j \in old : r <= j
      BY <1>9, <2>1, FirstIs
    <3>2. q \in new /\ \A j \in new : q <= j
      <4>1. new # {}
        BY <1>7, <2>1
      <4> QED BY <1>9, <4>1, FirstIs
    <3> HIDE DEF r, q
    <3>3. r \in Nat /\ q \in Nat /\ r <= Len(log) /\ r \in 1 .. Len(log)
      BY <1>8, <1>9, <3>1, <3>2
    <3>4. q <= r
      BY <1>7, <3>1, <3>2
    <3>5. ~(q > Len(log))
      BY <1>1, <3>3, <3>4
    <3>6. r <= q
      BY <1>7, <3>1, <3>2, <3>5
    <3>7. r = q
      BY <3>3, <3>4, <3>6
    <3>8. log'[r] = log[r]
      BY <1>1, <3>3
    <3> QED BY <1>4, <2>1, <3>7, <3>8 DEF r, q
  <2>2. CASE old = {} /\ new # {}
    <3> DEFINE r == First(new)
    <3>1. r \in new
      BY <1>9, <2>2, FirstIs
    <3> HIDE DEF r
    <3>2. r > Len(log) /\ r \in DOMAIN log' /\ log'[r].type \in Child \union {"marker", "launch_failed"}
      BY <1>7, <2>2, <3>1 DEF After, Grouped, Rows
    <3> SUFFICES ASSUME log'[r].who = a PROVE FALSE
      BY DEF r
    <3>3. \A types : log'[r].type \in types => r \in News(a, types)
      BY <3>2 DEF News, Of, Rows
    <3>4. CASE log'[r].type = "marker"
      <4>1. News(a, {"marker"}) # {}
        BY <3>3, <3>4
      <4> QED BY <1>2, <1>3, <4>1 DEF Tidy, Orderly
    <3>5. CASE log'[r].type = "launch_failed"
      <4>1. r \in Rows(log', {"launch_failed"})
        BY <3>2, <3>5 DEF Rows
      <4> QED BY <1>3, <3>2, <4>1 DEF Tidy
    <3>6. CASE log'[r].type \in Child
      <4>1. r \in News(a, Traces)
        BY <3>3, <3>6 DEF Traces
      <4>2. try[a] = "over"
        <5>1. Of(log, a, Final) # {}
          BY <1>4 DEF Of, Rows, Final
        <5> QED BY <1>3, <5>1 DEF EndsInv, TryEnds
      <4>3. log'[r].type = "vanished" /\ Of(log, a, {"done", "failed", "vanished"}) = {}
        BY <1>3, <4>1, <4>2 DEF Tidy, Orderly
      <4>4. r \in News(a, {"stale", "vanished", "done"})
        BY <3>3, <4>3
      <4>5. Of(log, a, {"started"}) # {}
        BY <1>3, <4>4 DEF Tidy, Orderly
      <4>6. Of(log, a, {"refused"}) = {}
        BY <1>3, <4>5 DEF RetryInv, TryFits
      <4>7. PICK x \in Of(log, a, Receipt) : TRUE
        BY <1>4
      <4>8. log[x].type \in Receipt /\ log[x].who = a /\ x \in DOMAIN log
        BY DEF Of, Rows
      <4>9. log[x].type # "launch_failed"
        BY <1>3, <4>8 DEF EndsInv, Rows
      <4>10. log[x].type \in {"failed", "vanished", "refused"}
        BY <4>8, <4>9 DEF Receipt, Real
      <4>11. x \in Of(log, a, {log[x].type})
        BY <4>8 DEF Of, Rows
      <4> QED BY <4>3, <4>6, <4>8, <4>10 DEF Of, Rows
    <3> QED BY <3>2, <3>4, <3>5, <3>6
  <2> QED BY <2>1, <2>2
<1>11. log'[m].who = a
  BY <1>2 DEF a
<1> QED BY <1>5, <1>10, <1>11 DEF ApartIn

LEMMA WrongLasts ==
    ASSUME RetryInv, EndsInv, Tidy, NEW a \in Tries, NEW rows, \A i \in rows : ~(i > Len(log)),
           WrongIn(log, a, rows)
    PROVE  WrongIn(log', a, rows)
<1> DEFINE old == TypesIn(log, a, rows)
           new == TypesIn(log', a, rows)
<1>0. log \in Seq(RowSet) /\ log' \in Seq(RowSet) /\ Grows(log, log')
  BY DEF RetryInv, TypeOK, Tidy
<1>1. Grouped(log) \subseteq Grouped(log') /\ \A i \in Grouped(log') : i \in Grouped(log) \/ i > Len(log)
  BY <1>0, GrowsRows DEF Grouped
<1>2. \A i \in Grouped(log) : log'[i] = log[i]
  <2>1. Grouped(log) \subseteq 1 .. Len(log) /\ \A i \in 1 .. Len(log) : log'[i] = log[i]
    BY <1>0, LogPoints DEF Grows, Grouped, Rows
  <2> QED BY <2>1
<1>3. {i \in rows \intersect Grouped(log') : log'[i].who = a} = {i \in rows \intersect Grouped(log) : log[i].who = a}
  BY <1>1, <1>2
<1>4. new = old
  <2> DEFINE R == {i \in rows \intersect Grouped(log) : log[i].who = a}
  <2>1. new = {log'[i].type : i \in R}
    BY <1>3 DEF TypesIn
  <2>2. \A i \in R : log'[i].type = log[i].type
    BY <1>2
  <2>3. old = {log[i].type : i \in R}
    BY DEF TypesIn
  <2> HIDE DEF R, new, old
  <2> QED BY <2>1, <2>2, <2>3
<1>5. "done" \in old => Of(log, a, {"done"}) # {}
  BY DEF TypesIn, Of, Rows, Grouped
<1>6. "done" \in old /\ ~HasOutput(log, a) => ~HasOutput(log', a)
  BY <1>5, OutputLasts
<1> HIDE DEF old, new
<1> QED BY <1>4, <1>6 DEF WrongIn, old, new

LEMMA RowsFinite ==
    ASSUME NEW l \in Seq(RowSet), NEW S, NEW types, S \subseteq Rows(l, types)
    PROVE  IsFiniteSet(S) /\ Cardinality(S) \in Nat
<1>1. Len(l) \in Nat /\ S \in SUBSET (1 .. Len(l))
  BY LogPoints DEF Rows
<1>2. IsFiniteSet(1 .. Len(l))
  BY <1>1, FS_Interval
<1>3. IsFiniteSet(S)
  BY <1>1, <1>2, FS_Subset
<1> QED BY <1>3, FS_CardinalityType

LEMMA EnoughLasts ==
    ASSUME RetryInv, EndsInv, Tidy, NEW S, NEW more, S \subseteq more, more \subseteq Tries,
           NEW rows, NEW wide, rows \subseteq wide, Enough(log, S, rows)
    PROVE  Enough(log', more, wide)
<1> DEFINE A == rows \intersect Rows(log, {"launch_failed"})
           A2 == wide \intersect Rows(log', {"launch_failed"})
           B == {m \in rows \intersect Rows(log, {"marker"}) : ApartIn(log, m)}
           B2 == {m \in wide \intersect Rows(log', {"marker"}) : ApartIn(log', m)}
<1>0. log \in Seq(RowSet) /\ log' \in Seq(RowSet) /\ Grows(log, log') /\ Limit \in Nat
  BY RetryAssumption DEF RetryInv, TypeOK, Tidy
<1>1. A \subseteq A2 /\ A2 \subseteq Rows(log', {"launch_failed"})
  BY <1>0, GrowsRows
<1>2. B \subseteq B2 /\ B2 \subseteq Rows(log', {"marker"})
  <2>1. Rows(log, {"marker"}) \subseteq Rows(log', {"marker"})
    BY <1>0, GrowsRows
  <2>2. \A m \in Rows(log, {"marker"}) : ApartIn(log, m) => ApartIn(log', m)
    BY ApartLasts
  <2> QED BY <2>1, <2>2
<1>3. Limit <= Cardinality(S) + Cardinality(A) + Cardinality(B)
  BY DEF Enough
<1> HIDE DEF A, A2, B, B2
<1>4. Cardinality(S) \in Nat /\ Cardinality(more) \in Nat /\ Cardinality(S) <= Cardinality(more)
  BY Smaller
<1>5. Cardinality(A) \in Nat /\ Cardinality(A2) \in Nat /\ Cardinality(A) <= Cardinality(A2)
  <2>1. IsFiniteSet(A2)
    BY <1>0, <1>1, RowsFinite
  <2> QED BY <1>1, <2>1, FS_Subset, FS_CardinalityType
<1>6. Cardinality(B) \in Nat /\ Cardinality(B2) \in Nat /\ Cardinality(B) <= Cardinality(B2)
  <2>1. IsFiniteSet(B2)
    BY <1>0, <1>2, RowsFinite
  <2> QED BY <1>2, <2>1, FS_Subset, FS_CardinalityType
<1>7. Limit <= Cardinality(more) + Cardinality(A2) + Cardinality(B2)
  BY <1>0, <1>3, <1>4, <1>5, <1>6
<1> QED BY <1>7 DEF Enough, A2, B2

LEMMA SureLasts ==
    ASSUME RetryInv, EndsInv, Tidy, NEW T \in Nat
    PROVE  Sure(log, try, T) \subseteq Sure(log', try', T) /\ T .. Len(log) \subseteq T .. Len(log')
<1>1. T .. Len(log) \subseteq T .. Len(log')
  <2>1. Len(log) \in Nat /\ Len(log') \in Nat /\ Len(log) <= Len(log')
    BY LogPoints DEF RetryInv, TypeOK, Tidy, Grows
  <2> QED BY <2>1
<1>2. ASSUME NEW a \in Sure(log, try, T) PROVE a \in Sure(log', try', T)
  <2>1. a \in Tries /\ (Bad(log, a, T .. Len(log)) \/ Lost(log, try[a], a, T))
    BY DEF Sure
  <2>2. Bad(log', a, T .. Len(log')) \/ Lost(log', try'[a], a, T)
    BY <1>1, <2>1, BadLasts, LostLasts
  <2> QED BY <2>1, <2>2 DEF Sure
<1> QED BY <1>1, <1>2

-----------------------------------------------------------------------------
\* What the count of a spent budget stands on

LEMMA AloneIs ==
    /\ \A i \in Nat \ {0} : Alone(i) \notin Tries
    /\ \A i, j \in Nat : Alone(i) = Alone(j) => i = j
    /\ \A i \in Nat : Alone(i) - MaxTries = i
BY RetryAssumption DEF Alone, Tries

\* Whose rows are one group: a try's, a failed launch's with the markers before
\* it, or a marker's alone.
LEMMA GroupNames ==
    ASSUME RetryInv, NEW i \in Grouped(log)
    PROVE  LET g == GroupOf(log, i)
               w == log[i].who
               next == Following(log, i)
           IN  \/ g \in Tries /\ (log[i].type \in Child => w = g)
                  /\ \E r \in Grouped(log) : GroupOf(log, r) = g /\ log[r].type \in Child
               \/ log[i].type \in {"launch_failed", "marker"}
                  /\ \E j \in Rows(log, {"launch_failed"}) : g = Alone(j) /\ GroupOf(log, j) = g
               \/ /\ log[i].type = "marker" /\ g = Alone(i) /\ Of(log, w, {"started"}) = {}
                  /\ ~(next # {} /\ log[First(next)].type \in Receipt)
<1> DEFINE g == GroupOf(log, i)
           w == log[i].who
           next == Following(log, i)
<1>0. /\ log \in Seq(RowSet) /\ i \in DOMAIN log
      /\ log[i].type \in Child \union {"marker", "launch_failed"}
  BY DEF RetryInv, TypeOK, Grouped, Rows
<1>a. "marker" \notin Child /\ "launch_failed" \notin Child /\ "started" \in Child
  BY DEF Child
\* The group of a row that is no marker.
<1>1. ASSUME NEW r \in Grouped(log), log[r].type \in Child
      PROVE  GroupOf(log, r) = log[r].who /\ log[r].who \in Tries
  <2>1. r \in Rows(log, Traces \union {"marker"})
    BY <1>1 DEF Rows, Grouped, Traces
  <2>2. log[r].who \in Tries
    BY <2>1 DEF RetryInv, LogFits
  <2> QED BY <1>1, <1>a, <2>2 DEF GroupOf, ReceiptGroup
<1>2. ASSUME NEW r \in Grouped(log), log[r].type = "launch_failed"
      PROVE  GroupOf(log, r) = Alone(r) /\ r \in Rows(log, {"launch_failed"})
  BY <1>2 DEF GroupOf, ReceiptGroup, Grouped, Rows
<1>3. CASE log[i].type \in Child
  BY <1>1, <1>3
<1>4. CASE log[i].type = "launch_failed"
  BY <1>2, <1>4
<1>5. CASE log[i].type = "marker"
  <2>0. g = MarkerGroup(log, i)
    BY <1>5 DEF GroupOf
  <2>1. CASE Of(log, w, {"started"}) # {}
    <3>1. g = w
      BY <2>0, <2>1 DEF MarkerGroup
    <3>2. PICK r \in Of(log, w, {"started"}) : TRUE
      BY <2>1
    <3>3. r \in Grouped(log) /\ log[r].type \in Child /\ log[r].who = w
      BY <1>a DEF Of, Rows, Grouped
    <3>4. GroupOf(log, r) = g /\ g \in Tries
      BY <1>1, <3>1, <3>3
    <3> QED BY <1>5, <1>a, <3>3, <3>4
  <2>2. CASE Of(log, w, {"started"}) = {} /\ next # {} /\ log[First(next)].type \in Receipt
    <3> DEFINE r == First(next)
    <3>1. g = ReceiptGroup(log, r)
      BY <2>0, <2>2 DEF MarkerGroup
    <3>2. next \in SUBSET Nat /\ next \subseteq DOMAIN log
      BY <1>0, LogPoints DEF Following, Rows
    <3>3. r \in next
      BY <2>2, <3>2, FirstIs
    <3>4. r \in DOMAIN log /\ log[r].type \in Receipt
      BY <2>2, <3>2, <3>3
    <3> HIDE DEF r
    <3>5. log[r].type \in Child \/ log[r].type = "launch_failed"
      BY <3>4 DEF Receipt, Real, Child
    <3>6. r \in Grouped(log) /\ log[r].type # "marker"
      BY <1>a, <3>4, <3>5 DEF Grouped, Rows
    <3>7. GroupOf(log, r) = g
      BY <3>1, <3>6 DEF GroupOf
    <3>8. CASE log[r].type \in Child
      BY <1>1, <1>5, <1>a, <3>6, <3>7, <3>8
    <3>9. CASE log[r].type = "launch_failed"
      BY <1>2, <1>5, <3>6, <3>7, <3>9
    <3> QED BY <3>5, <3>8, <3>9
  <2>3. CASE Of(log, w, {"started"}) = {} /\ ~(next # {} /\ log[First(next)].type \in Receipt)
    <3>1. g = Alone(i)
      BY <2>0, <2>3 DEF MarkerGroup
    <3> QED BY <1>5, <2>3, <3>1
  <2> QED BY <2>1, <2>2, <2>3
<1> QED BY <1>0, <1>3, <1>4, <1>5

\* Why a group failed.
LEMMA FailedFor ==
    ASSUME NEW l, NEW g, NEW t, FailedAt(l, g, t) # {}
    PROVE  \/ In(l, g, Real) # {} \/ In(l, g, {"stale"}) # {} \/ EndedEmpty(l, g)
           \/ Unheard(l, g) /\ Expired(l, g, t)
<1> SUFFICES ASSUME In(l, g, Real) = {}, In(l, g, {"stale"}) = {}, ~EndedEmpty(l, g),
                    ~(Unheard(l, g) /\ Expired(l, g, t))
             PROVE  FailedAt(l, g, t) = {}
  OBVIOUS
<1> QED BY DEF FailedAt

\* What a failed group leaves behind: a try's bad rows, a failed launch, or a marker
\* whose try is over, with nothing or out of place.
LEMMA GroupKinds ==
    ASSUME RetryInv, EndsInv, NEW T \in Nat, NEW g,
           NEW i0 \in Grouped(log), g = GroupOf(log, i0), First(Group(log, g)) >= T,
           FailedAt(log, g, now) # {}
    PROVE  \/ g \in Tries /\ Bad(log, g, T .. Len(log))
           \/ \E j \in (T .. Len(log)) \intersect Rows(log, {"launch_failed"}) : g = Alone(j)
           \/ \E j \in (T .. Len(log)) \intersect Rows(log, {"marker"}) :
                 /\ g = Alone(j)
                 /\ ApartIn(log, j) \/ Lost(log, try[log[j].who], log[j].who, T)
<1> DEFINE rows == T .. Len(log)
<1>0. /\ log \in Seq(RowSet) /\ Len(log) \in Nat /\ DOMAIN log = 1 .. Len(log)
      /\ \A i \in DOMAIN log : log[i] \in RowSet
  BY LogPoints DEF RetryInv, TypeOK
<1>a. "marker" \notin Child /\ "launch_failed" \notin Child /\ "started" \in Child
  BY DEF Child
<1>1. Group(log, g) \in SUBSET Nat /\ Group(log, g) \subseteq Grouped(log) /\ i0 \in Group(log, g)
  BY <1>0 DEF Group, Grouped, Rows
<1>2. ASSUME NEW i \in Group(log, g)
      PROVE  i \in rows /\ i \in Grouped(log) /\ GroupOf(log, i) = g
  <2>1. First(Group(log, g)) \in Nat /\ First(Group(log, g)) <= i /\ i \in Nat
    BY <1>1, FirstIs
  <2>2. i \in 1 .. Len(log) /\ i \in Grouped(log) /\ GroupOf(log, i) = g
    BY <1>0 DEF Group, Grouped, Rows
  <2>3. T <= i /\ i <= Len(log)
    BY <2>1, <2>2
  <2> QED BY <1>0, <2>1, <2>2, <2>3
<1> HIDE DEF rows
<1>3. \/ In(log, g, Real) # {} \/ In(log, g, {"stale"}) # {} \/ EndedEmpty(log, g)
      \/ Unheard(log, g) /\ Expired(log, g, now)
  BY FailedFor
<1>4. CASE g \in Tries
  <2>1. ASSUME NEW i \in Group(log, g)
        PROVE  log[i].type \in Child => log[i].who = g
    BY <1>2, <1>a DEF GroupOf, ReceiptGroup
  <2>2. \E r \in Grouped(log) : GroupOf(log, r) = g /\ log[r].type \in Child
    <3>1. \A j \in Rows(log, {"launch_failed"}) : g # Alone(j)
      BY <1>0, <1>4, AloneIs DEF Rows
    <3>2. g # Alone(i0)
      BY <1>0, <1>4, AloneIs DEF Grouped, Rows
    <3> QED BY <3>1, <3>2, GroupNames
  <2>3. ~Unheard(log, g)
    BY <2>2 DEF Unheard, In, Group
  <2>4. CASE In(log, g, Real) # {}
    <3>1. PICK r \in Group(log, g) : log[r].type \in Real
      BY <2>4 DEF In
    <3>2. log[r].type # "launch_failed"
      <4>1. r \in Nat \ {0} /\ GroupOf(log, r) = g
        BY <1>0, <1>2 DEF Grouped, Rows
      <4>2. Alone(r) # g
        BY <1>4, <4>1, AloneIs
      <4> QED BY <4>1, <4>2, <1>a DEF GroupOf, ReceiptGroup
    <3>3. log[r].type \in {"failed", "vanished"} /\ log[r].type \in Child
      BY <3>1, <3>2 DEF Real, Child
    <3>4. r \in Of(log, g, {"failed", "vanished", "stale"}) /\ r \in rows
      BY <1>2, <2>1, <3>3 DEF Of, Rows, Grouped
    <3> QED BY <1>4, <3>4 DEF Bad, rows
  <2>5. CASE In(log, g, {"stale"}) # {}
    <3>1. PICK r \in Group(log, g) : log[r].type = "stale"
      BY <2>5 DEF In
    <3>2. log[r].type \in Child
      BY <3>1 DEF Child
    <3>3. r \in Of(log, g, {"failed", "vanished", "stale"}) /\ r \in rows
      BY <1>2, <2>1, <3>1, <3>2 DEF Of, Rows, Grouped
    <3> QED BY <1>4, <3>3 DEF Bad, rows
  <2>6. CASE EndedEmpty(log, g)
    <3>1. PICK r \in Group(log, g) : log[r].type = "done"
      BY <2>6 DEF In, EndedEmpty
    <3>2. log[r].type \in Child /\ ~HasOutput(log, g)
      BY <2>6, <3>1 DEF Child, EndedEmpty
    <3>3. r \in Of(log, g, {"done"}) /\ r \in rows
      BY <1>2, <2>1, <3>1, <3>2 DEF Of, Rows, Grouped
    <3> QED BY <1>4, <3>2, <3>3 DEF Bad, rows
  <2> QED BY <1>3, <2>3, <2>4, <2>5, <2>6
<1>5. CASE \E j \in Rows(log, {"launch_failed"}) : g = Alone(j) /\ GroupOf(log, j) = g
  <2>1. PICK j \in Rows(log, {"launch_failed"}) : g = Alone(j) /\ GroupOf(log, j) = g
    BY <1>5
  <2>2. j \in Group(log, g)
    BY <2>1 DEF Group, Grouped, Rows
  <2> QED BY <1>2, <2>1, <2>2 DEF rows
<1>6. CASE g \notin Tries /\ ~\E j \in Rows(log, {"launch_failed"}) : g = Alone(j) /\ GroupOf(log, j) = g
  <2> DEFINE w == log[i0].who
             next == Following(log, i0)
  <2>1. /\ log[i0].type = "marker" /\ g = Alone(i0) /\ Of(log, w, {"started"}) = {}
        /\ ~(next # {} /\ log[First(next)].type \in Receipt)
    BY <1>6, GroupNames
  <2>2. ASSUME NEW k \in Group(log, g) PROVE k = i0
    <3>1. k \in Grouped(log) /\ GroupOf(log, k) = g
      BY <1>2
    <3>2. g = Alone(k)
      BY <1>6, <3>1, GroupNames
    <3>3. k \in Nat /\ i0 \in Nat
      BY <1>1
    <3> QED BY <2>1, <3>2, <3>3, AloneIs
  <2>3. Group(log, g) = {i0}
    BY <1>1, <2>2
  <2>4. In(log, g, Real) = {} /\ In(log, g, {"stale"}) = {} /\ In(log, g, {"done"}) = {}
    <3>1. "marker" \notin Real
      BY DEF Real
    <3> QED BY <2>1, <2>3, <3>1 DEF In
  <2>5. Expired(log, g, now)
    BY <1>3, <2>4 DEF EndedEmpty
  <2>6. In(log, g, {"marker"}) = {i0}
    BY <2>1, <2>3 DEF In
  <2>7. First({i0}) = i0
    <3>1. {i0} \in SUBSET Nat
      BY <1>1
    <3> QED BY <3>1, FirstIs
  <2>8. log[i0].at # now
    <3>1. now >= log[i0].at + MarkerCap
      BY <2>5, <2>6, <2>7 DEF Expired, Deadline
    <3>2. log[i0].at \in Nat /\ now \in Nat /\ MarkerCap \in Nat /\ MarkerCap # 0
      <4>1. log[i0] \in RowSet
        BY <1>0 DEF Grouped, Rows
      <4>2. log[i0].at \in Nat
        BY <4>1 DEF RowSet
      <4> QED BY <4>2, RetryAssumption DEF RetryInv, TypeOK
    <3> QED BY <3>1, <3>2
  <2> HIDE DEF w
  <2>9. w \in Tries /\ i0 \in Of(log, w, {"marker"}) /\ i0 \in Rows(log, {"marker"})
    <3>1. i0 \in Rows(log, Traces \union {"marker"}) /\ i0 \in Rows(log, {"marker"})
      BY <2>1 DEF Rows, Grouped
    <3>2. log[i0].who \in Tries
      BY <3>1 DEF RetryInv, LogFits
    <3> QED BY <3>1, <3>2 DEF Of, w
  <2>10. TryFits(log, forked[w], try[w], w) /\ TryEnds(log, try[w], now, w)
    BY <2>9 DEF RetryInv, EndsInv
  <2>11. try[w] = "over"
    <3>1. try[w] \in Places
      BY <2>9 DEF RetryInv, TypeOK
    <3>2. try[w] # "starting" /\ try[w] # "none"
      BY <2>8, <2>9, <2>10 DEF TryFits, TryEnds
    <3>3. try[w] \notin {"running", "closing", "hung"}
      BY <2>1, <2>10 DEF TryFits, w
    <3> QED BY <3>1, <3>2, <3>3 DEF Places
  <2>12. Of(log, w, {"stale", "vanished", "done"}) = {} /\ Of(log, w, {"started"}) = {}
    BY <2>1, <2>10 DEF TryEnds, w
  <2>13. CASE Of(log, w, Receipt) = {}
    <3>1. \A i \in Of(log, w, Child) : i \in Of(log, w, Receipt) \/ i \in Of(log, w, {"started"})
                                       \/ i \in Of(log, w, {"stale", "vanished", "done"})
      BY DEF Of, Rows, Child, Receipt, Real
    <3>2. Of(log, w, Child) = {}
      BY <2>12, <2>13, <3>1
    <3>3. T <= i0
      BY <1>0, <1>1, <1>2 DEF rows
    <3>4. Lost(log, try[w], w, T)
      BY <2>9, <2>11, <3>2, <3>3 DEF Lost
    <3> QED BY <1>1, <1>2, <2>1, <2>9, <3>4 DEF rows, w
  <2>14. CASE Of(log, w, Receipt) # {}
    <3> DEFINE later == After(log, i0)
               r == First(later)
    <3>1. ASSUME later # {}, log[r].who = w PROVE FALSE
      <4>1. later \in SUBSET Nat
        BY <1>0 DEF After, Grouped, Rows
      <4>2. r \in later /\ \A j \in later : r <= j
        BY <3>1, <4>1, FirstIs
      <4>3. /\ r \in DOMAIN log /\ r > i0 /\ r \in Nat
            /\ log[r].type \in Child \union {"marker", "launch_failed"}
        <5>1. r \in Grouped(log) /\ r > i0
          BY <4>2 DEF After
        <5> HIDE DEF r
        <5>2. r \in DOMAIN log /\ log[r].type \in Child \union {"marker", "launch_failed"}
          BY <5>1 DEF Grouped, Rows
        <5> QED BY <1>0, <5>1, <5>2
      <4> HIDE DEF r
      <4>4. log[r].type # "marker"
        <5> SUFFICES ASSUME log[r].type = "marker" PROVE FALSE
          OBVIOUS
        <5>1. r \in Of(log, w, {"marker"})
          BY <3>1, <4>3 DEF Of, Rows
        <5>2. r = i0
          BY <2>9, <2>10, <5>1 DEF TryEnds
        <5>3. i0 \in Nat
          BY <1>1
        <5> QED BY <4>3, <5>2, <5>3
      <4>5. log[r].type # "launch_failed"
        <5> SUFFICES ASSUME log[r].type = "launch_failed" PROVE FALSE
          OBVIOUS
        <5>1. r \in Rows(log, {"launch_failed"})
          BY <4>3 DEF Rows
        <5>2. log[r].who \notin Tries
          BY <5>1 DEF EndsInv
        <5> QED BY <2>9, <3>1, <5>2
      <4>6. log[r].type \notin {"started", "stale", "vanished", "done"}
        BY <2>12, <3>1, <4>3 DEF Of, Rows
      <4>7. log[r].type \in {"failed", "refused"}
        BY <4>3, <4>4, <4>5, <4>6 DEF Child
      <4>8. log[r].type \in Receipt
        BY <4>7 DEF Receipt, Real
      <4>9. next \subseteq later
        BY DEF Following, After, Rows, Grouped, Receipt, Real, Child
      <4>10. r \in next
        BY <4>3, <4>8 DEF Following, Rows
      <4>11. First(next) = r
        <5>1. next \in SUBSET Nat
          BY <4>1, <4>9
        <5>2. First(next) \in next /\ \A j \in next : First(next) <= j
          BY <4>10, <5>1, FirstIs
        <5>3. First(next) <= r /\ r <= First(next) /\ First(next) \in Nat
          BY <4>2, <4>9, <4>10, <5>1, <5>2
        <5> QED BY <4>3, <5>3
      <4> QED BY <2>1, <4>8, <4>10, <4>11
    <3>2. ApartIn(log, i0)
      BY <2>14, <3>1 DEF ApartIn, w
    <3> QED BY <1>1, <1>2, <2>1, <2>9, <3>2 DEF rows
  <2> QED BY <2>13, <2>14
<1> QED BY <1>4, <1>5, <1>6

\* A spent budget is one whose failures went wrong on their own account: each try
\* that failed, each failed launch and each marker apart counts once.
LEMMA CountEarned ==
    ASSUME RetryInv, EndsInv, Choice(log, now) = "escalate"
    PROVE  Enough(log, Sure(log, try, Trigger(log)), Trigger(log) .. Len(log))
<1> DEFINE T == Trigger(log)
           rows == T .. Len(log)
           S == Sure(log, try, T)
           A == rows \intersect Rows(log, {"launch_failed"})
           B == {m \in rows \intersect Rows(log, {"marker"}) : ApartIn(log, m)}
           F == Failures(log, now)
           alone == [i \in rows |-> Alone(i)]
           A2 == {alone[i] : i \in A}
           B2 == {alone[i] : i \in B}
           U == S \union (A2 \union B2)
           key(g) == IF g \in U THEN g ELSE log[g - MaxTries].who
<1>0. /\ log \in Seq(RowSet) /\ Len(log) \in Nat /\ T \in Nat /\ T > 0 /\ Limit \in Nat
      /\ DOMAIN log = 1 .. Len(log)
  <2>1. log \in Seq(RowSet) /\ Len(log) \in Nat /\ DOMAIN log = 1 .. Len(log) /\ Limit \in Nat
    BY RetryAssumption, LogPoints DEF RetryInv, TypeOK
  <2>2. T \in TriggersOf(log)
    BY <2>1, TriggerIs DEF RetryInv
  <2>3. T \in 1 .. Len(log)
    BY <2>1, <2>2 DEF TriggersOf, Rows
  <2>4. T \in Nat /\ T > 0
    BY <2>1, <2>3
  <2> QED BY <2>1, <2>4
<1> HIDE DEF T
<1>1. Cardinality(F) >= Limit
  <2>1. ~Idles(log, now) /\ Exhausted(log, now)
    <3>1. CASE Idles(log, now)
      <4>1. Choice(log, now) = "idle"
        BY <3>1 DEF Choice
      <4> QED BY <4>1
    <3>2. CASE ~Idles(log, now) /\ ~Exhausted(log, now)
      <4>1. Choice(log, now) \in {"idle", "launch"}
        BY <3>2 DEF Choice
      <4> QED BY <4>1
    <3> QED BY <3>1, <3>2
  <2> QED BY <2>1 DEF Exhausted, Failed
<1>2. IsFiniteSet(F)
  BY <1>0, FailuresFinite
<1>3. rows \subseteq Nat \ {0}
  BY <1>0
\* Each failure is of one kind.
<1>4. ASSUME NEW f \in F
      PROVE  /\ f = [group |-> f.group, at |-> f.at] /\ f.at \in FailedAt(log, f.group, now)
             /\ \/ f.group \in Tries /\ Bad(log, f.group, rows)
                \/ \E j \in A : f.group = Alone(j)
                \/ \E j \in rows \intersect Rows(log, {"marker"}) :
                      /\ f.group = Alone(j)
                      /\ ApartIn(log, j) \/ Lost(log, try[log[j].who], log[j].who, T)
  <2>1. PICK g \in Current(log) : \E at \in FailedAt(log, g, now) : f = [group |-> g, at |-> at]
    BY DEF Failures
  <2>2. PICK at \in FailedAt(log, g, now) : f = [group |-> g, at |-> at]
    BY <2>1
  <2>3. f.group = g /\ f.at = at
    BY <2>2
  <2>4. PICK i0 \in Grouped(log) : g = GroupOf(log, i0)
    BY DEF Current
  <2>5. First(Group(log, g)) >= T /\ FailedAt(log, g, now) # {}
    BY <2>2 DEF Current, T
  <2>6. \/ g \in Tries /\ Bad(log, g, rows)
        \/ \E j \in A : g = Alone(j)
        \/ \E j \in rows \intersect Rows(log, {"marker"}) :
              g = Alone(j) /\ (ApartIn(log, j) \/ Lost(log, try[log[j].who], log[j].who, T))
    BY <1>0, <2>4, <2>5, GroupKinds
  <2> QED BY <2>2, <2>3, <2>6
<1>5. A2 = {Alone(i) : i \in A} /\ B2 = {Alone(i) : i \in B} /\ A \subseteq rows /\ B \subseteq rows
  OBVIOUS
<1>a. S \subseteq Tries /\ \A a \in Tries : Bad(log, a, rows) \/ Lost(log, try[a], a, T) => a \in S
  BY DEF Sure
<1>b. A \subseteq Rows(log, {"launch_failed"}) /\ B \subseteq Rows(log, {"marker"})
  OBVIOUS
<1>c. DOMAIN alone = rows
  OBVIOUS
<1>d. \A m \in rows \intersect Rows(log, {"marker"}) : ApartIn(log, m) => m \in B
  OBVIOUS
<1> HIDE DEF S, A, B, A2, B2, F, rows, alone
<1>6. ASSUME NEW f \in F, f.group \notin U
      PROVE  \E m \in Rows(log, {"marker"}) :
                /\ m \in Nat /\ f.group = Alone(m) /\ key(f.group) = log[m].who
                /\ log[m].who \in S /\ Lost(log, try[log[m].who], log[m].who, T)
  <2>1. ~(f.group \in Tries /\ Bad(log, f.group, rows))
    BY <1>6, <1>a
  <2>2. ~\E j \in A : f.group = Alone(j)
    BY <1>5, <1>6
  <2>3. PICK m \in rows \intersect Rows(log, {"marker"}) :
           /\ f.group = Alone(m)
           /\ ApartIn(log, m) \/ Lost(log, try[log[m].who], log[m].who, T)
    BY <1>4, <2>1, <2>2
  <2>4. ~ApartIn(log, m)
    BY <1>5, <1>6, <1>d, <2>3
  <2>5. Lost(log, try[log[m].who], log[m].who, T)
    BY <2>3, <2>4
  <2>6. m \in Nat
    BY <1>3, <2>3
  <2>7. key(f.group) = log[m].who
    <3>1. f.group - MaxTries = m
      BY <2>3, <2>6, AloneIs
    <3> QED BY <1>6, <3>1
  <2>8. log[m].who \in Tries
    BY <2>3 DEF RetryInv, LogFits, Rows
  <2>9. log[m].who \in S
    BY <1>a, <2>5, <2>8
  <2> QED BY <2>3, <2>5, <2>6, <2>7, <2>9
<1>7. \A f \in F : key(f.group) \in U
  BY <1>6
\* So no two have one key.
<1>8. ASSUME NEW f \in F, NEW h \in F, f.group \in U, h.group \notin U,
             key(f.group) = key(h.group)
      PROVE  FALSE
  <2>1. PICK m \in Rows(log, {"marker"}) :
           /\ m \in Nat /\ h.group = Alone(m) /\ key(h.group) = log[m].who
           /\ log[m].who \in S /\ Lost(log, try[log[m].who], log[m].who, T)
    BY <1>6, <1>8
  <2>2. f.group = log[m].who /\ f.group \in Tries
    BY <1>8, <1>a, <2>1
  <2>3. \A j \in Nat \ {0} : f.group # Alone(j)
    BY <2>2, AloneIs
  <2>4. A \subseteq Nat \ {0}
    BY <1>3, <1>5
  <2>5. Bad(log, f.group, rows)
    BY <1>3, <1>4, <2>3, <2>4
  <2>6. Of(log, f.group, Child) # {}
    BY <2>5 DEF Bad, Of, Rows, Child
  <2>7. Of(log, f.group, Child) = {}
    BY <2>1, <2>2 DEF Lost
  <2> QED BY <2>6, <2>7
<1>9. ASSUME NEW f \in F, NEW h \in F, f.group \notin U, h.group \notin U,
             key(f.group) = key(h.group)
      PROVE  f.group = h.group
  <2>1. PICK m \in Rows(log, {"marker"}) :
           m \in Nat /\ f.group = Alone(m) /\ key(f.group) = log[m].who /\ log[m].who \in S
    BY <1>6, <1>9
  <2>2. PICK n \in Rows(log, {"marker"}) :
           n \in Nat /\ h.group = Alone(n) /\ key(h.group) = log[n].who
    BY <1>6, <1>9
  <2>3. log[m].who = log[n].who /\ log[m].who \in Tries
    BY <1>9, <1>a, <2>1, <2>2
  <2>4. m \in Of(log, log[m].who, {"marker"}) /\ n \in Of(log, log[m].who, {"marker"})
    BY <2>3 DEF Of
  <2>5. m = n
    BY <2>3, <2>4 DEF EndsInv, TryEnds
  <2> QED BY <2>1, <2>2, <2>5
<1>10. ASSUME NEW f \in F, NEW h \in F, key(f.group) = key(h.group) PROVE f = h
  <2>1. f.group = h.group
    <3>1. CASE f.group \in U /\ h.group \in U
      BY <1>10, <3>1
    <3>2. CASE f.group \in U /\ h.group \notin U
      BY <1>8, <1>10, <3>2
    <3>3. CASE f.group \notin U /\ h.group \in U
      BY <1>8, <1>10, <3>3
    <3>4. CASE f.group \notin U /\ h.group \notin U
      BY <1>9, <1>10, <3>4
    <3> QED BY <3>1, <3>2, <3>3, <3>4
  <2>2. f.at \in FailedAt(log, f.group, now) /\ h.at \in FailedAt(log, f.group, now)
    BY <1>4, <2>1
  <2>3. f.at = h.at
    BY <2>2, FailedOnce
  <2>4. f = [group |-> f.group, at |-> f.at] /\ h = [group |-> h.group, at |-> h.at]
    BY <1>4
  <2> QED BY <2>1, <2>3, <2>4
\* The sizes.
<1>11. IsFiniteSet(S) /\ Cardinality(S) \in Nat
  BY <1>a, TriesFinite
<1>12. IsFiniteSet(A) /\ Cardinality(A) \in Nat /\ IsFiniteSet(B) /\ Cardinality(B) \in Nat
  BY <1>0, <1>b, RowsFinite
<1>13. /\ IsFiniteSet(A2) /\ Cardinality(A2) \in Nat /\ Cardinality(A2) <= Cardinality(A)
       /\ IsFiniteSet(B2) /\ Cardinality(B2) \in Nat /\ Cardinality(B2) <= Cardinality(B)
  <2>1. ASSUME NEW X, X \subseteq rows, IsFiniteSet(X), NEW Y, Y = {alone[i] : i \in X}
        PROVE  IsFiniteSet(Y) /\ Cardinality(Y) <= Cardinality(X)
    <3> DEFINE f == [i \in X |-> alone[i]]
    <3>1. f \in [X -> Y] /\ \A y \in Y : \E i \in X : f[i] = y
      BY <2>1
    <3>2. f \in Surjection(X, Y)
      BY <3>1 DEF Surjection
    <3> HIDE DEF f
    <3> QED BY <2>1, <3>2, FS_Surjection
  <2>2. IsFiniteSet(A2) /\ Cardinality(A2) <= Cardinality(A)
    BY <1>5, <1>12, <2>1 DEF A2
  <2>3. IsFiniteSet(B2) /\ Cardinality(B2) <= Cardinality(B)
    BY <1>5, <1>12, <2>1 DEF B2
  <2> QED BY <2>2, <2>3, FS_CardinalityType
<1>14. IsFiniteSet(U) /\ Cardinality(U) \in Nat
       /\ Cardinality(U) <= Cardinality(S) + Cardinality(A) + Cardinality(B)
  <2> DEFINE V == A2 \union B2
  <2>1. IsFiniteSet(V) /\ Cardinality(V) = Cardinality(A2) + Cardinality(B2) - Cardinality(A2 \intersect B2)
    BY <1>13, FS_Union
  <2>2. Cardinality(A2 \intersect B2) \in Nat
    BY <1>13, FS_Intersection, FS_CardinalityType
  <2>3. Cardinality(V) \in Nat
    BY <2>1, FS_CardinalityType
  <2> HIDE DEF V
  <2>4. IsFiniteSet(S \union V)
        /\ Cardinality(S \union V) = Cardinality(S) + Cardinality(V) - Cardinality(S \intersect V)
    BY <1>11, <2>1, FS_Union
  <2>5. Cardinality(S \intersect V) \in Nat /\ Cardinality(S \union V) \in Nat
    BY <1>11, <2>1, <2>4, FS_Intersection, FS_CardinalityType
  <2>6. Cardinality(S \union V) <= Cardinality(S) + Cardinality(A) + Cardinality(B)
    BY <1>11, <1>12, <1>13, <2>1, <2>2, <2>3, <2>4, <2>5
  <2> QED BY <2>4, <2>5, <2>6 DEF V
<1>15. Cardinality(F) <= Cardinality(U)
  <2> DEFINE f == [x \in F |-> key(x.group)]
  <2> HIDE DEF key, U
  <2>1. f \in [F -> U]
    BY <1>7
  <2>2. \A x, y \in F : f[x] = f[y] => x = y
    BY <1>10
  <2> HIDE DEF f
  <2>3. f \in Injection(F, U)
    BY <2>1, <2>2 DEF Injection, IsInjective
  <2> QED BY <1>14, <2>3, FS_Injection
<1>16. Cardinality(F) \in Nat
  BY <1>2, FS_CardinalityType
<1> HIDE DEF U, key
<1>17. Limit <= Cardinality(S) + Cardinality(A) + Cardinality(B)
  BY <1>0, <1>1, <1>11, <1>12, <1>14, <1>15, <1>16
<1> QED BY <1>17 DEF Enough, S, A, B, rows, T

LEMMA EnoughMore ==
    ASSUME NEW l, NEW S, NEW more, NEW rows, S \subseteq more, more \subseteq Tries,
           NEW A, A = rows \intersect Rows(l, {"launch_failed"}), Cardinality(A) \in Nat,
           NEW B, B = {m \in rows \intersect Rows(l, {"marker"}) : ApartIn(l, m)},
           Cardinality(B) \in Nat, Enough(l, S, rows)
    PROVE  Enough(l, more, rows)
<1>1. Limit <= Cardinality(S) + Cardinality(A) + Cardinality(B)
  BY DEF Enough
<1>2. Cardinality(S) \in Nat /\ Cardinality(more) \in Nat /\ Cardinality(S) <= Cardinality(more)
  BY Smaller
<1>3. Limit <= Cardinality(more) + Cardinality(A) + Cardinality(B)
  BY RetryAssumption, <1>1, <1>2
<1> QED BY <1>3 DEF Enough

\* A tick escalates what it has read.
LEMMA Escalating ==
    ASSUME RetryInv, [Next]_vars, tick'.pc = "escalate"
    PROVE  \/ Choice(log, now) = "escalate" /\ tick'.trigger = Trigger(log)
           \/ tick' = tick
<1>0. tick \in TickSet
  BY DEF RetryInv, TypeOK
<1>1. CASE TickBegin
  <2> DEFINE choice == Choice(log, now)
  <2>1. tick' = IF choice = "idle" THEN Idle
                ELSE [Idle EXCEPT !.pc = choice, !.trigger = Trigger(log), !.at = now]
    BY <1>1 DEF TickBegin
  <2> HIDE DEF choice
  <2>2. choice # "idle"
    BY <2>1 DEF Idle
  <2>3. tick'.pc = choice /\ tick'.trigger = Trigger(log)
    BY <2>1, <2>2 DEF Idle
  <2> QED BY <2>3 DEF choice
<1>2. CASE Escalate \/ LaunchFails \/ Mark \/ TickDie
  <2>1. tick'.pc = "idle"
    BY <1>2 DEF Escalate, LaunchFails, Mark, TickDie, Idle
  <2> QED BY <2>1
<1>3. CASE Fork
  <2>1. tick'.pc = "forked"
    BY <1>3 DEF Fork, Idle
  <2> QED BY <2>1
<1>4. CASE Manual
  BY <1>4 DEF Manual
<1>5. ASSUME NEW a \in Tries,
             Start(a) \/ Refuse(a) \/ Fail(a) \/ Output(a) \/ Close(a) \/ Empty(a) \/ Vanish(a) \/ Hang(a)
      PROVE  tick' = tick
  BY <1>5 DEF Start, Refuse, Fail, Output, Close, Empty, Vanish, Hang, Step
<1>6. CASE Rewrite \/ Release \/ Clock \/ UNCHANGED vars
  BY <1>6 DEF Rewrite, Release, Clock, vars
<1> QED BY <1>1, <1>2, <1>3, <1>4, <1>5, <1>6 DEF Next, Done

LEMMA EarnStart == Init => EarnInv
<1> SUFFICES ASSUME Init PROVE EarnInv
  OBVIOUS
<1>1. \A i \in DOMAIN log : log[i].type = "spec"
  BY DEF Init
<1>2. Rows(log, {"escalated"}) = {}
  BY <1>1 DEF Rows
<1>3. tick.pc # "escalate"
  BY DEF Init, Idle
<1> QED BY <1>2, <1>3 DEF EarnInv, EarnedIn

LEMMA EarnStep ==
    RetryInv /\ RetryInv' /\ EndsInv /\ EndsInv' /\ EarnInv /\ [Next]_vars => EarnInv'
<1> SUFFICES ASSUME RetryInv, RetryInv', EndsInv, EndsInv', EarnInv, [Next]_vars PROVE EarnInv'
  OBVIOUS
<1>1. Tidy
  BY StepTidy
<1>2. /\ log \in Seq(RowSet) /\ log' \in Seq(RowSet) /\ Grows(log, log')
      /\ Len(log) \in Nat /\ DOMAIN log = 1 .. Len(log) /\ DOMAIN log' = 1 .. Len(log')
      /\ tick \in TickSet
  BY <1>1, LogPoints DEF RetryInv, TypeOK, Tidy
\* What is enough for a trigger stays so.
<1>3. ASSUME NEW T \in Nat, Enough(log, Sure(log, try, T), T .. Len(log))
      PROVE  Enough(log', Sure(log', try', T), T .. Len(log'))
  <2>1. /\ Sure(log, try, T) \subseteq Sure(log', try', T)
        /\ T .. Len(log) \subseteq T .. Len(log')
    BY <1>1, SureLasts
  <2>2. Sure(log', try', T) \subseteq Tries
    BY DEF Sure
  <2> QED BY <1>1, <1>3, <2>1, <2>2, EnoughLasts
<1>4. tick'.pc = "escalate" =>
         Enough(log', Sure(log', try', tick'.trigger), tick'.trigger .. Len(log'))
  <2> SUFFICES ASSUME tick'.pc = "escalate"
               PROVE  Enough(log', Sure(log', try', tick'.trigger), tick'.trigger .. Len(log'))
    OBVIOUS
  <2>1. CASE Choice(log, now) = "escalate" /\ tick'.trigger = Trigger(log)
    <3>1. Enough(log, Sure(log, try, Trigger(log)), Trigger(log) .. Len(log))
      BY <2>1, CountEarned
    <3>2. Trigger(log) \in Nat
      BY <1>2, TriggerIs DEF RetryInv, TriggersOf, Rows
    <3> QED BY <1>3, <2>1, <3>1, <3>2
  <2>2. CASE tick' = tick
    <3>1. tick.pc = "escalate" /\ tick.trigger \in Nat
      BY <1>2, <2>2 DEF TickSet
    <3>2. Enough(log, Sure(log, try, tick.trigger), tick.trigger .. Len(log))
      BY <3>1 DEF EarnInv
    <3> QED BY <1>3, <2>2, <3>1, <3>2
  <2> QED BY <2>1, <2>2, Escalating
<1>5. ASSUME NEW h \in Rows(log', {"escalated"})
      PROVE  Enough(log', {a \in Tries : WrongIn(log', a, log'[h].who .. h)}, log'[h].who .. h)
  <2>1. CASE h \in Rows(log, {"escalated"})
    <3> DEFINE rows == log[h].who .. h
               S == {a \in Tries : WrongIn(log, a, rows)}
               S2 == {a \in Tries : WrongIn(log', a, rows)}
    <3>1. h \in 1 .. Len(log) /\ log'[h] = log[h]
      BY <1>2, <2>1 DEF Rows, Grows
    <3>2. \A i \in rows : ~(i > Len(log))
      <4>1. log[h].who \in Nat
        BY <1>2, <3>1, LogPoints DEF RowSet
      <4> QED BY <1>2, <3>1, <4>1
    <3>3. Enough(log, S, rows)
      BY <2>1 DEF EarnInv, EarnedIn
    <3> HIDE DEF rows
    <3>4. S \subseteq S2 /\ S2 \subseteq Tries
      BY <1>1, <3>2, WrongLasts
    <3> HIDE DEF S, S2
    <3>5. Enough(log', S2, rows)
      BY <1>1, <3>3, <3>4, EnoughLasts
    <3> QED BY <3>1, <3>5 DEF S2, rows
  <2>2. CASE h \notin Rows(log, {"escalated"})
    <3> DEFINE T == tick.trigger
               rows == T .. Len(log')
               S == Sure(log', try', T)
               S2 == {a \in Tries : WrongIn(log', a, rows)}
               A == rows \intersect Rows(log', {"launch_failed"})
               B == {m \in rows \intersect Rows(log', {"marker"}) : ApartIn(log', m)}
    <3>1. h > Len(log)
      BY <1>2, <2>2, GrowsRows
    <3>2. h = Len(log') /\ tick.pc = "escalate" /\ log'[h].who = T
      BY <1>1, <3>1 DEF Tidy
    <3>3. T \in Nat
      BY <1>2 DEF TickSet
    <3>4. Enough(log', S, rows)
      BY <1>3, <3>2, <3>3 DEF EarnInv
    <3>5. \A i \in Rows(log', {"launch_failed"}) : log'[i].who \notin Tries
      BY DEF EndsInv
    <3>6. \A a \in S : WrongIn(log', a, rows)
      BY <1>2, <3>3, <3>5, SureIsWrong
    <3>7. S \subseteq S2 /\ S2 \subseteq Tries
      BY <3>6 DEF Sure
    <3>8. A \subseteq Rows(log', {"launch_failed"}) /\ B \subseteq Rows(log', {"marker"})
      OBVIOUS
    <3>9. A = rows \intersect Rows(log', {"launch_failed"})
          /\ B = {m \in rows \intersect Rows(log', {"marker"}) : ApartIn(log', m)}
      OBVIOUS
    <3> HIDE DEF S, S2, rows, A, B, T
    <3>10. Cardinality(A) \in Nat /\ Cardinality(B) \in Nat
      BY <1>2, <3>8, RowsFinite
    <3>11. Enough(log', S2, rows)
      BY <3>4, <3>7, <3>9, <3>10, EnoughMore
    <3> QED BY <3>2, <3>11 DEF S2, rows
  <2> QED BY <2>1, <2>2
<1>6. EarnedIn(log')
  BY <1>5 DEF EarnedIn
<1> QED BY <1>4, <1>6 DEF EarnInv

\* An escalation is earned: between the trigger it is about and its row, as many
\* dispatches, failed launches and markers out of place as the budget has went wrong,
\* and none of them is taken back later (attempts._marker_groups, attempts.history,
\* tick._record_retry_exhaustion).
THEOREM EscalationEarnedHolds == Spec => []EscalationEarned
<1>1. Init => RetryInv /\ EndsInv /\ EarnInv
  BY RetryStart, EndsStart, EarnStart
<1>2. RetryInv /\ EndsInv /\ EarnInv /\ [Next]_vars => (RetryInv /\ EndsInv /\ EarnInv)'
  <2>1. RetryInv /\ EndsInv /\ EarnInv /\ [Next]_vars => RetryInv' /\ EndsInv'
    BY RetryStep, EndsStep
  <2> QED BY <2>1, EarnStep
<1>3. EarnInv => EscalationEarned
  BY EarnedIs DEF EarnInv
<1> QED BY <1>1, <1>2, <1>3, PTL DEF Spec
-----------------------------------------------------------------------------
\* How long the log is silent

\* Rows have the times of their appends.
RowTimes ==
    /\ Last(log).at <= now
    /\ \A i \in DOMAIN log : log[i].at <= Last(log).at

\* A waiter runs no longer than its span, and closes after its output.
TryTimes ==
    \A a \in Tries : /\ Is(a, {"running"}) => now <= StartOf(a) + Span
                     /\ Is(a, {"closing"}) => Of(log, a, {"output"}) # {}

\* A pass acts in time, and escalates what has not been escalated.
PassFits ==
    /\ tick.pc \in {"launch", "escalate"} => tick.at <= now /\ now <= tick.at + PassSpan
    /\ tick.pc = "escalate" =>
          /\ tick.trigger <= Len(log)
          /\ \A h \in Rows(log, {"escalated"}) : log[h].who # tick.trigger
    /\ \A h \in Rows(log, {"escalated"}) : log[h].who < h

\* How long after the last row the tick is where it is: when it has found nothing
\* to do, something is still to come.
Grace == deaths * (PassSpan + 1)
Limited ==
    LET limit == Last(log).at + Pause + Grace IN
    /\ tick.pc = "idle" => now <= limit /\ (ticked => now < limit)
    /\ tick.pc \in {"launch", "escalate"} => tick.at <= limit
    /\ tick.pc = "forked" => now <= limit + PassSpan

SilentInv == RowTimes /\ TryTimes /\ PassFits /\ (Settled \/ Limited)

\* What a step adds has the time of the step, and time stands still.
Adds(types) ==
    \A i \in DOMAIN log' :
        i > Len(log) => log'[i].at = now /\ now' = now /\ log'[i].type \in types

LEMMA PauseIs == Pause \in Nat /\ Pause >= MarkerCap + Longest /\ Pause >= Span + 1 /\ Longest \in Nat
<1>1. Longest \in Nat
  <2>1. Limit # 1 => Limit - 1 \in 1 .. Limit - 1
    BY RetryAssumption
  <2> QED BY <2>1, RetryAssumption DEF Longest
<1> DEFINE x == MarkerCap + Longest
           y == Span + 1
<1>2. x \in Nat /\ y \in Nat
  BY <1>1, RetryAssumption
<1> HIDE DEF x, y
<1>3. \E m \in {x, y} : \A n \in {x, y} : m >= n
  BY <1>2
<1>4. Max({x, y}) \in {x, y} /\ \A n \in {x, y} : Max({x, y}) >= n
  BY <1>3 DEF Max
<1>5. Pause = Max({x, y})
  BY DEF Pause, x, y
<1> QED BY <1>1, <1>2, <1>4, <1>5 DEF x, y

LEMMA GraceIs ==
    ASSUME deaths \in Nat
    PROVE  Grace \in Nat /\ (deaths' = deaths + 1 => Grace' = Grace + PassSpan + 1)
<1>1. ASSUME NEW d \in Nat, NEW p \in Nat
      PROVE  d * (p + 1) \in Nat /\ (d + 1) * (p + 1) = d * (p + 1) + p + 1
  BY <1>1
<1>2. PassSpan \in Nat
  BY RetryAssumption
<1> QED BY <1>1, <1>2 DEF Grace

\* The last of a spec's rows: there is one.
LEMMA LastIs ==
    ASSUME NEW l \in Seq(RowSet), LogFits(l)
    PROVE  Len(l) \in Nat /\ Len(l) >= 1 /\ Last(l) = l[Len(l)] /\ Last(l).at \in Nat
<1>1. PICK i \in Rows(l, {"spec"}) : TRUE
  BY DEF LogFits
<1>2. Len(l) \in Nat /\ DOMAIN l = 1 .. Len(l) /\ i \in DOMAIN l
      /\ \A j \in DOMAIN l : l[j] \in RowSet
  BY LogPoints DEF Rows
<1>3. Len(l) >= 1 /\ Len(l) \in DOMAIN l
  BY <1>2
<1>4. l[Len(l)].at \in Nat
  BY <1>2, <1>3 DEF RowSet
<1> QED BY <1>2, <1>3, <1>4 DEF Last

LEMMA WriteAdds ==
    ASSUME TypeOK, NEW type \in RowType, NEW who \in Nat, Write(type, who), now' = now
    PROVE  Adds({type}) /\ Len(log') > Len(log)
<1> DEFINE e == Row(type, who)
<1>1. e \in RowSet /\ e.type = type /\ e.at = now /\ log' = Append(log, e) /\ log \in Seq(RowSet)
  BY RowIs DEF Row, Write, TypeOK
<1> HIDE DEF e
<1>2. Len(log') = Len(log) + 1 /\ log'[Len(log) + 1] = e /\ Len(log) \in Nat
      /\ DOMAIN log' = 1 .. Len(log')
  BY <1>1, LogAppends, LogPoints
<1>3. \A i \in DOMAIN log' : i > Len(log) => i = Len(log) + 1
  BY <1>2
<1> QED BY <1>1, <1>2, <1>3 DEF Adds

LEMMA QuietAdds ==
    ASSUME TypeOK, log' = log, NEW types
    PROVE  Adds(types)
<1>1. Len(log) \in Nat /\ DOMAIN log = 1 .. Len(log)
  BY LogPoints DEF TypeOK
<1> QED BY <1>1 DEF Adds

LEMMA AddsMore ==
    ASSUME NEW types, NEW more, types \subseteq more, Adds(types)
    PROVE  Adds(more)
BY DEF Adds

Plain == RowType \ {"escalated"}

LEMMA PlainTypes ==
    /\ Plain = {"spec", "release", "launch_failed", "marker", "started", "failed",
                "vanished", "refused", "stale", "done", "output"}
    /\ Plain \subseteq RowType /\ "escalated" \in RowType /\ "escalated" \notin Plain
BY DEF Plain, RowType

\* Only a pass escalates.
LEMMA StepRows ==
    RetryInv /\ EndsInv /\ [Next]_vars => Adds(Plain) \/ (Escalate /\ Adds(RowType))
<1> SUFFICES ASSUME RetryInv, EndsInv, [Next]_vars
             PROVE  Adds(Plain) \/ (Escalate /\ Adds(RowType))
  OBVIOUS
<1>0. /\ TypeOK /\ TickFits /\ \A a \in Tries : TryFits(log, forked[a], try[a], a)
      /\ Tries \subseteq Nat /\ 0 \in Nat /\ tick \in TickSet
  BY RetryAssumption DEF RetryInv, TypeOK, Tries
<1>w. ASSUME NEW type \in Plain, NEW who \in Nat, Write(type, who), now' = now PROVE Adds(Plain)
  <2>1. type \in RowType
    BY PlainTypes
  <2>2. Adds({type})
    BY <1>0, <1>w, <2>1, WriteAdds
  <2> QED BY <2>2, AddsMore
<1>1. CASE TickBegin
  <2> DEFINE m == log \o SetToSeq(Reconciled)
  <2>1. log' = m /\ now' = now
    BY <1>1 DEF TickBegin
  <2>2. \A i \in DOMAIN m : i > Len(log) => m[i] \in Reconciled
    BY <1>0, ReconciledLog
  <2>3. \A e \in Reconciled : e.at = now /\ e.type \in {"vanished", "stale"}
    BY <1>0, ReconciledIs
  <2> HIDE DEF m
  <2>4. Adds({"vanished", "stale"})
    BY <2>1, <2>2, <2>3 DEF Adds
  <2>5. {"vanished", "stale"} \subseteq Plain
    BY PlainTypes
  <2> QED BY <2>4, <2>5, AddsMore
<1>2. CASE Escalate
  <2>1. CASE log' = log
    BY <1>0, <2>1, QuietAdds
  <2>2. CASE log' # log
    <3>1. Write("escalated", tick.trigger) /\ now' = now /\ tick.trigger \in Nat
      BY <1>0, <1>2, <2>2 DEF Escalate, TickSet
    <3>2. Adds({"escalated"})
      BY <1>0, <3>1, PlainTypes, WriteAdds
    <3>3. {"escalated"} \subseteq RowType
      BY PlainTypes
    <3> QED BY <1>2, <3>2, <3>3, AddsMore
  <2> QED BY <2>1, <2>2
<1>3. CASE LaunchFails
  <2>1. Write("launch_failed", 0) /\ now' = now
    BY <1>3 DEF LaunchFails
  <2> QED BY <1>0, <1>w, <2>1, PlainTypes
<1>4. CASE Mark
  <2>1. Write("marker", tick.fork) /\ now' = now
    BY <1>4 DEF Mark
  <2>2. tick.fork \in Nat
    BY <1>0 DEF TickSet
  <2> QED BY <1>w, <2>1, <2>2, PlainTypes
<1>5. CASE Fork \/ TickDie \/ Manual \/ Clock \/ UNCHANGED vars
  <2>1. log' = log
    BY <1>5 DEF Fork, TickDie, Manual, Clock, vars
  <2> QED BY <1>0, <2>1, QuietAdds
<1>6. ASSUME NEW a \in Tries, Vanish(a) \/ Hang(a) PROVE Adds(Plain)
  <2>1. log' = log
    BY <1>6 DEF Vanish, Hang
  <2> QED BY <1>0, <2>1, QuietAdds
<1>7. ASSUME NEW a \in Tries,
             Start(a) \/ Refuse(a) \/ Fail(a) \/ Output(a) \/ Close(a) \/ Empty(a)
      PROVE  Adds(Plain)
  <2>1. \E type \in {"started", "refused", "failed", "output", "done"} : Write(type, a)
    BY <1>7 DEF Start, Refuse, Fail, Output, Close, Empty, Step
  <2>2. now' = now
    BY <1>7 DEF Start, Refuse, Fail, Output, Close, Empty, Step
  <2>3. PICK type \in {"started", "refused", "failed", "output", "done"} : Write(type, a)
    BY <2>1
  <2>4. type \in Plain /\ a \in Nat
    BY <1>0, PlainTypes
  <2> QED BY <1>w, <2>2, <2>3, <2>4
<1>8. CASE Rewrite
  <2>1. Write("spec", 0) /\ now' = now
    BY <1>8 DEF Rewrite
  <2> QED BY <1>0, <1>w, <2>1, PlainTypes
<1>9. CASE Release
  <2>1. Write("release", 0) /\ now' = now
    BY <1>9 DEF Release
  <2> QED BY <1>0, <1>w, <2>1, PlainTypes
<1> QED BY <1>1, <1>2, <1>3, <1>4, <1>5, <1>6, <1>7, <1>8, <1>9 DEF Next, Done

\* What happens to the tick in a step.
LEMMA TickSteps ==
    ASSUME [Next]_vars
    PROVE  \/ TickBegin
           \/ Fork
           \/ /\ tick' = Idle /\ tick.pc # "idle" /\ UNCHANGED <<now, ticked>>
              /\ TickDie \/ ((Escalate \/ LaunchFails \/ Mark) /\ deaths' = deaths)
           \/ UNCHANGED <<now, tick, ticked, deaths>>
           \/ Clock
<1>1. CASE Escalate \/ LaunchFails \/ Mark \/ TickDie
  BY <1>1 DEF Escalate, LaunchFails, Mark, TickDie
<1>2. CASE Manual
  BY <1>2 DEF Manual
<1>3. ASSUME NEW a \in Tries,
             Start(a) \/ Refuse(a) \/ Fail(a) \/ Output(a) \/ Close(a) \/ Empty(a) \/ Vanish(a) \/ Hang(a)
      PROVE  UNCHANGED <<now, tick, ticked, deaths>>
  BY <1>3 DEF Start, Refuse, Fail, Output, Close, Empty, Vanish, Hang, Step
<1>4. CASE Rewrite \/ Release \/ UNCHANGED vars
  BY <1>4 DEF Rewrite, Release, vars
<1> QED BY <1>1, <1>2, <1>3, <1>4 DEF Next, Done

\* Who begins to run, or to close.
LEMMA RunSteps ==
    ASSUME TypeOK, [Next]_vars, NEW a \in Tries, try'[a] \in {"running", "closing"}
    PROVE  \/ try'[a] = try[a]
           \/ Start(a) /\ try'[a] = "running"
           \/ Output(a) /\ try'[a] = "closing"
<1>0. try \in [Tries -> Places]
  BY DEF TypeOK
<1>1. CASE TickBegin \/ Escalate \/ LaunchFails \/ Mark \/ TickDie \/ Rewrite \/ Release \/ Clock
           \/ UNCHANGED vars
  <2>1. try' = try
    BY <1>1 DEF TickBegin, Escalate, LaunchFails, Mark, TickDie, Rewrite, Release, Clock, vars
  <2> QED BY <2>1
<1>2. CASE Fork \/ Manual
  <2>1. try' = [try EXCEPT ![First(Free)] = "starting"]
    BY <1>2 DEF Fork, Manual, Goto
  <2> QED BY <1>0, <2>1
<1>3. ASSUME NEW b \in Tries,
             Refuse(b) \/ Fail(b) \/ Close(b) \/ Empty(b) \/ Vanish(b) \/ Hang(b)
      PROVE  try'[a] = try[a]
  <2>1. \E q \in {"over", "hung"} : try' = [try EXCEPT ![b] = q]
    BY <1>3 DEF Refuse, Fail, Close, Empty, Vanish, Hang, Step, Goto
  <2> QED BY <1>0, <2>1
<1>4. ASSUME NEW b \in Tries, Start(b)
      PROVE  try'[a] = try[a] \/ (b = a /\ try'[a] = "running")
  <2>1. try' = [try EXCEPT ![b] = "running"]
    BY <1>4 DEF Start, Step, Goto
  <2> QED BY <1>0, <2>1
<1>5. ASSUME NEW b \in Tries, Output(b)
      PROVE  try'[a] = try[a] \/ (b = a /\ try'[a] = "closing")
  <2>1. try' = [try EXCEPT ![b] = "closing"]
    BY <1>5 DEF Output, Step, Goto
  <2> QED BY <1>0, <2>1
<1> QED BY <1>1, <1>2, <1>3, <1>4, <1>5 DEF Next, Done

\* The clock alone moves time.
LEMMA TimeSteps ==
    ASSUME [Next]_vars
    PROVE  now' = now \/ (Clock /\ now' = now + 1 /\ UNCHANGED <<log, try, tick, deaths>>)
<1>1. TickBegin \/ Fork \/ TickDie => now' = now
  BY DEF TickBegin, Fork, TickDie
<1>2. Clock => now' = now + 1 /\ UNCHANGED <<log, try, tick, deaths>>
  BY DEF Clock
<1> QED BY <1>1, <1>2, TickSteps

LEMMA SilentStart == Init => SilentInv
<1> SUFFICES ASSUME Init PROVE SilentInv
  OBVIOUS
<1> DEFINE e == [type |-> "spec", who |-> 0, at |-> 1]
<1>0. /\ log = <<e>> /\ now = 1 /\ tick = Idle /\ ticked = FALSE /\ deaths = 0
      /\ try = [a \in Tries |-> "none"] /\ Idle.pc = "idle" /\ e.at = 1 /\ e.type = "spec"
  BY DEF Init, Idle
<1> HIDE DEF e
<1>1. DOMAIN log = {1} /\ log[1] = e /\ Last(log) = e
  BY <1>0 DEF Last
<1>2. RowTimes
  BY <1>0, <1>1 DEF RowTimes
<1>3. TryTimes
  BY <1>0 DEF TryTimes, Is
<1>4. Rows(log, {"escalated"}) = {}
  BY <1>0, <1>1 DEF Rows
<1>5. PassFits
  BY <1>0, <1>4 DEF PassFits
<1>6. Limited
  <2>1. Grace = 0
    <3>1. PassSpan \in Nat
      BY RetryAssumption
    <3> QED BY <1>0, <3>1 DEF Grace
  <2> QED BY <1>0, <1>1, <2>1, PauseIs DEF Limited
<1> QED BY <1>2, <1>3, <1>5, <1>6 DEF SilentInv

\* A step that adds nothing leaves the log as it is.
LEMMA SameLog ==
    ASSUME NEW l \in Seq(RowSet), NEW m \in Seq(RowSet), Grows(l, m), Len(m) <= Len(l)
    PROVE  m = l
<1>1. /\ Len(l) \in Nat /\ Len(m) \in Nat /\ Len(l) <= Len(m)
      /\ \A i \in 1 .. Len(l) : m[i] = l[i]
  BY LogPoints DEF Grows
<1>2. Len(l) = Len(m)
  BY <1>1
<1> QED BY <1>1, <1>2, SeqEqual

LEMMA TimesStep ==
    ASSUME RetryInv, RetryInv', EndsInv, [Next]_vars, RowTimes
    PROVE  RowTimes' /\ (Len(log') > Len(log) => Last(log').at = now' /\ now' = now)
<1>0. /\ log \in Seq(RowSet) /\ log' \in Seq(RowSet) /\ Grows(log, log') /\ now \in Nat
      /\ LogFits(log) /\ LogFits(log') /\ now' \in Nat
  BY StepTidy DEF RetryInv, TypeOK, Tidy
<1>1. /\ Len(log) \in Nat /\ Len(log') \in Nat /\ Len(log) <= Len(log')
      /\ DOMAIN log = 1 .. Len(log) /\ DOMAIN log' = 1 .. Len(log')
      /\ \A i \in 1 .. Len(log) : log'[i] = log[i]
      /\ \A i \in DOMAIN log' : log'[i] \in RowSet
  BY <1>0, LogPoints DEF Grows
<1>2. /\ Last(log) = log[Len(log)] /\ Last(log') = log'[Len(log')]
      /\ Last(log).at \in Nat /\ Last(log').at \in Nat /\ Len(log') >= 1 /\ Len(log) >= 1
  BY <1>0, LastIs
<1>3. now <= now'
  BY <1>0, TimeSteps
<1>4. \A i \in DOMAIN log' : i > Len(log) => log'[i].at = now /\ now' = now
  BY StepRows DEF Adds
<1>5. CASE Len(log') > Len(log)
  <2>1. Len(log') \in DOMAIN log'
    BY <1>1, <1>2
  <2>2. Last(log').at = now /\ now' = now
    BY <1>2, <1>4, <1>5, <2>1
  <2>3. ASSUME NEW i \in DOMAIN log' PROVE log'[i].at <= now
    <3>1. CASE i > Len(log)
      BY <1>0, <1>4, <3>1
    <3>2. CASE ~(i > Len(log))
      <4>1. i \in DOMAIN log /\ log'[i] = log[i] /\ log'[i] \in RowSet
        BY <1>1, <3>2
      <4>2. log[i].at \in Nat /\ log[i].at <= Last(log).at /\ Last(log).at <= now
        BY <4>1 DEF RowTimes, RowSet
      <4> QED BY <1>0, <1>2, <4>1, <4>2
    <3> QED BY <3>1, <3>2
  <2> QED BY <1>0, <2>2, <2>3 DEF RowTimes
<1>6. CASE ~(Len(log') > Len(log))
  <2>1. log' = log
    BY <1>0, <1>1, <1>6, SameLog
  <2>2. Last(log).at <= now'
    BY <1>0, <1>2, <1>3 DEF RowTimes
  <2> QED BY <1>6, <2>1, <2>2 DEF RowTimes
<1> QED BY <1>5, <1>6

\* A start is where it was.
LEMMA StartStays ==
    ASSUME NEW l \in Seq(RowSet), NEW m \in Seq(RowSet), Grows(l, m), NEW a,
           Of(l, a, {"started"}) # {}
    PROVE  /\ First(Of(m, a, {"started"})) = First(Of(l, a, {"started"}))
           /\ First(Of(l, a, {"started"})) \in DOMAIN l
           /\ m[First(Of(l, a, {"started"}))] = l[First(Of(l, a, {"started"}))]
<1> DEFINE old == Of(l, a, {"started"})
           new == Of(m, a, {"started"})
           f == First(old)
           g == First(new)
<1>1. /\ Len(l) \in Nat /\ DOMAIN l = 1 .. Len(l) /\ DOMAIN m = 1 .. Len(m) /\ Len(m) \in Nat
      /\ \A i \in 1 .. Len(l) : m[i] = l[i]
  BY LogPoints DEF Grows
<1>2. old \subseteq new /\ \A i \in new : i \in old \/ i > Len(l)
  BY GrowsRows
<1>3. old \subseteq DOMAIN l /\ new \subseteq DOMAIN m
  BY DEF Of, Rows
<1>4. old \in SUBSET Nat /\ new \in SUBSET Nat /\ old # {} /\ new # {}
  BY <1>1, <1>2, <1>3
<1> HIDE DEF old, new
<1>5. f \in old /\ \A j \in old : f <= j
  BY <1>4, FirstIs
<1>6. g \in new /\ \A j \in new : g <= j
  BY <1>4, FirstIs
<1> HIDE DEF f, g
<1>7. f \in Nat /\ g \in Nat /\ f <= Len(l) /\ g <= f /\ f \in DOMAIN l
  BY <1>1, <1>2, <1>3, <1>4, <1>5, <1>6
<1>8. g \in old
  BY <1>2, <1>6, <1>7, <1>1
<1>9. f = g
  BY <1>5, <1>7, <1>8
<1> QED BY <1>1, <1>7, <1>9 DEF f, g, old, new

LEMMA TryTimesStep ==
    ASSUME RetryInv, RetryInv', EndsInv, [Next]_vars, TryTimes
    PROVE  TryTimes'
<1>0. /\ log \in Seq(RowSet) /\ log' \in Seq(RowSet) /\ Grows(log, log') /\ now \in Nat
      /\ TypeOK /\ Span \in Nat /\ Tries \subseteq Nat
      /\ \A a \in Tries : TryFits(log, forked[a], try[a], a)
      /\ \A i \in DOMAIN log : log[i] \in RowSet
      /\ \A i \in DOMAIN log' : log'[i] \in RowSet
  BY StepTidy, RetryAssumption, LogPoints DEF RetryInv, TypeOK, Tidy, Tries
<1>1. ASSUME NEW a \in Tries, try'[a] = "running"
      PROVE  now' <= log'[First(Of(log', a, {"started"}))].at + Span
  <2>1. CASE try[a] = "running"
    <3>1. Of(log, a, {"started"}) # {}
      BY <1>0, <2>1 DEF TryFits
    <3> DEFINE f == First(Of(log, a, {"started"}))
    <3>2. First(Of(log', a, {"started"})) = f /\ log'[f] = log[f] /\ f \in DOMAIN log
      BY <1>0, <3>1, StartStays
    <3>3. now <= log[f].at + Span
      BY <2>1 DEF TryTimes, StartOf, Is
    <3>4. Clock => now < log[f].at + Span
      BY <2>1 DEF Clock, StartOf, Is
    <3> HIDE DEF f
    <3>5. log[f].at \in Nat
      BY <1>0, <3>2 DEF RowSet
    <3>6. now' <= log[f].at + Span
      BY <1>0, <3>3, <3>4, <3>5, TimeSteps
    <3> QED BY <3>2, <3>6
  <2>2. CASE try[a] # "running"
    <3>1. Start(a)
      BY <1>0, <1>1, <2>2, RunSteps
    <3>2. Write("started", a) /\ now' = now /\ try[a] = "starting"
      BY <3>1 DEF Start, Step, Is
    <3> DEFINE e == Row("started", a)
    <3>3. e \in RowSet /\ e.type = "started" /\ e.who = a /\ e.at = now /\ log' = Append(log, e)
      BY <1>0, <3>2, RowIs DEF Row, Write, RowType
    <3> HIDE DEF e
    <3>4. Of(log, a, {"started"}) = {}
      <4>1. Of(log, a, Traces) = {}
        BY <1>0, <3>2 DEF TryFits
      <4> QED BY <4>1, TypesOfTraces DEF Of, Rows
    <3>5. /\ Len(log') = Len(log) + 1 /\ log'[Len(log) + 1] = e /\ Len(log) \in Nat
          /\ DOMAIN log' = 1 .. Len(log')
      BY <1>0, <3>3, LogAppends, LogPoints
    <3> DEFINE new == Of(log', a, {"started"})
    <3>6. \A i \in new : i = Len(log) + 1
      <4>1. \A i \in new : i > Len(log) /\ i \in DOMAIN log'
        <5>1. \A i \in new : i \in Of(log, a, {"started"}) \/ i > Len(log)
          BY <1>0, GrowsRows
        <5> QED BY <3>4, <5>1 DEF Of, Rows
      <4> QED BY <3>5, <4>1
    <3>7. Len(log) + 1 \in new
      BY <3>3, <3>5 DEF Of, Rows
    <3>8. new \in SUBSET Nat /\ new # {}
      BY <3>5, <3>6, <3>7
    <3> HIDE DEF new
    <3>9. First(new) = Len(log) + 1
      BY <3>6, <3>8, FirstIs
    <3> QED BY <1>0, <3>2, <3>3, <3>5, <3>9 DEF new
  <2> QED BY <2>1, <2>2
<1>2. ASSUME NEW a \in Tries, try'[a] = "closing"
      PROVE  Of(log', a, {"output"}) # {}
  <2>1. CASE try[a] = "closing"
    <3>1. Of(log, a, {"output"}) # {}
      BY <2>1 DEF TryTimes, Is
    <3>2. Of(log, a, {"output"}) \subseteq Of(log', a, {"output"})
      BY <1>0, GrowsRows
    <3> QED BY <3>1, <3>2
  <2>2. CASE try[a] # "closing"
    <3>1. Output(a)
      BY <1>0, <1>2, <2>2, RunSteps
    <3>2. Write("output", a) /\ now' = now
      BY <3>1 DEF Output, Step
    <3> DEFINE e == Row("output", a)
    <3>3. e \in RowSet /\ e.type = "output" /\ e.who = a /\ log' = Append(log, e)
      BY <1>0, <3>2, RowIs DEF Write, RowType
    <3> HIDE DEF e
    <3>4. /\ Len(log') = Len(log) + 1 /\ log'[Len(log) + 1] = e /\ Len(log) \in Nat
          /\ DOMAIN log' = 1 .. Len(log')
      BY <1>0, <3>3, LogAppends, LogPoints
    <3>5. Len(log) + 1 \in Of(log', a, {"output"})
      BY <3>3, <3>4 DEF Of, Rows
    <3> QED BY <3>5
  <2> QED BY <2>1, <2>2
<1> QED BY <1>1, <1>2 DEF TryTimes, StartOf, Is

LEMMA PassFitsStep ==
    ASSUME RetryInv, RetryInv', EndsInv, [Next]_vars, PassFits
    PROVE  PassFits'
<1>0. /\ log \in Seq(RowSet) /\ log' \in Seq(RowSet) /\ Grows(log, log') /\ now \in Nat
      /\ LogFits(log) /\ TypeOK /\ PassSpan \in Nat /\ tick \in TickSet
  BY StepTidy, RetryAssumption DEF RetryInv, TypeOK, Tidy
<1>1. /\ Len(log) \in Nat /\ Len(log') \in Nat /\ Len(log) <= Len(log')
      /\ DOMAIN log = 1 .. Len(log) /\ DOMAIN log' = 1 .. Len(log')
      /\ \A i \in 1 .. Len(log) : log'[i] = log[i]
      /\ \A i \in DOMAIN log : log[i] \in RowSet
  BY <1>0, LogPoints DEF Grows
\* An escalation is one of before, or the pass's, and then the pass is over.
<1>2. ASSUME NEW h \in Rows(log', {"escalated"})
      PROVE  \/ h \in Rows(log, {"escalated"}) /\ log'[h] = log[h]
             \/ /\ h > Len(log) /\ log'[h].who = tick.trigger /\ tick.pc = "escalate"
                /\ tick'.pc = "idle"
  <2>1. CASE h \in Rows(log, {"escalated"})
    BY <1>1, <2>1 DEF Rows
  <2>2. CASE h \notin Rows(log, {"escalated"})
    <3>1. h > Len(log)
      BY <1>0, <2>2, GrowsRows
    <3>2. h \in DOMAIN log' /\ log'[h].type = "escalated"
      BY DEF Rows
    <3>3. ~Adds(Plain)
      BY <3>1, <3>2, PlainTypes DEF Adds
    <3>4. Escalate
      BY <3>3, StepRows
    <3>5. tick'.pc = "idle"
      BY <3>4 DEF Escalate, Idle
    <3>6. log'[h].who = tick.trigger /\ tick.pc = "escalate"
      BY <3>1, StepTidy DEF Tidy
    <3> QED BY <3>1, <3>5, <3>6
  <2> QED BY <2>1, <2>2
<1>3. \A h \in Rows(log', {"escalated"}) : log'[h].who < h
  <2> SUFFICES ASSUME NEW h \in Rows(log', {"escalated"}) PROVE log'[h].who < h
    OBVIOUS
  <2>1. CASE h \in Rows(log, {"escalated"}) /\ log'[h] = log[h]
    BY <2>1 DEF PassFits
  <2>2. CASE h > Len(log) /\ log'[h].who = tick.trigger /\ tick.pc = "escalate"
    <3>1. tick.trigger <= Len(log) /\ tick.trigger \in Nat /\ h \in Nat
      BY <1>0, <1>1, <2>2 DEF PassFits, TickSet, Rows
    <3> QED BY <1>1, <2>2, <3>1
  <2> QED BY <1>2, <2>1, <2>2
<1>4. CASE TickBegin
  <2> DEFINE choice == Choice(log, now)
  <2>1. /\ tick' = IF choice = "idle" THEN Idle
                   ELSE [Idle EXCEPT !.pc = choice, !.trigger = Trigger(log), !.at = now]
        /\ now' = now /\ tick.pc = "idle"
    BY <1>4 DEF TickBegin
  <2> HIDE DEF choice
  <2>2. tick'.pc # "idle" => /\ tick'.at = now /\ tick'.trigger = Trigger(log)
                             /\ tick'.pc = choice
    BY <2>1 DEF Idle
  <2>3. tick'.pc \in {"launch", "escalate"} => tick'.at <= now' /\ now' <= tick'.at + PassSpan
    BY <1>0, <2>1, <2>2
  <2>4. ASSUME tick'.pc = "escalate"
        PROVE  /\ tick'.trigger <= Len(log')
               /\ \A h \in Rows(log', {"escalated"}) : log'[h].who # tick'.trigger
    <3>1. choice = "escalate" /\ tick'.trigger = Trigger(log)
      BY <2>2, <2>4
    <3>2. ~Idles(log, now)
      BY <3>1 DEF choice, Choice
    <3>3. Rows(log, {"output"}) = {} /\ ~Held(log)
      BY <3>2 DEF Idles
    <3>4. Newly(log, Trigger(log)) /\ TriggersOf(log) \in SUBSET (1 .. Len(log))
      BY <1>0, <3>3, TriggerIs, TriggersGrow
    <3>5. Trigger(log) \in 1 .. Len(log)
      BY <3>4 DEF Newly
    <3>6. ASSUME NEW h \in Rows(log', {"escalated"}) PROVE log'[h].who # Trigger(log)
      <4>1. h \in Rows(log, {"escalated"}) /\ log'[h] = log[h]
        BY <1>2, <2>1
      <4>2. PICK r \in Released(log, h) : TRUE
        BY <3>3, <4>1 DEF Held
      <4>3. r \in TriggersOf(log) /\ r > h /\ r \in 1 .. Len(log) /\ h \in 1 .. Len(log)
        BY <1>1, <4>1, <4>2 DEF Released, Rows, TriggersOf
      <4>4. r <= Trigger(log)
        BY <3>4, <4>3 DEF Newly
      <4>5. log[h].who < h /\ log[h].who \in Nat
        BY <1>1, <4>1, <4>3 DEF PassFits, RowSet
      <4> QED BY <3>5, <4>1, <4>3, <4>4, <4>5
    <3> QED BY <1>1, <3>1, <3>5, <3>6
  <2> QED BY <1>3, <2>3, <2>4 DEF PassFits
<1>5. CASE tick'.pc \in {"idle", "forked"}
  BY <1>3, <1>5 DEF PassFits
<1>6. CASE tick' = tick /\ tick'.pc \notin {"idle", "forked"}
  <2>1. tick.pc \in {"launch", "escalate"} /\ tick.at \in Nat /\ tick.trigger \in Nat
    BY <1>0, <1>6 DEF TickSet
  <2>2. tick.at <= now /\ now <= tick.at + PassSpan
    BY <2>1 DEF PassFits
  <2>3. Clock => now < tick.at + PassSpan
    BY <2>1 DEF Clock
  <2>4. tick'.at <= now' /\ now' <= tick'.at + PassSpan
    BY <1>0, <1>6, <2>1, <2>2, <2>3, TimeSteps
  <2>5. tick.pc = "escalate" =>
          /\ tick.trigger <= Len(log')
          /\ \A h \in Rows(log', {"escalated"}) : log'[h].who # tick.trigger
    <3> SUFFICES ASSUME tick.pc = "escalate"
                 PROVE  /\ tick.trigger <= Len(log')
                        /\ \A h \in Rows(log', {"escalated"}) : log'[h].who # tick.trigger
      OBVIOUS
    <3>1. /\ tick.trigger <= Len(log)
          /\ \A h \in Rows(log, {"escalated"}) : log[h].who # tick.trigger
      BY DEF PassFits
    <3>2. \A h \in Rows(log', {"escalated"}) : h \in Rows(log, {"escalated"}) /\ log'[h] = log[h]
      BY <1>2, <1>6
    <3>3. tick.trigger <= Len(log')
      BY <1>1, <2>1, <3>1
    <3> QED BY <3>1, <3>2, <3>3
  <2> QED BY <1>3, <1>6, <2>4, <2>5 DEF PassFits
<1>7. tick' = tick \/ tick'.pc \in {"idle", "forked"} \/ TickBegin
  <2>1. Fork => tick'.pc = "forked"
    BY DEF Fork, Idle
  <2>2. tick' = Idle => tick'.pc = "idle"
    BY DEF Idle
  <2>3. Clock => tick' = tick
    BY DEF Clock
  <2> QED BY <2>1, <2>2, <2>3, TickSteps
<1> QED BY <1>4, <1>5, <1>6, <1>7

\* The rows that a pass has found nothing to add to.
LEMMA NothingFound ==
    ASSUME RetryInv, log' = log \o SetToSeq(Reconciled), Len(log') <= Len(log)
    PROVE  Reconciled = {}
<1> DEFINE S == Reconciled
           s == SetToSeq(S)
           n == Cardinality(S)
<1>0. log \in Seq(RowSet) /\ TypeOK /\ \A a \in Tries : TryFits(log, forked[a], try[a], a)
  BY DEF RetryInv, TypeOK
<1>1. IsFiniteSet(S) /\ n \in Nat /\ Bijection(1 .. n, S) # {}
  BY ReconciledFinite, FS_CardinalityType, Fun_ExistsBij
<1>2. s \in Seq(S)
  BY <1>1, SetToSeqIs
<1>3. s \in [1 .. n -> S]
  <2>1. PICK b : b \in Bijection(1 .. n, S)
    BY <1>1
  <2>2. b \in [1 .. n -> S] /\ IsInjective(b)
    BY <2>1 DEF Bijection, Injection, IsInjective
  <2> QED BY <2>2 DEF SetToSeq
<1>4. S \subseteq RowSet
  BY <1>0, ReconciledIs
<1> HIDE DEF s, S, n
<1>5. Len(s) = n
  BY <1>1, <1>2, <1>3, LenProperties
<1>6. s \in Seq(RowSet)
  BY <1>2, <1>4
<1>7. Len(log \o s) = Len(log) + Len(s) /\ Len(log) \in Nat
  BY <1>0, <1>6, ConcatPoints, LogPoints
<1>8. n = 0
  <2>1. log' = log \o s
    BY DEF s, S
  <2> QED BY <1>1, <1>5, <1>7, <2>1
<1> QED BY <1>1, <1>8, FS_EmptySet DEF n, S

\* A group that has started and not ended is a try that has.
LEMMA LivingBusy ==
    ASSUME RetryInv, NEW g, In(log, g, {"started"}) # {}, In(log, g, Child \ {"started"}) = {}
    PROVE  g \in Tries /\ Of(log, g, {"started"}) # {} /\ Of(log, g, Child \ {"started"}) = {}
<1>0. LogFits(log) /\ "started" \in Child /\ "marker" \notin Child /\ "launch_failed" \notin Child
  BY DEF RetryInv, Child
<1>1. \A i \in DOMAIN log : log[i].type \in Child =>
         i \in Grouped(log) /\ GroupOf(log, i) = log[i].who /\ log[i].who \in Tries
  <2> SUFFICES ASSUME NEW i \in DOMAIN log, log[i].type \in Child
               PROVE  i \in Grouped(log) /\ GroupOf(log, i) = log[i].who /\ log[i].who \in Tries
    OBVIOUS
  <2>1. log[i].type # "marker" /\ log[i].type # "launch_failed"
    BY <1>0
  <2>2. i \in Grouped(log) /\ i \in Rows(log, Traces \union {"marker"})
    BY DEF Grouped, Rows, Traces
  <2>3. GroupOf(log, i) = log[i].who
    BY <2>1 DEF GroupOf, ReceiptGroup
  <2>4. log[i].who \in Tries
    BY <1>0, <2>2 DEF LogFits
  <2> QED BY <2>2, <2>3, <2>4
<1>2. PICK i \in In(log, g, {"started"}) : TRUE
  OBVIOUS
<1>3. i \in DOMAIN log /\ log[i].type = "started" /\ GroupOf(log, i) = g
  BY <1>2 DEF In, Group, Grouped, Rows
<1>4. log[i].who = g /\ g \in Tries /\ i \in Of(log, g, {"started"})
  BY <1>0, <1>1, <1>3 DEF Of, Rows
<1>5. ASSUME NEW j \in Of(log, g, Child \ {"started"}) PROVE FALSE
  <2>1. j \in DOMAIN log /\ log[j].type \in Child \ {"started"} /\ log[j].who = g
    BY DEF Of, Rows
  <2>2. j \in In(log, g, Child \ {"started"})
    BY <1>1, <2>1 DEF In, Group
  <2> QED BY <2>2
<1> QED BY <1>4, <1>5

\* A group has failed by the marker's cap after the last row.
LEMMA FailedBy ==
    ASSUME RetryInv, RowTimes, NEW g, NEW t, NEW at \in FailedAt(log, g, t)
    PROVE  at \in Nat /\ at <= Last(log).at + MarkerCap
<1>0. /\ log \in Seq(RowSet) /\ LogFits(log) /\ MarkerCap \in Nat
      /\ DOMAIN log = 1 .. Len(log) /\ Len(log) \in Nat /\ Last(log).at \in Nat
  BY RetryAssumption, LogPoints, LastIs DEF RetryInv, TypeOK
<1>1. ASSUME NEW types, In(log, g, types) # {}
      PROVE  /\ log[First(In(log, g, types))].at \in Nat
             /\ log[First(In(log, g, types))].at <= Last(log).at
  <2> DEFINE f == First(In(log, g, types))
  <2>1. In(log, g, types) \subseteq DOMAIN log
    BY DEF In, Group, Grouped, Rows
  <2>2. In(log, g, types) \in SUBSET Nat
    BY <1>0, <2>1
  <2>3. f \in DOMAIN log
    BY <1>1, <2>1, <2>2, FirstIs
  <2> HIDE DEF f
  <2>4. log[f].at \in Nat /\ log[f].at <= Last(log).at
    BY <1>0, <2>3, LogPoints DEF RowTimes, RowSet
  <2> QED BY <2>4 DEF f
<1>2. CASE In(log, g, Real) # {}
  <2>1. FailedAt(log, g, t) = {log[First(In(log, g, Real))].at}
    <3>1. ~(In(log, g, Real) = {}) /\ In(log, g, Real \union {"stale"}) # {} /\ ~Unheard(log, g)
      BY <1>2 DEF In, Unheard, Real, Child
    <3> QED BY <1>2, <3>1 DEF FailedAt
  <2>2. at = log[First(In(log, g, Real))].at
    BY <2>1
  <2> QED BY <1>0, <1>1, <1>2, <2>2
<1>3. CASE In(log, g, Real) = {} /\ In(log, g, {"stale"}) # {}
  <2>1. FailedAt(log, g, t) = {log[First(In(log, g, {"stale"}))].at}
    <3>1. In(log, g, Real \union {"stale"}) # {} /\ ~Unheard(log, g)
      BY <1>3 DEF In, Unheard, Child
    <3> QED BY <1>3, <3>1 DEF FailedAt
  <2>2. at = log[First(In(log, g, {"stale"}))].at
    BY <2>1
  <2> QED BY <1>0, <1>1, <1>3, <2>2
<1>4. CASE In(log, g, Real) = {} /\ In(log, g, {"stale"}) = {} /\ EndedEmpty(log, g)
  <2>1. In(log, g, {"done"}) # {}
    BY <1>4 DEF EndedEmpty
  <2>2. FailedAt(log, g, t) = {log[First(In(log, g, {"done"}))].at}
    <3>1. In(log, g, Real \union {"stale"}) = {}
      BY <1>4 DEF In
    <3>2. ~Unheard(log, g)
      BY <2>1 DEF In, Unheard, Child
    <3> QED BY <1>4, <3>1, <3>2 DEF FailedAt
  <2>3. at = log[First(In(log, g, {"done"}))].at
    BY <2>2
  <2> QED BY <1>0, <1>1, <2>1, <2>3
<1>5. CASE In(log, g, Real) = {} /\ In(log, g, {"stale"}) = {} /\ ~EndedEmpty(log, g)
  <2>1. Unheard(log, g) /\ Expired(log, g, t)
    BY <1>5, FailedFor
  <2>2. In(log, g, {"marker"}) # {}
    BY <2>1 DEF Unheard
  <2>3. FailedAt(log, g, t) = {Deadline(log, g)}
    BY <1>5, <2>1 DEF FailedAt
  <2>4. at = log[First(In(log, g, {"marker"}))].at + MarkerCap
    BY <2>3 DEF Deadline
  <2>5. /\ log[First(In(log, g, {"marker"}))].at \in Nat
        /\ log[First(In(log, g, {"marker"}))].at <= Last(log).at
    BY <1>1, <2>2
  <2> QED BY <1>0, <2>4, <2>5
<1> QED BY <1>2, <1>3, <1>4, <1>5

\* A pass that has found nothing to do and nothing to record: something comes
\* within the pause, the end of a waiter, of a marker's cap or of a backoff.
LEMMA IdleSoon ==
    ASSUME RetryInv, EndsInv, RowTimes, TryTimes, ~Settled, Reconciled = {},
           Choice(log, now) = "idle"
    PROVE  now < Last(log).at + Pause
<1>0. /\ log \in Seq(RowSet) /\ LogFits(log) /\ MarkerCap \in Nat /\ Span \in Nat
      /\ DOMAIN log = 1 .. Len(log) /\ Len(log) \in Nat /\ Last(log).at \in Nat /\ now \in Nat
      /\ \A a \in Tries : TryFits(log, forked[a], try[a], a) /\ try[a] \in Places
      /\ \A i \in DOMAIN log : log[i] \in RowSet
  BY RetryAssumption, LogPoints, LastIs DEF RetryInv, TypeOK
<1>1. Rows(log, {"output"}) = {} /\ ~Held(log)
  BY DEF Settled
<1>2. ~Consumed(log)
  BY <1>1 DEF Consumed
<1>3. ASSUME NEW f \in DOMAIN log PROVE log[f].at \in Nat /\ log[f].at <= Last(log).at
  BY <1>0 DEF RowTimes, RowSet
<1>4. ASSUME NEW a \in Tries, Of(log, a, {"started"}) # {}, Of(log, a, Child \ {"started"}) = {}
      PROVE  now < Last(log).at + Pause
  <2>1. Of(log, a, {"output"}) = {}
    BY <1>1 DEF Of, Rows
  <2>2. try[a] \notin {"none", "starting"}
    <3>1. Of(log, a, {"started"}) \subseteq Of(log, a, Traces)
      BY TypesOfTraces DEF Of, Rows
    <3>2. Of(log, a, Traces) # {}
      BY <1>4, <3>1
    <3> QED BY <1>0, <3>2 DEF TryFits
  <2>3. try[a] # "closing"
    BY <2>1 DEF TryTimes, Is
  <2>4. Of(log, a, {"stale"}) = {} /\ Of(log, a, {"done", "failed", "vanished"}) = {}
    BY <1>4 DEF Of, Rows, Child
  <2>5. try[a] # "hung"
    <3> SUFFICES ASSUME try[a] = "hung" PROVE FALSE
      OBVIOUS
    <3>1. Stale(a)
      BY <2>4 DEF Stale, Is
    <3>2. Row("stale", a) \in Reconciled
      BY <3>1 DEF Reconciled
    <3> QED BY <3>2
  <2>6. try[a] # "over"
    <3> SUFFICES ASSUME try[a] = "over" PROVE FALSE
      OBVIOUS
    <3>1. Gone(a)
      BY <1>4, <2>4 DEF Gone, Is
    <3>2. Row("vanished", a) \in Reconciled
      BY <3>1 DEF Reconciled
    <3> QED BY <3>2
  <2>7. try[a] = "running"
    BY <1>0, <2>2, <2>3, <2>5, <2>6 DEF Places
  <2> DEFINE f == First(Of(log, a, {"started"}))
  <2>8. now <= log[f].at + Span
    BY <2>7 DEF TryTimes, Is, StartOf
  <2>9. f \in DOMAIN log
    <3>1. Of(log, a, {"started"}) \subseteq DOMAIN log
      BY DEF Of, Rows
    <3>2. Of(log, a, {"started"}) \in SUBSET Nat
      BY <1>0, <3>1
    <3> QED BY <1>4, <3>1, <3>2, FirstIs
  <2> HIDE DEF f
  <2>10. log[f].at \in Nat /\ log[f].at <= Last(log).at
    BY <1>3, <2>9
  <2> QED BY <1>0, <2>8, <2>10, PauseIs
<1>5. CASE Busy(log)
  BY <1>4, <1>5 DEF Busy
<1>6. CASE Live(log, now)
  <2>1. PICK g \in Current(log) : Living(log, g, now)
    BY <1>6 DEF Live
  <2>2. CASE In(log, g, {"started"}) # {} /\ In(log, g, Child \ {"started"}) = {}
    <3>1. g \in Tries /\ Of(log, g, {"started"}) # {} /\ Of(log, g, Child \ {"started"}) = {}
      BY <2>2, LivingBusy
    <3> QED BY <1>4, <3>1
  <2>3. CASE Unheard(log, g) /\ ~Expired(log, g, now)
    <3> DEFINE f == First(In(log, g, {"marker"}))
    <3>1. In(log, g, {"marker"}) \subseteq DOMAIN log /\ In(log, g, {"marker"}) # {}
      BY <2>3 DEF Unheard, In, Group, Grouped, Rows
    <3>2. In(log, g, {"marker"}) \in SUBSET Nat
      BY <1>0, <3>1
    <3>3. f \in DOMAIN log
      BY <3>1, <3>2, FirstIs
    <3>4. ~(now >= log[f].at + MarkerCap)
      BY <2>3 DEF Expired, Deadline
    <3> HIDE DEF f
    <3>5. log[f].at \in Nat /\ log[f].at <= Last(log).at
      BY <1>3, <3>3
    <3> QED BY <1>0, <3>4, <3>5, PauseIs
  <2> QED BY <2>1, <2>2, <2>3 DEF Living
<1>7. CASE ~Idles(log, now)
  <2>1. ~Exhausted(log, now) /\ Waits(log, now) /\ ~Live(log, now)
    <3>1. ~Exhausted(log, now)
      BY <1>7 DEF Choice
    <3>2. Waits(log, now)
      BY <1>7, <3>1 DEF Choice
    <3>3. ~Live(log, now)
      BY <1>7 DEF Idles
    <3> QED BY <3>1, <3>2, <3>3
  <2> DEFINE n == Failed(log, now)
  <2>2. PICK f \in Failures(log, now) : now < f.at + Backoff[n]
    BY <2>1 DEF Waits
  <2>3. ~(n >= Limit)
    BY <1>2, <2>1 DEF Exhausted
  <2>4. n \in Nat /\ n # 0
    <3>1. IsFiniteSet(Failures(log, now)) /\ Failures(log, now) # {}
      BY <1>0, <2>2, FailuresFinite
    <3> QED BY <3>1, FS_CardinalityType, FS_EmptySet DEF Failed
  <2>5. f.at \in Nat /\ f.at <= Last(log).at + MarkerCap
    <3>1. PICK g \in Current(log) : \E at \in FailedAt(log, g, now) : f = [group |-> g, at |-> at]
      BY <2>2 DEF Failures
    <3>2. PICK at \in FailedAt(log, g, now) : f = [group |-> g, at |-> at]
      BY <3>1
    <3>3. f.at = at
      BY <3>2
    <3>4. at \in Nat /\ at <= Last(log).at + MarkerCap
      BY <3>2, FailedBy
    <3> QED BY <3>3, <3>4
  <2> HIDE DEF n
  <2>6. n \in 1 .. Limit - 1 /\ Limit # 1 /\ Limit - 1 \in 1 .. Limit - 1
    BY <2>3, <2>4, RetryAssumption
  <2>7. Backoff[n] \in Nat /\ Backoff[n] <= Longest
    BY <2>6, RetryAssumption DEF Longest
  <2> QED BY <1>0, <2>2, <2>5, <2>7, PauseIs
<1> QED BY <1>1, <1>2, <1>5, <1>6, <1>7 DEF Idles

\* Without a row the tick comes closer to its limit, and a death gives it more.
LEMMA LimitedStep ==
    ASSUME RetryInv, RetryInv', EndsInv, [Next]_vars, SilentInv, RowTimes', PassFits', ~Settled'
    PROVE  Limited'
<1>0. /\ log \in Seq(RowSet) /\ log' \in Seq(RowSet) /\ Grows(log, log')
      /\ now \in Nat /\ now' \in Nat /\ deaths \in Nat /\ deaths' \in Nat
      /\ LogFits(log) /\ LogFits(log') /\ PassSpan \in Nat /\ MarkerCap \in Nat \ {0}
      /\ tick \in TickSet /\ tick' \in TickSet
  BY StepTidy, RetryAssumption DEF RetryInv, TypeOK, Tidy
<1>1. /\ Last(log).at \in Nat /\ Last(log').at \in Nat /\ Len(log) \in Nat /\ Len(log') \in Nat
      /\ tick.at \in Nat /\ tick'.at \in Nat /\ Idle.pc = "idle"
  BY <1>0, LastIs DEF TickSet, Idle
<1>2. Grace \in Nat /\ Grace' \in Nat /\ (deaths' = deaths + 1 => Grace' = Grace + PassSpan + 1)
      /\ (deaths' = deaths => Grace' = Grace)
  <2>1. Grace' \in Nat
    <3>1. ASSUME NEW d \in Nat, NEW p \in Nat PROVE d * (p + 1) \in Nat
      BY <3>1
    <3> QED BY <1>0, <3>1 DEF Grace
  <2> QED BY <1>0, <2>1, GraceIs DEF Grace
<1>3. Pause \in Nat /\ Pause >= 1
  BY PauseIs, RetryAssumption
<1>4. CASE Len(log') > Len(log)
  <2>1. Last(log').at = now'
    BY <1>4, TimesStep DEF SilentInv
  <2>2. tick'.pc \in {"launch", "escalate"} => tick'.at <= now'
    BY DEF PassFits
  <2>3. Last(log').at + Pause + Grace' \in Nat /\ now' < Last(log').at + Pause + Grace'
    <3>1. ASSUME NEW t \in Nat, NEW p \in Nat, p >= 1, NEW g \in Nat
          PROVE  t + p + g \in Nat /\ t < t + p + g
      BY <3>1
    <3> QED BY <1>0, <1>2, <1>3, <2>1, <3>1
  <2> DEFINE limit == Last(log').at + Pause + Grace'
  <2>4. limit \in Nat /\ now' < limit
    BY <2>3
  <2> HIDE DEF limit
  <2>5. now' <= limit /\ now' <= limit + PassSpan
    BY <1>0, <2>4
  <2>6. tick'.pc \in {"launch", "escalate"} => tick'.at <= limit
    BY <1>0, <1>1, <2>2, <2>4
  <2> QED BY <2>4, <2>5, <2>6 DEF Limited, limit
<1>5. CASE ~(Len(log') > Len(log))
  <2>1. log' = log
    BY <1>0, <1>1, <1>5, SameLog
  <2>2. ~Settled /\ Limited
    BY <2>1 DEF SilentInv, Settled, Held, Rows, Released
  <2> DEFINE limit == Last(log).at + Pause + Grace
  <2>3. /\ limit \in Nat
        /\ tick.pc = "idle" => now <= limit /\ (ticked => now < limit)
        /\ tick.pc \in {"launch", "escalate"} => tick.at <= limit
        /\ tick.pc = "forked" => now <= limit + PassSpan
    BY <1>1, <1>2, <1>3, <2>2 DEF Limited
  <2>4. tick.pc \in {"launch", "escalate"} => now <= tick.at + PassSpan
    BY DEF SilentInv, PassFits
  <2>a. deaths' = deaths => Last(log').at + Pause + Grace' = limit
    BY <1>2, <2>1
  <2>b. deaths' = deaths + 1 => Last(log').at + Pause + Grace' = limit + PassSpan + 1
    BY <1>0, <1>1, <1>2, <1>3, <2>1
  <2>c. Last(log).at + Pause <= limit
    BY <1>1, <1>2, <1>3
  <2> HIDE DEF limit
  <2>5. CASE TickBegin
    <3> DEFINE choice == Choice(log, now)
    <3>1. /\ tick' = IF choice = "idle" THEN Idle
                     ELSE [Idle EXCEPT !.pc = choice, !.trigger = Trigger(log), !.at = now]
          /\ log' = log \o SetToSeq(Reconciled)
          /\ now' = now /\ deaths' = deaths /\ tick.pc = "idle"
      BY <2>5 DEF TickBegin
    <3>2. Reconciled = {}
      <4>1. Len(log') <= Len(log)
        BY <1>1, <1>5
      <4> QED BY <3>1, <4>1, NothingFound
    <3>3. choice = "idle" => now < limit
      <4> SUFFICES ASSUME choice = "idle" PROVE now < limit
        OBVIOUS
      <4>1. now < Last(log).at + Pause
        BY <2>2, <3>2, IdleSoon DEF SilentInv
      <4> QED BY <1>0, <1>1, <1>3, <2>3, <2>c, <4>1
    <3>4. choice \in {"idle", "escalate", "launch"}
      BY DEF Choice
    <3> HIDE DEF choice
    <3>5. CASE choice = "idle"
      <4>1. tick'.pc = "idle"
        BY <1>1, <3>1, <3>5
      <4> QED BY <1>0, <2>3, <2>a, <3>1, <3>3, <3>5, <4>1 DEF Limited
    <3>6. CASE choice # "idle"
      <4>1. tick'.pc \in {"escalate", "launch"} /\ tick'.at = now
        BY <3>1, <3>4, <3>6 DEF Idle
      <4>2. now <= limit
        BY <2>3, <3>1
      <4> QED BY <2>a, <3>1, <4>1, <4>2 DEF Limited
    <3> QED BY <3>5, <3>6
  <2>6. CASE Fork
    <3>1. tick.pc = "launch" /\ tick'.pc = "forked" /\ now' = now /\ deaths' = deaths
      BY <2>6 DEF Fork, Idle
    <3>2. now' <= limit + PassSpan
      BY <1>0, <1>1, <2>3, <2>4, <3>1
    <3> QED BY <2>a, <3>1, <3>2 DEF Limited
  <2>7. CASE TickDie
    <3>1. tick.pc # "idle" /\ tick'.pc = "idle" /\ now' = now /\ deaths' = deaths + 1
      BY <1>1, <2>7 DEF TickDie
    <3>2. now <= limit + PassSpan
      BY <1>0, <1>1, <2>3, <2>4, <3>1 DEF TickSet
    <3>3. now' < limit + PassSpan + 1
      BY <1>0, <2>3, <3>1, <3>2
    <3> QED BY <1>0, <2>3, <2>b, <3>1, <3>3 DEF Limited
  \* These write.
  <2>8. CASE Escalate \/ LaunchFails \/ Mark
    <3>1. \E type \in {"escalated", "launch_failed", "marker"}, who \in Nat : Write(type, who)
      <4>1. CASE Escalate
        <5>1. tick.pc = "escalate" /\ tick.trigger \in Nat
          BY <1>0, <4>1 DEF Escalate, TickSet
        <5>2. ~\E h \in Rows(log, {"escalated"}) : log[h].who = tick.trigger
          BY <5>1 DEF SilentInv, PassFits
        <5>3. Write("escalated", tick.trigger)
          BY <4>1, <5>2 DEF Escalate
        <5> QED BY <5>1, <5>3
      <4>2. CASE LaunchFails
        <5>1. Write("launch_failed", 0)
          BY <4>2 DEF LaunchFails
        <5> QED BY <5>1
      <4>3. CASE Mark
        <5>1. Write("marker", tick.fork) /\ tick.fork \in Nat
          BY <1>0, <4>3 DEF Mark, TickSet
        <5> QED BY <5>1
      <4> QED BY <2>8, <4>1, <4>2, <4>3
    <3>2. PICK type \in {"escalated", "launch_failed", "marker"}, who \in Nat : Write(type, who)
      BY <3>1
    <3>3. type \in RowType /\ now' = now
      BY <2>8 DEF RowType, Escalate, LaunchFails, Mark
    <3>4. Len(log') > Len(log)
      BY <3>2, <3>3, WriteAdds DEF RetryInv
    <3> QED BY <1>5, <3>4
  <2>9. CASE UNCHANGED <<now, tick, ticked, deaths>>
    BY <2>3, <2>9, <2>a DEF Limited
  <2>10. CASE Clock
    <3>1. /\ ticked \/ tick.pc # "idle"
          /\ tick.pc # "forked" /\ now' = now + 1 /\ tick' = tick /\ deaths' = deaths
          /\ ticked' = (tick.pc # "idle")
      BY <2>10 DEF Clock
    <3>2. tick.pc = "idle" => ~ticked' /\ now < limit
      BY <2>3, <3>1
    <3>3. tick.pc = "idle" => now' <= limit
      BY <1>0, <2>3, <3>1, <3>2
    <3> QED BY <2>3, <2>a, <3>1, <3>2, <3>3 DEF Limited
  <2> QED BY <2>5, <2>6, <2>7, <2>8, <2>9, <2>10, TickSteps
<1> QED BY <1>4, <1>5

LEMMA SilentStep == RetryInv /\ RetryInv' /\ EndsInv /\ SilentInv /\ [Next]_vars => SilentInv'
<1> SUFFICES ASSUME RetryInv, RetryInv', EndsInv, SilentInv, [Next]_vars PROVE SilentInv'
  OBVIOUS
<1>1. RowTimes'
  BY TimesStep DEF SilentInv
<1>2. TryTimes'
  BY TryTimesStep DEF SilentInv
<1>3. PassFits'
  BY PassFitsStep DEF SilentInv
<1>4. Settled' \/ Limited'
  BY <1>1, <1>3, LimitedStep
<1> QED BY <1>1, <1>2, <1>3, <1>4 DEF SilentInv

LEMMA SilentIs == RetryInv /\ SilentInv => NoLongSilence
<1> SUFFICES ASSUME RetryInv, SilentInv, ~Settled PROVE now - Last(log).at <= Patience
  BY DEF NoLongSilence
<1>1. /\ now \in Nat /\ deaths \in Nat /\ tick \in TickSet /\ PassSpan \in Nat
      /\ Last(log).at \in Nat /\ tick.at \in Nat
  BY RetryAssumption, LastIs DEF RetryInv, TypeOK, TickSet
<1>2. Grace \in Nat /\ Pause \in Nat
  BY <1>1, GraceIs, PauseIs
<1>3. now <= Last(log).at + Pause + Grace + PassSpan
  <2>1. Limited /\ PassFits
    BY DEF SilentInv
  <2>2. CASE tick.pc = "idle"
    BY <1>1, <1>2, <2>1, <2>2 DEF Limited
  <2>3. CASE tick.pc \in {"launch", "escalate"}
    BY <1>1, <1>2, <2>1, <2>3 DEF Limited, PassFits
  <2>4. CASE tick.pc = "forked"
    BY <1>1, <1>2, <2>1, <2>4 DEF Limited
  <2> QED BY <1>1, <2>2, <2>3, <2>4 DEF TickSet
<1>4. Patience = Pause + PassSpan + Grace
  BY DEF Patience, Grace
<1> QED BY <1>1, <1>2, <1>3, <1>4

\* While the spec has no output and no hold is unanswered, the log is never silent
\* for longer than the patience: whatever processes, markers and ticks are lost, the
\* next pass finds the loss, a launch or an escalation (attempts.history,
\* nextstep.next_steps, tick._spawn_busy).
THEOREM NoLongSilenceHolds == Spec => []NoLongSilence
<1>1. Init => RetryInv /\ EndsInv /\ SilentInv
  BY RetryStart, EndsStart, SilentStart
<1>2. RetryInv /\ EndsInv /\ SilentInv /\ [Next]_vars => (RetryInv /\ EndsInv /\ SilentInv)'
  <2>1. RetryInv /\ EndsInv /\ [Next]_vars => RetryInv' /\ EndsInv'
    BY RetryStep, EndsStep
  <2> QED BY <2>1, SilentStep
<1>3. RetryInv /\ SilentInv => NoLongSilence
  BY SilentIs
<1> QED BY <1>1, <1>2, <1>3, PTL DEF Spec
====
