---- MODULE GateLaneProofs ----
(***************************************************************************)
(* Proofs about GateLane, for every limit, backoff and bound.  The ledger  *)
(* is reasoned about as the set of its events and the order of its stamps: *)
(* the last event of some types is one whose stamp no other exceeds.       *)
(***************************************************************************)
EXTENDS GateLane, SequenceFacts, SequenceTheorems, FiniteSetTheorems, TLAPS

EventType ==
    {"review", "verdict", "built", "clean", "rework", "tooling", "conflict",
     "queue-add", "unblocked", "dispatched", "failed", "lane-stale"}
Writer   == {"judge", "builder", "thinker", "look", "tick", "exec"}
RuleName == {"", "gate", "enqueue"}
EventSet ==
    [type : EventType, file : Writer, at : Nat, rule : RuleName, since : Nat,
     retry : BOOLEAN, version : Nat, rebase : Nat, cycle : Nat,
     attempt : BOOLEAN, retryable : BOOLEAN, due : Nat, hold : BOOLEAN]
GateSet ==
    [file : Writer, at : Nat, version : Nat, rebase : Nat, cycle : Nat, count : Nat]
RowSet  == [rule : {"gate", "enqueue"}, since : Nat]
TickSet ==
    [pc : {"idle", "read", "gate", "enqueue", "wait"}, seen : Seq(EventSet),
     at : Nat, row : RowSet \union {None}, gate : GateSet \union {None}]

TypeOK ==
    /\ now \in Nat /\ head \in Nat
    /\ log \in Seq(EventSet)
    /\ tick \in TickSet
    /\ ticked \in BOOLEAN
    /\ gates \subseteq GateSet
    /\ deaths \in Nat /\ manual \in Nat

\* Who rebases: a gate, or the dispatch of a builder.
OwnerSet == GateSet \union [dispatch : BOOLEAN, at : Nat]
AdoptionSet == [by : OwnerSet, version : Nat, rebase : Nat, done : Nat]
RegateSet ==
    [by : OwnerSet, gate : GateSet, exit : SUBSET {0, 1, 2}, version : Nat,
     rebase : Nat, done : Nat]

RebaseTypeOK ==
    /\ rebase \in Nat /\ rebases \in Nat
    /\ adoption \subseteq AdoptionSet
    /\ regates \subseteq RegateSet

\* None has begun in the future.
RebaseInv ==
    /\ RebaseTypeOK
    /\ \A a \in adoption : a.by.at <= now
    /\ \A w \in regates : w.by.at <= now

-----------------------------------------------------------------------------
\* What is true of a set E of events, of the gates G that run, of the version h
\* of the branch and of the time n.

Of(E, type) == {e \in E : e.type = type}

\* A gate that read version s at t agrees with every review: of an older version
\* a build came in between, and of a newer one the review is later.
Agrees(E, s, t) ==
    \A r \in Of(E, "review") :
        /\ r.version < s => \E b \in Of(E, "built") : r.at < b.at /\ b.at <= t
        /\ s < r.version => t < r.at

\* What read version s at t: if that is no longer the branch, a build of t or later.
Answered(E, h, s, t) ==
    s <= h /\ (s < h => \E b \in Of(E, "built") : t <= b.at)

CyclePast(e) == e.type = "tooling" => e.cycle <= e.at

GateSound(E, h, n, g) ==
    g.at <= n /\ g.cycle <= g.at /\ Answered(E, h, g.version, g.at) /\ Agrees(E, g.version, g.at)

World(E, G, h, n) ==
    /\ \A e \in E : e.at <= n /\ CyclePast(e)
    /\ \E e \in E : e.type = "review"
    /\ \A r \in Of(E, "review") : Answered(E, h, r.version, r.at + 1)
    /\ \A c \in Of(E, "clean") : Answered(E, h, c.version, c.at) /\ Agrees(E, c.version, c.at)
    /\ \A g \in G : GateSound(E, h, n, g)

Ordered(l) == \A i, j \in DOMAIN l : i <= j => l[i].at <= l[j].at

\* What the pass relies on in its copy of the ledger.
Copy(l) ==
    /\ Ordered(l)
    /\ \A e \in Range(l) : CyclePast(e)
    /\ \A c \in Of(Range(l), "clean") : Agrees(Range(l), c.version, c.at)

TickInv ==
    /\ Range(tick.seen) \subseteq Range(log)
    /\ Copy(tick.seen)
    /\ tick.pc = "gate" => tick.row \in GateRow(tick.seen, tick.at)
    /\ tick.pc = "enqueue" => tick.row \in EnqueueRow(tick.seen)

LaneInv ==
    /\ TypeOK
    /\ Ordered(log)
    /\ World(Range(log), gates, head, now)
    /\ TickInv

-----------------------------------------------------------------------------
\* Sequences of events

LEMMA MaxExists ==
    ASSUME NEW n \in Nat, NEW S \in SUBSET (1..n), S # {}
    PROVE  \E i \in S : \A j \in S : j <= i
<1> DEFINE Good(m) == \A T \in SUBSET (1..m) : T # {} => \E i \in T : \A j \in T : j <= i
           G == {m \in Nat : Good(m)}
<1>1. 0 \in G
  <2>1. 1..0 = {}
    OBVIOUS
  <2>2. Good(0)
    BY <2>1
  <2> QED BY <2>2
<1>2. ASSUME NEW m \in Nat, m \in G PROVE m + 1 \in G
  <2> SUFFICES ASSUME NEW T \in SUBSET (1..(m + 1)), T # {}
               PROVE  \E i \in T : \A j \in T : j <= i
    OBVIOUS
  <2>1. CASE m + 1 \in T
    BY <2>1
  <2>2. CASE m + 1 \notin T
    <3>1. T \in SUBSET (1..m)
      BY <2>2
    <3>2. Good(m)
      BY <1>2
    <3> QED BY <3>1, <3>2
  <2> QED BY <2>1, <2>2
<1>3. Nat \subseteq G
  <2> HIDE DEF G
  <2> QED BY <1>1, <1>2, Induction
<1>4. Good(n)
    BY <1>3
<1> QED BY <1>4

\* The last event of some types.
LEMMA LatestIs ==
    ASSUME NEW l \in Seq(EventSet), NEW types, Has(l, types)
    PROVE  \E k \in DOMAIN l :
              /\ k \in Index(l, types) /\ Latest(l, types) = l[k]
              /\ \A j \in Index(l, types) : j <= k
<1>1. Len(l) \in Nat /\ DOMAIN l = 1..Len(l)
    BY LenProperties
<1>2. Index(l, types) \in SUBSET (1..Len(l)) /\ Index(l, types) # {}
    BY <1>1 DEF Index, Has
<1> DEFINE k == CHOOSE i \in Index(l, types) : \A j \in Index(l, types) : j <= i
<1>3. k \in Index(l, types) /\ \A j \in Index(l, types) : j <= k
    BY <1>1, <1>2, MaxExists
<1>4. Latest(l, types) = l[k]
    BY DEF Latest
<1> HIDE DEF k
<1> QED BY <1>1, <1>2, <1>3, <1>4

LEMMA LatestEvent ==
    ASSUME NEW l \in Seq(EventSet), NEW types, Has(l, types), Ordered(l)
    PROVE  /\ Latest(l, types) \in Range(l) /\ Latest(l, types) \in EventSet
           /\ Latest(l, types).type \in types
           /\ \A e \in Range(l) : e.type \in types => e.at <= Latest(l, types).at
<1>1. PICK k \in DOMAIN l : /\ k \in Index(l, types) /\ Latest(l, types) = l[k]
                            /\ \A j \in Index(l, types) : j <= k
    BY LatestIs
<1>2. l[k] \in Range(l) /\ l[k] \in EventSet /\ l[k].type \in types
    BY <1>1, ElementOfSeq, LenProperties DEF Range, Index
<1>3. ASSUME NEW e \in Range(l), e.type \in types PROVE e.at <= l[k].at
  <2>1. PICK j \in DOMAIN l : e = l[j]
    BY DEF Range
  <2>2. j \in Index(l, types)
    BY <1>3, <2>1 DEF Index
  <2> QED BY <1>1, <2>1, <2>2 DEF Ordered
<1> QED BY <1>1, <1>2, <1>3

\* Has(l, types), of the set of events.
LEMMA HasIs ==
    ASSUME NEW l \in Seq(EventSet), NEW types
    PROVE  Has(l, types) <=> \E e \in Range(l) : e.type \in types
BY LenProperties DEF Has, Index, Range

LEMMA AfterIs ==
    ASSUME NEW l \in Seq(EventSet), NEW types, NEW t
    PROVE  After(l, t, types) <=> \E e \in Range(l) : e.type \in types /\ e.at >= t
BY LenProperties DEF After, Index, Range

\* An event inserted in its place, point by point.
LEMMA InsertedPoints ==
    ASSUME NEW T, NEW l \in Seq(T), NEW e \in T, NEW m \in Inserted(l, e)
    PROVE  /\ m \in Seq(T) /\ Len(l) \in Nat /\ DOMAIN l = 1..Len(l)
           /\ DOMAIN m = 1..(Len(l) + 1)
           /\ \E q \in 0..Len(l) :
                 /\ \A i \in 1..q : m[i] = l[i] /\ l[i].at <= e.at
                 /\ m[q + 1] = e
                 /\ \A i \in (q + 1)..Len(l) : m[i + 1] = l[i] /\ l[i].at >= e.at
<1> DEFINE n == Len(l)
<1>1. n \in Nat /\ DOMAIN l = 1..n /\ \A i \in 1..n : l[i] \in T
    BY LenProperties, ElementOfSeq
<1>2. PICK q \in 0..n :
        /\ m = InsertAt(l, q + 1, e)
        /\ \A i \in 1..q : l[i].at <= e.at
        /\ \A i \in (q + 1)..n : l[i].at >= e.at
    BY DEF Inserted
<1> DEFINE a == SubSeq(l, 1, q)
           b == SubSeq(l, q + 1, n)
           c == a \o <<e>>
<1>3. m = c \o b
  <2>1. (q + 1) - 1 = q
    BY <1>1, <1>2
  <2> QED BY <1>2, <2>1 DEF InsertAt
<1>4. /\ a \in Seq(T) /\ Len(a) = q /\ \A i \in 1..q : a[i] = l[i]
    BY <1>1, SubSeqProperties
<1>5. /\ b \in Seq(T) /\ Len(b) = n - q /\ \A i \in 1..(n - q) : b[i] = l[q + i]
  <2>1. \A i \in (q + 1)..n : l[i] \in T
    BY <1>1
  <2>2. q + 1 \in Int /\ n \in Int /\ n - (q + 1) + 1 = n - q
    BY <1>1
  <2> HIDE DEF n
  <2>3. b \in Seq(T) /\ Len(b) = IF q + 1 <= n THEN n - (q + 1) + 1 ELSE 0
    BY <2>1, <2>2, SubSeqProperties
  <2>4. \A i \in 1..(n - (q + 1) + 1) : b[i] = l[(q + 1) + i - 1]
    BY <2>1, <2>2, SubSeqProperties
  <2> HIDE DEF b
  <2>5. Len(b) = n - q
    BY <1>1, <2>2, <2>3
  <2>6. \A i \in 1..(n - q) : (q + 1) + i - 1 = q + i
    BY <1>1
  <2> QED BY <2>2, <2>3, <2>4, <2>5, <2>6
<1>6. <<e>> \in Seq(T) /\ Len(<<e>>) = 1 /\ <<e>>[1] = e
    OBVIOUS
<1> HIDE DEF a, b, n
<1>7. /\ c \in Seq(T) /\ Len(c) = q + 1 /\ c[q + 1] = e
      /\ \A i \in 1..q : c[i] = l[i]
  <2> DEFINE u == <<e>>
  <2>1. u \in Seq(T) /\ Len(u) = 1 /\ u[1] = e
    BY <1>6
  <2> HIDE DEF u
  <2>2. /\ a \o u \in Seq(T) /\ Len(a \o u) = Len(a) + Len(u)
        /\ \A i \in 1..Len(a) : (a \o u)[i] = a[i]
        /\ \A i \in 1..Len(u) : (a \o u)[i + Len(a)] = u[i]
    BY <1>4, <2>1, ConcatPoints
  <2>3. 1 \in 1..Len(u) /\ 1 + Len(a) = q + 1
    BY <1>1, <1>4, <2>1
  <2>4. (a \o u)[1 + Len(a)] = u[1]
    BY <2>2, <2>3
  <2> QED BY <1>1, <1>4, <2>1, <2>2, <2>3, <2>4 DEF u
<1> HIDE DEF c
<1>8. /\ m \in Seq(T) /\ Len(m) = n + 1 /\ DOMAIN m = 1..(n + 1)
      /\ \A i \in 1..q : m[i] = l[i]
      /\ m[q + 1] = e
      /\ \A i \in (q + 1)..n : m[i + 1] = l[i]
  <2>1. /\ c \o b \in Seq(T) /\ Len(c \o b) = n + 1 /\ DOMAIN (c \o b) = 1..(n + 1)
        /\ \A i \in 1..(q + 1) : (c \o b)[i] = c[i]
        /\ \A i \in 1..(n - q) : (c \o b)[i + (q + 1)] = b[i]
    <3>1. /\ c \o b \in Seq(T) /\ Len(c \o b) = Len(c) + Len(b)
          /\ DOMAIN (c \o b) = 1..(Len(c) + Len(b))
          /\ \A i \in 1..Len(c) : (c \o b)[i] = c[i]
          /\ \A i \in 1..Len(b) : (c \o b)[i + Len(c)] = b[i]
      <4>1. c \in Seq(T) /\ b \in Seq(T)
        BY <1>5, <1>7
      <4>2. Len(c) \in Nat /\ Len(b) \in Nat /\ c \o b \in Seq(T)
        BY <4>1, ConcatPoints
      <4>3. Len(c \o b) = Len(c) + Len(b) /\ DOMAIN (c \o b) = 1..(Len(c) + Len(b))
        BY <4>1, ConcatPoints
      <4>4. \A i \in 1..Len(c) : (c \o b)[i] = c[i]
        BY <4>1, ConcatPoints
      <4>5. \A i \in 1..Len(b) : (c \o b)[i + Len(c)] = b[i]
        BY <4>1, ConcatPoints
      <4> QED BY <4>2, <4>3, <4>4, <4>5
    <3>2. Len(c) = q + 1 /\ Len(b) = n - q /\ Len(c) + Len(b) = n + 1
      BY <1>1, <1>5, <1>7
    <3> QED BY <3>1, <3>2
  <2>2. ASSUME NEW i \in (q + 1)..n PROVE m[i + 1] = l[i]
    <3>0. n \in Nat /\ q \in Nat /\ i \in Nat /\ q <= n /\ q + 1 <= i /\ i <= n
      BY <1>1
    <3>1. i - q \in 1..(n - q) /\ (i - q) + (q + 1) = i + 1 /\ q + (i - q) = i
      BY <3>0
    <3>2. (c \o b)[(i - q) + (q + 1)] = b[i - q]
      BY <2>1, <3>1
    <3>3. b[i - q] = l[q + (i - q)]
      BY <1>5, <3>1
    <3> QED BY <1>3, <3>1, <3>2, <3>3
  <2> QED BY <1>1, <1>3, <1>7, <2>1, <2>2
<1> QED BY <1>1, <1>2, <1>8 DEF n

LEMMA InsertedIs ==
    ASSUME NEW l \in Seq(EventSet), NEW e \in EventSet, Ordered(l),
           NEW m \in Inserted(l, e)
    PROVE  m \in Seq(EventSet) /\ Ordered(m) /\ Range(m) = Range(l) \union {e}
<1> DEFINE n == Len(l)
<1>1. n \in Nat /\ DOMAIN l = 1..n /\ \A i \in 1..n : l[i] \in EventSet /\ l[i].at \in Nat
  <2>1. n \in Nat /\ DOMAIN l = 1..n /\ \A i \in 1..n : l[i] \in EventSet
    BY LenProperties, ElementOfSeq
  <2>2. \A x \in EventSet : x.at \in Nat
    BY DEF EventSet
  <2> HIDE DEF n
  <2> QED BY <2>1, <2>2
<1>2. m \in Seq(EventSet) /\ DOMAIN m = 1..(n + 1)
    BY InsertedPoints
<1>3. PICK q \in 0..n :
        /\ \A i \in 1..q : m[i] = l[i] /\ l[i].at <= e.at
        /\ m[q + 1] = e
        /\ \A i \in (q + 1)..n : m[i + 1] = l[i] /\ l[i].at >= e.at
    BY InsertedPoints
<1>4. /\ m \in Seq(EventSet) /\ DOMAIN m = 1..(n + 1)
      /\ \A i \in 1..q : m[i] = l[i]
      /\ m[q + 1] = e
      /\ \A i \in (q + 1)..n : m[i + 1] = l[i]
    BY <1>2, <1>3
<1> HIDE DEF n
<1>5. Range(m) = Range(l) \union {e}
  <2>1. ASSUME NEW x \in Range(m) PROVE x \in Range(l) \union {e}
    <3>1. PICK i \in 1..(n + 1) : x = m[i]
      BY <1>4, <2>1 DEF Range
    <3>2. CASE i <= q
      <4>1. i \in 1..q /\ i \in 1..n
        BY <1>1, <3>2
      <4>2. x = l[i] /\ i \in DOMAIN l
        BY <1>1, <1>4, <3>1, <4>1
      <4> QED BY <4>2 DEF Range
    <3>3. CASE i = q + 1
      BY <1>4, <3>1, <3>3
    <3>4. CASE i > q + 1
      <4>1. i - 1 \in (q + 1)..n /\ (i - 1) + 1 = i /\ i - 1 \in 1..n
        BY <1>1, <3>4
      <4>2. m[i] = l[i - 1]
        BY <1>4, <4>1
      <4> QED BY <1>1, <3>1, <4>1, <4>2 DEF Range
    <3> QED BY <1>1, <3>2, <3>3, <3>4
  <2>2. ASSUME NEW x \in Range(l) PROVE x \in Range(m)
    <3>1. PICK i \in 1..n : x = l[i]
      BY <1>1, <2>2 DEF Range
    <3>2. CASE i <= q
      <4>1. i \in 1..q /\ i \in 1..(n + 1)
        BY <1>1, <3>2
      <4>2. x = m[i] /\ i \in DOMAIN m
        BY <1>4, <3>1, <4>1
      <4> QED BY <4>2 DEF Range
    <3>3. CASE i > q
      <4>1. i + 1 \in 1..(n + 1) /\ m[i + 1] = x
        BY <1>1, <1>4, <3>1, <3>3
      <4> QED BY <1>4, <4>1 DEF Range
    <3> QED BY <1>1, <3>2, <3>3
  <2>3. e \in Range(m)
    BY <1>1, <1>4 DEF Range
  <2> QED BY <2>1, <2>2, <2>3
<1>6. Ordered(m)
  <2>1. e.at \in Nat
    BY DEF EventSet
  <2> SUFFICES ASSUME NEW i \in 1..(n + 1), NEW j \in 1..(n + 1), i <= j
               PROVE  m[i].at <= m[j].at
    BY <1>4 DEF Ordered
  <2>2. \A x, y \in 1..n : x <= y => l[x].at <= l[y].at
    BY <1>1 DEF Ordered
  <2>3. CASE j <= q
    BY <1>1, <1>4, <2>2, <2>3
  <2>4. CASE i <= q /\ j = q + 1
    BY <1>1, <1>3, <1>4, <2>4
  <2>5. CASE i <= q /\ j > q + 1
    <3>1. j - 1 \in (q + 1)..n /\ (j - 1) + 1 = j /\ j - 1 \in 1..n /\ i \in 1..n /\ i <= j - 1
      BY <1>1, <2>5
    <3>2. m[j] = l[j - 1] /\ m[i] = l[i]
      BY <1>4, <2>5, <3>1
    <3> QED BY <2>2, <3>1, <3>2
  <2>6. CASE i = q + 1 /\ j = q + 1
    BY <1>4, <2>1, <2>6
  <2>7. CASE i = q + 1 /\ j > q + 1
    <3>1. j - 1 \in (q + 1)..n /\ (j - 1) + 1 = j /\ j - 1 \in 1..n
      BY <1>1, <2>7
    <3>2. m[j] = l[j - 1] /\ m[i] = e
      BY <1>4, <2>7, <3>1
    <3>3. l[j - 1].at >= e.at /\ l[j - 1].at \in Nat
      BY <1>1, <1>3, <3>1
    <3> QED BY <2>1, <3>2, <3>3
  <2>8. CASE i > q + 1
    <3>1. /\ j - 1 \in (q + 1)..n /\ (j - 1) + 1 = j /\ j - 1 \in 1..n
          /\ i - 1 \in (q + 1)..n /\ (i - 1) + 1 = i /\ i - 1 \in 1..n /\ i - 1 <= j - 1
      BY <1>1, <2>8
    <3>2. m[j] = l[j - 1] /\ m[i] = l[i - 1]
      BY <1>4, <3>1
    <3> QED BY <2>2, <3>1, <3>2
  <2> QED BY <1>1, <2>3, <2>4, <2>5, <2>6, <2>7, <2>8
<1> QED BY <1>4, <1>5, <1>6

-----------------------------------------------------------------------------
\* How the world grows by an event, a gate, a version or a period

\* An event that no other judges.
Plain(e) == e.type \notin {"review", "built", "clean"}

LEMMA OfWider ==
    ASSUME NEW E, NEW e, NEW type
    PROVE  /\ Of(E, type) \subseteq Of(E \union {e}, type)
           /\ e.type # type => Of(E \union {e}, type) = Of(E, type)
           /\ e.type = type => Of(E \union {e}, type) = Of(E, type) \union {e}
BY DEF Of

\* Of the events that are not reviews, more make nothing false.
LEMMA AgreesWider ==
    ASSUME NEW E, NEW e, e.type # "review", NEW s, NEW t, Agrees(E, s, t)
    PROVE  Agrees(E \union {e}, s, t)
BY OfWider DEF Agrees

LEMMA AnsweredWider ==
    ASSUME NEW E, NEW e, NEW h, NEW s, NEW t, Answered(E, h, s, t)
    PROVE  Answered(E \union {e}, h, s, t)
BY OfWider DEF Answered

LEMMA GateSoundWider ==
    ASSUME NEW E, NEW e, e.type # "review", NEW h, NEW n, NEW g, GateSound(E, h, n, g)
    PROVE  GateSound(E \union {e}, h, n, g)
BY AgreesWider, AnsweredWider DEF GateSound

LEMMA PlainEvent ==
    ASSUME NEW E, NEW G, NEW h, NEW n, World(E, G, h, n), NEW F \in SUBSET G,
           NEW e, Plain(e), e.at <= n, CyclePast(e)
    PROVE  World(E \union {e}, F, h, n)
<1> DEFINE X == E \union {e}
<1>1. /\ Of(X, "review") = Of(E, "review") /\ Of(X, "clean") = Of(E, "clean")
      /\ e.type # "review"
  <2>1. e.type # "review" /\ e.type # "clean"
    BY DEF Plain
  <2>2. Of(X, "review") = Of(E, "review")
    BY <2>1, OfWider
  <2>3. Of(X, "clean") = Of(E, "clean")
    BY <2>1, OfWider
  <2> QED BY <2>1, <2>2, <2>3
<1>2. \A x \in X : x.at <= n /\ CyclePast(x)
    BY DEF World
<1>3. \E x \in X : x.type = "review"
    BY DEF World
<1>4. \A r \in Of(X, "review") : Answered(X, h, r.version, r.at + 1)
    BY <1>1, AnsweredWider DEF World
<1>5. \A c \in Of(X, "clean") : Answered(X, h, c.version, c.at) /\ Agrees(X, c.version, c.at)
    BY <1>1, AnsweredWider, AgreesWider DEF World
<1>6. \A g \in F : GateSound(X, h, n, g)
    BY <1>1, GateSoundWider DEF World
<1> HIDE DEF X
<1>7. World(X, F, h, n)
    BY <1>2, <1>3, <1>4, <1>5, <1>6 DEF World
<1> QED BY <1>7 DEF X

\* A gate's clean outcome has the version and the time that the gate read.
LEMMA CleanEvent ==
    ASSUME NEW E, NEW G, NEW h, NEW n, World(E, G, h, n), NEW F \in SUBSET G,
           NEW g \in G, NEW e, e.type = "clean", e.at = g.at, e.version = g.version
    PROVE  World(E \union {e}, F, h, n)
<1> DEFINE X == E \union {e}
<1>1. /\ Of(X, "review") = Of(E, "review") /\ Of(X, "clean") = Of(E, "clean") \union {e}
      /\ e.type # "review" /\ e.type # "tooling"
    BY OfWider
<1>2. GateSound(E, h, n, g)
    BY DEF World
<1>3. Answered(E, h, e.version, e.at) /\ Agrees(E, e.version, e.at) /\ e.at <= n
    BY <1>2 DEF GateSound
<1>4. \A x \in X : x.at <= n /\ CyclePast(x)
    BY <1>1, <1>3 DEF World, CyclePast
<1>5. \E x \in X : x.type = "review"
    BY DEF World
<1>6. \A r \in Of(X, "review") : Answered(X, h, r.version, r.at + 1)
    BY <1>1, AnsweredWider DEF World
<1>7. \A c \in Of(X, "clean") : Answered(X, h, c.version, c.at) /\ Agrees(X, c.version, c.at)
    BY <1>1, <1>3, AnsweredWider, AgreesWider DEF World
<1>8. \A x \in F : GateSound(X, h, n, x)
    BY <1>1, GateSoundWider DEF World
<1> HIDE DEF X
<1>9. World(X, F, h, n)
    BY <1>4, <1>5, <1>6, <1>7, <1>8 DEF World
<1> QED BY <1>9 DEF X

LEMMA BuiltIsOther ==
    ASSUME NEW E, NEW e, e.type = "built"
    PROVE  /\ Of(E \union {e}, "review") = Of(E, "review")
           /\ Of(E \union {e}, "clean") = Of(E, "clean")
           /\ e.type # "review" /\ e.type # "tooling" /\ e \in Of(E \union {e}, "built")
<1>1. e.type # "review" /\ e.type # "clean" /\ e.type # "tooling"
    OBVIOUS
<1>2. e \in Of(E \union {e}, "built")
    BY DEF Of
<1> QED BY <1>1, <1>2, OfWider

\* A build is later than all that read or judged the version before it.
LEMMA BuiltEvent ==
    ASSUME NEW E \in SUBSET EventSet, NEW G \in SUBSET GateSet, NEW h \in Nat, NEW n \in Nat,
           World(E, G, h, n),
           \A r \in Of(E, "review") : r.at < n,
           NEW e \in EventSet, e.type = "built", e.at = n
    PROVE  World(E \union {e}, G, h + 1, n)
<1> DEFINE X == E \union {e}
<1>1. /\ Of(X, "review") = Of(E, "review") /\ Of(X, "clean") = Of(E, "clean")
      /\ e.type # "review" /\ e.type # "tooling" /\ e \in Of(X, "built")
    BY BuiltIsOther, Zenon
<1>2. ASSUME NEW s \in Nat, NEW t \in Nat, t <= n, Answered(X, h, s, t)
      PROVE  Answered(X, h + 1, s, t)
    BY <1>1, <1>2 DEF Answered
<1>3. /\ \A x \in E : x.at \in Nat /\ x.version \in Nat
      /\ \A x \in G : x.at \in Nat /\ x.version \in Nat
    BY DEF EventSet, GateSet
<1>4. \A x \in X : x.at <= n /\ CyclePast(x)
    BY <1>1 DEF World, CyclePast
<1>5. \E x \in X : x.type = "review"
    BY DEF World
<1>6. ASSUME NEW r \in Of(X, "review") PROVE Answered(X, h + 1, r.version, r.at + 1)
  <2>1. r \in Of(E, "review") /\ r \in E
    BY <1>1, <1>6 DEF Of
  <2>2. r.at + 1 \in Nat /\ r.at + 1 <= n /\ r.version \in Nat
    BY <1>3, <2>1
  <2>3. Answered(X, h, r.version, r.at + 1)
    BY <2>1, AnsweredWider DEF World
  <2> HIDE DEF X
  <2> QED BY <1>2, <2>2, <2>3
<1>7. ASSUME NEW c \in Of(X, "clean")
      PROVE  Answered(X, h + 1, c.version, c.at) /\ Agrees(X, c.version, c.at)
  <2>1. c \in Of(E, "clean") /\ c \in E
    BY <1>1, <1>7 DEF Of
  <2>2. c.at \in Nat /\ c.at <= n /\ c.version \in Nat
    BY <1>3, <2>1 DEF World
  <2>3. Answered(X, h, c.version, c.at) /\ Agrees(X, c.version, c.at)
    BY <1>1, <2>1, AnsweredWider, AgreesWider DEF World
  <2> HIDE DEF X
  <2> QED BY <1>2, <2>2, <2>3
<1>8. ASSUME NEW g \in G PROVE GateSound(X, h + 1, n, g)
  <2>1. GateSound(X, h, n, g)
    BY <1>1, GateSoundWider DEF World
  <2>2. g.at \in Nat /\ g.at <= n /\ g.version \in Nat
    BY <1>3, <2>1 DEF GateSound
  <2> HIDE DEF X
  <2> QED BY <1>2, <2>1, <2>2 DEF GateSound
<1> HIDE DEF X
<1>9. World(X, G, h + 1, n)
    BY <1>4, <1>5, <1>6, <1>7, <1>8 DEF World
<1> QED BY <1>9 DEF X

\* A review of the branch is later than the build, and so than all that read an
\* older version.
LEMMA ReviewEvent ==
    ASSUME NEW E \in SUBSET EventSet, NEW G \in SUBSET GateSet, NEW h \in Nat, NEW n \in Nat,
           World(E, G, h, n),
           \A b \in Of(E, "built") : b.at < n,
           NEW e \in EventSet, e.type = "review", e.at = n, e.version = h
    PROVE  World(E \union {e}, G, h, n)
<1> DEFINE X == E \union {e}
<1>1. /\ Of(X, "review") = Of(E, "review") \union {e} /\ Of(X, "clean") = Of(E, "clean")
      /\ Of(X, "built") = Of(E, "built")
      /\ e.type # "tooling" /\ e.at + 1 \in Nat
  <2>1. e.type # "built" /\ e.type # "clean" /\ e.type # "tooling"
    OBVIOUS
  <2>2. Of(X, "review") = Of(E, "review") \union {e} /\ Of(X, "clean") = Of(E, "clean")
    BY <2>1, OfWider
  <2>3. Of(X, "built") = Of(E, "built")
    BY <2>1, OfWider
  <2>4. e.at + 1 \in Nat
    OBVIOUS
  <2> QED BY <2>1, <2>2, <2>3, <2>4
<1>2. ASSUME NEW s \in Nat, NEW t \in Nat, Answered(E, h, s, t), Agrees(E, s, t)
      PROVE  Agrees(X, s, t)
  <2>1. s <= h
    BY <1>2 DEF Answered
  <2>2. s < h => t < n
    <3>1. \A b \in Of(E, "built") : b.at \in Nat
      BY DEF Of, EventSet
    <3> QED BY <1>2, <3>1 DEF Answered
  <2> HIDE DEF X
  <2> QED BY <1>1, <1>2, <2>1, <2>2 DEF Agrees
<1>3. /\ \A x \in E : x.at \in Nat /\ x.version \in Nat
      /\ \A x \in G : x.at \in Nat /\ x.version \in Nat
    BY DEF EventSet, GateSet
<1>4. \A x \in X : x.at <= n /\ CyclePast(x)
    BY <1>1 DEF World, CyclePast
<1>5. \E x \in X : x.type = "review"
    BY DEF World
<1>6. ASSUME NEW r \in Of(X, "review") PROVE Answered(X, h, r.version, r.at + 1)
  <2>1. Answered(X, h, e.version, e.at + 1)
    BY DEF Answered
  <2>2. CASE r \in Of(E, "review")
    BY <2>2, AnsweredWider DEF World
  <2> QED BY <1>1, <1>6, <2>1, <2>2
<1>7. ASSUME NEW c \in Of(X, "clean")
      PROVE  Answered(X, h, c.version, c.at) /\ Agrees(X, c.version, c.at)
  <2>1. c \in Of(E, "clean") /\ c \in E
    BY <1>1, <1>7 DEF Of
  <2>2. c.at \in Nat /\ c.version \in Nat /\ Answered(E, h, c.version, c.at) /\ Agrees(E, c.version, c.at)
    BY <1>3, <2>1 DEF World
  <2>3. Answered(X, h, c.version, c.at)
    BY <2>2, AnsweredWider
  <2> HIDE DEF X
  <2> QED BY <1>2, <2>2, <2>3
<1>8. ASSUME NEW g \in G PROVE GateSound(X, h, n, g)
  <2>1. GateSound(E, h, n, g) /\ g.at \in Nat /\ g.version \in Nat
    BY <1>3 DEF World
  <2>2. Answered(X, h, g.version, g.at)
    BY <2>1, AnsweredWider DEF GateSound
  <2> HIDE DEF X
  <2> QED BY <1>2, <2>1, <2>2 DEF GateSound
<1> HIDE DEF X
<1>9. World(X, G, h, n)
    BY <1>4, <1>5, <1>6, <1>7, <1>8 DEF World
<1> QED BY <1>9 DEF X

\* A gate reads the branch as it is.
LEMMA GateStarts ==
    ASSUME NEW E \in SUBSET EventSet, NEW G, NEW h \in Nat, NEW n \in Nat,
           World(E, G, h, n), NEW g, g.at = n, g.version = h, g.cycle <= n
    PROVE  World(E, G \union {g}, h, n)
<1>1. Answered(E, h, g.version, g.at)
    BY DEF Answered
<1>2. Agrees(E, g.version, g.at)
  <2> SUFFICES ASSUME NEW r \in Of(E, "review")
               PROVE  /\ r.version < h => \E b \in Of(E, "built") : r.at < b.at /\ b.at <= n
                      /\ h < r.version => n < r.at
    BY DEF Agrees
  <2>1. Answered(E, h, r.version, r.at + 1) /\ r.at \in Nat /\ r.version \in Nat
    BY DEF World, Of, EventSet
  <2>2. \A b \in Of(E, "built") : b.at \in Nat /\ b.at <= n
    BY DEF World, Of, EventSet
  <2> QED BY <2>1, <2>2 DEF Answered
<1>3. GateSound(E, h, n, g)
    BY <1>1, <1>2 DEF GateSound
<1> QED BY <1>3 DEF World

LEMMA PeriodPasses ==
    ASSUME NEW E \in SUBSET EventSet, NEW G \in SUBSET GateSet, NEW h, NEW n \in Nat,
           World(E, G, h, n)
    PROVE  World(E, G, h, n + 1)
<1>1. \A x \in E : x.at \in Nat
    BY DEF EventSet
<1>2. \A x \in E : x.at <= n + 1
    BY <1>1 DEF World
<1>3. \A g \in G : GateSound(E, h, n + 1, g)
  <2>1. \A g \in G : g.at \in Nat /\ g.at <= n
    BY DEF World, GateSound, GateSet
  <2>2. \A g \in G : g.at <= n + 1
    BY <2>1
  <2> QED BY <2>2 DEF World, GateSound
<1> QED BY <1>2, <1>3 DEF World

LEMMA FewerGates ==
    ASSUME NEW E, NEW G, NEW h, NEW n, World(E, G, h, n), NEW F \in SUBSET G
    PROVE  World(E, F, h, n)
BY DEF World
-----------------------------------------------------------------------------
\* The events and rows the actions write

LEMMA EventIs ==
    ASSUME NEW type \in EventType, NEW file \in Writer, NEW at \in Nat
    PROVE  /\ Event(type, file, at) \in EventSet
           /\ Event(type, file, at).type = type /\ Event(type, file, at).at = at
BY DEF Event, EventSet, RuleName

\* Some fields of an event are set; its type, file and stamp are not among them.
LEMMA EventSets ==
    ASSUME NEW e \in EventSet
    PROVE  /\ \A x \in Nat : [e EXCEPT !.version = x] \in EventSet
           /\ \A x \in RuleName : [e EXCEPT !.rule = x] \in EventSet
           /\ \A x \in Nat : \A y \in Nat : [e EXCEPT !.version = x, !.rebase = y] \in EventSet
           /\ \A x \in RuleName : \A y \in Nat : [e EXCEPT !.rule = x, !.since = y] \in EventSet
           /\ \A x \in RuleName : \A y \in Nat : \A z \in BOOLEAN :
                 [e EXCEPT !.rule = x, !.since = y, !.retry = z] \in EventSet
           /\ \A x \in Nat : \A y \in BOOLEAN :
                 [e EXCEPT !.cycle = x, !.attempt = y, !.retryable = TRUE] \in EventSet
           /\ [e EXCEPT !.retryable = FALSE, !.hold = TRUE] \in EventSet
           /\ \A x \in Nat : [e EXCEPT !.due = x] \in EventSet
BY DEF EventSet

LEMMA VerdictIs ==
    ASSUME NEW g \in GateSet, NEW type \in {"clean", "rework", "tooling"}
    PROVE  /\ Verdict(g, type) \in EventSet /\ Verdict(g, type).type = type
           /\ Verdict(g, type).at = g.at /\ Verdict(g, type).version = g.version
<1> DEFINE b == Event(type, g.file, g.at)
<1>1. /\ g.file \in Writer /\ g.at \in Nat /\ g.version \in Nat /\ g.rebase \in Nat
      /\ type \in EventType
  BY DEF GateSet, EventType
<1>2. b \in EventSet /\ b.type = type /\ b.at = g.at
  BY <1>1, EventIs
<1>3. Verdict(g, type) = [b EXCEPT !.version = g.version, !.rebase = g.rebase]
  BY DEF Verdict, Stamp
<1> HIDE DEF b
<1>4. [b EXCEPT !.version = g.version, !.rebase = g.rebase] \in EventSet
  BY <1>1, <1>2, EventSets
<1> QED BY <1>2, <1>3, <1>4 DEF EventSet

LEMMA ToolingIs ==
    ASSUME NEW g \in GateSet, NEW busy \in BOOLEAN, NEW retryable \in BOOLEAN
    PROVE  /\ ToolingEvent(g, busy, retryable) \in EventSet
           /\ ToolingEvent(g, busy, retryable).type = "tooling"
           /\ ToolingEvent(g, busy, retryable).at = g.at
           /\ ToolingEvent(g, busy, retryable).cycle = g.cycle
<1> DEFINE base == Verdict(g, "tooling")
           event == [base EXCEPT !.cycle = g.cycle, !.attempt = ~busy, !.retryable = TRUE]
           hold == [event EXCEPT !.retryable = FALSE, !.hold = TRUE]
           due == g.at + Backoff[IF g.count <= 1 THEN 1 ELSE 2]
           later == [event EXCEPT !.due = due]
           Fits(e) == /\ e \in EventSet /\ e.type = "tooling" /\ e.at = g.at
                      /\ e.cycle = g.cycle
<1>1. g.file \in Writer /\ g.at \in Nat /\ g.cycle \in Nat
    BY DEF GateSet
<1>2. due \in Nat
    BY <1>1, LaneAssumption
<1>3. base \in EventSet /\ base.type = "tooling" /\ base.at = g.at
  BY VerdictIs
<1> HIDE DEF base, due
<1>4. Fits(event)
  <2>1. event \in EventSet
    BY <1>1, <1>3, EventSets
  <2>2. event.type = "tooling" /\ event.at = g.at /\ event.cycle = g.cycle
    BY <1>3 DEF EventSet
  <2> QED BY <2>1, <2>2
<1> HIDE DEF event
<1>5. Fits(hold)
  <2>1. hold \in EventSet
    BY <1>4, EventSets
  <2>2. hold.type = "tooling" /\ hold.at = g.at /\ hold.cycle = g.cycle
    BY <1>4 DEF EventSet
  <2> QED BY <2>1, <2>2
<1>6. Fits(later)
  <2>1. later \in EventSet
    BY <1>2, <1>4, EventSets
  <2>2. later.type = "tooling" /\ later.at = g.at /\ later.cycle = g.cycle
    BY <1>4 DEF EventSet
  <2> QED BY <2>1, <2>2
<1>7. ToolingEvent(g, busy, retryable) \in {event, hold, later}
    BY DEF ToolingEvent, event, base, due
<1> QED BY <1>4, <1>5, <1>6, <1>7

LEMMA UnresolvedIs ==
    ASSUME NEW g \in GateSet
    PROVE  /\ Unresolved(g) \in EventSet /\ Unresolved(g).type = "tooling"
           /\ Unresolved(g).at = g.at /\ Unresolved(g).cycle = g.cycle
<1> DEFINE e == ToolingEvent(g, FALSE, FALSE)
<1>1. e \in EventSet /\ e.type = "tooling" /\ e.at = g.at /\ e.cycle = g.cycle
  BY ToolingIs
<1>2. Unresolved(g) = [e EXCEPT !.version = 0, !.rebase = 0]
  BY DEF Unresolved
<1> HIDE DEF e
<1>3. [e EXCEPT !.version = 0, !.rebase = 0] \in EventSet
  BY <1>1, EventSets
<1> QED BY <1>1, <1>2, <1>3 DEF EventSet

LEMMA CleanReviewIs ==
    ASSUME NEW l \in Seq(EventSet), Ordered(l), CleanReview(l) # None
    PROVE  /\ CleanReview(l) \in Of(Range(l), "review") /\ CleanReview(l) \in EventSet
           /\ \A b \in Of(Range(l), "built") : b.at <= CleanReview(l).at
<1> DEFINE types == Judging \union {"built"}
           r == Latest(l, types)
<1>1. Has(l, types) /\ r.type = "review" /\ CleanReview(l) = r
    BY DEF CleanReview
<1>2. r \in Range(l) /\ r \in EventSet
      /\ \A e \in Range(l) : e.type \in types => e.at <= r.at
    BY <1>1, LatestEvent
<1> HIDE DEF r
<1> QED BY <1>1, <1>2 DEF Of

\* Tooling, with the event it is about, the failure whose policy holds and the
\* hold it gives by name.
LastOutcome(l) == Latest(l, Answer \union Judging)
LastTry(l) ==
    LET past == Acquired(l, LastOutcome(l))
    IN  l[CHOOSE i \in past : \A j \in past : j <= i]
Policy(l) ==
    IF ~LastOutcome(l).attempt /\ Acquired(l, LastOutcome(l)) # {}
    THEN LastTry(l) ELSE LastOutcome(l)
Standing(l, hold, due) == [at |-> LastOutcome(l).at, hold |-> hold, due |-> due]

LEMMA ToolingCases ==
    ASSUME NEW l
    PROVE  Tooling(l) =
             IF \/ ~Has(l, Answer \union Judging) \/ LastOutcome(l).type # "tooling"
                \/ CleanReview(l) # None /\ CleanReview(l).at > LastOutcome(l).at
             THEN None
             ELSE IF CleanReview(l) = None \/ LastOutcome(l).cycle # CleanReview(l).at
             THEN Standing(l, TRUE, 0)
             ELSE IF Reset(l) > LastOutcome(l).at THEN Standing(l, FALSE, 0)
             ELSE Standing(l, \/ Policy(l).hold \/ ~Policy(l).retryable
                              \/ Attempts(l, LastOutcome(l)) >= 3, Policy(l).due)
BY Zenon DEF Tooling, LastOutcome, LastTry, Policy, Standing

\* The standing tooling hold is of the last outcome or judgment.
LEMMA ToolingAt ==
    ASSUME NEW l, Tooling(l) # None
    PROVE  /\ Has(l, Answer \union Judging)
           /\ Tooling(l).at = LastOutcome(l).at
<1>1. Has(l, Answer \union Judging) /\ \E h, d : Tooling(l) = Standing(l, h, d)
    BY ToolingCases
<1> QED BY <1>1 DEF Standing

LEMMA GateRowIs ==
    ASSUME NEW l \in Seq(EventSet), Ordered(l), NEW t, NEW row \in GateRow(l, t)
    PROVE  row \in RowSet /\ row.rule = "gate"
<1> DEFINE types == Answer \union Judging
<1>1. CASE Tooling(l) # None
  <2>1. row = [rule |-> "gate", since |-> Tooling(l).at]
    BY <1>1 DEF GateRow, Row
  <2>2. Has(l, types) /\ Tooling(l).at = Latest(l, types).at
    BY <1>1, ToolingAt DEF LastOutcome
  <2>3. Tooling(l).at \in Nat
    BY <2>2, LatestEvent DEF EventSet
  <2> QED BY <2>1, <2>3 DEF RowSet
<1>2. CASE Tooling(l) = None
  <2>1. CleanReview(l) # None /\ row = [rule |-> "gate", since |-> CleanReview(l).at]
    BY <1>2 DEF GateRow, Row
  <2>2. CleanReview(l).at \in Nat
    BY <2>1, CleanReviewIs DEF EventSet
  <2> QED BY <2>1, <2>2 DEF RowSet
<1> QED BY <1>1, <1>2

LEMMA EnqueueRowIs ==
    ASSUME NEW l \in Seq(EventSet), Ordered(l), NEW row \in EnqueueRow(l)
    PROVE  /\ row \in RowSet /\ row.rule = "enqueue"
           /\ CleanReview(l) # None /\ row.since = CleanReview(l).at
           /\ Has(l, Answer) /\ Latest(l, Answer).type = "clean"
           /\ Latest(l, Answer).at >= CleanReview(l).at
<1>1. /\ row = [rule |-> "enqueue", since |-> CleanReview(l).at]
      /\ CleanReview(l) # None
      /\ Has(l, Answer) /\ Latest(l, Answer).type = "clean"
      /\ Latest(l, Answer).at >= CleanReview(l).at
    BY DEF EnqueueRow, Row
<1>2. CleanReview(l).at \in Nat
    BY <1>1, CleanReviewIs DEF EventSet
<1> QED BY <1>1, <1>2 DEF RowSet

\* The last event of some types is the last of its own type.
LEMMA LatestOfType ==
    ASSUME NEW l \in Seq(EventSet), NEW types, Has(l, types),
           NEW type, Latest(l, types).type = type
    PROVE  Has(l, {type}) /\ Latest(l, {type}) = Latest(l, types)
<1>1. PICK k \in DOMAIN l : /\ k \in Index(l, types) /\ Latest(l, types) = l[k]
                            /\ \A j \in Index(l, types) : j <= k
    BY LatestIs
<1>2. k \in Index(l, {type}) /\ type \in types
    BY <1>1 DEF Index
<1>3. Has(l, {type})
    BY <1>2 DEF Has
<1>4. PICK m \in DOMAIN l : /\ m \in Index(l, {type}) /\ Latest(l, {type}) = l[m]
                            /\ \A j \in Index(l, {type}) : j <= m
    BY <1>3, LatestIs
<1>5. m \in Index(l, types)
    BY <1>2, <1>4 DEF Index
<1>6. k <= m
    BY <1>2, <1>4
<1>7. m <= k
    BY <1>1, <1>5
<1>8. k \in Nat /\ m \in Nat
    BY LenProperties
<1>9. k = m
    BY <1>6, <1>7, <1>8
<1> QED BY <1>1, <1>3, <1>4, <1>9

LEMMA AttemptsNumber ==
    ASSUME NEW l \in Seq(EventSet), NEW event
    PROVE  Attempts(l, event) \in Nat
<1>1. Len(l) \in Nat /\ DOMAIN l = 1..Len(l)
    BY LenProperties
<1> DEFINE S == {i \in Acquired(l, event) : l[i].retryable}
<1>2. S \in SUBSET (1..Len(l))
    BY <1>1 DEF Acquired, Index
<1>3. IsFiniteSet(S)
  <2>1. IsFiniteSet(1..Len(l))
    BY <1>1, FS_Interval
  <2> HIDE DEF S
  <2> QED BY <1>2, <2>1, FS_Subset
<1> QED BY <1>3, FS_CardinalityType DEF Attempts
-----------------------------------------------------------------------------
\* What the rules make of a copy

\* The gate row of a copy: the last failure that held the scan lock lets it run.
LEMMA GateRowWaits ==
    ASSUME NEW l \in Seq(EventSet), Ordered(l), \A e \in Range(l) : CyclePast(e),
           NEW t \in Nat, GateRow(l, t) # {},
           NEW last, Has(l, {"tooling"}), last = Latest(l, {"tooling"}),
           last.cycle = CleanReview(l).at,
           NEW i \in Acquired(l, last), \A j \in Acquired(l, last) : j <= i
    PROVE  l[i].retryable /\ t >= l[i].due
<1> DEFINE r == CleanReview(l)
           types == Answer \union Judging
           past == Acquired(l, last)
<1>1. DOMAIN l = 1..Len(l) /\ Len(l) \in Nat /\ \A j \in DOMAIN l : l[j] \in EventSet
    BY LenProperties, ElementOfSeq
<1>2. /\ i \in DOMAIN l /\ l[i].type = "tooling" /\ l[i].cycle = r.at
      /\ l[i].attempt /\ l[i].at > Reset(l)
    BY DEF Acquired, Index
<1>3. l[i] \in EventSet /\ l[i] \in Range(l) /\ l[i].cycle <= l[i].at
      /\ l[i].at \in Nat /\ l[i].due \in Nat /\ l[i].cycle \in Nat
    BY <1>1, <1>2 DEF Range, CyclePast, EventSet
<1>4. ASSUME Tooling(l) = None PROVE FALSE
  <2>1. r # None /\ ~After(l, r.at, Outcome \union {"queue-add"})
    BY <1>4 DEF GateRow
  <2>2. l[i].type \in Outcome \union {"queue-add"} /\ l[i].at >= r.at
    BY <1>2, <1>3 DEF Outcome
  <2> QED BY <1>3, <2>1, <2>2, AfterIs
<1>5. ~Tooling(l).hold /\ ~(t < Tooling(l).due) /\ Tooling(l) # None
    BY <1>4 DEF GateRow
<1> DEFINE w == LastOutcome(l)
<1>6. Has(l, types) /\ w.type = "tooling"
    BY <1>5, ToolingCases
<1>7. PICK k \in DOMAIN l : /\ k \in Index(l, types) /\ w = l[k]
                            /\ \A j \in Index(l, types) : j <= k
    BY <1>6, LatestIs DEF LastOutcome
<1>8. /\ w \in EventSet /\ w.at \in Nat /\ i <= k /\ l[i].at <= w.at
  <2>1. i \in Index(l, types)
    BY <1>2 DEF Index, Answer, Outcome
  <2>2. w \in EventSet
    BY <1>1, <1>7
  <2>3. i <= k
    BY <1>7, <2>1
  <2> HIDE DEF w
  <2> QED BY <1>2, <1>7, <2>2, <2>3 DEF Ordered, EventSet
<1>9. r # None /\ w = last
  <2>1. ASSUME r = None PROVE FALSE
    <3>1. Tooling(l) = Standing(l, TRUE, 0)
      BY <1>5, <1>6, <2>1, ToolingCases
    <3> QED BY <1>5, <3>1 DEF Standing
  <2>2. w = last
    BY <1>6, LatestOfType DEF LastOutcome
  <2> QED BY <2>1, <2>2
<1>10. Reset(l) \in Nat
  <2>1. CASE Has(l, {"unblocked"})
    BY <2>1, LatestEvent DEF Reset, EventSet
  <2>2. CASE ~Has(l, {"unblocked"})
    BY <2>2 DEF Reset
  <2> QED BY <2>1, <2>2
<1>11. ~(Reset(l) > w.at)
    BY <1>2, <1>3, <1>8, <1>10
<1>12. Policy(l) = l[i]
  <2>1. i \in past
    OBVIOUS
  <2>2. CASE ~w.attempt
    <3>1. Policy(l) = LastTry(l)
      BY <1>9, <2>1, <2>2 DEF Policy
    <3>2. \A j \in past : j \in Nat
      BY <1>1 DEF Acquired, Index
    <3>3. (CHOOSE m \in past : \A j \in past : j <= m) = i
      BY <2>1, <3>2
    <3> QED BY <1>9, <3>1, <3>3 DEF LastTry
  <2>3. CASE w.attempt
    <3>1. Policy(l) = w
      BY <2>3 DEF Policy
    <3>2. k \in past
      <4>1. w.at > Reset(l)
        BY <1>2, <1>3, <1>8, <1>10
      <4>2. k \in Index(l, {"tooling"})
        BY <1>6, <1>7 DEF Index
      <4> QED BY <1>7, <1>9, <2>3, <4>1, <4>2 DEF Acquired
    <3>3. k <= i
      BY <3>2
    <3>4. k = i
      BY <1>1, <1>2, <1>7, <1>8, <3>3
    <3> QED BY <1>7, <3>1, <3>4
  <2> QED BY <2>2, <2>3
<1>13. PICK h : /\ h = (\/ Policy(l).hold \/ ~Policy(l).retryable
                      \/ Attempts(l, LastOutcome(l)) >= 3)
                /\ Tooling(l) = Standing(l, h, Policy(l).due)
    BY <1>5, <1>6, <1>9, <1>11, ToolingCases
<1>14. Tooling(l).hold = h /\ Tooling(l).due = Policy(l).due
    BY <1>13 DEF Standing
<1>15. l[i].retryable
  <2>1. ~h
    BY <1>5, <1>14
  <2> QED BY <1>12, <1>13, <2>1, Zenon
<1>16. t >= l[i].due
  <2>1. ~(t < l[i].due)
    BY <1>5, <1>12, <1>14
  <2> QED BY <1>3, <2>1
<1> QED BY <1>15, <1>16

\* The enqueue row of a copy: its last clean has the version of the clean review.
LEMMA EnqueueRowReviewed ==
    ASSUME NEW l \in Seq(EventSet), Copy(l), NEW row \in EnqueueRow(l)
    PROVE  Latest(l, {"clean"}).version = CleanReview(l).version
<1> DEFINE r == CleanReview(l)
           c == Latest(l, {"clean"})
<1>1. Ordered(l)
    BY DEF Copy
<1>2. /\ r # None /\ row.since = r.at /\ Has(l, Answer)
      /\ Latest(l, Answer).type = "clean" /\ Latest(l, Answer).at >= r.at
    BY <1>1, EnqueueRowIs
<1>3. c = Latest(l, Answer) /\ c \in Range(l) /\ c \in EventSet /\ c.type = "clean"
    BY <1>1, <1>2, LatestOfType, LatestEvent
<1>4. /\ r \in Of(Range(l), "review") /\ r \in EventSet
      /\ \A b \in Of(Range(l), "built") : b.at <= r.at
    BY <1>1, <1>2, CleanReviewIs
<1>5. Agrees(Range(l), c.version, c.at)
    BY <1>3 DEF Copy, Of
<1>6. c.at \in Nat /\ c.version \in Nat /\ r.at \in Nat /\ r.version \in Nat
    BY <1>3, <1>4 DEF EventSet
<1>7. \A b \in Of(Range(l), "built") : b.at \in Nat
  <2>1. Range(l) \in SUBSET EventSet
    BY RangeOfSeq
  <2>2. \A e \in EventSet : e.at \in Nat
    BY DEF EventSet
  <2> QED BY <2>1, <2>2 DEF Of
<1>8. ~(r.version < c.version)
    BY <1>4, <1>5, <1>6, <1>7 DEF Agrees
<1>9. ~(c.version < r.version)
    BY <1>2, <1>3, <1>4, <1>5, <1>6 DEF Agrees
<1>10. r.version = c.version
    BY <1>6, <1>8, <1>9
<1> QED BY <1>10
-----------------------------------------------------------------------------
\* The invariant

LEMMA EmptyCopy == Copy(<<>>) /\ Range(<<>>) = {} /\ <<>> \in Seq(EventSet)
<1>1. Range(<<>>) = {} /\ DOMAIN <<>> = {}
  <2>1. DOMAIN <<>> = 1..0
    BY EmptySeq, LenProperties
  <2>2. 1..0 = {}
    OBVIOUS
  <2> QED BY <2>1, <2>2 DEF Range
<1> QED BY <1>1 DEF Copy, Ordered, Of

LEMMA IdleTick == Idle \in TickSet /\ Idle.pc = "idle" /\ Idle.seen = <<>>
BY EmptyCopy DEF Idle, TickSet

\* What the ledger gains takes nothing from the tick's copy.
LEMMA TickKept ==
    ASSUME TypeOK, TickInv, tick' \in {tick, Idle}, Range(log) \subseteq Range(log)'
    PROVE  TickInv' /\ tick' \in TickSet
<1>1. CASE tick' = tick
  <2>1. TickInv'
    BY <1>1 DEF TickInv
  <2> QED BY <1>1, <2>1 DEF TypeOK
<1>2. CASE tick' = Idle
  <2>1. tick'.pc = "idle" /\ tick'.seen = <<>> /\ tick' \in TickSet
    BY <1>2, IdleTick
  <2>2. Range(tick'.seen) \subseteq Range(log)' /\ Copy(tick'.seen)
    BY <2>1, EmptyCopy
  <2> QED BY <2>1, <2>2 DEF TickInv
<1> QED BY <1>1, <1>2

LEMMA LogEvents ==
    ASSUME TypeOK
    PROVE  Range(log) \in SUBSET EventSet
BY RangeOfSeq DEF TypeOK

\* A step that appends one plain event and may end the tick or gates.
LEMMA PlainStep ==
    ASSUME LaneInv, NEW e \in EventSet, Plain(e), e.at <= now, CyclePast(e),
           log' \in Inserted(log, e), tick' \in {tick, Idle}, gates' \subseteq gates,
           UNCHANGED <<now, head>>, ticked' \in BOOLEAN, UNCHANGED <<deaths, manual>>
    PROVE  LaneInv'
<1>1. log' \in Seq(EventSet) /\ Ordered(log)' /\ Range(log)' = Range(log) \union {e}
  <2>1. log \in Seq(EventSet) /\ Ordered(log)
    BY DEF LaneInv, TypeOK
  <2> QED BY <2>1, InsertedIs
<1>2. World(Range(log)', gates', head, now)
  <2>1. World(Range(log) \union {e}, gates', head, now)
    BY PlainEvent DEF LaneInv
  <2> QED BY <1>1, <2>1
<1>3. TickInv' /\ tick' \in TickSet
  <2>1. Range(log) \subseteq Range(log)'
    BY <1>1
  <2> QED BY <2>1, TickKept DEF LaneInv
<1>4. TypeOK'
  <2>1. TypeOK
    BY DEF LaneInv
  <2> QED BY <1>1, <1>3, <2>1 DEF TypeOK
<1>5. World(Range(log), gates, head, now)'
  <2>1. head' = head /\ now' = now
    OBVIOUS
  <2> QED BY <1>2, <2>1
<1> QED BY <1>1, <1>3, <1>4, <1>5 DEF LaneInv

\* A step that writes nothing and may end the tick or gates.
LEMMA QuietStep ==
    ASSUME LaneInv, UNCHANGED <<now, head, log>>, tick' \in {tick, Idle},
           gates' \subseteq gates, ticked' \in BOOLEAN, deaths' \in Nat, manual' \in Nat
    PROVE  LaneInv'
<1>1. TickInv' /\ tick' \in TickSet
  <2>1. log' = log
    OBVIOUS
  <2>2. Range(log) \subseteq Range(log)'
    BY <2>1
  <2> QED BY <2>2, TickKept DEF LaneInv
<1>2. TypeOK'
  <2>1. TypeOK
    BY DEF LaneInv
  <2> QED BY <1>1, <2>1 DEF TypeOK
<1>3. World(Range(log), gates, head, now)' /\ Ordered(log)'
  <2>1. head' = head /\ now' = now /\ log' = log
    OBVIOUS
  <2>2. World(Range(log), gates', head, now) /\ Ordered(log)
    BY FewerGates DEF LaneInv
  <2> QED BY <2>1, <2>2
<1> QED BY <1>1, <1>2, <1>3 DEF LaneInv

LEMMA FailedIs ==
    ASSUME now \in Nat, NEW rule \in RuleName
    PROVE  LET e == [Event("failed", "tick", now) EXCEPT !.rule = rule]
           IN  e \in EventSet /\ Plain(e) /\ e.at <= now /\ CyclePast(e)
<1> DEFINE b == Event("failed", "tick", now)
           e == [b EXCEPT !.rule = rule]
<1>1. b \in EventSet /\ b.type = "failed" /\ b.at = now
  <2>1. "failed" \in EventType /\ "tick" \in Writer
    BY DEF EventType, Writer
  <2> QED BY <2>1, EventIs
<1> HIDE DEF b
<1>2. e \in EventSet
  BY <1>1, EventSets
<1>3. e.type = "failed" /\ e.at = now
  BY <1>1 DEF EventSet
<1> HIDE DEF e
<1>4. e \in EventSet /\ Plain(e) /\ e.at <= now /\ CyclePast(e)
  BY <1>2, <1>3 DEF Plain, CyclePast
<1> QED BY <1>4 DEF e, b

-----------------------------------------------------------------------------
LEMMA LaneInit == Init => LaneInv
<1> SUFFICES ASSUME Init PROVE LaneInv
  OBVIOUS
<1> DEFINE b == Event("review", "judge", 1)
           e == [b EXCEPT !.version = 1]
<1>1. b \in EventSet /\ b.type = "review" /\ b.at = 1
  <2>1. "review" \in EventType /\ "judge" \in Writer
    BY DEF EventType, Writer
  <2> QED BY <2>1, EventIs
<1>2. log = <<e>> /\ head = 1 /\ now = 1 /\ gates = {} /\ tick = Idle
      /\ ticked = FALSE /\ deaths = 0 /\ manual = 0
  BY DEF Init
<1> HIDE DEF b
<1>3. e \in EventSet
  BY <1>1, EventSets
<1>4. e.type = "review" /\ e.at = 1 /\ e.version = 1
  BY <1>1 DEF EventSet
<1> HIDE DEF e
<1>5. log \in Seq(EventSet) /\ Range(log) = {e} /\ Ordered(log)
  <2>1. log \in Seq(EventSet) /\ Len(log) = 1 /\ log[1] = e
    BY <1>2, <1>3
  <2>2. DOMAIN log = 1..1
    BY <2>1, LenProperties
  <2>3. DOMAIN log = {1}
    BY <2>2
  <2>4. e.at <= e.at
    BY <1>4
  <2> QED BY <2>1, <2>3, <2>4 DEF Range, Ordered
<1>6. TypeOK
  <2>1. tick \in TickSet /\ gates \subseteq GateSet
    BY <1>2, IdleTick
  <2> QED BY <1>2, <1>5, <2>1 DEF TypeOK
<1>7. World({e}, {}, 1, 1)
  <2>1. Answered({e}, 1, e.version, e.at + 1)
    BY <1>4 DEF Answered
  <2>2. Of({e}, "review") = {e} /\ Of({e}, "clean") = {}
    BY <1>4 DEF Of
  <2> QED BY <1>4, <2>1, <2>2 DEF World, CyclePast
<1>8. TickInv
  BY <1>2, EmptyCopy, IdleTick DEF TickInv
<1> QED BY <1>2, <1>5, <1>6, <1>7, <1>8 DEF LaneInv

\* Under the tick lock the pass takes the whole ledger as its copy.
LEMMA LaneTickBegin == LaneInv /\ TickBegin => LaneInv'
<1> SUFFICES ASSUME LaneInv, TickBegin PROVE LaneInv'
  OBVIOUS
<1>1. /\ ticked' = TRUE /\ log' = log /\ gates' = gates /\ head' = head /\ now' = now
      /\ deaths' = deaths /\ manual' = manual
      /\ tick' \in {Idle, [Idle EXCEPT !.pc = "read", !.seen = log, !.at = now]}
  BY DEF TickBegin
<1>2. TypeOK /\ Ordered(log) /\ World(Range(log), gates, head, now)
  BY DEF LaneInv
<1>3. CASE tick' = Idle
  BY <1>1, <1>2, <1>3, QuietStep DEF TypeOK
<1>4. CASE tick' = [Idle EXCEPT !.pc = "read", !.seen = log, !.at = now]
  <2>1. tick'.pc = "read" /\ tick'.seen = log /\ tick' \in TickSet
    BY <1>2, <1>4, IdleTick DEF TickSet, TypeOK
  <2>2. Copy(log)
    BY <1>2 DEF Copy, World
  <2>3. TickInv'
    BY <1>1, <2>1, <2>2 DEF TickInv
  <2>4. TypeOK'
    BY <1>1, <1>2, <2>1 DEF TypeOK
  <2>5. Ordered(log)' /\ World(Range(log), gates, head, now)'
    BY <1>1, <1>2
  <2> QED BY <2>3, <2>4, <2>5 DEF LaneInv
<1> QED BY <1>1, <1>3, <1>4

LEMMA LaneDispatch == LaneInv /\ Dispatch => LaneInv'
<1> SUFFICES ASSUME LaneInv, Dispatch PROVE LaneInv'
  OBVIOUS
<1>1. /\ UNCHANGED <<now, head, ticked, gates, deaths, manual>>
      /\ \E e \in Eligible(tick.seen, tick.at) :
            /\ log' \in Inserted(log, Dispatched(e))
            /\ tick' = [tick EXCEPT !.pc = e.row.rule, !.row = e.row]
  BY DEF Dispatch
<1>2. PICK e \in Eligible(tick.seen, tick.at) :
        /\ log' \in Inserted(log, Dispatched(e))
        /\ tick' = [tick EXCEPT !.pc = e.row.rule, !.row = e.row]
  BY <1>1
<1>3. TypeOK /\ TickInv /\ Ordered(log) /\ World(Range(log), gates, head, now)
  BY DEF LaneInv
<1>4. tick \in TickSet /\ tick.seen \in Seq(EventSet) /\ Ordered(tick.seen) /\ now \in Nat
      /\ log \in Seq(EventSet)
  BY <1>3 DEF TypeOK, TickSet, TickInv, Copy
<1> DEFINE row == e.row
           d == Dispatched(e)
<1>5. row \in GateRow(tick.seen, tick.at) \/ row \in EnqueueRow(tick.seen)
  BY DEF Eligible, Due
<1>6. row \in RowSet /\ (row.rule = "gate" => row \in GateRow(tick.seen, tick.at))
      /\ (row.rule = "enqueue" => row \in EnqueueRow(tick.seen))
  <2>1. CASE row \in GateRow(tick.seen, tick.at)
    BY <1>4, <2>1, GateRowIs
  <2>2. CASE row \in EnqueueRow(tick.seen)
    BY <1>4, <2>2, EnqueueRowIs
  <2> QED BY <1>5, <2>1, <2>2
<1>7. d \in EventSet /\ Plain(d) /\ d.at <= now /\ CyclePast(d)
  <2> DEFINE b == Event("dispatched", "tick", now)
             z == (e.rung = "retry")
             f == [b EXCEPT !.rule = row.rule, !.since = row.since, !.retry = z]
  <2>1. b \in EventSet /\ b.type = "dispatched" /\ b.at = now
    <3>1. "dispatched" \in EventType /\ "tick" \in Writer
      BY DEF EventType, Writer
    <3> QED BY <1>4, <3>1, EventIs
  <2>2. row.rule \in RuleName /\ row.since \in Nat /\ z \in BOOLEAN
    BY <1>6 DEF RowSet, RuleName
  <2>3. d = f
    BY DEF Dispatched
  <2> HIDE DEF b, z, row, d
  <2>4. f \in EventSet
    BY <2>1, <2>2, EventSets
  <2>5. f.type = "dispatched" /\ f.at = now
    BY <2>1 DEF EventSet
  <2> HIDE DEF f
  <2> QED BY <1>4, <2>3, <2>4, <2>5 DEF Plain, CyclePast
<1> HIDE DEF d
<1>8. log' \in Seq(EventSet) /\ Ordered(log)' /\ Range(log)' = Range(log) \union {d}
  BY <1>2, <1>3, <1>4, <1>7, InsertedIs DEF d
<1>9. World(Range(log), gates, head, now)'
  <2>1. World(Range(log) \union {d}, gates, head, now)
    BY <1>3, <1>7, PlainEvent
  <2> QED BY <1>1, <1>8, <2>1
<1>10. tick' \in TickSet /\ tick'.pc = row.rule /\ tick'.row = row
       /\ tick'.seen = tick.seen /\ tick'.at = tick.at
  BY <1>2, <1>4, <1>6 DEF TickSet, RowSet
<1>11. TickInv'
  <2> HIDE DEF row
  <2> QED BY <1>3, <1>6, <1>8, <1>10 DEF TickInv
<1>12. TypeOK'
  BY <1>1, <1>3, <1>8, <1>10 DEF TypeOK
<1> QED BY <1>8, <1>9, <1>11, <1>12 DEF LaneInv

LEMMA ProcessIs ==
    ASSUME LaneInv, RebaseInv, NEW file \in Writer
    PROVE  /\ Process(file) \in GateSet /\ Process(file).file = file
           /\ Process(file).at = now /\ Process(file).version = head
           /\ Process(file).cycle <= now
<1>1. log \in Seq(EventSet) /\ Ordered(log) /\ World(Range(log), gates, head, now)
      /\ now \in Nat /\ head \in Nat /\ rebase \in Nat
  BY DEF LaneInv, TypeOK, RebaseInv, RebaseTypeOK
<1> DEFINE cycle == IF CleanReview(log) = None THEN 0 ELSE CleanReview(log).at
           run == [file |-> file, at |-> now, version |-> head, rebase |-> rebase,
                   cycle |-> cycle, count |-> 0]
           count == Attempts(log, run) + (IF now > Reset(log) THEN 1 ELSE 0)
<1>2. cycle \in Nat /\ cycle <= now
  <2>1. CASE CleanReview(log) = None
    BY <1>1, <2>1
  <2>2. CASE CleanReview(log) # None
    <3>1. CleanReview(log) \in Range(log) /\ CleanReview(log) \in EventSet
      BY <1>1, <2>2, CleanReviewIs DEF Of
    <3> QED BY <1>1, <2>2, <3>1 DEF World, EventSet
  <2> QED BY <2>1, <2>2
<1>3. Process(file) = [run EXCEPT !.count = count]
  BY DEF Process
<1> HIDE DEF cycle
<1>4. run \in GateSet
  BY <1>1, <1>2 DEF GateSet
<1>5. count \in Nat
  <2> HIDE DEF run
  <2>1. Attempts(log, run) \in Nat
    BY <1>1, AttemptsNumber
  <2> QED BY <2>1
<1> HIDE DEF count
<1>6. [run EXCEPT !.count = count] \in GateSet
  BY <1>4, <1>5 DEF GateSet
<1>7. /\ [run EXCEPT !.count = count].file = file /\ [run EXCEPT !.count = count].at = now
      /\ [run EXCEPT !.count = count].version = head
      /\ [run EXCEPT !.count = count].cycle = cycle
  OBVIOUS
<1> QED BY <1>2, <1>3, <1>6, <1>7

\* A gate that starts, and what the tick that may wait for it becomes.
LEMMA GateStep ==
    ASSUME LaneInv, RebaseInv, NEW file \in Writer,
           gates' = gates \union {Process(file)}, UNCHANGED <<now, head, log, ticked>>,
           tick' \in {tick, [tick EXCEPT !.pc = "wait", !.gate = Process(file)]},
           deaths' \in Nat, manual' \in Nat
    PROVE  LaneInv'
<1>1. TypeOK /\ TickInv /\ Ordered(log) /\ World(Range(log), gates, head, now)
  BY DEF LaneInv
<1> DEFINE g == Process(file)
<1>2. g \in GateSet /\ g.at = now /\ g.version = head /\ g.cycle <= now
  BY ProcessIs
<1> HIDE DEF g
<1>3. gates' = gates \union {g} /\ tick' \in {tick, [tick EXCEPT !.pc = "wait", !.gate = g]}
  BY DEF g
<1>4. now' = now /\ head' = head /\ log' = log /\ ticked' = ticked
  OBVIOUS
<1>5. World(Range(log), gates, head, now)' /\ Ordered(log)'
  <2>1. Range(log) \in SUBSET EventSet /\ head \in Nat /\ now \in Nat
    BY <1>1, LogEvents DEF TypeOK
  <2>2. World(Range(log), gates \union {g}, head, now)
    BY <1>1, <1>2, <2>1, GateStarts
  <2> QED BY <1>1, <1>3, <1>4, <2>2
<1>6. TickInv' /\ tick' \in TickSet
  <2>1. CASE tick' = tick
    BY <1>1, <1>4, <2>1 DEF TickInv, TypeOK
  <2>2. CASE tick' = [tick EXCEPT !.pc = "wait", !.gate = g]
    <3>1. tick' \in TickSet /\ tick'.pc = "wait" /\ tick'.seen = tick.seen
      BY <1>1, <1>2, <2>2 DEF TickSet, TypeOK
    <3> QED BY <1>1, <1>4, <3>1 DEF TickInv
  <2> QED BY <1>3, <2>1, <2>2
<1>7. TypeOK'
  BY <1>1, <1>2, <1>3, <1>4, <1>6 DEF TypeOK
<1> QED BY <1>5, <1>6, <1>7 DEF LaneInv

LEMMA LaneRunGate == LaneInv /\ RebaseInv /\ RunGate => LaneInv'
<1> SUFFICES ASSUME LaneInv, RebaseInv, RunGate PROVE LaneInv'
  OBVIOUS
<1>1. /\ gates' = gates \union {Process("tick")}
      /\ tick' = [tick EXCEPT !.pc = "wait", !.gate = Process("tick")]
      /\ UNCHANGED <<now, log, head, ticked, deaths, manual>>
  BY DEF RunGate
<1>2. deaths \in Nat /\ manual \in Nat /\ "tick" \in Writer
  BY DEF LaneInv, TypeOK, Writer
<1> QED BY <1>1, <1>2, GateStep

LEMMA LaneManualGate == LaneInv /\ RebaseInv /\ ManualGate => LaneInv'
<1> SUFFICES ASSUME LaneInv, RebaseInv, ManualGate PROVE LaneInv'
  OBVIOUS
<1>1. /\ gates' = gates \union {Process("exec")}
      /\ manual' = manual + 1
      /\ UNCHANGED <<now, log, head, tick, ticked, deaths>>
  BY DEF ManualGate
<1>2. deaths \in Nat /\ manual \in Nat /\ "exec" \in Writer
  BY DEF LaneInv, TypeOK, Writer
<1> QED BY <1>1, <1>2, GateStep

LEMMA LaneEnqueue == LaneInv /\ Enqueue => LaneInv'
<1> SUFFICES ASSUME LaneInv, Enqueue PROVE LaneInv'
  OBVIOUS
<1> DEFINE q == Event("queue-add", "tick", now)
           f == [Event("failed", "tick", now) EXCEPT !.rule = "enqueue"]
<1>1. /\ tick' = Idle
      /\ now' = now /\ head' = head /\ ticked' = ticked /\ gates' = gates
      /\ deaths' = deaths /\ manual' = manual
      /\ log' \in Inserted(log, q) \/ log' = log \/ log' \in Inserted(log, f)
  BY DEF Enqueue, Append1, Failed
<1>2. now \in Nat /\ deaths \in Nat /\ manual \in Nat /\ ticked \in BOOLEAN
  BY DEF LaneInv, TypeOK
<1>3. CASE log' \in Inserted(log, q)
  <2>1. q \in EventSet /\ q.type = "queue-add" /\ q.at = now
    <3>1. "queue-add" \in EventType /\ "tick" \in Writer
      BY DEF EventType, Writer
    <3> QED BY <1>2, <3>1, EventIs
  <2> HIDE DEF q
  <2>2. Plain(q) /\ q.at <= now /\ CyclePast(q)
    BY <1>2, <2>1 DEF Plain, CyclePast
  <2> QED BY <1>1, <1>2, <1>3, <2>1, <2>2, PlainStep
<1>4. CASE log' = log
  BY <1>1, <1>2, <1>4, QuietStep
<1>5. CASE log' \in Inserted(log, f)
  <2>1. f \in EventSet /\ Plain(f) /\ f.at <= now /\ CyclePast(f)
    <3>1. "enqueue" \in RuleName
      BY DEF RuleName
    <3> QED BY <1>2, <3>1, FailedIs
  <2> HIDE DEF f
  <2> QED BY <1>1, <1>2, <1>5, <2>1, PlainStep
<1> QED BY <1>1, <1>3, <1>4, <1>5

LEMMA LaneTickDie == LaneInv /\ TickDie => LaneInv'
<1> SUFFICES ASSUME LaneInv, TickDie PROVE LaneInv'
  OBVIOUS
<1>1. /\ tick' = Idle /\ deaths' = deaths + 1
      /\ UNCHANGED <<now, log, head, ticked, gates, manual>>
  BY DEF TickDie
<1>2. deaths \in Nat /\ manual \in Nat /\ ticked \in BOOLEAN
  BY DEF LaneInv, TypeOK
<1> QED BY <1>1, <1>2, QuietStep

LEMMA GateFacts ==
    ASSUME LaneInv, NEW g \in gates
    PROVE  /\ g \in GateSet /\ g.at \in Nat /\ g.cycle <= g.at /\ g.at <= now
           /\ now \in Nat /\ ticked \in BOOLEAN /\ log \in Seq(EventSet) /\ TypeOK
           /\ TickInv /\ Ordered(log) /\ World(Range(log), gates, head, now)
<1>1. TypeOK /\ TickInv /\ Ordered(log) /\ World(Range(log), gates, head, now)
  BY DEF LaneInv
<1>2. GateSound(Range(log), head, now, g)
  BY <1>1 DEF World
<1> QED BY <1>1, <1>2 DEF TypeOK, GateSet, GateSound

LEMMA LaneGateClean == ASSUME LaneInv, NEW g \in gates, GateClean(g) PROVE LaneInv'
<1> DEFINE e == Verdict(g, "clean")
<1>1. /\ log' \in Inserted(log, e) /\ gates' = gates \ {g}
      /\ tick' \in {tick, Idle}
      /\ now' = now /\ head' = head /\ ticked' = ticked
      /\ deaths' = deaths /\ manual' = manual
  BY DEF GateClean, Append1, Ended
<1>2. /\ g \in GateSet /\ log \in Seq(EventSet) /\ TypeOK /\ TickInv
      /\ Ordered(log) /\ World(Range(log), gates, head, now)
  BY GateFacts
<1>3. e \in EventSet /\ e.type = "clean" /\ e.at = g.at /\ e.version = g.version
  BY <1>2, VerdictIs
<1> HIDE DEF e
<1>4. log' \in Seq(EventSet) /\ Ordered(log)' /\ Range(log)' = Range(log) \union {e}
  BY <1>1, <1>2, <1>3, InsertedIs
<1>5. World(Range(log), gates, head, now)'
  <2>1. World(Range(log) \union {e}, gates \ {g}, head, now)
    BY <1>2, <1>3, CleanEvent
  <2> QED BY <1>1, <1>4, <2>1
<1>6. TickInv' /\ tick' \in TickSet
  BY <1>1, <1>2, <1>4, TickKept
<1>7. TypeOK'
  BY <1>1, <1>2, <1>4, <1>6 DEF TypeOK
<1> QED BY <1>4, <1>5, <1>6, <1>7 DEF LaneInv

LEMMA ToolingOutcome ==
    ASSUME NEW g \in GateSet, GateTooling(g)
    PROVE  \E e \in EventSet : /\ e.type = "tooling" /\ e.at = g.at /\ e.cycle = g.cycle
                               /\ log' \in Inserted(log, e)
<1>1. CASE \E busy, retryable \in BOOLEAN : log' \in Inserted(log, ToolingEvent(g, busy, retryable))
  <2>1. PICK busy \in BOOLEAN, retryable \in BOOLEAN :
          log' \in Inserted(log, ToolingEvent(g, busy, retryable))
    BY <1>1
  <2>2. /\ ToolingEvent(g, busy, retryable) \in EventSet
        /\ ToolingEvent(g, busy, retryable).type = "tooling"
        /\ ToolingEvent(g, busy, retryable).at = g.at
        /\ ToolingEvent(g, busy, retryable).cycle = g.cycle
    BY ToolingIs
  <2> QED BY <2>1, <2>2
<1>2. CASE log' \in Inserted(log, Unresolved(g))
  BY <1>2, UnresolvedIs
<1> QED BY <1>1, <1>2 DEF GateTooling, Append1

LEMMA LaneGateTooling == ASSUME LaneInv, NEW g \in gates, GateTooling(g) PROVE LaneInv'
<1>1. /\ gates' = gates \ {g} /\ tick' \in {tick, Idle}
      /\ UNCHANGED <<now, head, ticked, deaths, manual>>
  BY DEF GateTooling, Ended
<1>2. /\ g \in GateSet /\ g.cycle <= g.at /\ g.at <= now /\ ticked \in BOOLEAN
  BY GateFacts
<1>3. PICK e \in EventSet : /\ e.type = "tooling" /\ e.at = g.at /\ e.cycle = g.cycle
                            /\ log' \in Inserted(log, e)
  BY <1>2, ToolingOutcome
<1>4. Plain(e) /\ e.at <= now /\ CyclePast(e)
  BY <1>2, <1>3 DEF Plain, CyclePast
<1> QED BY <1>1, <1>2, <1>3, <1>4, PlainStep

\* A gate that ends, of which the waiting tick may write that it failed.
LEMMA ReportedStep ==
    ASSUME LaneInv, NEW g \in gates, NEW code, Ended(g, code),
           NEW l \in Seq(EventSet), Ordered(l), Range(log) \subseteq Range(l),
           World(Range(l), gates \ {g}, head, now), log' \in Reported(l, g)
    PROVE  LaneInv'
<1> DEFINE f == [Event("failed", "tick", now) EXCEPT !.rule = "gate"]
<1>1. /\ gates' = gates \ {g} /\ tick' \in {tick, Idle}
      /\ now' = now /\ head' = head /\ ticked' = ticked
      /\ deaths' = deaths /\ manual' = manual
  BY DEF Ended
<1>2. log' \in Inserted(l, f) \/ log' = l
  BY DEF Reported
<1>3. now \in Nat /\ TypeOK /\ TickInv
  BY GateFacts
<1>4. f \in EventSet /\ Plain(f) /\ f.at <= now /\ CyclePast(f)
  <2>1. "gate" \in RuleName
    BY DEF RuleName
  <2> QED BY <1>3, <2>1, FailedIs
<1> HIDE DEF f
<1>5. /\ log' \in Seq(EventSet) /\ Ordered(log') /\ Range(l) \subseteq Range(log')
      /\ World(Range(log'), gates', head, now)
  <2>1. CASE log' = l
    BY <1>1, <2>1
  <2>2. CASE log' \in Inserted(l, f)
    <3>1. log' \in Seq(EventSet) /\ Ordered(log') /\ Range(log') = Range(l) \union {f}
      BY <1>4, <2>2, InsertedIs
    <3>2. World(Range(l) \union {f}, gates', head, now)
      BY <1>1, <1>4, PlainEvent
    <3> QED BY <3>1, <3>2
  <2> QED BY <1>2, <2>1, <2>2
<1>6. TickInv' /\ tick' \in TickSet
  <2>1. Range(log) \subseteq Range(log)'
    BY <1>5
  <2> QED BY <1>1, <1>3, <2>1, TickKept
<1>7. TypeOK'
  BY <1>1, <1>3, <1>5, <1>6 DEF TypeOK
<1>8. Ordered(log)' /\ World(Range(log), gates, head, now)'
  BY <1>1, <1>5
<1> QED BY <1>6, <1>7, <1>8 DEF LaneInv

\* A plain event before that.
LEMMA PlainReport ==
    ASSUME LaneInv, NEW g \in gates, NEW code, Ended(g, code),
           NEW e \in EventSet, Plain(e), e.at <= now, CyclePast(e),
           NEW l \in Inserted(log, e), log' \in Reported(l, g)
    PROVE  LaneInv'
<1>1. log \in Seq(EventSet) /\ Ordered(log) /\ World(Range(log), gates, head, now)
  BY GateFacts
<1>2. l \in Seq(EventSet) /\ Ordered(l) /\ Range(l) = Range(log) \union {e}
  BY <1>1, InsertedIs
<1>3. World(Range(l), gates \ {g}, head, now)
  <2>1. World(Range(log) \union {e}, gates \ {g}, head, now)
    BY <1>1, PlainEvent
  <2> QED BY <1>2, <2>1
<1> QED BY <1>2, <1>3, ReportedStep

\* Nothing before that.
LEMMA QuietReport ==
    ASSUME LaneInv, NEW g \in gates, NEW code, Ended(g, code), log' \in Reported(log, g)
    PROVE  LaneInv'
<1>1. log \in Seq(EventSet) /\ Ordered(log) /\ World(Range(log), gates, head, now)
  BY GateFacts
<1>2. World(Range(log), gates \ {g}, head, now)
  BY <1>1, FewerGates
<1> QED BY <1>1, <1>2, ReportedStep

LEMMA LaneGateRework == ASSUME LaneInv, NEW g \in gates, GateRework(g) PROVE LaneInv'
<1> DEFINE e == Verdict(g, "rework")
<1>1. PICK l \in Inserted(log, e) : log' \in Reported(l, g)
  BY DEF GateRework
<1>2. Ended(g, 1)
  BY DEF GateRework
<1>3. g \in GateSet /\ g.at <= now
  BY GateFacts
<1>4. e \in EventSet /\ e.type = "rework" /\ e.at = g.at
  BY <1>3, VerdictIs
<1> HIDE DEF e
<1>5. Plain(e) /\ e.at <= now /\ CyclePast(e)
  BY <1>3, <1>4 DEF Plain, CyclePast
<1> QED BY <1>1, <1>2, <1>4, <1>5, PlainReport

LEMMA LaneGateNothing == ASSUME LaneInv, NEW g \in gates, GateNothing(g) PROVE LaneInv'
BY QuietReport DEF GateNothing

-----------------------------------------------------------------------------
\* Rebases

LEMMA ConflictIs ==
    ASSUME NEW file \in Writer, NEW t \in Nat
    PROVE  LET e == Event("conflict", file, t)
           IN  e \in EventSet /\ e.type = "conflict" /\ e.at = t /\ Plain(e) /\ CyclePast(e)
<1> DEFINE e == Event("conflict", file, t)
<1>1. e \in EventSet /\ e.type = "conflict" /\ e.at = t
  <2>1. "conflict" \in EventType
    BY DEF EventType
  <2> QED BY <2>1, EventIs
<1> HIDE DEF e
<1>2. Plain(e) /\ CyclePast(e)
  BY <1>1 DEF Plain, CyclePast
<1> QED BY <1>1, <1>2 DEF e

LEMMA LaneGateConflict == ASSUME LaneInv, NEW g \in gates, GateConflict(g) PROVE LaneInv'
<1>1. PICK file \in {g.file, "exec"} : \E l \in ConflictRework(g, file) : log' \in Reported(l, g)
  BY DEF GateConflict
<1>2. Ended(g, 1)
  BY DEF GateConflict
<1>3. g \in GateSet /\ g.at \in Nat /\ g.at <= now /\ file \in Writer
  BY GateFacts DEF GateSet, Writer
<1> DEFINE e == Event("conflict", file, g.at)
<1>4. e \in EventSet /\ Plain(e) /\ e.at <= now /\ CyclePast(e)
  BY <1>3, ConflictIs
<1>5. log' \in Reported(log, g) \/ \E l \in Inserted(log, e) : log' \in Reported(l, g)
  BY <1>1 DEF ConflictRework
<1> HIDE DEF e
<1>6. CASE log' \in Reported(log, g)
  BY <1>2, <1>6, QuietReport
<1>7. CASE \E l \in Inserted(log, e) : log' \in Reported(l, g)
  BY <1>2, <1>4, <1>7, PlainReport
<1> QED BY <1>5, <1>6, <1>7

\* A step that may write a conflict, and ends the tick or gates at most.
LEMMA ConflictStep ==
    ASSUME LaneInv, NEW by, by.at \in Nat, by.at <= now, NEW file \in Writer,
           log' \in ConflictRework(by, file), tick' \in {tick, Idle},
           gates' \subseteq gates, UNCHANGED <<now, head, ticked, deaths, manual>>
    PROVE  LaneInv'
<1> DEFINE e == Event("conflict", file, by.at)
<1>1. e \in EventSet /\ Plain(e) /\ e.at <= now /\ CyclePast(e)
  BY ConflictIs
<1>2. ticked \in BOOLEAN /\ deaths \in Nat /\ manual \in Nat
  BY DEF LaneInv, TypeOK
<1>3. log' = log \/ log' \in Inserted(log, e)
  BY DEF ConflictRework
<1> HIDE DEF e
<1>4. CASE log' = log
  BY <1>2, <1>4, QuietStep
<1>5. CASE log' \in Inserted(log, e)
  BY <1>1, <1>2, <1>5, PlainStep
<1> QED BY <1>3, <1>4, <1>5

LEMMA LaneGateRefreshed == ASSUME LaneInv, NEW g \in gates, GateRefreshed(g) PROVE LaneInv'
<1>1. /\ gates' = gates \ {g} /\ tick' \in {tick, Idle}
      /\ UNCHANGED <<now, head, ticked, deaths, manual>>
  BY DEF GateRefreshed, Ended
<1>2. log' \in ConflictRework(g, "exec")
  BY DEF GateRefreshed, ConflictRework
<1>3. g.at \in Nat /\ g.at <= now /\ "exec" \in Writer
  BY GateFacts DEF Writer
<1> QED BY <1>1, <1>2, <1>3, ConflictStep

LEMMA LaneReserve == ASSUME LaneInv, NEW by, Reserve(by) PROVE LaneInv'
<1>1. UNCHANGED <<now, log, head, tick, ticked, gates, deaths, manual>>
  BY DEF Reserve
<1>2. ticked \in BOOLEAN /\ deaths \in Nat /\ manual \in Nat
  BY DEF LaneInv, TypeOK
<1> QED BY <1>1, <1>2, QuietStep

\* The branch gets another tip of the version that it has.
LEMMA LaneAdopt == ASSUME LaneInv, NEW a \in adoption, Adopt(a) PROVE LaneInv'
<1>1. UNCHANGED <<now, log, head, tick, ticked, gates, deaths, manual>>
  BY DEF Adopt, Unmoved
<1>2. ticked \in BOOLEAN /\ deaths \in Nat /\ manual \in Nat
  BY DEF LaneInv, TypeOK
<1> QED BY <1>1, <1>2, QuietStep

LEMMA GateFileIs == ASSUME LaneInv, NEW by PROVE GateFile(by) \in Writer
BY DEF GateFile, LaneInv, TypeOK, GateSet, Writer

LEMMA LaneRegate ==
    ASSUME LaneInv, RebaseInv, NEW a \in adoption, Regate(a) PROVE LaneInv'
<1>1. /\ gates' = gates \union {Process(GateFile(a.by))}
      /\ UNCHANGED <<now, log, head, tick, ticked, deaths, manual>>
  BY DEF Regate
<1>2. deaths \in Nat /\ manual \in Nat /\ GateFile(a.by) \in Writer
  BY GateFileIs DEF LaneInv, TypeOK
<1> QED BY <1>1, <1>2, GateStep

LEMMA OwnerPast ==
    ASSUME RebaseInv, NEW a \in adoption \union regates
    PROVE  a.by \in OwnerSet /\ a.by.at \in Nat /\ a.by.at <= now
<1>1. a.by \in OwnerSet /\ a.by.at <= now
  BY DEF RebaseInv, RebaseTypeOK, AdoptionSet, RegateSet
<1>2. \A x \in OwnerSet : x.at \in Nat
  BY DEF OwnerSet, GateSet
<1> QED BY <1>1, <1>2

LEMMA LaneDispatchFails ==
    ASSUME LaneInv, RebaseInv, NEW a \in adoption, DispatchFails(a) PROVE LaneInv'
<1>1. /\ log' \in ConflictRework(a.by, "exec") /\ "exec" \in Writer
      /\ UNCHANGED <<now, head, tick, ticked, gates, deaths, manual>>
  BY DEF DispatchFails, Writer
<1> QED BY <1>1, OwnerPast, ConflictStep

LEMMA LaneDispatchEnds ==
    ASSUME LaneInv, RebaseInv, NEW w \in regates, DispatchEnds(w) PROVE LaneInv'
<1>1. /\ log' \in ConflictRework(w.by, "exec") /\ "exec" \in Writer
      /\ UNCHANGED <<now, head, tick, ticked, gates, deaths, manual>>
  BY DEF DispatchEnds, ConflictRework, Writer
<1> QED BY <1>1, OwnerPast, ConflictStep

-----------------------------------------------------------------------------
\* The other writers

LEMMA LaneLook == LaneInv /\ Look => LaneInv'
<1> SUFFICES ASSUME LaneInv, Look PROVE LaneInv'
  OBVIOUS
<1>1. /\ UNCHANGED <<now, head, tick, ticked, gates, deaths, manual>>
      /\ \E row \in Due(log, now) :
            log' \in Inserted(log, [Event("lane-stale", "look", now) EXCEPT
                                      !.rule = row.rule, !.since = row.since])
  BY DEF Look, Append1
<1>2. PICK row \in Due(log, now) :
        log' \in Inserted(log, [Event("lane-stale", "look", now) EXCEPT
                                  !.rule = row.rule, !.since = row.since])
  BY <1>1
<1> DEFINE b == Event("lane-stale", "look", now)
           e == [b EXCEPT !.rule = row.rule, !.since = row.since]
<1>3. log \in Seq(EventSet) /\ Ordered(log) /\ now \in Nat /\ ticked \in BOOLEAN
  BY DEF LaneInv, TypeOK
<1>4. row.rule \in RuleName /\ row.since \in Nat
  <2>1. row \in RowSet
    BY <1>3, GateRowIs, EnqueueRowIs DEF Due
  <2> QED BY <2>1 DEF RowSet, RuleName
<1>5. b \in EventSet /\ b.type = "lane-stale" /\ b.at = now
  <2>1. "lane-stale" \in EventType /\ "look" \in Writer
    BY DEF EventType, Writer
  <2> QED BY <1>3, <2>1, EventIs
<1>6. log' \in Inserted(log, e)
  BY <1>2
<1> HIDE DEF b
<1>7. e \in EventSet
  BY <1>4, <1>5, EventSets
<1>8. e.type = "lane-stale" /\ e.at = now
  BY <1>5 DEF EventSet
<1> HIDE DEF e
<1>9. Plain(e) /\ e.at <= now /\ CyclePast(e)
  BY <1>3, <1>8 DEF Plain, CyclePast
<1> QED BY <1>1, <1>3, <1>6, <1>7, <1>9, PlainStep

\* An event of a judge or of a thinker that says nothing of a version.
LEMMA OtherEvent ==
    ASSUME now \in Nat, NEW type \in {"verdict", "unblocked"}, NEW file \in Writer
    PROVE  /\ Event(type, file, now) \in EventSet /\ Plain(Event(type, file, now))
           /\ Event(type, file, now).at <= now /\ CyclePast(Event(type, file, now))
<1> DEFINE e == Event(type, file, now)
<1>1. e \in EventSet /\ e.type = type /\ e.at = now
  <2>1. type \in EventType
    BY DEF EventType
  <2> QED BY <2>1, EventIs
<1> HIDE DEF e
<1>2. Plain(e) /\ e.at <= now /\ CyclePast(e)
  BY <1>1 DEF Plain, CyclePast
<1> QED BY <1>1, <1>2 DEF e

LEMMA LaneReject == LaneInv /\ Reject => LaneInv'
<1> SUFFICES ASSUME LaneInv, Reject PROVE LaneInv'
  OBVIOUS
<1>1. /\ UNCHANGED <<now, head, tick, ticked, gates, deaths, manual>>
      /\ log' \in Inserted(log, Event("verdict", "judge", now))
  BY DEF Reject, Append1
<1>2. now \in Nat /\ ticked \in BOOLEAN /\ "judge" \in Writer
  BY DEF LaneInv, TypeOK, Writer
<1> DEFINE e == Event("verdict", "judge", now)
<1>3. e \in EventSet /\ Plain(e) /\ e.at <= now /\ CyclePast(e)
  BY <1>2, OtherEvent
<1> HIDE DEF e
<1>4. log' \in Inserted(log, e)
  BY <1>1 DEF e
<1> QED BY <1>1, <1>2, <1>3, <1>4, PlainStep

LEMMA LaneUnblock == LaneInv /\ Unblock => LaneInv'
<1> SUFFICES ASSUME LaneInv, Unblock PROVE LaneInv'
  OBVIOUS
<1>1. /\ UNCHANGED <<now, head, tick, ticked, gates, deaths, manual>>
      /\ log' \in Inserted(log, Event("unblocked", "thinker", now))
  BY DEF Unblock, Append1
<1>2. now \in Nat /\ ticked \in BOOLEAN /\ "thinker" \in Writer
  BY DEF LaneInv, TypeOK, Writer
<1> DEFINE e == Event("unblocked", "thinker", now)
<1>3. e \in EventSet /\ Plain(e) /\ e.at <= now /\ CyclePast(e)
  BY <1>2, OtherEvent
<1> HIDE DEF e
<1>4. log' \in Inserted(log, e)
  BY <1>1 DEF e
<1> QED BY <1>1, <1>2, <1>3, <1>4, PlainStep

\* What the appended event and the unchanged rest make of the invariant.
LEMMA VersionStep ==
    ASSUME LaneInv, NEW e \in EventSet, log' \in Inserted(log, e), head' \in Nat,
           World(Range(log) \union {e}, gates, head', now),
           UNCHANGED <<now, tick, ticked, gates, deaths, manual>>
    PROVE  LaneInv'
<1>1. TypeOK /\ TickInv /\ Ordered(log) /\ log \in Seq(EventSet)
  BY DEF LaneInv, TypeOK
<1>2. log' \in Seq(EventSet) /\ Ordered(log)' /\ Range(log)' = Range(log) \union {e}
  BY <1>1, InsertedIs
<1>3. TickInv' /\ tick' \in TickSet
  BY <1>1, <1>2, TickKept
<1>4. TypeOK'
  BY <1>1, <1>2, <1>3 DEF TypeOK
<1>5. World(Range(log), gates, head, now)'
  <2>1. gates' = gates /\ now' = now
    OBVIOUS
  <2> QED BY <1>2, <2>1
<1> QED BY <1>2, <1>3, <1>4, <1>5 DEF LaneInv

LEMMA LaneBuild == LaneInv /\ Build => LaneInv'
<1> SUFFICES ASSUME LaneInv, Build PROVE LaneInv'
  OBVIOUS
<1> DEFINE types == Judging \union Answer \union {"built"}
           last == Latest(log, types)
           e == Event("built", "builder", now)
<1>1. /\ last.at < now /\ head' = head + 1 /\ log' \in Inserted(log, e)
      /\ UNCHANGED <<now, tick, ticked, gates, deaths, manual>>
  BY DEF Build, Append1
<1>2. /\ log \in Seq(EventSet) /\ Ordered(log) /\ head \in Nat /\ now \in Nat
      /\ gates \in SUBSET GateSet /\ World(Range(log), gates, head, now)
      /\ Range(log) \in SUBSET EventSet
  BY LogEvents DEF LaneInv, TypeOK
<1>3. \A r \in Of(Range(log), "review") : r.at < now
  <2> SUFFICES ASSUME NEW r \in Of(Range(log), "review") PROVE r.at < now
    OBVIOUS
  <2>1. r \in Range(log) /\ r.type \in types /\ r \in EventSet
    BY <1>2 DEF Of, Judging
  <2>2. Has(log, types)
    BY <1>2, <2>1, HasIs
  <2>3. last \in EventSet /\ r.at <= last.at
    BY <1>2, <2>1, <2>2, LatestEvent
  <2>4. last.at \in Nat /\ r.at \in Nat
    BY <2>1, <2>3 DEF EventSet
  <2> HIDE DEF last
  <2> QED BY <1>1, <1>2, <2>3, <2>4
<1>4. e \in EventSet /\ e.type = "built" /\ e.at = now
  <2>1. "built" \in EventType /\ "builder" \in Writer
    BY DEF EventType, Writer
  <2> QED BY <1>2, <2>1, EventIs
<1> HIDE DEF e, last
<1>5. World(Range(log) \union {e}, gates, head + 1, now)
  BY <1>2, <1>3, <1>4, BuiltEvent
<1> QED BY <1>1, <1>2, <1>4, <1>5, VersionStep

LEMMA LaneReview == LaneInv /\ Review => LaneInv'
<1> SUFFICES ASSUME LaneInv, Review PROVE LaneInv'
  OBVIOUS
<1> DEFINE types == Judging \union {"built"}
           last == Latest(log, {"built"})
           b == Event("review", "judge", now)
           e == [b EXCEPT !.version = head]
<1>1. /\ Latest(log, types).type = "built" /\ last.at < now
      /\ log' \in Inserted(log, e) /\ head' = head
      /\ UNCHANGED <<now, tick, ticked, gates, deaths, manual>>
  BY DEF Review, Append1
<1>2. /\ log \in Seq(EventSet) /\ Ordered(log) /\ head \in Nat /\ now \in Nat
      /\ gates \in SUBSET GateSet /\ World(Range(log), gates, head, now)
      /\ Range(log) \in SUBSET EventSet
  BY LogEvents DEF LaneInv, TypeOK
<1>3. \A x \in Of(Range(log), "built") : x.at < now
  <2> SUFFICES ASSUME NEW x \in Of(Range(log), "built") PROVE x.at < now
    OBVIOUS
  <2>1. x \in Range(log) /\ x.type \in {"built"} /\ x \in EventSet
    BY <1>2 DEF Of
  <2>2. Has(log, {"built"})
    BY <1>2, <2>1, HasIs
  <2>3. last \in EventSet /\ x.at <= last.at
    BY <1>2, <2>1, <2>2, LatestEvent
  <2>4. last.at \in Nat /\ x.at \in Nat
    BY <2>1, <2>3 DEF EventSet
  <2> HIDE DEF last
  <2> QED BY <1>1, <1>2, <2>3, <2>4
<1>4. b \in EventSet /\ b.type = "review" /\ b.at = now
  <2>1. "review" \in EventType /\ "judge" \in Writer
    BY DEF EventType, Writer
  <2> QED BY <1>2, <2>1, EventIs
<1> HIDE DEF b, last
<1>5. e \in EventSet
  BY <1>2, <1>4, EventSets
<1>6. e.type = "review" /\ e.at = now /\ e.version = head
  BY <1>4 DEF EventSet
<1> HIDE DEF e
<1>7. World(Range(log) \union {e}, gates, head, now)
  BY <1>2, <1>3, <1>5, <1>6, ReviewEvent
<1> QED BY <1>1, <1>2, <1>5, <1>7, VersionStep

LEMMA LaneClock == LaneInv /\ Clock => LaneInv'
<1> SUFFICES ASSUME LaneInv, Clock PROVE LaneInv'
  OBVIOUS
<1>1. /\ now' = now + 1 /\ ticked' = FALSE /\ log' = log /\ head' = head /\ tick' = tick
      /\ gates' = gates /\ deaths' = deaths /\ manual' = manual
  BY DEF Clock
<1>2. TypeOK /\ TickInv /\ Ordered(log) /\ World(Range(log), gates, head, now)
  BY DEF LaneInv
<1>3. TypeOK'
  <2>1. /\ now \in Nat /\ head \in Nat /\ log \in Seq(EventSet) /\ tick \in TickSet
        /\ gates \subseteq GateSet /\ deaths \in Nat /\ manual \in Nat
    BY <1>2 DEF TypeOK
  <2>2. now' \in Nat
    BY <1>1, <2>1
  <2>3. ticked' \in BOOLEAN
    BY <1>1
  <2> QED BY <1>1, <2>1, <2>2, <2>3 DEF TypeOK
<1>4. TickInv' /\ Ordered(log)'
  BY <1>1, <1>2 DEF TickInv
<1>5. World(Range(log), gates, head, now)'
  <2>1. Range(log) \in SUBSET EventSet /\ gates \in SUBSET GateSet /\ now \in Nat
    BY <1>2, LogEvents DEF TypeOK
  <2>2. World(Range(log), gates, head, now + 1)
    BY <1>2, <2>1, PeriodPasses
  <2> QED BY <1>1, <2>2
<1> QED BY <1>3, <1>4, <1>5 DEF LaneInv

LEMMA LaneStutters == LaneInv /\ UNCHANGED vars => LaneInv'
<1> SUFFICES ASSUME LaneInv, UNCHANGED vars PROVE LaneInv'
  OBVIOUS
<1>1. UNCHANGED <<now, head, log>> /\ tick' = tick /\ gates' = gates /\ ticked' = ticked
      /\ deaths' = deaths /\ manual' = manual
  BY DEF vars
<1>2. ticked \in BOOLEAN /\ deaths \in Nat /\ manual \in Nat
  BY DEF LaneInv, TypeOK
<1> QED BY <1>1, <1>2, QuietStep

-----------------------------------------------------------------------------
LEMMA LaneNext == LaneInv /\ RebaseInv /\ [Next]_vars => LaneInv'
<1> SUFFICES ASSUME LaneInv, RebaseInv, [Next]_vars PROVE LaneInv'
  OBVIOUS
<1>1. CASE TickBegin \/ Dispatch \/ RunGate \/ Enqueue \/ TickDie \/ ManualGate
  BY <1>1, LaneTickBegin, LaneDispatch, LaneRunGate, LaneEnqueue, LaneTickDie, LaneManualGate
<1>2. CASE \E g \in gates : GateClean(g) \/ GateTooling(g) \/ GateRework(g) \/ GateNothing(g)
  BY <1>2, LaneGateClean, LaneGateTooling, LaneGateRework, LaneGateNothing
<1>3. CASE \E g \in gates : Conflict(g) \/ GateConflict(g) \/ GateRefreshed(g)
  BY <1>3, LaneReserve, LaneGateConflict, LaneGateRefreshed DEF Conflict
<1>4. CASE Preflight
  BY <1>4, LaneReserve DEF Preflight
<1>5. CASE \E a \in adoption : Adopt(a) \/ Regate(a) \/ DispatchFails(a)
  BY <1>5, LaneAdopt, LaneRegate, LaneDispatchFails
<1>6. CASE \E w \in regates : DispatchEnds(w)
  BY <1>6, LaneDispatchEnds
<1>7. CASE Look \/ Reject \/ Build \/ Review \/ Unblock \/ Clock
  BY <1>7, LaneLook, LaneReject, LaneBuild, LaneReview, LaneUnblock, LaneClock
<1>8. CASE Done \/ UNCHANGED vars
  BY <1>8, LaneStutters DEF Done
<1> QED BY <1>1, <1>2, <1>3, <1>4, <1>5, <1>6, <1>7, <1>8 DEF Next

\* What a gate that ends leaves of the rebases.
LEMMA RebaseEnded ==
    ASSUME RebaseInv, NEW g, NEW code \in {0, 1, 2}, Ended(g, code)
    PROVE  RebaseInv'
<1>1. /\ now' = now /\ rebase' = rebase /\ rebases' = rebases
      /\ adoption' \subseteq adoption
  BY DEF Ended
<1>2. ASSUME NEW v \in regates' PROVE v \in RegateSet /\ v.by.at <= now
  <2>1. PICK w \in regates : v = IF w.gate = g THEN [w EXCEPT !.exit = {code}] ELSE w
    BY DEF Ended
  <2>2. w \in RegateSet /\ w.by.at <= now
    BY DEF RebaseInv, RebaseTypeOK
  <2>3. CASE v = w
    BY <2>2, <2>3
  <2>4. CASE v = [w EXCEPT !.exit = {code}]
    <3>1. {code} \in SUBSET {0, 1, 2}
      OBVIOUS
    <3>2. v \in RegateSet /\ v.by = w.by
      BY <2>2, <2>4, <3>1 DEF RegateSet
    <3> QED BY <2>2, <3>2
  <2> QED BY <2>1, <2>3, <2>4
<1> QED BY <1>1, <1>2 DEF RebaseInv, RebaseTypeOK

LEMMA RebaseReserve ==
    ASSUME LaneInv, RebaseInv, NEW by \in OwnerSet, by.at <= now, Reserve(by)
    PROVE  RebaseInv'
<1> DEFINE a == [by |-> by, version |-> head, rebase |-> rebase, done |-> 0]
<1>1. /\ adoption' = {a} /\ rebases' = rebases + 1
      /\ now' = now /\ rebase' = rebase /\ regates' = regates
  BY DEF Reserve
<1>2. head \in Nat /\ rebase \in Nat /\ rebases \in Nat
  BY DEF LaneInv, TypeOK, RebaseInv, RebaseTypeOK
<1>3. a \in AdoptionSet /\ a.by.at <= now
  BY <1>2 DEF AdoptionSet
<1> HIDE DEF a
<1> QED BY <1>1, <1>2, <1>3 DEF RebaseInv, RebaseTypeOK

LEMMA RebaseAdopt ==
    ASSUME RebaseInv, NEW a \in adoption, Adopt(a) PROVE RebaseInv'
<1>1. /\ adoption' = {[a EXCEPT !.done = rebases]} /\ rebase' = rebases
      /\ now' = now /\ rebases' = rebases /\ regates' = regates
  BY DEF Adopt
<1>2. a \in AdoptionSet /\ a.by.at <= now /\ rebases \in Nat
  BY DEF RebaseInv, RebaseTypeOK
<1>3. [a EXCEPT !.done = rebases] \in AdoptionSet /\ [a EXCEPT !.done = rebases].by = a.by
  BY <1>2 DEF AdoptionSet
<1> QED BY <1>1, <1>2, <1>3 DEF RebaseInv, RebaseTypeOK

LEMMA RebaseRegate ==
    ASSUME LaneInv, RebaseInv, NEW a \in adoption, Regate(a) PROVE RebaseInv'
<1> DEFINE g == Process(GateFile(a.by))
           w == [by |-> a.by, gate |-> g, exit |-> {}, version |-> a.version,
                 rebase |-> a.rebase, done |-> a.done]
<1>1. /\ adoption' = {} /\ regates' = regates \union {w}
      /\ now' = now /\ rebases' = rebases /\ rebase' = rebase
  BY DEF Regate
<1>2. a \in AdoptionSet /\ a.by.at <= now /\ g \in GateSet
  BY GateFileIs, ProcessIs DEF RebaseInv, RebaseTypeOK
<1> HIDE DEF g
<1>3. w \in RegateSet /\ w.by = a.by
  BY <1>2 DEF AdoptionSet, RegateSet
<1> HIDE DEF w
<1> QED BY <1>1, <1>2, <1>3 DEF RebaseInv, RebaseTypeOK

LEMMA RebaseDispatch ==
    ASSUME RebaseInv,
           \/ \E a \in adoption : DispatchFails(a)
           \/ \E w \in regates : DispatchEnds(w)
    PROVE  RebaseInv'
<1>1. /\ adoption' \subseteq adoption /\ regates' \subseteq regates
      /\ now' = now /\ rebases' = rebases
  BY DEF DispatchFails, DispatchEnds
<1>2. rebase' \in Nat
  <2>1. ASSUME NEW a \in adoption \union regates, rebase' = rebase \/ TakenBack(a)
        PROVE  rebase' \in Nat
    <3>1. a.rebase \in Nat /\ rebase \in Nat
      BY DEF RebaseInv, RebaseTypeOK, AdoptionSet, RegateSet
    <3> QED BY <2>1, <3>1 DEF TakenBack
  <2> QED BY <2>1 DEF DispatchFails, DispatchEnds
<1> QED BY <1>1, <1>2 DEF RebaseInv, RebaseTypeOK

LEMMA RebaseClock == ASSUME LaneInv, RebaseInv, Clock PROVE RebaseInv'
<1>1. now' = now + 1 /\ UNCHANGED <<rebase, rebasing>> /\ now \in Nat
  BY DEF Clock, LaneInv, TypeOK
<1>2. \A a \in adoption \union regates : a.by.at <= now + 1
  <2>1. \A n \in Nat : n <= now => n <= now + 1
    BY <1>1
  <2> QED BY <2>1, OwnerPast
<1> QED BY <1>1, <1>2 DEF RebaseInv, RebaseTypeOK, rebasing

LEMMA RebaseKept ==
    ASSUME RebaseInv, now' = now, rebase' \in Nat, UNCHANGED rebasing PROVE RebaseInv'
BY DEF RebaseInv, RebaseTypeOK, rebasing

LEMMA RebaseNext == LaneInv /\ RebaseInv /\ [Next]_vars => RebaseInv'
<1> SUFFICES ASSUME LaneInv, RebaseInv, [Next]_vars PROVE RebaseInv'
  OBVIOUS
<1>0. rebase \in Nat
  BY DEF RebaseInv, RebaseTypeOK
<1>1. CASE TickBegin \/ Dispatch \/ RunGate \/ Enqueue \/ TickDie \/ ManualGate
  <2>1. UNCHANGED <<now, rebase, rebasing>>
    BY <1>1 DEF TickBegin, Dispatch, RunGate, Enqueue, TickDie, ManualGate
  <2> QED BY <1>0, <2>1, RebaseKept
<1>2. CASE \E g \in gates : GateClean(g) \/ GateTooling(g) \/ GateRework(g) \/ GateNothing(g)
                            \/ GateConflict(g) \/ GateRefreshed(g)
  <2>1. \E g \in gates : \E code \in {0, 1, 2} : Ended(g, code)
    BY <1>2 DEF GateClean, GateTooling, GateRework, GateNothing, GateConflict, GateRefreshed
  <2> QED BY <2>1, RebaseEnded
<1>3. CASE (\E g \in gates : Conflict(g)) \/ Preflight
  <2>1. \A g \in gates : g \in OwnerSet /\ g.at <= now
    BY GateFacts DEF OwnerSet
  <2> DEFINE d == [dispatch |-> TRUE, at |-> now]
  <2>2. d \in OwnerSet /\ d.at <= now
    BY DEF OwnerSet, LaneInv, TypeOK
  <2>3. \E by \in OwnerSet : by.at <= now /\ Reserve(by)
    BY <1>3, <2>1, <2>2 DEF Conflict, Preflight
  <2> QED BY <2>3, RebaseReserve
<1>4. CASE \E a \in adoption : Adopt(a) \/ Regate(a)
  BY <1>4, RebaseAdopt, RebaseRegate
<1>5. CASE (\E a \in adoption : DispatchFails(a)) \/ (\E w \in regates : DispatchEnds(w))
  BY <1>5, RebaseDispatch
<1>6. CASE Look \/ Reject \/ Build \/ Review \/ Unblock
  <2>1. now' = now /\ rebase' \in {0, rebase} /\ UNCHANGED rebasing
    BY <1>6 DEF Look, Reject, Build, Review, Unblock
  <2> QED BY <1>0, <2>1, RebaseKept
<1>7. CASE Clock
  BY <1>7, RebaseClock
<1>8. CASE Done \/ UNCHANGED vars
  <2>1. UNCHANGED <<now, rebase, rebasing>>
    BY <1>8 DEF Done, vars
  <2> QED BY <1>0, <2>1, RebaseKept
<1> QED BY <1>1, <1>2, <1>3, <1>4, <1>5, <1>6, <1>7, <1>8 DEF Next

LEMMA RebaseInit == Init => RebaseInv
BY DEF Init, RebaseInv, RebaseTypeOK

LEMMA LaneInvariant == Spec => [](LaneInv /\ RebaseInv)
<1>1. Init => LaneInv /\ RebaseInv
  BY LaneInit, RebaseInit
<1>2. (LaneInv /\ RebaseInv) /\ [Next]_vars => (LaneInv /\ RebaseInv)'
  BY LaneNext, RebaseNext
<1> QED BY <1>1, <1>2, PTL DEF Spec

\* The ledger, the tick, the gates and the rebases have their types: every event,
\* whoever writes it, is one the folds read.
THEOREM LaneTypeCorrect == Spec => [](TypeOK /\ RebaseTypeOK)
<1>1. LaneInv /\ RebaseInv => TypeOK /\ RebaseTypeOK
  BY DEF LaneInv, RebaseInv
<1> QED BY <1>1, LaneInvariant, PTL

\* A branch is queued on a clean outcome of the builder's version that its review has
\* judged, as it was or rebased: enqueue_due and merge_gate read the branch, its
\* history and their clocks at other moments, and a builder, another gate, a rebase
\* and a dying tick come in between.
THEOREM QueuedWasReviewedHolds == Spec => []QueuedWasReviewed
<1>1. LaneInv => QueuedWasReviewed
  <2> SUFFICES ASSUME LaneInv, tick.pc = "enqueue"
               PROVE  Latest(tick.seen, {"clean"}).version = CleanReview(tick.seen).version
    BY DEF QueuedWasReviewed
  <2>1. tick.seen \in Seq(EventSet)
    BY DEF LaneInv, TypeOK, TickSet
  <2>2. Copy(tick.seen) /\ tick.row \in EnqueueRow(tick.seen)
    BY DEF LaneInv, TickInv
  <2> QED BY <2>1, <2>2, EnqueueRowReviewed
<1> QED BY <1>1, LaneInvariant, PTL

\* The tick starts no gate while nextstep._gate_tooling holds it: not before the
\* retry time of the last failure that held the scan lock, and not after a failure
\* that no retry mends, whatever lock-busy refusals came after it.
THEOREM BackoffKeptHolds == Spec => []BackoffKept
<1>1. LaneInv => BackoffKept
  <2> DEFINE l == tick.seen
             last == Latest(l, {"tooling"})
             past == Acquired(l, last)
  <2> SUFFICES ASSUME LaneInv, tick.pc = "gate", Has(l, {"tooling"}),
                      last.cycle = CleanReview(l).at,
                      NEW i \in past, \A j \in past : j <= i
               PROVE  l[i].retryable /\ tick.at >= l[i].due
    BY DEF BackoffKept
  <2>1. l \in Seq(EventSet) /\ tick.at \in Nat
    BY DEF LaneInv, TypeOK, TickSet
  <2>2. Ordered(l) /\ (\A e \in Range(l) : CyclePast(e)) /\ GateRow(l, tick.at) # {}
    BY DEF LaneInv, TickInv, Copy
  <2> HIDE DEF l
  <2> QED BY <2>1, <2>2, GateRowWaits
<1> QED BY <1>1, LaneInvariant, PTL

-----------------------------------------------------------------------------
\* How often one row is dispatched

AnyRow == [rule : RuleName, since : Nat]

Sent(l, row)     == {i \in Index(l, {"dispatched"}) : Matches(l[i], row)}
Held(l, row)     == {i \in Index(l, {"tooling"}) : row.rule = "gate" /\ l[i].at = row.since}
Reviewed(l, row) == {i \in Index(l, {"review"}) : l[i].at = row.since}

\* Twice at most; without a tooling outcome of the row's moment once to act and
\* once to retry; without a review of that moment each after an outcome of its own.
SentOnce(l, row) ==
    /\ \A i, j, k \in Sent(l, row) : i = j \/ j = k \/ i = k
    /\ Held(l, row) = {} =>
          \A i, j \in Sent(l, row) : l[i].retry = l[j].retry => i = j
    /\ Reviewed(l, row) = {} =>
          \A i \in Sent(l, row) : \E a \in Held(l, row) :
              a < i /\ \A j \in Sent(l, row) : j < i => j < a

DispatchesOnce(l) ==
    /\ \A i, j \in Index(l, {"dispatched"}) : l[i].at = l[j].at => i = j
    /\ \A i \in Index(l, {"dispatched"}) : l[i].since <= l[i].at
    /\ \A row \in AnyRow : SentOnce(l, row)

Earlier(l, t) == \A i \in Index(l, {"dispatched"}) : l[i].at < t

\* The events of l stand in m in their order, at the places f gives,
Embeds(f, l, m) ==
    /\ f \in [DOMAIN l -> DOMAIN m]
    /\ \A i \in DOMAIN l : m[f[i]] = l[i]
    /\ \A i, j \in DOMAIN l : i < j => f[i] < f[j]

\* and what m has more is no dispatch.
Moves(l, m) ==
    \E f : /\ Embeds(f, l, m)
           /\ \A k \in Index(m, {"dispatched"}) : \E i \in DOMAIN l : k = f[i]

OnceInv ==
    /\ DispatchesOnce(log)
    /\ (~ticked \/ tick.pc = "read") => Earlier(log, now)
    /\ tick.pc = "read" => /\ ticked
                           /\ DispatchesOnce(tick.seen)
                           /\ Moves(tick.seen, log)

LEMMA EmbedsSelf ==
    ASSUME NEW T, NEW l \in Seq(T)
    PROVE  Moves(l, l)
<1> DEFINE f == [i \in DOMAIN l |-> i]
<1>1. Embeds(f, l, l)
  BY DEF Embeds
<1>2. \A k \in Index(l, {"dispatched"}) : \E i \in DOMAIN l : k = f[i]
  BY DEF Index
<1> HIDE DEF f
<1> QED BY <1>1, <1>2 DEF Moves

LEMMA EmbedsTwice ==
    ASSUME NEW l, NEW m, NEW u, NEW f, NEW g, Embeds(f, l, m), Embeds(g, m, u)
    PROVE  Embeds([i \in DOMAIN l |-> g[f[i]]], l, u)
<1> DEFINE h == [i \in DOMAIN l |-> g[f[i]]]
<1>1. \A i \in DOMAIN l : f[i] \in DOMAIN m /\ h[i] = g[f[i]]
  BY DEF Embeds
<1>2. h \in [DOMAIN l -> DOMAIN u]
  BY <1>1 DEF Embeds
<1>3. \A i \in DOMAIN l : u[h[i]] = l[i]
  BY <1>1 DEF Embeds
<1>4. \A i, j \in DOMAIN l : i < j => h[i] < h[j]
  BY <1>1 DEF Embeds
<1> HIDE DEF h
<1>5. Embeds(h, l, u)
  BY <1>2, <1>3, <1>4 DEF Embeds
<1> QED BY <1>5 DEF h

LEMMA MovesTwice ==
    ASSUME NEW l, NEW m, NEW u, Moves(l, m), Moves(m, u)
    PROVE  Moves(l, u)
<1>1. PICK f : /\ Embeds(f, l, m)
               /\ \A k \in Index(m, {"dispatched"}) : \E i \in DOMAIN l : k = f[i]
  BY DEF Moves
<1>2. PICK g : /\ Embeds(g, m, u)
               /\ \A k \in Index(u, {"dispatched"}) : \E i \in DOMAIN m : k = g[i]
  BY DEF Moves
<1> DEFINE h == [i \in DOMAIN l |-> g[f[i]]]
<1>3. Embeds(h, l, u)
  BY <1>1, <1>2, EmbedsTwice
<1>4. ASSUME NEW k \in Index(u, {"dispatched"}) PROVE \E i \in DOMAIN l : k = h[i]
  <2>1. PICK j \in DOMAIN m : k = g[j]
    BY <1>2
  <2>2. m[j] = u[k]
    BY <1>2, <2>1 DEF Embeds
  <2>3. j \in Index(m, {"dispatched"})
    BY <2>1, <2>2 DEF Index
  <2>4. PICK i \in DOMAIN l : j = f[i]
    BY <1>1, <2>3
  <2> QED BY <2>1, <2>4
<1> HIDE DEF h
<1> QED BY <1>3, <1>4 DEF Moves

\* An event inserted takes one place; the others keep theirs in order.
LEMMA InsertedEmbeds ==
    ASSUME NEW T, NEW l \in Seq(T), NEW e \in T, NEW m \in Inserted(l, e)
    PROVE  \E f, n : /\ Embeds(f, l, m) /\ n \in DOMAIN m /\ m[n] = e
                     /\ \A k \in DOMAIN m : k = n \/ \E i \in DOMAIN l : k = f[i]
<1> DEFINE len == Len(l)
<1>1. len \in Nat /\ DOMAIN l = 1..len /\ DOMAIN m = 1..(len + 1)
  BY InsertedPoints
<1>2. PICK q \in 0..len :
        /\ \A i \in 1..q : m[i] = l[i]
        /\ m[q + 1] = e
        /\ \A i \in (q + 1)..len : m[i + 1] = l[i]
  BY InsertedPoints
<1> DEFINE f == [i \in DOMAIN l |-> IF i <= q THEN i ELSE i + 1]
<1> HIDE DEF len
<1>3. q \in Nat /\ q <= len
  BY <1>1, <1>2
<1>4. \A i \in DOMAIN l : /\ f[i] \in DOMAIN m
                          /\ f[i] = IF i <= q THEN i ELSE i + 1
  BY <1>1, <1>3
<1>5. ASSUME NEW i \in DOMAIN l PROVE m[f[i]] = l[i]
  <2>1. i \in 1..len
    BY <1>1
  <2>2. CASE i <= q
    <3>1. i \in 1..q
      BY <1>1, <1>3, <2>1, <2>2
    <3> QED BY <1>2, <1>4, <2>2, <3>1
  <2>3. CASE ~(i <= q)
    <3>1. i \in (q + 1)..len
      BY <1>1, <1>3, <2>1, <2>3
    <3> QED BY <1>2, <1>4, <2>3, <3>1
  <2> QED BY <2>2, <2>3
<1>6. ASSUME NEW i \in DOMAIN l, NEW j \in DOMAIN l, i < j PROVE f[i] < f[j]
  <2>1. i \in Nat /\ j \in Nat
    BY <1>1
  <2> HIDE DEF f
  <2> QED BY <1>3, <1>4, <1>6, <2>1
<1>7. ASSUME NEW k \in DOMAIN m PROVE k = q + 1 \/ \E i \in DOMAIN l : k = f[i]
  <2>1. k \in 1..(len + 1)
    BY <1>1
  <2>2. CASE k <= q
    <3>1. k \in DOMAIN l
      BY <1>1, <1>3, <2>1, <2>2
    <3> QED BY <1>4, <2>2, <3>1
  <2>3. CASE k > q + 1
    <3>1. k - 1 \in DOMAIN l /\ ~(k - 1 <= q) /\ (k - 1) + 1 = k
      BY <1>1, <1>3, <2>1, <2>3
    <3> QED BY <1>4, <3>1
  <2>4. k <= q \/ k > q + 1 \/ k = q + 1
    BY <1>1, <1>3, <2>1
  <2> QED BY <2>2, <2>3, <2>4
<1>8. f \in [DOMAIN l -> DOMAIN m]
  BY <1>4
<1> HIDE DEF f
<1>9. Embeds(f, l, m)
  BY <1>5, <1>6, <1>8 DEF Embeds
<1>10. q + 1 \in DOMAIN m
  BY <1>1, <1>3
<1> DEFINE Stands(g, n) ==
             /\ Embeds(g, l, m) /\ n \in DOMAIN m /\ m[n] = e
             /\ \A k \in DOMAIN m : k = n \/ \E i \in DOMAIN l : k = g[i]
<1>11. Stands(f, q + 1)
  BY <1>2, <1>7, <1>9, <1>10
<1>12. \E g, n : Stands(g, n)
  <2> HIDE DEF Stands
  <2> QED BY <1>11
<1> QED BY <1>12

LEMMA MovesByInsert ==
    ASSUME NEW T, NEW l \in Seq(T), NEW e \in T, e.type # "dispatched",
           NEW m \in Inserted(l, e)
    PROVE  Moves(l, m)
<1>1. PICK f, n : /\ Embeds(f, l, m) /\ m[n] = e
                  /\ \A k \in DOMAIN m : k = n \/ \E i \in DOMAIN l : k = f[i]
  BY InsertedEmbeds
<1>2. \A k \in Index(m, {"dispatched"}) : k \in DOMAIN m /\ k # n
  BY <1>1 DEF Index
<1> QED BY <1>1, <1>2 DEF Moves

\* What the places of l say of a row, those of m say too.
LEMMA RowCarried ==
    ASSUME NEW l \in Seq(EventSet), NEW m \in Seq(EventSet), NEW f, Embeds(f, l, m), NEW row,
           SentOnce(l, row),
           \A k \in Sent(m, row) : \E i \in DOMAIN l : k = f[i]
    PROVE  SentOnce(m, row)
<1>1. /\ \A i \in DOMAIN l : i \in Nat /\ f[i] \in DOMAIN m /\ f[i] \in Nat /\ m[f[i]] = l[i]
      /\ \A i, j \in DOMAIN l : i < j => f[i] < f[j]
  BY LenProperties DEF Embeds
<1>2. \A k \in Sent(m, row) : \E i \in Sent(l, row) : i \in DOMAIN l /\ k = f[i]
  BY <1>1 DEF Sent, Index
<1>3. \A i \in Held(l, row) : i \in DOMAIN l /\ f[i] \in Held(m, row)
  BY <1>1 DEF Held, Index
<1>4. \A i \in Reviewed(l, row) : f[i] \in Reviewed(m, row)
  BY <1>1 DEF Reviewed, Index
<1>5. \A i, j, k \in Sent(m, row) : i = j \/ j = k \/ i = k
  BY <1>2 DEF SentOnce
<1>6. ASSUME Held(m, row) = {}, NEW i \in Sent(m, row), NEW j \in Sent(m, row),
             m[i].retry = m[j].retry
      PROVE  i = j
  <2>1. Held(l, row) = {}
    BY <1>3, <1>6
  <2>2. PICK x \in Sent(l, row) : x \in DOMAIN l /\ i = f[x]
    BY <1>2
  <2>3. PICK y \in Sent(l, row) : y \in DOMAIN l /\ j = f[y]
    BY <1>2
  <2>4. l[x].retry = l[y].retry
    BY <1>1, <1>6, <2>2, <2>3
  <2> QED BY <2>1, <2>2, <2>3, <2>4 DEF SentOnce
<1>7. ASSUME Reviewed(m, row) = {}, NEW i \in Sent(m, row)
      PROVE  \E a \in Held(m, row) : a < i /\ \A j \in Sent(m, row) : j < i => j < a
  <2>1. Reviewed(l, row) = {}
    BY <1>4, <1>7
  <2>2. PICK x \in Sent(l, row) : x \in DOMAIN l /\ i = f[x]
    BY <1>2
  <2>3. PICK b \in Held(l, row) : b < x /\ \A y \in Sent(l, row) : y < x => y < b
    BY <2>1 DEF SentOnce
  <2>4. b \in DOMAIN l /\ f[b] \in Held(m, row) /\ f[b] < i
    BY <1>1, <1>3, <2>2, <2>3
  <2>5. ASSUME NEW j \in Sent(m, row), j < i PROVE j < f[b]
    <3>1. PICK y \in Sent(l, row) : y \in DOMAIN l /\ j = f[y]
      BY <1>2
    <3>2. y < x
      <4>1. y \in Nat /\ x \in Nat /\ f[y] \in Nat /\ f[x] \in Nat /\ f[y] < f[x]
        BY <1>1, <2>2, <2>5, <3>1
      <4>2. ~(x < y) /\ x # y
        BY <1>1, <2>2, <3>1, <4>1
      <4> QED BY <4>1, <4>2
    <3> QED BY <1>1, <2>3, <2>4, <3>1, <3>2
  <2> QED BY <2>4, <2>5
<1> QED BY <1>5, <1>6, <1>7 DEF SentOnce

LEMMA OnceCarried ==
    ASSUME NEW l \in Seq(EventSet), NEW m \in Seq(EventSet), Moves(l, m)
    PROVE  /\ DispatchesOnce(l) => DispatchesOnce(m)
           /\ \A t : Earlier(l, t) => Earlier(m, t)
<1>1. PICK f : /\ Embeds(f, l, m)
               /\ \A k \in Index(m, {"dispatched"}) : \E i \in DOMAIN l : k = f[i]
  BY DEF Moves
<1>2. \A k \in Index(m, {"dispatched"}) :
        \E i \in Index(l, {"dispatched"}) : k = f[i] /\ m[k] = l[i]
  BY <1>1 DEF Embeds, Index
<1>3. ASSUME DispatchesOnce(l) PROVE DispatchesOnce(m)
  <2>1. \A i, j \in Index(m, {"dispatched"}) : m[i].at = m[j].at => i = j
    BY <1>2, <1>3 DEF DispatchesOnce
  <2>2. \A i \in Index(m, {"dispatched"}) : m[i].since <= m[i].at
    BY <1>2, <1>3 DEF DispatchesOnce
  <2>3. ASSUME NEW row \in AnyRow PROVE SentOnce(m, row)
    <3>1. \A k \in Sent(m, row) : \E i \in DOMAIN l : k = f[i]
      BY <1>1 DEF Sent
    <3>2. SentOnce(l, row)
      BY <1>3 DEF DispatchesOnce
    <3> QED BY <1>1, <3>1, <3>2, RowCarried
  <2> QED BY <2>1, <2>2, <2>3 DEF DispatchesOnce
<1>4. \A t : Earlier(l, t) => Earlier(m, t)
  BY <1>2 DEF Earlier
<1> QED BY <1>3, <1>4

\* The outcome a row's dispatch is looked for after: the last of its moment.
LEMMA AnchorIs ==
    ASSUME NEW l \in Seq(EventSet), NEW row
    PROVE  /\ Held(l, row) = {} => Anchor(l, row) = 0
           /\ Held(l, row) # {} => Anchor(l, row) \in Held(l, row) /\ Anchor(l, row) > 0
<1>1. Len(l) \in Nat /\ DOMAIN l = 1..Len(l)
  BY LenProperties
<1>2. Held(l, row) \in SUBSET (1..Len(l))
  BY <1>1 DEF Held, Index
<1>3. Anchor(l, row) = IF Held(l, row) = {} THEN 0
                       ELSE CHOOSE i \in Held(l, row) : \A j \in Held(l, row) : j <= i
  BY DEF Anchor, Held
<1>4. CASE Held(l, row) = {}
  BY <1>3, <1>4
<1>5. CASE Held(l, row) # {}
  <2>1. \E i \in Held(l, row) : \A j \in Held(l, row) : j <= i
    BY <1>1, <1>2, <1>5, MaxExists
  <2>2. Anchor(l, row) \in Held(l, row)
    BY <1>3, <1>5, <2>1
  <2> QED BY <1>1, <1>2, <1>5, <2>2
<1> QED BY <1>4, <1>5

\* What a chosen row tells of its dispatches in the copy.
LEMMA ChosenIs ==
    ASSUME NEW l, NEW row, NEW t, NEW rung \in {"act", "retry"},
           Choice(l, row, t) = rung
    PROVE  /\ ~Spent(l, row)
           /\ \A i \in Newer(l, row) \intersect Sent(l, row) : ~l[i].retry
           /\ rung = "act" => Newer(l, row) \intersect Sent(l, row) = {}
<1> DEFINE a      == Anchor(l, row)
           before == {i \in Index(l, {"dispatched"}) : i <= a /\ l[i].rule = "gate"}
           lad    == Ladder(l, DOMAIN l \ before, row, t)
           sent   == {i \in Newer(l, row) : l[i].type = "dispatched" /\ l[i].rule = row.rule}
           failed == {i \in Newer(l, row) : l[i].type = "failed" /\ l[i].rule = row.rule}
           Stop   == \/ Spent(l, row)
                     \/ lad \notin {"act", "retry"}
                     \/ \E i \in sent : l[i].since = row.since /\ l[i].retry
                     \/ lad = "act" /\ sent \union failed # {}
<1>1. Choice(l, row, t) = IF Stop THEN "none" ELSE lad
  BY DEF Choice
<1>2. ~Stop /\ lad = rung
  <2> HIDE DEF lad, Stop
  <2> QED BY <1>1
<1>3. \A i \in Newer(l, row) \intersect Sent(l, row) : i \in sent /\ l[i].since = row.since
  BY DEF Sent, Index, Matches
<1> HIDE DEF lad, sent, failed
<1>4. ~Spent(l, row) /\ (\A i \in sent : l[i].since = row.since => ~l[i].retry)
      /\ ~(rung = "act" /\ sent \union failed # {})
  BY <1>2
<1> QED BY <1>3, <1>4

\* After an outcome of the row's moment: every dispatch so far came before it.
LEMMA ChosenAfterOutcome ==
    ASSUME NEW l \in Seq(EventSet), NEW row \in RowSet, NEW t, NEW rung \in {"act", "retry"},
           Choice(l, row, t) = rung, Held(l, row) # {}
    PROVE  /\ Anchor(l, row) \in Held(l, row)
           /\ \A i \in Sent(l, row) : i < Anchor(l, row)
<1>1. Anchor(l, row) \in Held(l, row) /\ Anchor(l, row) > 0
  BY AnchorIs
<1>2. row.rule = "gate" /\ Anchor(l, row) \in DOMAIN l /\ l[Anchor(l, row)].type = "tooling"
  BY <1>1 DEF Held, Index
<1>3. \A i \in DOMAIN l : i \in Nat
  BY LenProperties
<1>4. Newer(l, row) = {i \in DOMAIN l : i > Anchor(l, row)}
  BY <1>1 DEF Newer
<1>5. ~Spent(l, row)
  BY ChosenIs
<1>6. ASSUME NEW i \in Sent(l, row) PROVE i < Anchor(l, row)
  <2>1. /\ i \in DOMAIN l /\ l[i].type = "dispatched" /\ l[i].rule = "gate"
        /\ l[i].since = row.since
    BY <1>2 DEF Sent, Index, Matches
  <2>2. i \notin Newer(l, row)
    BY <1>1, <1>5, <2>1 DEF Spent
  <2>3. i # Anchor(l, row)
    BY <1>2, <2>1
  <2>4. i \in Nat /\ Anchor(l, row) \in Nat /\ ~(i > Anchor(l, row))
    BY <1>2, <1>3, <1>4, <2>1, <2>2
  <2> QED BY <2>3, <2>4
<1> QED BY <1>1, <1>6

\* Without one: nothing sent before an act, and no retry before a retry.
LEMMA ChosenAfterReview ==
    ASSUME NEW l \in Seq(EventSet), NEW row \in RowSet, NEW t, NEW rung \in {"act", "retry"},
           Choice(l, row, t) = rung, Held(l, row) = {}, DispatchesOnce(l)
    PROVE  /\ rung = "act" => Sent(l, row) = {}
           /\ \A i \in Sent(l, row) : ~l[i].retry
<1>1. Newer(l, row) = {i \in DOMAIN l : l[i].at >= row.since}
  BY AnchorIs DEF Newer
<1>2. ASSUME NEW i \in Sent(l, row) PROVE i \in Newer(l, row)
  <2>1. i \in Index(l, {"dispatched"}) /\ i \in DOMAIN l /\ l[i].since = row.since
    BY DEF Sent, Index, Matches
  <2>2. l[i].since <= l[i].at
    BY <2>1 DEF DispatchesOnce
  <2>3. l[i].at \in Nat /\ l[i].since \in Nat
    <3>1. l[i] \in EventSet
      BY <2>1, ElementOfSeq, LenProperties
    <3> QED BY <3>1 DEF EventSet
  <2> QED BY <1>1, <2>1, <2>2, <2>3
<1>3. Newer(l, row) \intersect Sent(l, row) = Sent(l, row)
  BY <1>2
<1> QED BY <1>3, ChosenIs

\* A row is of the moment of a tooling outcome or of a review.
LEMMA DueSince ==
    ASSUME NEW l \in Seq(EventSet), Ordered(l), NEW t, NEW row \in Due(l, t)
    PROVE  /\ row \in RowSet
           /\ Held(l, row) # {} \/ Reviewed(l, row) # {}
           /\ \E e \in Range(l) : row.since = e.at
<1>1. ASSUME CleanReview(l) # None, row.since = CleanReview(l).at
      PROVE  Reviewed(l, row) # {} /\ \E e \in Range(l) : row.since = e.at
  <2>1. CleanReview(l) \in Range(l) /\ CleanReview(l).type = "review"
    BY <1>1, CleanReviewIs DEF Of
  <2>2. PICK i \in DOMAIN l : l[i] = CleanReview(l)
    BY <2>1 DEF Range
  <2>3. i \in Reviewed(l, row)
    BY <1>1, <2>1, <2>2 DEF Reviewed, Index
  <2> QED BY <1>1, <2>1, <2>3
<1>2. CASE row \in GateRow(l, t)
  <2>1. row \in RowSet /\ row.rule = "gate"
    BY <1>2, GateRowIs
  <2>2. CASE Tooling(l) # None
    <3>1. row.since = Tooling(l).at
      BY <1>2, <2>2 DEF GateRow, Row
    <3>2. Has(l, Answer \union Judging) /\ Tooling(l).at = LastOutcome(l).at
      BY <2>2, ToolingAt
    <3>3. LastOutcome(l).type = "tooling"
      BY <2>2, ToolingCases
    <3>4. PICK i \in DOMAIN l : LastOutcome(l) = l[i]
      BY <3>2, LatestIs DEF LastOutcome
    <3>5. i \in Held(l, row)
      BY <2>1, <3>1, <3>2, <3>3, <3>4 DEF Held, Index
    <3> QED BY <2>1, <3>1, <3>2, <3>4, <3>5 DEF Range
  <2>3. CASE Tooling(l) = None
    <3>1. CleanReview(l) # None /\ row.since = CleanReview(l).at
      BY <1>2, <2>3 DEF GateRow, Row
    <3> QED BY <1>1, <2>1, <3>1
  <2> QED BY <2>2, <2>3
<1>3. CASE row \in EnqueueRow(l)
  <2>1. row \in RowSet /\ CleanReview(l) # None /\ row.since = CleanReview(l).at
    BY <1>3, EnqueueRowIs
  <2> QED BY <1>1, <2>1
<1> QED BY <1>2, <1>3 DEF Due

\* The places of the copy and of the new dispatch, n, in the ledger after it:
\* the row of that dispatch,
LEMMA DispatchedRowOnce ==
    ASSUME NEW l \in Seq(EventSet), NEW m \in Seq(EventSet), NEW h, Embeds(h, l, m),
           NEW n \in DOMAIN m,
           \A k \in Index(m, {"dispatched"}) : k = n \/ \E i \in DOMAIN l : k = h[i],
           \A i \in DOMAIN l : h[i] < n,
           NEW row \in RowSet, NEW t, NEW rung \in {"act", "retry"},
           Choice(l, row, t) = rung,
           Held(l, row) # {} \/ Reviewed(l, row) # {},
           DispatchesOnce(l), Ordered(l),
           m[n].retry = (rung = "retry"),
           m[n].type = "dispatched"
    PROVE  SentOnce(m, row)
<1>1. /\ \A i \in DOMAIN l : i \in Nat /\ h[i] \in DOMAIN m /\ h[i] \in Nat /\ m[h[i]] = l[i]
      /\ \A i, j \in DOMAIN l : i < j => h[i] < h[j]
      /\ n \in Nat
  BY LenProperties DEF Embeds
<1>2. ASSUME NEW k \in Sent(m, row), k # n
      PROVE  \E i \in Sent(l, row) : i \in DOMAIN l /\ k = h[i]
  <2>1. k \in Index(m, {"dispatched"}) /\ m[k].type = "dispatched" /\ Matches(m[k], row)
    BY DEF Sent, Index
  <2>2. PICK i \in DOMAIN l : k = h[i]
    BY <1>2, <2>1
  <2>3. m[k] = l[i]
    BY <1>1, <2>2
  <2>4. i \in Sent(l, row)
    BY <2>1, <2>3 DEF Sent, Index
  <2> QED BY <2>2, <2>4
<1>3. \A i \in Held(l, row) : i \in DOMAIN l /\ h[i] \in Held(m, row)
  BY <1>1 DEF Held, Index
<1>4. \A i \in Reviewed(l, row) : h[i] \in Reviewed(m, row)
  BY <1>1 DEF Reviewed, Index
<1>5. \A i \in Sent(l, row) : i \in DOMAIN l /\ i \in Index(l, {"dispatched"})
                              /\ l[i].since = row.since /\ l[i].retry \in BOOLEAN
  <2>1. \A i \in DOMAIN l : l[i].retry \in BOOLEAN
    <3>1. \A i \in DOMAIN l : l[i] \in EventSet
      BY ElementOfSeq, LenProperties
    <3> QED BY <3>1 DEF EventSet
  <2> QED BY <2>1 DEF Sent, Index, Matches
<1>6. row \in AnyRow /\ SentOnce(l, row)
  <2>1. row \in AnyRow
    BY DEF AnyRow, RowSet, RuleName
  <2> QED BY <2>1 DEF DispatchesOnce
<1>7. CASE Held(l, row) = {}
  <2>1. (rung = "act" => Sent(l, row) = {}) /\ \A i \in Sent(l, row) : ~l[i].retry
    BY <1>7, ChosenAfterReview
  <2>2. \A i, j \in Sent(l, row) : i = j
    BY <1>6, <1>7, <2>1, <1>5 DEF SentOnce
  <2>3. \A i, j, k \in Sent(m, row) : i = j \/ j = k \/ i = k
    BY <1>2, <2>2
  <2>4. ASSUME NEW i \in Sent(m, row), NEW j \in Sent(m, row), m[i].retry = m[j].retry
        PROVE  i = j
    <3>1. ASSUME NEW x \in Sent(l, row) PROVE m[h[x]].retry # m[n].retry
      <4>1. rung = "retry"
        BY <2>1, <3>1
      <4>2. ~m[h[x]].retry
        BY <1>1, <1>5, <2>1, <3>1
      <4> QED BY <4>1, <4>2
    <3> QED BY <1>2, <2>2, <2>4, <3>1
  <2>5. Reviewed(m, row) # {}
    BY <1>4, <1>7
  <2> QED BY <2>3, <2>4, <2>5 DEF SentOnce
<1>8. CASE Held(l, row) # {}
  <2> DEFINE a == Anchor(l, row)
  <2>1. a \in Held(l, row) /\ \A i \in Sent(l, row) : i < a
    BY <1>8, ChosenAfterOutcome
  <2> HIDE DEF a
  <2>2. a \in DOMAIN l /\ l[a].at = row.since /\ h[a] \in Held(m, row) /\ h[a] < n
    BY <1>3, <2>1 DEF Held
  <2>3. \A i \in Sent(l, row) : l[i].at = row.since
    <3> SUFFICES ASSUME NEW i \in Sent(l, row) PROVE l[i].at = row.since
      OBVIOUS
    <3>1. i \in DOMAIN l /\ l[i].since = row.since /\ l[i].since <= l[i].at
      BY <1>5 DEF DispatchesOnce
    <3>2. l[i].at <= l[a].at
      <4>1. i \in Nat /\ a \in Nat /\ i <= a
        BY <1>1, <2>1, <2>2, <3>1
      <4> QED BY <2>2, <3>1, <4>1 DEF Ordered
    <3>3. l[i].at \in Nat /\ row.since \in Nat
      <4>1. l[i] \in EventSet
        BY <3>1, ElementOfSeq, LenProperties
      <4> QED BY <4>1 DEF EventSet, RowSet
    <3> QED BY <2>2, <3>1, <3>2, <3>3
  <2>4. \A i, j \in Sent(l, row) : i = j
    BY <1>5, <2>3 DEF DispatchesOnce
  <2>5. \A i, j, k \in Sent(m, row) : i = j \/ j = k \/ i = k
    BY <1>2, <2>4
  <2>6. Held(m, row) # {}
    BY <2>2
  <2>7. ASSUME Reviewed(m, row) = {}, NEW i \in Sent(m, row)
        PROVE  \E b \in Held(m, row) : b < i /\ \A j \in Sent(m, row) : j < i => j < b
    <3>1. CASE i = n
      <4>1. ASSUME NEW j \in Sent(m, row), j < n PROVE j < h[a]
        <5>1. PICK y \in Sent(l, row) : y \in DOMAIN l /\ j = h[y]
          BY <1>1, <1>2, <4>1
        <5> QED BY <1>1, <2>1, <2>2, <5>1
      <4> QED BY <2>2, <3>1, <4>1
    <3>2. CASE i # n
      <4>1. PICK x \in Sent(l, row) : x \in DOMAIN l /\ i = h[x]
        BY <1>2, <3>2
      <4>2. PICK b \in Held(l, row) : b < x /\ \A y \in Sent(l, row) : y < x => y < b
        BY <1>4, <1>6, <2>7, <4>1 DEF SentOnce
      <4>3. h[b] \in Held(m, row) /\ h[b] < i
        BY <1>1, <1>3, <4>1, <4>2
      <4>4. ASSUME NEW j \in Sent(m, row), j < i PROVE FALSE
        <5>1. j # n
          BY <1>1, <4>1, <4>4
        <5>2. PICK y \in Sent(l, row) : j = h[y]
          BY <1>2, <5>1
        <5>3. j = i
          BY <2>4, <4>1, <5>2
        <5> QED BY <1>1, <4>1, <4>4, <5>3
      <4> QED BY <4>3, <4>4
    <3> QED BY <3>1, <3>2
  <2> QED BY <2>5, <2>6, <2>7 DEF SentOnce
<1> QED BY <1>7, <1>8

\* and the ledger as a whole.
LEMMA DispatchedOnce ==
    ASSUME NEW l \in Seq(EventSet), NEW m \in Seq(EventSet), NEW h, Embeds(h, l, m),
           NEW n \in DOMAIN m,
           \A k \in Index(m, {"dispatched"}) : k = n \/ \E i \in DOMAIN l : k = h[i],
           \A i \in DOMAIN l : h[i] < n,
           NEW row \in RowSet, NEW t, NEW rung \in {"act", "retry"},
           Choice(l, row, t) = rung,
           Held(l, row) # {} \/ Reviewed(l, row) # {},
           DispatchesOnce(l), Ordered(l),
           m[n].retry = (rung = "retry"),
           m[n].type = "dispatched", Matches(m[n], row), row.since <= m[n].at,
           Earlier(l, m[n].at)
    PROVE  DispatchesOnce(m)
<1>1. \A k \in Index(m, {"dispatched"}) :
        k = n \/ \E i \in Index(l, {"dispatched"}) : k = h[i] /\ m[k] = l[i]
  BY DEF Embeds, Index
<1>2. \A i \in Index(l, {"dispatched"}) : l[i].at < m[n].at /\ l[i].at # m[n].at
  <2>1. m[n].at \in Nat
    <3>1. m[n] \in EventSet
      BY ElementOfSeq, LenProperties
    <3> QED BY <3>1 DEF EventSet
  <2>2. \A i \in Index(l, {"dispatched"}) : l[i].at \in Nat
    <3>1. \A i \in Index(l, {"dispatched"}) : l[i] \in EventSet
      BY ElementOfSeq, LenProperties DEF Index
    <3> QED BY <3>1 DEF EventSet
  <2> QED BY <2>1, <2>2 DEF Earlier
<1>3. \A i, j \in Index(m, {"dispatched"}) : m[i].at = m[j].at => i = j
  BY <1>1, <1>2 DEF DispatchesOnce
<1>4. \A i \in Index(m, {"dispatched"}) : m[i].since <= m[i].at
  <2>1. m[n].since = row.since
    BY DEF Matches
  <2> QED BY <1>1, <2>1 DEF DispatchesOnce
<1>5. ASSUME NEW other \in AnyRow PROVE SentOnce(m, other)
  <2>1. CASE n \in Sent(m, other)
    <3>1. m[n].rule = other.rule /\ m[n].since = other.since
      BY <2>1 DEF Sent, Matches
    <3>2. other = [rule |-> other.rule, since |-> other.since]
      BY DEF AnyRow
    <3>3. row = [rule |-> m[n].rule, since |-> m[n].since]
      BY DEF RowSet, Matches
    <3>4. other = row
      BY <3>1, <3>2, <3>3
    <3>5. SentOnce(m, row)
      BY DispatchedRowOnce
    <3> QED BY <3>4, <3>5
  <2>2. CASE n \notin Sent(m, other)
    <3>1. \A k \in Sent(m, other) : \E i \in DOMAIN l : k = h[i]
      BY <2>2 DEF Sent
    <3>2. SentOnce(l, other)
      BY DEF DispatchesOnce
    <3> QED BY <3>1, <3>2, RowCarried
  <2> QED BY <2>1, <2>2
<1> QED BY <1>3, <1>4, <1>5 DEF DispatchesOnce

-----------------------------------------------------------------------------
\* Dispatches under the actions

\* A step that writes no dispatch and leaves the clock.
LEMMA OnceKept ==
    ASSUME OnceInv, log \in Seq(EventSet), log' \in Seq(EventSet), Moves(log, log'),
           now' = now, ticked' = ticked, tick'.pc = "read" => tick' = tick
    PROVE  OnceInv'
<1>1. DispatchesOnce(log')
  BY OnceCarried DEF OnceInv
<1>2. (~ticked \/ tick.pc = "read") => Earlier(log', now)
  BY OnceCarried DEF OnceInv
<1>3. tick'.pc = "read" => tick' = tick /\ Moves(tick.seen, log')
  BY MovesTwice DEF OnceInv
<1>4. (~ticked' \/ tick'.pc = "read") => Earlier(log', now')
  BY <1>2
<1>5. tick'.pc = "read" => ticked' /\ DispatchesOnce(tick'.seen) /\ Moves(tick'.seen, log')
  BY <1>3 DEF OnceInv
<1> QED BY <1>1, <1>4, <1>5 DEF OnceInv

LEMMA OnceAfterEvent ==
    ASSUME LaneInv, LaneInv', OnceInv, NEW e, e.type # "dispatched", log' \in Inserted(log, e),
           now' = now, ticked' = ticked, tick' \in {tick, Idle}
    PROVE  OnceInv'
<1>1. log \in Seq(EventSet) /\ log' \in Seq(EventSet)
  BY DEF LaneInv, TypeOK
<1> DEFINE T == EventSet \union {e}
<1>2. log \in Seq(T)
  BY <1>1
<1>3. Moves(log, log')
  <2> HIDE DEF T
  <2>1. e \in T
    BY DEF T
  <2> QED BY <1>2, <2>1, MovesByInsert
<1>4. tick'.pc = "read" => tick' = tick
  BY IdleTick
<1> QED BY <1>1, <1>3, <1>4, OnceKept

LEMMA OnceAfterNothing ==
    ASSUME LaneInv, OnceInv, log' = log, now' = now, ticked' = ticked,
           tick'.pc = "read" => tick' = tick
    PROVE  OnceInv'
<1>1. log \in Seq(EventSet) /\ log' \in Seq(EventSet)
  BY DEF LaneInv, TypeOK
<1>2. Moves(log, log')
  BY <1>1, EmbedsSelf
<1> QED BY <1>1, <1>2, OnceKept

LEMMA OnceInit == Init => OnceInv
<1> SUFFICES ASSUME Init PROVE OnceInv
  OBVIOUS
<1>1. log = <<[Event("review", "judge", 1) EXCEPT !.version = 1]>> /\ tick = Idle
  BY DEF Init
<1>2. DOMAIN log = {1} /\ log[1].type = "review"
  <2> DEFINE e == [Event("review", "judge", 1) EXCEPT !.version = 1]
  <2>1. e.type = "review"
    BY DEF Event
  <2> HIDE DEF e
  <2>2. log \in Seq({e}) /\ Len(log) = 1 /\ log[1] = e
    BY <1>1 DEF e
  <2>3. DOMAIN log = 1..1
    BY <2>2, LenProperties
  <2> QED BY <2>1, <2>2, <2>3
<1>3. Index(log, {"dispatched"}) = {}
  BY <1>2 DEF Index
<1>4. DispatchesOnce(log) /\ Earlier(log, now)
  BY <1>3 DEF DispatchesOnce, Earlier, SentOnce, Sent
<1> QED BY <1>1, <1>4, IdleTick DEF OnceInv

LEMMA OnceTickBegin == ASSUME LaneInv, OnceInv, TickBegin PROVE OnceInv'
<1>1. /\ ~ticked /\ ticked' = TRUE /\ log' = log /\ now' = now
      /\ tick' \in {Idle, [Idle EXCEPT !.pc = "read", !.seen = log, !.at = now]}
  BY DEF TickBegin
<1>2. DispatchesOnce(log) /\ Earlier(log, now) /\ Moves(log, log)
  <2>1. log \in Seq(EventSet)
    BY DEF LaneInv, TypeOK
  <2> QED BY <1>1, <2>1, EmbedsSelf DEF OnceInv
<1>3. tick'.pc = "read" => tick'.seen = log
  <2>1. Idle.pc = "idle"
    BY IdleTick
  <2>2. [Idle EXCEPT !.pc = "read", !.seen = log, !.at = now].seen = log
    BY DEF Idle
  <2> QED BY <1>1, <2>1, <2>2
<1> QED BY <1>1, <1>2, <1>3 DEF OnceInv

\* The dispatch of a row that the copy chooses: of a later moment than every
\* other, and after all that the copy holds.
LEMMA OnceDispatch == ASSUME LaneInv, LaneInv', OnceInv, Dispatch PROVE OnceInv'
<1>1. /\ tick.pc = "read" /\ now' = now /\ ticked' = ticked
      /\ \E e \in Eligible(tick.seen, tick.at) :
            /\ log' \in {l \in Inserted(log, Dispatched(e)) : KeepsRead(l, Dispatched(e))}
            /\ tick' = [tick EXCEPT !.pc = e.row.rule, !.row = e.row]
  BY DEF Dispatch
<1>2. PICK e \in Eligible(tick.seen, tick.at) :
        /\ log' \in Inserted(log, Dispatched(e)) /\ KeepsRead(log', Dispatched(e))
        /\ tick' = [tick EXCEPT !.pc = e.row.rule, !.row = e.row]
  BY <1>1
<1> DEFINE s == tick.seen
           d == Dispatched(e)
           row == e.row
<1>3. /\ log \in Seq(EventSet) /\ log' \in Seq(EventSet) /\ s \in Seq(EventSet)
      /\ tick \in TickSet /\ now \in Nat
  BY DEF LaneInv, TypeOK, TickSet
<1>4. Ordered(s) /\ Range(s) \subseteq Range(log) /\ \A x \in Range(log) : x.at <= now
  BY DEF LaneInv, TickInv, Copy, World
<1>5. row \in Due(s, tick.at) /\ e.rung \in {"act", "retry"} /\ Choice(s, row, tick.at) = e.rung
  BY DEF Eligible
<1>6. /\ row \in RowSet /\ (Held(s, row) # {} \/ Reviewed(s, row) # {}) /\ row.since <= now
  <2> HIDE DEF row, s
  <2> QED BY <1>3, <1>4, <1>5, DueSince
<1>7. /\ d.type = "dispatched" /\ d.at = now /\ Matches(d, row)
      /\ d.retry = (e.rung = "retry")
  BY DEF Dispatched, Event, Matches
<1>8. DispatchesOnce(s) /\ Moves(s, log) /\ Earlier(log, now) /\ ticked
  BY <1>1 DEF OnceInv
<1>9. PICK f : /\ Embeds(f, s, log)
               /\ \A k \in Index(log, {"dispatched"}) : \E i \in DOMAIN s : k = f[i]
  BY <1>8 DEF Moves
<1>10. PICK g, n : /\ Embeds(g, log, log') /\ n \in DOMAIN log' /\ log'[n] = d
                   /\ \A k \in DOMAIN log' : k = n \/ \E i \in DOMAIN log : k = g[i]
  <2> DEFINE T == EventSet \union {d}
  <2>1. log \in Seq(T) /\ d \in T
    BY <1>3
  <2> HIDE DEF T, d
  <2> QED BY <1>2, <2>1, InsertedEmbeds DEF d
<1> DEFINE h == [i \in DOMAIN s |-> g[f[i]]]
<1>11. Embeds(h, s, log')
  BY <1>9, <1>10, EmbedsTwice
<1>12. ASSUME NEW k \in Index(log', {"dispatched"})
       PROVE  k = n \/ \E i \in DOMAIN s : k = h[i]
  <2>1. CASE k # n
    <3>1. PICK j \in DOMAIN log : k = g[j]
      BY <1>10, <2>1 DEF Index
    <3>2. log[j] = log'[k]
      BY <1>10, <3>1 DEF Embeds
    <3>3. j \in Index(log, {"dispatched"})
      BY <3>1, <3>2 DEF Index
    <3>4. PICK i \in DOMAIN s : j = f[i]
      BY <1>9, <3>3
    <3> QED BY <3>1, <3>4
  <2> QED BY <2>1
<1> HIDE DEF h, d, row, s
<1>13. \A i \in DOMAIN s : h[i] < n
  <2> SUFFICES ASSUME NEW i \in DOMAIN s PROVE h[i] < n
    OBVIOUS
  <2>1. h[i] \in DOMAIN log' /\ log'[h[i]] \in Range(s)
    BY <1>11 DEF Embeds, Range
  <2>2. KeepsRead(log', d)
    BY <1>2 DEF d
  <2> QED BY <1>10, <2>1, <2>2 DEF KeepsRead, s
<1>14. Earlier(s, now)
  <2>1. \A i \in Index(s, {"dispatched"}) :
          f[i] \in Index(log, {"dispatched"}) /\ log[f[i]] = s[i]
    BY <1>9 DEF Embeds, Index
  <2> QED BY <1>8, <2>1 DEF Earlier
<1>15. DispatchesOnce(log')
  BY <1>3, <1>4, <1>5, <1>6, <1>7, <1>8, <1>10, <1>11, <1>12, <1>13, <1>14, DispatchedOnce
<1>16. tick'.pc # "read" /\ ticked'
  <2>1. tick'.pc = row.rule
    BY <1>2, <1>3 DEF TickSet, row
  <2> QED BY <1>1, <1>6, <1>8, <2>1 DEF RowSet
<1> QED BY <1>15, <1>16 DEF OnceInv

LEMMA OnceTick ==
    ASSUME LaneInv, LaneInv', OnceInv, RunGate \/ Enqueue \/ TickDie \/ ManualGate
    PROVE  OnceInv'
<1>1. CASE RunGate
  <2>1. /\ log' = log /\ now' = now /\ ticked' = ticked
        /\ tick' = [tick EXCEPT !.pc = "wait", !.gate = Process("tick")]
    BY <1>1 DEF RunGate
  <2>2. tick'.pc = "wait"
    BY <2>1 DEF LaneInv, TypeOK, TickSet
  <2> QED BY <2>1, <2>2, OnceAfterNothing
<1>2. CASE Enqueue
  <2> DEFINE q == Event("queue-add", "tick", now)
             f == [Event("failed", "tick", now) EXCEPT !.rule = "enqueue"]
  <2>1. /\ tick' = Idle /\ now' = now /\ ticked' = ticked
        /\ log' \in Inserted(log, q) \/ log' = log \/ log' \in Inserted(log, f)
    BY <1>2 DEF Enqueue, Append1, Failed
  <2>2. q.type # "dispatched" /\ f.type # "dispatched"
    BY DEF Event
  <2> HIDE DEF q, f
  <2>3. tick'.pc # "read"
    BY <2>1, IdleTick
  <2> QED BY <2>1, <2>2, <2>3, OnceAfterEvent, OnceAfterNothing
<1>3. CASE TickDie \/ ManualGate
  <2>1. log' = log /\ now' = now /\ ticked' = ticked /\ tick' \in {tick, Idle}
    BY <1>3 DEF TickDie, ManualGate
  <2>2. tick'.pc = "read" => tick' = tick
    BY <2>1, IdleTick
  <2> QED BY <2>1, <2>2, OnceAfterNothing
<1> QED BY <1>1, <1>2, <1>3

\* What a gate and the tick that waits for it write.
LEMMA OnceReported ==
    ASSUME LaneInv, LaneInv', OnceInv, now' = now, ticked' = ticked, tick' \in {tick, Idle},
           NEW g, NEW e, e.type # "dispatched", NEW l \in {log} \union Inserted(log, e),
           log' \in Reported(l, g)
    PROVE  OnceInv'
<1> DEFINE f == [Event("failed", "tick", now) EXCEPT !.rule = "gate"]
           T == EventSet \union {e, f}
<1>1. log' \in Inserted(l, f) \/ log' = l
  BY DEF Reported
<1>2. f.type # "dispatched"
  BY DEF Event
<1> HIDE DEF f
<1>3. log \in Seq(EventSet) /\ log' \in Seq(EventSet)
  BY DEF LaneInv, TypeOK
<1>4. log \in Seq(T)
  BY <1>3
<1>5. e \in T /\ f \in T
  OBVIOUS
<1> HIDE DEF T
<1>6. Moves(log, l) /\ l \in Seq(T)
  <2>1. CASE l = log
    BY <1>3, <1>4, <2>1, EmbedsSelf
  <2>2. CASE l \in Inserted(log, e)
    BY <1>4, <1>5, <2>2, MovesByInsert, InsertedPoints
  <2> QED BY <2>1, <2>2
<1>7. Moves(log, log')
  BY <1>1, <1>2, <1>5, <1>6, MovesByInsert, MovesTwice
<1>8. tick'.pc = "read" => tick' = tick
  BY IdleTick
<1> QED BY <1>3, <1>7, <1>8, OnceKept

LEMMA ConflictType ==
    ASSUME NEW by, NEW file, NEW l \in ConflictRework(by, file)
    PROVE  \E e : e.type = "conflict" /\ l \in {log} \union Inserted(log, e)
<1>1. Event("conflict", file, by.at).type = "conflict"
  BY DEF Event
<1> QED BY <1>1 DEF ConflictRework

LEMMA OnceConflict ==
    ASSUME LaneInv, LaneInv', OnceInv, now' = now, ticked' = ticked, tick' \in {tick, Idle},
           NEW by, NEW file, log' \in ConflictRework(by, file)
    PROVE  OnceInv'
<1>1. PICK e : e.type = "conflict" /\ log' \in {log} \union Inserted(log, e)
  BY ConflictType
<1>2. e.type # "dispatched"
  BY <1>1
<1>3. tick'.pc = "read" => tick' = tick
  BY IdleTick
<1> QED BY <1>1, <1>2, <1>3, OnceAfterEvent, OnceAfterNothing

LEMMA OnceGate ==
    ASSUME LaneInv, LaneInv', OnceInv, NEW g \in gates,
           \/ GateClean(g) \/ GateTooling(g) \/ GateRework(g) \/ GateNothing(g)
           \/ GateConflict(g) \/ GateRefreshed(g)
    PROVE  OnceInv'
<1>1. now' = now /\ ticked' = ticked /\ tick' \in {tick, Idle}
  BY DEF GateClean, GateTooling, GateRework, GateNothing, GateConflict, GateRefreshed, Ended
<1>2. CASE GateClean(g)
  <2>1. log' \in Inserted(log, Verdict(g, "clean")) /\ Verdict(g, "clean").type # "dispatched"
    BY <1>2 DEF GateClean, Append1, Verdict, Event
  <2> QED BY <1>1, <2>1, OnceAfterEvent
<1>3. CASE GateTooling(g)
  <2>1. PICK e \in EventSet : e.type = "tooling" /\ log' \in Inserted(log, e)
    BY <1>3, GateFacts, ToolingOutcome
  <2>2. e.type # "dispatched"
    BY <2>1
  <2> QED BY <1>1, <2>1, <2>2, OnceAfterEvent
<1>4. CASE GateRework(g)
  <2> DEFINE e == Verdict(g, "rework")
  <2>1. PICK l \in Inserted(log, e) : log' \in Reported(l, g)
    BY <1>4 DEF GateRework
  <2>2. e.type # "dispatched"
    BY DEF Verdict, Event
  <2> HIDE DEF e
  <2> QED BY <1>1, <2>1, <2>2, OnceReported
<1>5. CASE GateNothing(g)
  <2>1. log' \in Reported(log, g) /\ Verdict(g, "rework").type # "dispatched"
    BY <1>5 DEF GateNothing, Verdict, Event
  <2> QED BY <1>1, <2>1, OnceReported
<1>6. CASE GateConflict(g)
  <2>1. PICK file : \E l \in ConflictRework(g, file) : log' \in Reported(l, g)
    BY <1>6 DEF GateConflict
  <2>2. PICK l \in ConflictRework(g, file) : log' \in Reported(l, g)
    BY <2>1
  <2>3. PICK e : e.type = "conflict" /\ l \in {log} \union Inserted(log, e)
    BY ConflictType
  <2>4. e.type # "dispatched"
    BY <2>3
  <2> QED BY <1>1, <2>2, <2>3, <2>4, OnceReported
<1>7. CASE GateRefreshed(g)
  <2>1. log' \in ConflictRework(g, "exec")
    BY <1>7 DEF GateRefreshed, ConflictRework
  <2> QED BY <1>1, <2>1, OnceConflict
<1> QED BY <1>2, <1>3, <1>4, <1>5, <1>6, <1>7

LEMMA OnceRebase ==
    ASSUME LaneInv, LaneInv', OnceInv,
           \/ Preflight \/ \E g \in gates : Conflict(g)
           \/ \E a \in adoption : Adopt(a) \/ Regate(a) \/ DispatchFails(a)
           \/ \E w \in regates : DispatchEnds(w)
    PROVE  OnceInv'
<1>1. now' = now /\ ticked' = ticked /\ tick' = tick
  BY DEF Preflight, Conflict, Reserve, Adopt, Regate, DispatchFails, DispatchEnds
<1>2. log' = log \/ \E by : log' \in ConflictRework(by, "exec")
  BY DEF Preflight, Conflict, Reserve, Adopt, Regate, DispatchFails, DispatchEnds
<1> QED BY <1>1, <1>2, OnceAfterNothing, OnceConflict

LEMMA OnceOthers ==
    ASSUME LaneInv, LaneInv', OnceInv, Look \/ Reject \/ Build \/ Review \/ Unblock
    PROVE  OnceInv'
<1>1. now' = now /\ ticked' = ticked /\ tick' = tick
  BY DEF Look, Reject, Build, Review, Unblock
<1>2. \E e : e.type # "dispatched" /\ log' \in Inserted(log, e)
  <2>1. CASE Look
    <3>1. PICK row \in Due(log, now) :
            log' \in Inserted(log, [Event("lane-stale", "look", now) EXCEPT
                                      !.rule = row.rule, !.since = row.since])
      BY <2>1 DEF Look, Append1
    <3>2. [Event("lane-stale", "look", now) EXCEPT
             !.rule = row.rule, !.since = row.since].type # "dispatched"
      BY DEF Event
    <3> QED BY <3>1, <3>2
  <2>2. CASE Reject
    <3>1. Event("verdict", "judge", now).type # "dispatched"
      BY DEF Event
    <3> QED BY <2>2, <3>1 DEF Reject, Append1
  <2>3. CASE Build
    <3>1. Event("built", "builder", now).type # "dispatched"
      BY DEF Event
    <3> QED BY <2>3, <3>1 DEF Build, Append1
  <2>4. CASE Review
    <3>1. [Event("review", "judge", now) EXCEPT !.version = head].type # "dispatched"
      BY DEF Event
    <3> QED BY <2>4, <3>1 DEF Review, Append1
  <2>5. CASE Unblock
    <3>1. Event("unblocked", "thinker", now).type # "dispatched"
      BY DEF Event
    <3> QED BY <2>5, <3>1 DEF Unblock, Append1
  <2> QED BY <2>1, <2>2, <2>3, <2>4, <2>5
<1> QED BY <1>1, <1>2, OnceAfterEvent

LEMMA OnceClock == ASSUME LaneInv, LaneInv', OnceInv, Clock PROVE OnceInv'
<1>1. now' = now + 1 /\ log' = log /\ tick' = tick /\ tick.pc # "read"
  BY DEF Clock
<1>2. DispatchesOnce(log)
  BY DEF OnceInv
<1>3. Earlier(log, now + 1)
  <2>1. log \in Seq(EventSet) /\ now \in Nat /\ \A x \in Range(log) : x.at <= now
    BY DEF LaneInv, TypeOK, World
  <2>2. ASSUME NEW i \in Index(log, {"dispatched"}) PROVE log[i].at < now + 1
    <3>1. log[i] \in Range(log) /\ log[i] \in EventSet
      BY <2>1, ElementOfSeq, LenProperties DEF Index, Range
    <3>2. log[i].at \in Nat /\ log[i].at <= now
      BY <2>1, <3>1 DEF EventSet
    <3> QED BY <2>1, <3>2
  <2> QED BY <2>2 DEF Earlier
<1> QED BY <1>1, <1>2, <1>3 DEF OnceInv

LEMMA OnceNext == LaneInv /\ LaneInv' /\ OnceInv /\ [Next]_vars => OnceInv'
<1> SUFFICES ASSUME LaneInv, LaneInv', OnceInv, [Next]_vars PROVE OnceInv'
  OBVIOUS
<1>1. CASE TickBegin \/ Dispatch \/ Clock
  BY <1>1, OnceTickBegin, OnceDispatch, OnceClock
<1>2. CASE RunGate \/ Enqueue \/ TickDie \/ ManualGate
  BY <1>2, OnceTick
<1>3. CASE \E g \in gates : \/ GateClean(g) \/ GateTooling(g) \/ GateRework(g) \/ GateNothing(g)
                            \/ GateConflict(g) \/ GateRefreshed(g)
  BY <1>3, OnceGate
<1>4. CASE \/ Preflight \/ \E g \in gates : Conflict(g)
           \/ \E a \in adoption : Adopt(a) \/ Regate(a) \/ DispatchFails(a)
           \/ \E w \in regates : DispatchEnds(w)
  BY <1>4, OnceRebase
<1>5. CASE Look \/ Reject \/ Build \/ Review \/ Unblock
  BY <1>5, OnceOthers
<1>6. CASE Done \/ UNCHANGED vars
  <2>1. UNCHANGED vars
    BY <1>6 DEF Done
  <2> QED BY <2>1, OnceAfterNothing DEF vars
<1> QED BY <1>1, <1>2, <1>3, <1>4, <1>5, <1>6 DEF Next

LEMMA OnceInvariant == Spec => []OnceInv
BY LaneInvariant, OnceInit, OnceNext, PTL DEF Spec

\* How many there are of what is in order, one, two or none.
LEMMA FewAre ==
    ASSUME NEW n \in Nat, NEW S \in SUBSET (1..n)
    PROVE  /\ IsFiniteSet(S) /\ Cardinality(S) \in Nat
           /\ S # {} => Cardinality(S) >= 1
           /\ \A a, b \in S : a # b => Cardinality(S) >= 2
           /\ (\A a, b \in S : a = b) => Cardinality(S) <= 1
           /\ (\A a, b, c \in S : a = b \/ b = c \/ a = c) => Cardinality(S) <= 2
<1>1. IsFiniteSet(S)
  <2>1. IsFiniteSet(1..n)
    BY FS_Interval
  <2> QED BY <2>1, FS_Subset
<1>2. Cardinality(S) \in Nat
  BY <1>1, FS_CardinalityType
<1>3. CASE S = {}
  <2>1. Cardinality(S) = 0
    BY <1>3, FS_EmptySet
  <2> QED BY <1>1, <1>2, <1>3, <2>1
<1>4. CASE S # {}
  <2>1. PICK x \in S : TRUE
    BY <1>4
  <2> DEFINE R == S \ {x}
  <2>2. IsFiniteSet(R) /\ Cardinality(R) \in Nat /\ Cardinality(S) = Cardinality(R) + 1
    <3>1. IsFiniteSet(R) /\ Cardinality(R) = Cardinality(S) - 1
      BY <1>1, <2>1, FS_RemoveElement
    <3>2. Cardinality(R) \in Nat
      BY <3>1, FS_CardinalityType
    <3> QED BY <1>2, <3>1, <3>2
  <2>3. CASE R = {}
    <3>1. Cardinality(R) = 0
      BY <2>3, FS_EmptySet
    <3>2. \A a, b \in S : a = b
      BY <2>3
    <3> QED BY <1>1, <1>2, <2>2, <3>1, <3>2
  <2>4. CASE R # {}
    <3>1. PICK y \in R : TRUE
      BY <2>4
    <3> DEFINE Q == R \ {y}
    <3>2. IsFiniteSet(Q) /\ Cardinality(Q) \in Nat /\ Cardinality(R) = Cardinality(Q) + 1
      <4>1. IsFiniteSet(Q) /\ Cardinality(Q) = Cardinality(R) - 1
        BY <2>2, <3>1, FS_RemoveElement
      <4>2. Cardinality(Q) \in Nat
        BY <4>1, FS_CardinalityType
      <4> QED BY <2>2, <4>1, <4>2
    <3>3. ~\A a, b \in S : a = b
      BY <2>1, <3>1
    <3>4. (\A a, b, c \in S : a = b \/ b = c \/ a = c) => Q = {}
      BY <2>1, <3>1
    <3>5. Q = {} => Cardinality(Q) = 0
      BY FS_EmptySet
    <3> HIDE DEF Q, R
    <3>6. Cardinality(S) = Cardinality(Q) + 2
      BY <2>2, <3>2
    <3>7. Cardinality(S) >= 2
      BY <3>2, <3>6
    <3>8. (\A a, b, c \in S : a = b \/ b = c \/ a = c) => Cardinality(S) <= 2
      BY <3>2, <3>4, <3>5, <3>6
    <3> QED BY <1>1, <1>2, <3>3, <3>7, <3>8
  <2> QED BY <2>3, <2>4
<1> QED BY <1>3, <1>4

\* However ticks and gates die or overlap, however often a row stays due: one due
\* row is dispatched at most once to act and once to retry, and a tooling outcome
\* once in all (enqueue_due over nextstep and lane_rules).
THEOREM OncePerTriggerHolds == Spec => []OncePerTrigger
<1>1. LaneInv /\ OnceInv => OncePerTrigger
  <2> SUFFICES ASSUME LaneInv, OnceInv, NEW d \in Index(log, {"dispatched"})
               PROVE
        LET sent         == {i \in Index(log, {"dispatched"}) : Matches(log[i], log[d])}
            Number(type) == Cardinality({i \in Index(log, {type}) : log[i].at = log[d].since})
            holds        == IF log[d].rule = "gate" THEN Number("tooling") ELSE 0
        IN  /\ Cardinality({i \in sent : log[i].retry}) <= Number("review") + holds
            /\ Cardinality(sent) <= 2 * Number("review") + holds
    BY DEF OncePerTrigger
  <2> DEFINE row == [rule |-> log[d].rule, since |-> log[d].since]
             sent == Sent(log, row)
             retried == {i \in sent : log[i].retry}
             held == Held(log, row)
             reviewed == Reviewed(log, row)
             n == Len(log)
  <2>1. /\ n \in Nat /\ DOMAIN log = 1..n
        /\ \A i \in DOMAIN log : log[i] \in EventSet
    BY ElementOfSeq, LenProperties DEF LaneInv, TypeOK
  <2>2. row \in AnyRow
    <3>1. log[d] \in EventSet
      BY <2>1 DEF Index
    <3> QED BY <3>1 DEF AnyRow, EventSet
  <2>3. SentOnce(log, row)
    BY <2>2 DEF OnceInv, DispatchesOnce
  <2>4. /\ sent \in SUBSET (1..n) /\ retried \in SUBSET (1..n) /\ held \in SUBSET (1..n)
        /\ reviewed \in SUBSET (1..n)
    BY <2>1 DEF Sent, Held, Reviewed, Index
  <2>5. \A i \in sent : log[i].retry \in BOOLEAN
    <3>1. \A i \in sent : log[i] \in EventSet
      BY <2>1 DEF Sent, Index
    <3> QED BY <3>1 DEF EventSet
  <2>6. /\ sent = {i \in Index(log, {"dispatched"}) : Matches(log[i], log[d])}
        /\ reviewed = {i \in Index(log, {"review"}) : log[i].at = log[d].since}
        /\ log[d].rule = "gate" =>
              held = {i \in Index(log, {"tooling"}) : log[i].at = log[d].since}
        /\ log[d].rule # "gate" => held = {}
    BY DEF Sent, Reviewed, Held, Matches
  <2> HIDE DEF row, n
  <2> DEFINE cs == Cardinality(sent)
             cr == Cardinality(retried)
             ch == Cardinality(held)
             cv == Cardinality(reviewed)
  <2>7. /\ cs \in Nat /\ cr \in Nat /\ ch \in Nat /\ cv \in Nat
    BY <2>1, <2>4, FewAre
  <2>8. cs <= 2 /\ cr <= 2
    BY <2>1, <2>3, <2>4, FewAre DEF SentOnce
  <2>9. held = {} => cr <= 1
    BY <2>1, <2>3, <2>4, <2>5, FewAre DEF SentOnce
  <2>10. cr <= cs
    <3>1. IsFiniteSet(sent) /\ retried \in SUBSET sent
      BY <2>1, <2>4, FewAre
    <3> QED BY <3>1, FS_Subset
  <2>11. reviewed # {} => cv >= 1
    BY <2>1, <2>4, FewAre
  <2>12. held # {} => ch >= 1
    BY <2>1, <2>4, FewAre
  <2>13. reviewed = {} => cs <= ch
    <3> SUFFICES ASSUME reviewed = {} PROVE cs <= ch
      OBVIOUS
    <3>1. \A i \in sent : \E a \in held : a < i /\ \A j \in sent : j < i => j < a
      BY <2>3 DEF SentOnce
    <3>2. CASE \A i, j \in sent : i = j
      <4>1. CASE sent = {}
        <5>1. cs = 0
          BY <4>1, FS_EmptySet
        <5> QED BY <2>7, <5>1
      <4>2. CASE sent # {}
        <5>1. held # {}
          BY <3>1, <4>2
        <5>2. cs <= 1
          BY <2>1, <2>4, <3>2, FewAre
        <5> QED BY <2>7, <2>12, <5>1, <5>2
      <4> QED BY <4>1, <4>2
    <3>3. CASE ~ \A i, j \in sent : i = j
      <4>1. PICK i \in sent, j \in sent : j < i
        <5>1. \A x \in sent : x \in Nat
          BY <2>1, <2>4
        <5>2. PICK x \in sent, y \in sent : x # y
          BY <3>3
        <5>3. x < y \/ y < x
          BY <5>1, <5>2
        <5> QED BY <5>3
      <4>2. PICK a \in held : j < a
        BY <3>1, <4>1
      <4>3. PICK b \in held : b < j
        BY <3>1
      <4>4. a # b
        <5>1. a \in Nat /\ b \in Nat /\ j \in Nat
          BY <2>1, <2>4
        <5> QED BY <4>2, <4>3, <5>1
      <4>5. ch >= 2
        BY <2>1, <2>4, <4>4, FewAre
      <4> QED BY <2>7, <2>8, <4>5
    <3> QED BY <3>2, <3>3
  <2> HIDE DEF sent, retried, held, reviewed
  <2>14. held = {} => ch = 0
    BY FS_EmptySet
  <2>15. cr <= cv + ch /\ cs <= 2 * cv + ch
    <3>1. CASE reviewed = {}
      BY <2>7, <2>10, <2>13, <3>1
    <3>2. CASE reviewed # {}
      <4>1. cv >= 1
        BY <2>11, <3>2
      <4>2. (held = {} /\ ch = 0 /\ cr <= 1) \/ ch >= 1
        BY <2>9, <2>12, <2>14
      <4> HIDE DEF cs, cr, ch, cv
      <4> QED BY <2>7, <2>8, <4>1, <4>2
    <3> QED BY <3>1, <3>2
  <2>16. CASE log[d].rule = "gate"
    BY <2>6, <2>15, <2>16 DEF retried
  <2>17. CASE log[d].rule # "gate"
    BY <2>6, <2>14, <2>15, <2>17 DEF retried
  <2> QED BY <2>16, <2>17
<1> QED BY <1>1, LaneInvariant, OnceInvariant, PTL

-----------------------------------------------------------------------------
\* How long a clean review waits

GateOf(r) == [rule |-> "gate", since |-> r]

\* The clean review of moment r has neither an outcome nor a queue row.
Waiting(l, r) ==
    CleanReview(l) # None /\ CleanReview(l).at = r /\ ~After(l, r, Outcome \union {"queue-add"})

Retries(l, r) == {i \in Sent(l, GateOf(r)) : l[i].retry}

\* The latest moment a review's retry is sent, and its fate before and after it:
Late(r) == r + Limit["gate"] + Span + deaths

RetryTimely(r) ==
    /\ \E i \in Retries(log, r) : log[i].at <= Late(r)
    /\ \A i \in Retries(log, r) : now <= log[i].at + Limit["gate"] + 1

\* the pass of the period is over and another comes in time, or it works on a
\* dispatch it chose when the review was not overdue.
RetryAhead(r) ==
    /\ now <= Late(r)
    /\ tick.pc = "idle" /\ ticked => now < Late(r)
    /\ tick.pc \in {"gate", "enqueue"} => now <= r + Limit["gate"]
    /\ tick.pc = "wait" => tick.gate.at <= r + Limit["gate"]

InTime(r) == IF Retries(log, r) # {} THEN RetryTimely(r) ELSE RetryAhead(r)

\* A review that waits is in the copy of the pass that acts in the same period.
PassInv ==
    /\ tick.pc = "read" =>
          \A r \in Nat : Waiting(log, r) => Waiting(tick.seen, r) \/ r = now
    /\ tick.pc \in {"read", "gate", "enqueue"} => ticked
    /\ tick.pc = "read" => tick.at = now
    /\ IF tick.pc = "wait" THEN tick.gate \in gates /\ (ticked => tick.gate.at = now)
       ELSE tick.gate = None

SettleInv ==
    PassInv /\ \A r \in Nat : Waiting(log, r) /\ ~Escalated(GateOf(r)) => InTime(r)

LEMMA WaitingIs ==
    ASSUME NEW l \in Seq(EventSet), Ordered(l), NEW r, Waiting(l, r)
    PROVE  /\ r \in Nat /\ \E e \in Range(l) : e.type = "review" /\ e.at = r
           /\ Tooling(l) = None
           /\ \A e \in Range(l) : e.type \in Outcome \union {"queue-add"} => e.at < r
<1>1. CleanReview(l) # None /\ CleanReview(l).at = r
      /\ CleanReview(l) \in Of(Range(l), "review") /\ CleanReview(l) \in EventSet
  BY CleanReviewIs DEF Waiting
<1>2. r \in Nat /\ CleanReview(l) \in Range(l) /\ CleanReview(l).type = "review"
  BY <1>1 DEF Of, EventSet
<1>3. ASSUME NEW e \in Range(l), e.type \in Outcome \union {"queue-add"} PROVE e.at < r
  <2>1. ~(e.at >= r)
    BY <1>3, AfterIs DEF Waiting
  <2>2. e.at \in Nat
    <3>1. e \in EventSet
      BY RangeOfSeq
    <3> QED BY <3>1 DEF EventSet
  <2> QED BY <1>2, <2>1, <2>2
<1>4. LastOutcome(l).type # "tooling"
  <2>1. Has(l, Answer \union Judging)
    BY <1>2, HasIs DEF Judging
  <2>2. LastOutcome(l) \in Range(l) /\ r <= LastOutcome(l).at /\ LastOutcome(l) \in EventSet
    BY <1>1, <1>2, <2>1, LatestEvent DEF LastOutcome, Judging
  <2>3. LastOutcome(l).at \in Nat
    BY <2>2 DEF EventSet
  <2>4. ~(LastOutcome(l).at < r)
    BY <1>2, <2>2, <2>3
  <2> QED BY <1>3, <2>2, <2>4 DEF Outcome
<1>5. Tooling(l) = None
  BY <1>4, ToolingCases
<1> QED BY <1>1, <1>2, <1>3, <1>5

\* Its gate row is then the only one due, and no outcome hides a dispatch of it.
LEMMA WaitingDue ==
    ASSUME NEW l \in Seq(EventSet), Ordered(l), NEW r, Waiting(l, r), NEW t
    PROVE  /\ Due(l, t) = {GateOf(r)} /\ GateOf(r) \in RowSet
           /\ Held(l, GateOf(r)) = {} /\ Anchor(l, GateOf(r)) = 0
<1>1. /\ r \in Nat /\ Tooling(l) = None
      /\ \A e \in Range(l) : e.type \in Outcome \union {"queue-add"} => e.at < r
  BY WaitingIs
<1>2. CleanReview(l) # None /\ CleanReview(l).at = r
      /\ ~After(l, r, Outcome \union {"queue-add"})
  BY DEF Waiting
<1>3. GateRow(l, t) = {GateOf(r)}
  BY <1>1, <1>2 DEF GateRow, Row, GateOf
<1>4. EnqueueRow(l) = {}
  <2> SUFFICES ASSUME NEW row \in EnqueueRow(l) PROVE FALSE
    OBVIOUS
  <2>1. /\ Has(l, Answer) /\ Latest(l, Answer).type = "clean"
        /\ Latest(l, Answer).at >= r
    BY <1>2, EnqueueRowIs
  <2>2. Latest(l, Answer) \in Range(l) /\ Latest(l, Answer) \in EventSet
    BY <2>1, LatestEvent
  <2>3. Latest(l, Answer).at < r /\ Latest(l, Answer).at \in Nat
    BY <1>1, <2>1, <2>2 DEF Outcome, EventSet
  <2> QED BY <1>1, <2>1, <2>3
<1>5. Held(l, GateOf(r)) = {}
  <2> SUFFICES ASSUME NEW i \in Held(l, GateOf(r)) PROVE FALSE
    OBVIOUS
  <2>1. i \in DOMAIN l /\ l[i].type = "tooling" /\ l[i].at = r
    BY DEF Held, Index, GateOf
  <2>2. l[i] \in Range(l)
    BY <2>1 DEF Range
  <2>3. r < r
    BY <1>1, <2>1, <2>2 DEF Outcome
  <2> QED BY <1>1, <2>3
<1>6. GateOf(r) \in RowSet
  BY <1>1 DEF GateOf, RowSet
<1> QED BY <1>3, <1>4, <1>5, <1>6, AnchorIs DEF Due

\* What the ledger gains is no new wait, but for a review.
LEMMA WaitingBefore ==
    ASSUME NEW T, NEW l \in Seq(T), NEW e \in T, NEW m \in Inserted(l, e), NEW r,
           m \in Seq(EventSet), l \in Seq(EventSet), Waiting(m, r)
    PROVE  Waiting(l, r) \/ (e.type = "review" /\ e.at = r)
<1> DEFINE types == Judging \union {"built"}
<1>1. PICK f, n : /\ Embeds(f, l, m) /\ n \in DOMAIN m /\ m[n] = e
                  /\ \A k \in DOMAIN m : k = n \/ \E i \in DOMAIN l : k = f[i]
  BY InsertedEmbeds
<1>2. /\ \A i \in DOMAIN l : i \in Nat /\ f[i] \in DOMAIN m /\ f[i] \in Nat /\ m[f[i]] = l[i]
      /\ \A i, j \in DOMAIN l : i < j => f[i] < f[j]
  BY <1>1, LenProperties DEF Embeds
<1>3. /\ Has(m, types) /\ Latest(m, types).type = "review" /\ Latest(m, types).at = r
      /\ ~After(m, r, Outcome \union {"queue-add"})
  BY DEF Waiting, CleanReview
<1>4. PICK k \in DOMAIN m : /\ k \in Index(m, types) /\ Latest(m, types) = m[k]
                            /\ \A j \in Index(m, types) : j <= k
  BY <1>3, LatestIs
<1>5. CASE k = n
  BY <1>1, <1>3, <1>4, <1>5
<1>6. CASE k # n
  <2>1. PICK i \in DOMAIN l : k = f[i]
    BY <1>1, <1>6
  <2>2. l[i].type = "review" /\ l[i].at = r /\ i \in Index(l, types)
    BY <1>2, <1>3, <1>4, <2>1 DEF Index, Judging
  <2>3. Has(l, types)
    BY <2>2 DEF Has
  <2>4. PICK p \in DOMAIN l : /\ p \in Index(l, types) /\ Latest(l, types) = l[p]
                              /\ \A j \in Index(l, types) : j <= p
    BY <2>3, LatestIs
  <2>5. p = i
    <3>1. f[p] \in Index(m, types)
      BY <1>2, <2>4 DEF Index
    <3>2. f[p] <= f[i]
      BY <1>4, <2>1, <3>1
    <3>3. ~(i < p)
      BY <1>2, <2>1, <2>4, <3>2
    <3>4. i <= p
      BY <2>2, <2>4
    <3> QED BY <1>2, <3>3, <3>4
  <2>6. CleanReview(l) = l[i] /\ l[i].at = r
    BY <2>2, <2>3, <2>4, <2>5 DEF CleanReview
  <2>7. CleanReview(l) # None
    <3>1. CleanReview(m) = Latest(m, types)
      BY <1>3 DEF CleanReview
    <3>2. l[i] = Latest(m, types)
      BY <1>2, <1>4, <2>1
    <3> QED BY <2>6, <3>1, <3>2 DEF Waiting
  <2>8. ~After(l, r, Outcome \union {"queue-add"})
    <3> SUFFICES ASSUME NEW j \in Index(l, Outcome \union {"queue-add"}), l[j].at >= r
                 PROVE  FALSE
      BY DEF After
    <3>1. f[j] \in Index(m, Outcome \union {"queue-add"}) /\ m[f[j]].at >= r
      BY <1>2 DEF Index
    <3> QED BY <1>3, <3>1 DEF After
  <2> QED BY <2>6, <2>7, <2>8 DEF Waiting
<1> QED BY <1>5, <1>6

\* An event inserted that is no dispatch leaves retries and escalations.
LEMMA RetriesKept ==
    ASSUME NEW l \in Seq(EventSet), NEW m \in Seq(EventSet), Moves(l, m), NEW r
    PROVE  /\ \A k \in Retries(m, r) : \E i \in Retries(l, r) : m[k] = l[i]
           /\ \A i \in Retries(l, r) : \E k \in Retries(m, r) : m[k] = l[i]
<1>1. PICK f : /\ Embeds(f, l, m)
               /\ \A k \in Index(m, {"dispatched"}) : \E i \in DOMAIN l : k = f[i]
  BY DEF Moves
<1>2. \A i \in DOMAIN l : f[i] \in DOMAIN m /\ m[f[i]] = l[i]
  BY <1>1 DEF Embeds
<1>3. ASSUME NEW k \in Retries(m, r) PROVE \E i \in Retries(l, r) : m[k] = l[i]
  <2>1. k \in Index(m, {"dispatched"})
    BY DEF Retries, Sent
  <2>2. PICK i \in DOMAIN l : k = f[i]
    BY <1>1, <2>1
  <2>3. m[k] = l[i]
    BY <1>2, <2>2
  <2>4. i \in Retries(l, r)
    BY <2>3 DEF Retries, Sent, Index
  <2> QED BY <2>3, <2>4
<1>4. ASSUME NEW i \in Retries(l, r) PROVE \E k \in Retries(m, r) : m[k] = l[i]
  <2>1. i \in DOMAIN l
    BY DEF Retries, Sent, Index
  <2>2. f[i] \in Retries(m, r)
    BY <1>2, <2>1 DEF Retries, Sent, Index
  <2> QED BY <1>2, <2>1, <2>2
<1> QED BY <1>3, <1>4

LEMMA EscalatedIs ==
    ASSUME log \in Seq(EventSet), NEW row
    PROVE  Escalated(row) <=> \E e \in Range(log) : e.type = "lane-stale" /\ Matches(e, row)
BY LenProperties DEF Escalated, Index, Range

\* What the pass does with the row of a review that waits and has no retry.
LEMMA WaitingChoice ==
    ASSUME NEW l \in Seq(EventSet), Ordered(l), NEW r, Waiting(l, r), NEW t \in Nat, r <= t,
           ~ \E i \in Index(l, {"lane-stale"}) : Matches(l[i], GateOf(r)),
           Retries(l, r) = {}
    PROVE  /\ t - r > Limit["gate"] => Choice(l, GateOf(r), t) = "retry"
           /\ Choice(l, GateOf(r), t) = "act" => t - r <= Limit["gate"]
<1> DEFINE row == GateOf(r)
           a      == Anchor(l, row)
           before == {i \in Index(l, {"dispatched"}) : i <= a /\ l[i].rule = "gate"}
           lad    == Ladder(l, DOMAIN l \ before, row, t)
           sent   == {i \in Newer(l, row) : l[i].type = "dispatched" /\ l[i].rule = row.rule}
           failed == {i \in Newer(l, row) : l[i].type = "failed" /\ l[i].rule = row.rule}
           Stop   == \/ Spent(l, row)
                     \/ lad \notin {"act", "retry"}
                     \/ \E i \in sent : l[i].since = row.since /\ l[i].retry
                     \/ lad = "act" /\ sent \union failed # {}
           mine   == {i \in Index(l, {"dispatched"}) \intersect (DOMAIN l \ before) :
                        l[i].retry /\ Matches(l[i], row)}
<1>1. Choice(l, row, t) = IF Stop THEN "none" ELSE lad
  BY DEF Choice
<1>2. a = 0 /\ r \in Nat /\ row.rule = "gate" /\ row.since = r
  BY WaitingDue, WaitingIs DEF GateOf
<1>3. ~Spent(l, row)
  BY <1>2 DEF Spent
<1>4. mine = {}
  BY DEF Retries, Sent
<1>5. ~ \E i \in sent : l[i].since = row.since /\ l[i].retry
  <2> SUFFICES ASSUME NEW i \in sent, l[i].since = row.since, l[i].retry PROVE FALSE
    OBVIOUS
  <2>1. i \in Retries(l, r)
    BY DEF Retries, Sent, Newer, Index, Matches, GateOf
  <2> QED BY <2>1
<1>6. lad = IF \E i \in Index(l, {"lane-stale"}) : Matches(l[i], row) THEN "digest"
            ELSE IF \E i \in mine : t - l[i].at > Limit[row.rule] THEN "inbox"
            ELSE IF mine # {} \/ Overdue(row, t) THEN "retry" ELSE "act"
  BY DEF Ladder
<1> HIDE DEF lad, mine, sent, failed, before, a
<1>7. lad = IF Overdue(row, t) THEN "retry" ELSE "act"
  BY <1>4, <1>6
<1>8. Overdue(row, t) <=> t - r > Limit["gate"]
  BY <1>2 DEF Overdue
<1>9. t - r > Limit["gate"] \/ t - r <= Limit["gate"]
  BY <1>2, LaneAssumption
<1> HIDE DEF row
<1>10. ASSUME Overdue(row, t) PROVE Choice(l, row, t) = "retry"
  <2>1. lad = "retry"
    BY <1>7, <1>10
  <2> QED BY <1>1, <1>3, <1>5, <2>1
<1>11. ASSUME Choice(l, row, t) = "act" PROVE ~Overdue(row, t)
  BY <1>10, <1>11
<1> QED BY <1>8, <1>9, <1>10, <1>11 DEF row

-----------------------------------------------------------------------------
\* The wait of a review under the actions

LEMMA SettleFacts ==
    ASSUME LaneInv
    PROVE  /\ log \in Seq(EventSet) /\ Ordered(log) /\ now \in Nat /\ deaths \in Nat
           /\ tick \in TickSet /\ ticked \in BOOLEAN
           /\ Limit["gate"] \in Nat /\ Span \in Nat /\ Span > 0
           /\ \A e \in Range(log) : e.at \in Nat /\ e.at <= now
           /\ \A r : Waiting(log, r) => r \in Nat /\ r <= now
<1>1. /\ log \in Seq(EventSet) /\ Ordered(log) /\ now \in Nat /\ deaths \in Nat
      /\ tick \in TickSet /\ ticked \in BOOLEAN
  BY DEF LaneInv, TypeOK
<1>2. \A e \in Range(log) : e.at \in Nat /\ e.at <= now
  <2>1. \A e \in Range(log) : e \in EventSet /\ e.at <= now
    BY <1>1, RangeOfSeq DEF LaneInv, World
  <2> QED BY <2>1 DEF EventSet
<1>3. ASSUME NEW r, Waiting(log, r) PROVE r \in Nat /\ r <= now
  BY <1>1, <1>2, <1>3, WaitingIs
<1>4. Limit["gate"] \in Nat /\ Span \in Nat /\ Span > 0
  BY LaneAssumption
<1> QED BY <1>1, <1>2, <1>3, <1>4

LEMMA NoGate == \A g \in GateSet : g # None
<1> SUFFICES ASSUME NEW g \in GateSet, g = None PROVE FALSE
  OBVIOUS
<1>1. "file" \in DOMAIN g
  BY DEF GateSet
<1>2. DOMAIN None = {"none"}
  BY DEF None
<1> QED BY <1>1, <1>2

\* A review of this period has all its time.
Fresh == InTime(now)

LEMMA FreshInTime == LaneInv /\ OnceInv /\ PassInv => Fresh
<1> SUFFICES ASSUME LaneInv, OnceInv, PassInv PROVE InTime(now)
  BY DEF Fresh
<1>1. /\ log \in Seq(EventSet) /\ now \in Nat /\ deaths \in Nat
      /\ Limit["gate"] \in Nat /\ Span \in Nat /\ Span > 0
      /\ \A e \in Range(log) : e.at \in Nat /\ e.at <= now
  BY SettleFacts
<1>2. now < Late(now) /\ now <= now + Limit["gate"] /\ now <= now + Limit["gate"] + 1
  BY <1>1 DEF Late
<1>3. ASSUME NEW i \in Retries(log, now) PROVE log[i].at = now
  <2>1. i \in Index(log, {"dispatched"}) /\ log[i].since = now /\ log[i] \in Range(log)
    BY DEF Retries, Sent, Matches, GateOf, Index, Range
  <2>2. now <= log[i].at
    BY <2>1 DEF OnceInv, DispatchesOnce
  <2> QED BY <1>1, <2>1, <2>2
<1>4. Retries(log, now) # {} => RetryTimely(now)
  <2>1. now <= Late(now)
    BY <1>1 DEF Late
  <2> QED BY <1>2, <1>3, <2>1 DEF RetryTimely
<1>5. RetryAhead(now)
  <2>1. now <= Late(now)
    BY <1>1 DEF Late
  <2>2. tick.pc = "wait" => tick.gate.at <= now + Limit["gate"]
    <3> SUFFICES ASSUME tick.pc = "wait" PROVE tick.gate.at <= now + Limit["gate"]
      OBVIOUS
    <3>1. tick.gate \in gates
      BY DEF PassInv
    <3>2. tick.gate.at \in Nat /\ tick.gate.at <= now
      BY <3>1, GateFacts
    <3> QED BY <1>1, <3>2
  <2> QED BY <1>2, <2>1, <2>2 DEF RetryAhead
<1> QED BY <1>4, <1>5 DEF InTime

\* What a ledger gains in a step of the present period that dispatches nothing.
Gains(l, m) ==
    /\ Moves(l, m) /\ Range(l) \subseteq Range(m)
    /\ \A r \in Nat : Waiting(m, r) => Waiting(l, r) \/ r = now

LEMMA GainsNothing == ASSUME NEW l \in Seq(EventSet) PROVE Gains(l, l)
BY EmbedsSelf DEF Gains

LEMMA GainsByInsert ==
    ASSUME NEW l \in Seq(EventSet), NEW e, e.type # "dispatched",
           e.type = "review" => e.at = now, NEW m \in Inserted(l, e), m \in Seq(EventSet)
    PROVE  Gains(l, m)
<1> DEFINE T == EventSet \union {e}
<1>1. l \in Seq(T) /\ e \in T
  OBVIOUS
<1> HIDE DEF T
<1>2. Moves(l, m)
  BY <1>1, MovesByInsert
<1>3. Range(l) \subseteq Range(m)
  <2>1. PICK f : Embeds(f, l, m)
    BY <1>2 DEF Moves
  <2>2. \A i \in DOMAIN l : f[i] \in DOMAIN m /\ m[f[i]] = l[i]
    BY <2>1 DEF Embeds
  <2> QED BY <2>2 DEF Range
<1>4. ASSUME NEW r \in Nat, Waiting(m, r) PROVE Waiting(l, r) \/ r = now
  BY <1>1, <1>4, WaitingBefore
<1> QED BY <1>2, <1>3, <1>4 DEF Gains

LEMMA GainsTwice ==
    ASSUME NEW l, NEW m, NEW u, Gains(l, m), Gains(m, u) PROVE Gains(l, u)
BY MovesTwice DEF Gains

\* A step of the present period that dispatches nothing: before the retry it need
\* only leave the pass its time.
LEMMA SettleKept ==
    ASSUME LaneInv, LaneInv', OnceInv', SettleInv, PassInv', Gains(log, log'), now' = now,
           deaths' >= deaths,
           \A r \in Nat : Waiting(log, r) /\ ~Escalated(GateOf(r)) /\ Retries(log, r) = {}
                             /\ RetryAhead(r) => RetryAhead(r)'
    PROVE  SettleInv'
<1>1. /\ log \in Seq(EventSet) /\ now \in Nat /\ deaths \in Nat
      /\ Limit["gate"] \in Nat /\ Span \in Nat
      /\ \A e \in Range(log) : e.at \in Nat
  BY SettleFacts
<1>2. log' \in Seq(EventSet) /\ deaths' \in Nat
  BY DEF LaneInv, TypeOK
<1>3. ASSUME NEW r \in Nat, Waiting(log', r), ~Escalated(GateOf(r))' PROVE InTime(r)'
  <2>1. CASE r = now
    <3>1. Fresh'
      BY FreshInTime, PTL
    <3> QED BY <2>1, <3>1 DEF Fresh
  <2>2. CASE r # now
    <3>1. Waiting(log, r)
      BY <1>3, <2>2 DEF Gains
    <3>2. ~Escalated(GateOf(r))
      <4>1. Range(log) \subseteq Range(log')
        BY DEF Gains
      <4>2. Escalated(GateOf(r))' <=>
              \E e \in Range(log') : e.type = "lane-stale" /\ Matches(e, GateOf(r))
        BY <1>2, LenProperties DEF Escalated, Index, Range
      <4> QED BY <1>1, <1>3, <4>1, <4>2, EscalatedIs
    <3>3. InTime(r)
      BY <3>1, <3>2 DEF SettleInv
    <3>4. /\ \A k \in Retries(log', r) : \E i \in Retries(log, r) : log'[k] = log[i]
          /\ \A i \in Retries(log, r) : \E k \in Retries(log', r) : log'[k] = log[i]
      BY <1>1, <1>2, RetriesKept DEF Gains
    <3>5. CASE Retries(log, r) = {}
      <4>1. Retries(log', r) = {} /\ RetryAhead(r)'
        BY <3>1, <3>2, <3>3, <3>4, <3>5 DEF InTime
      <4> QED BY <4>1 DEF InTime
    <3>6. CASE Retries(log, r) # {}
      <4>1. Retries(log', r) # {} /\ RetryTimely(r)
        BY <3>3, <3>4, <3>6 DEF InTime
      <4>2. PICK i \in Retries(log, r) : log[i].at <= Late(r)
        BY <4>1 DEF RetryTimely
      <4>3. PICK k \in Retries(log', r) : log'[k] = log[i]
        BY <3>4
      <4>4. log[i].at \in Nat
        <5>1. log[i] \in Range(log)
          BY DEF Retries, Sent, Index, Range
        <5> QED BY <1>1, <5>1
      <4>5. log'[k].at <= Late(r)'
        <5>1. Late(r) \in Nat
          BY <1>1 DEF Late
        <5>2. Late(r)' \in Nat
          BY <1>1, <1>2 DEF Late
        <5>3. Late(r) <= Late(r)'
          BY <1>1, <1>2 DEF Late
        <5> QED BY <4>2, <4>3, <4>4, <5>1, <5>2, <5>3
      <4>6. \A j \in Retries(log', r) : now <= log'[j].at + Limit["gate"] + 1
        BY <3>4, <4>1 DEF RetryTimely
      <4>7. RetryTimely(r)'
        BY <4>5, <4>6 DEF RetryTimely
      <4> QED BY <4>1, <4>7 DEF InTime
    <3> QED BY <3>5, <3>6
  <2> QED BY <2>1, <2>2
<1> QED BY <1>3 DEF SettleInv

\* An event, or none, and the tick goes on, dies or has ended its work.
LEMMA SettleQuiet ==
    ASSUME LaneInv, LaneInv', OnceInv', SettleInv, Gains(log, log'), now' = now,
           ticked' = ticked, tick' \in {tick, Idle},
           tick' = tick /\ tick.pc = "wait" => tick.gate \in gates',
           deaths' \in {deaths, deaths + 1},
           tick.pc = "read" /\ tick' = Idle => deaths' = deaths + 1
    PROVE  SettleInv'
<1>1. /\ now \in Nat /\ deaths \in Nat /\ tick \in TickSet
      /\ Limit["gate"] \in Nat /\ Span \in Nat /\ Span > 0
      /\ \A r : Waiting(log, r) => r \in Nat /\ r <= now
  BY SettleFacts
<1>2. PassInv'
  <2>1. CASE tick' = tick
    <3>1. ASSUME tick.pc = "read", NEW r \in Nat, Waiting(log', r)
          PROVE  Waiting(tick.seen, r) \/ r = now
      BY <3>1 DEF Gains, SettleInv, PassInv
    <3>2. tick.pc \in {"read", "gate", "enqueue"} => ticked'
      BY DEF SettleInv, PassInv
    <3>3. tick.pc = "read" => tick.at = now'
      BY DEF SettleInv, PassInv
    <3>4. IF tick.pc = "wait" THEN tick.gate \in gates' /\ (ticked' => tick.gate.at = now')
          ELSE tick.gate = None
      BY <2>1 DEF SettleInv, PassInv
    <3> QED BY <2>1, <3>1, <3>2, <3>3, <3>4 DEF PassInv
  <2>2. CASE tick' = Idle
    <3>1. tick'.pc = "idle" /\ tick'.gate = None
      BY <2>2, IdleTick DEF Idle
    <3> QED BY <3>1 DEF PassInv
  <2> QED BY <2>1, <2>2
<1>3. ASSUME NEW r \in Nat, Waiting(log, r), RetryAhead(r) PROVE RetryAhead(r)'
  <2>1. Late(r)' >= Late(r) /\ Late(r) \in Nat /\ Late(r)' \in Nat
        /\ (deaths' = deaths + 1 => Late(r) < Late(r)')
        /\ r + Limit["gate"] < Late(r)
    BY <1>1 DEF Late
  <2>2. now' <= Late(r)'
    BY <1>1, <1>3, <2>1 DEF RetryAhead
  <2>3. CASE tick' = tick
    <3>1. tick.pc = "idle" /\ ticked => now < Late(r)'
      BY <1>1, <1>3, <2>1 DEF RetryAhead
    <3> QED BY <1>3, <2>2, <2>3, <3>1 DEF RetryAhead
  <2>4. CASE tick' = Idle
    <3>1. tick'.pc = "idle"
      BY <2>4, IdleTick
    <3>2. ASSUME ticked PROVE now < Late(r)'
      <4>1. CASE tick.pc = "idle"
        <5>1. now < Late(r)
          BY <1>3, <3>2, <4>1 DEF RetryAhead
        <5> QED BY <1>1, <2>1, <5>1
      <4>2. CASE tick.pc = "read"
        <5>1. Late(r) < Late(r)' /\ now <= Late(r)
          BY <1>3, <2>1, <2>4, <4>2 DEF RetryAhead
        <5> QED BY <1>1, <2>1, <5>1
      <4>3. CASE tick.pc \in {"gate", "enqueue"}
        <5>1. now <= r + Limit["gate"]
          BY <1>3, <4>3 DEF RetryAhead
        <5> QED BY <1>1, <2>1, <5>1
      <4>4. CASE tick.pc = "wait"
        <5>1. tick.gate.at = now
          BY <3>2, <4>4 DEF SettleInv, PassInv
        <5>2. now <= r + Limit["gate"]
          BY <1>3, <4>4, <5>1 DEF RetryAhead
        <5> QED BY <1>1, <2>1, <5>2
      <4> QED BY <1>1, <4>1, <4>2, <4>3, <4>4 DEF TickSet
    <3>3. tick'.pc = "idle" /\ ticked' => now' < Late(r)'
      BY <3>2
    <3> QED BY <2>2, <3>1, <3>3 DEF RetryAhead
  <2> QED BY <2>3, <2>4
<1>4. deaths' >= deaths
  BY <1>1
<1> QED BY <1>2, <1>3, <1>4, SettleKept

LEMMA SettleInit == Init => SettleInv
<1> SUFFICES ASSUME Init PROVE SettleInv
  OBVIOUS
<1>1. LaneInv /\ OnceInv
  BY LaneInit, OnceInit
<1>2. /\ now = 1 /\ tick = Idle
      /\ log = <<[Event("review", "judge", 1) EXCEPT !.version = 1]>>
  BY DEF Init
<1>3. PassInv
  <2>1. tick.pc = "idle" /\ tick.gate = None
    BY <1>2, IdleTick DEF Idle
  <2> QED BY <2>1 DEF PassInv
<1>4. ASSUME NEW r \in Nat, Waiting(log, r) PROVE r = now
  <2> DEFINE e == [Event("review", "judge", 1) EXCEPT !.version = 1]
  <2>1. e.at = 1
    BY DEF Event
  <2> HIDE DEF e
  <2>2. log \in Seq({e})
    BY <1>2 DEF e
  <2>3. Range(log) \in SUBSET {e}
    BY <2>2, RangeOfSeq
  <2>4. \E x \in Range(log) : x.at = r
    BY <1>1, <1>4, WaitingIs, SettleFacts
  <2> QED BY <1>2, <2>1, <2>3, <2>4
<1>5. Fresh
  BY <1>1, <1>3, FreshInTime
<1> QED BY <1>3, <1>4, <1>5 DEF SettleInv, Fresh

\* A pass that finds nothing to do comes before the review is overdue.
LEMMA SettleTickBegin ==
    ASSUME LaneInv, LaneInv', OnceInv', SettleInv, TickBegin
    PROVE  SettleInv'
<1>1. /\ tick.pc = "idle" /\ ~ticked /\ ticked' = TRUE /\ log' = log /\ now' = now
      /\ deaths' = deaths
      /\ tick' = IF Eligible(log, now) = {} THEN Idle
                 ELSE [Idle EXCEPT !.pc = "read", !.seen = log, !.at = now]
  BY DEF TickBegin
<1>2. /\ log \in Seq(EventSet) /\ Ordered(log) /\ now \in Nat /\ deaths \in Nat
      /\ Limit["gate"] \in Nat /\ Span \in Nat /\ Span > 0
      /\ \A r : Waiting(log, r) => r \in Nat /\ r <= now
  BY SettleFacts
<1>3. Gains(log, log')
  BY <1>1, <1>2, GainsNothing
<1>4. /\ Eligible(log, now) = {} => tick'.pc = "idle"
      /\ Eligible(log, now) # {} =>
            tick'.pc = "read" /\ tick'.seen = log /\ tick'.at = now
  <2>1. /\ [Idle EXCEPT !.pc = "read", !.seen = log, !.at = now].pc = "read"
        /\ [Idle EXCEPT !.pc = "read", !.seen = log, !.at = now].seen = log
        /\ [Idle EXCEPT !.pc = "read", !.seen = log, !.at = now].at = now
    BY DEF Idle
  <2> QED BY <1>1, <2>1, IdleTick
<1>5. PassInv'
  <2>1. tick'.gate = None
    BY <1>1 DEF Idle
  <2> QED BY <1>1, <1>4, <2>1 DEF PassInv
<1>6. ASSUME NEW r \in Nat, Waiting(log, r), ~Escalated(GateOf(r)), Retries(log, r) = {},
             RetryAhead(r)
      PROVE  RetryAhead(r)'
  <2>1. Late(r)' = Late(r) /\ Late(r) \in Nat /\ r + Limit["gate"] < Late(r)
    BY <1>1, <1>2 DEF Late
  <2>2. now' <= Late(r)'
    BY <1>1, <1>6, <2>1 DEF RetryAhead
  <2>3. CASE Eligible(log, now) = {}
    <3>1. ~(now - r > Limit["gate"])
      <4> SUFFICES ASSUME now - r > Limit["gate"] PROVE FALSE
        OBVIOUS
      <4> DEFINE e == [row |-> GateOf(r), rung |-> "retry"]
      <4>1. Choice(log, GateOf(r), now) = "retry"
        BY <1>2, <1>6, WaitingChoice DEF Escalated
      <4>2. GateOf(r) \in Due(log, now)
        BY <1>2, <1>6, WaitingDue
      <4>3. e \in [row : Due(log, now), rung : {"act", "retry"}]
            /\ e.row = GateOf(r) /\ e.rung = "retry"
        BY <4>2
      <4> HIDE DEF e
      <4>4. e \in Eligible(log, now)
        BY <4>1, <4>3 DEF Eligible
      <4> QED BY <2>3, <4>4
    <3>2. r <= now
      BY <1>2, <1>6
    <3>3. now <= r + Limit["gate"]
      BY <1>2, <3>1, <3>2
    <3>4. now < Late(r)
      BY <1>2, <2>1, <3>3
    <3>5. now' < Late(r)'
      BY <1>1, <2>1, <3>4
    <3> QED BY <1>4, <2>2, <2>3, <3>5 DEF RetryAhead
  <2>4. CASE Eligible(log, now) # {}
    BY <1>4, <2>2, <2>4 DEF RetryAhead
  <2> QED BY <2>3, <2>4
<1>7. deaths' >= deaths
  BY <1>1, <1>2
<1> QED BY <1>1, <1>3, <1>5, <1>6, <1>7, SettleKept

\* A dispatch is of the review that waits: its retry, or its first when there is time.
LEMMA SettleDispatch ==
    ASSUME LaneInv, LaneInv', OnceInv, OnceInv', SettleInv, Dispatch
    PROVE  SettleInv'
<1>1. /\ tick.pc = "read" /\ now' = now /\ ticked' = ticked /\ deaths' = deaths
      /\ \E e \in Eligible(tick.seen, tick.at) :
            /\ log' \in {l \in Inserted(log, Dispatched(e)) : KeepsRead(l, Dispatched(e))}
            /\ tick' = [tick EXCEPT !.pc = e.row.rule, !.row = e.row]
  BY DEF Dispatch
<1>2. PICK e \in Eligible(tick.seen, tick.at) :
        /\ log' \in Inserted(log, Dispatched(e))
        /\ tick' = [tick EXCEPT !.pc = e.row.rule, !.row = e.row]
  BY <1>1
<1> DEFINE s == tick.seen
           d == Dispatched(e)
           row == e.row
           L == Limit["gate"]
<1>3. /\ log \in Seq(EventSet) /\ Ordered(log) /\ now \in Nat /\ deaths \in Nat
      /\ tick \in TickSet /\ L \in Nat /\ Span \in Nat /\ Span > 0
      /\ \A x \in Range(log) : x.at \in Nat
      /\ \A r : Waiting(log, r) => r \in Nat /\ r <= now
  BY SettleFacts
<1>4. s \in Seq(EventSet) /\ log' \in Seq(EventSet) /\ Ordered(s)
      /\ Range(s) \subseteq Range(log)
  BY <1>3 DEF LaneInv, TypeOK, TickSet, TickInv, Copy
<1>5. /\ tick.at = now /\ ticked /\ Moves(s, log)
      /\ \A r \in Nat : Waiting(log, r) => Waiting(s, r) \/ r = now
  BY <1>1 DEF SettleInv, PassInv, OnceInv
<1>6. row \in Due(s, now) /\ e.rung \in {"act", "retry"} /\ Choice(s, row, now) = e.rung
  BY <1>5 DEF Eligible
<1>7. /\ d.type = "dispatched" /\ d.at = now /\ Matches(d, row)
      /\ d.retry = (e.rung = "retry")
  BY DEF Dispatched, Event, Matches
<1>8. row \in RowSet
  <2> HIDE DEF row, s
  <2> QED BY <1>4, <1>6, DueSince
<1>9. tick'.pc = row.rule /\ tick'.gate = tick.gate
  BY <1>2, <1>3 DEF TickSet
<1> DEFINE T == EventSet \union {d}
<1>10. log \in Seq(T) /\ d \in T
  BY <1>3
<1> HIDE DEF T, d, row, s, L
<1>11. PICK g, n : /\ Embeds(g, log, log') /\ n \in DOMAIN log' /\ log'[n] = d
                   /\ \A k \in DOMAIN log' : k = n \/ \E i \in DOMAIN log : k = g[i]
  BY <1>2, <1>10, InsertedEmbeds DEF d
<1>12. \A i \in DOMAIN log : g[i] \in DOMAIN log' /\ log'[g[i]] = log[i]
  BY <1>11 DEF Embeds
<1>13. PassInv'
  <2>1. tick'.pc \in {"gate", "enqueue"}
    BY <1>8, <1>9 DEF RowSet
  <2>2. ticked'
    BY <1>1, <1>5
  <2>3. tick'.gate = None
    BY <1>1, <1>9 DEF SettleInv, PassInv
  <2> QED BY <2>1, <2>2, <2>3 DEF PassInv
<1>14. ASSUME NEW r \in Nat, Waiting(log', r), ~Escalated(GateOf(r))' PROVE InTime(r)'
  <2>1. CASE r = now
    <3>1. Fresh'
      BY <1>13, FreshInTime, PTL
    <3> QED BY <1>1, <2>1, <3>1 DEF Fresh
  <2>2. CASE r # now
    <3>1. Waiting(log, r)
      <4>1. log' \in Inserted(log, d)
        BY <1>2 DEF d
      <4> QED BY <1>3, <1>4, <1>7, <1>10, <1>14, <4>1, WaitingBefore
    <3>2. Waiting(s, r)
      BY <1>5, <2>2, <3>1
    <3>3. row = GateOf(r)
      BY <1>4, <1>6, <3>2, WaitingDue
    <3>4. ~Escalated(GateOf(r))
      <4>1. Range(log) \subseteq Range(log')
        BY <1>12 DEF Range
      <4>2. Escalated(GateOf(r))' <=>
              \E x \in Range(log') : x.type = "lane-stale" /\ Matches(x, GateOf(r))
        BY <1>4, LenProperties DEF Escalated, Index, Range
      <4> QED BY <1>3, <1>14, <4>1, <4>2, EscalatedIs
    <3>5. InTime(r)
      BY <3>1, <3>4 DEF SettleInv
    <3>6. \A i \in Retries(log, r) : g[i] \in Retries(log', r) /\ log'[g[i]] = log[i]
      BY <1>12 DEF Retries, Sent, Index
    <3>7. \A k \in Retries(log', r) :
            \/ k = n /\ e.rung = "retry"
            \/ \E i \in Retries(log, r) : log'[k] = log[i]
      <4> SUFFICES ASSUME NEW k \in Retries(log', r)
                   PROVE  \/ k = n /\ e.rung = "retry"
                          \/ \E i \in Retries(log, r) : log'[k] = log[i]
        OBVIOUS
      <4>1. k \in DOMAIN log' /\ log'[k].retry
        BY DEF Retries, Sent, Index
      <4>2. CASE k = n
        BY <1>7, <1>11, <4>1, <4>2
      <4>3. CASE k # n
        <5>1. PICK i \in DOMAIN log : k = g[i]
          BY <1>11, <4>1, <4>3
        <5>2. i \in Retries(log, r)
          BY <1>12, <5>1 DEF Retries, Sent, Index
        <5> QED BY <1>12, <5>1, <5>2
      <4> QED BY <4>2, <4>3
    <3>8. Late(r)' = Late(r) /\ Late(r) \in Nat
      BY <1>1, <1>3 DEF Late, L
    <3>9. CASE Retries(log, r) # {}
      <4>1. RetryTimely(r)
        BY <3>5, <3>9 DEF InTime
      <4>2. PICK i \in Retries(log, r) : log[i].at <= Late(r)
        BY <4>1 DEF RetryTimely
      <4>3. g[i] \in Retries(log', r) /\ log'[g[i]].at <= Late(r)'
        BY <3>6, <3>8, <4>2
      <4>4. ASSUME NEW k \in Retries(log', r) PROVE now' <= log'[k].at + Limit["gate"] + 1
        <5>1. CASE k = n
          <6>1. log'[k].at = now
            BY <1>7, <1>11, <5>1
          <6>2. now <= now + Limit["gate"] + 1
            BY <1>3 DEF L
          <6> QED BY <1>1, <6>1, <6>2
        <5>2. CASE k # n
          BY <1>1, <3>7, <4>1, <5>2 DEF RetryTimely
        <5> QED BY <5>1, <5>2
      <4>5. RetryTimely(r)'
        BY <4>3, <4>4 DEF RetryTimely
      <4> QED BY <4>3, <4>5 DEF InTime
    <3>10. CASE Retries(log, r) = {}
      <4>1. RetryAhead(r)
        BY <3>5, <3>10 DEF InTime
      <4>2. CASE e.rung = "retry"
        <5>1. n \in Retries(log', r)
          BY <1>7, <1>11, <3>3, <4>2 DEF Retries, Sent, Index
        <5>2. log'[n].at = now /\ now <= Late(r)'
          BY <1>7, <1>11, <3>8, <4>1 DEF RetryAhead
        <5>3. \A k \in Retries(log', r) : k = n
          BY <3>7, <3>10
        <5>4. now' <= log'[n].at + Limit["gate"] + 1
          <6>1. now <= now + Limit["gate"] + 1
            BY <1>3 DEF L
          <6> QED BY <1>1, <5>2, <6>1
        <5>5. RetryTimely(r)'
          BY <5>1, <5>2, <5>3, <5>4 DEF RetryTimely
        <5> QED BY <5>1, <5>5 DEF InTime
      <4>3. CASE e.rung = "act"
        <5>1. Retries(log', r) = {}
          BY <3>7, <3>10, <4>3
        <5>2. Retries(s, r) = {}
          BY <1>3, <1>4, <1>5, <3>10, RetriesKept
        <5>3. ~ \E i \in Index(s, {"lane-stale"}) : Matches(s[i], GateOf(r))
          <6> SUFFICES ASSUME NEW i \in Index(s, {"lane-stale"}), Matches(s[i], GateOf(r))
                       PROVE  FALSE
            OBVIOUS
          <6>1. s[i] \in Range(log) /\ s[i].type = "lane-stale"
            BY <1>4 DEF Index, Range
          <6> QED BY <1>3, <3>4, <6>1, EscalatedIs
        <5>4. r <= now
          BY <1>3, <3>1
        <5>5. now - r <= Limit["gate"]
          BY <1>3, <1>4, <1>6, <3>2, <3>3, <4>3, <5>2, <5>3, <5>4, WaitingChoice
        <5>6. now <= r + Limit["gate"]
          BY <1>3, <5>4, <5>5 DEF L
        <5>7. now <= Late(r)' /\ tick'.pc = "gate"
          BY <1>9, <3>3, <3>8, <4>1 DEF RetryAhead, GateOf
        <5>8. RetryAhead(r)'
          BY <1>1, <5>6, <5>7 DEF RetryAhead
        <5> QED BY <5>1, <5>8 DEF InTime
      <4> QED BY <1>6, <4>2, <4>3
    <3> QED BY <3>9, <3>10
  <2> QED BY <2>1, <2>2
<1> QED BY <1>13, <1>14 DEF SettleInv

LEMMA SettleTick ==
    ASSUME LaneInv, LaneInv', RebaseInv, OnceInv', SettleInv,
           RunGate \/ Enqueue \/ TickDie \/ ManualGate
    PROVE  SettleInv'
<1>1. log \in Seq(EventSet) /\ log' \in Seq(EventSet) /\ tick \in TickSet
  BY DEF LaneInv, TypeOK
<1>2. CASE RunGate
  <2> DEFINE g == Process("tick")
  <2>1. /\ tick.pc = "gate" /\ gates' = gates \union {g} /\ log' = log /\ now' = now
        /\ tick' = [tick EXCEPT !.pc = "wait", !.gate = g]
        /\ ticked' = ticked /\ deaths' = deaths
    BY <1>2 DEF RunGate
  <2>2. g.at = now
    BY ProcessIs DEF Writer
  <2> HIDE DEF g
  <2>3. tick'.pc = "wait" /\ tick'.gate = g
    BY <1>1, <2>1 DEF TickSet
  <2>4. PassInv'
    BY <2>1, <2>2, <2>3 DEF PassInv
  <2>5. Gains(log, log')
    BY <1>1, <2>1, GainsNothing
  <2>6. \A r \in Nat : RetryAhead(r) => RetryAhead(r)'
    BY <2>1, <2>2, <2>3 DEF RetryAhead, Late
  <2>7. deaths' >= deaths
    BY <2>1, SettleFacts
  <2> QED BY <2>1, <2>4, <2>5, <2>6, <2>7, SettleKept
<1>3. CASE Enqueue
  <2> DEFINE q == Event("queue-add", "tick", now)
             f == [Event("failed", "tick", now) EXCEPT !.rule = "enqueue"]
  <2>1. /\ tick' = Idle /\ now' = now /\ ticked' = ticked /\ tick.pc = "enqueue"
        /\ deaths' = deaths
        /\ log' \in Inserted(log, q) \/ log' = log \/ log' \in Inserted(log, f)
    BY <1>3 DEF Enqueue, Append1, Failed
  <2>2. q.type = "queue-add" /\ f.type = "failed"
    BY DEF Event
  <2> HIDE DEF q, f
  <2>3. Gains(log, log')
    BY <1>1, <2>1, <2>2, GainsByInsert, GainsNothing
  <2>4. tick' # tick
    BY <2>1, IdleTick
  <2> QED BY <2>1, <2>3, <2>4, SettleQuiet
<1>4. CASE TickDie
  <2>1. /\ tick' = Idle /\ now' = now /\ ticked' = ticked /\ deaths' = deaths + 1
        /\ log' = log /\ gates' = gates
    BY <1>4 DEF TickDie
  <2>2. Gains(log, log')
    BY <1>1, <2>1, GainsNothing
  <2>3. tick.pc = "wait" => tick.gate \in gates'
    BY <2>1 DEF SettleInv, PassInv
  <2> QED BY <2>1, <2>2, <2>3, SettleQuiet
<1>5. CASE ManualGate
  <2>1. /\ tick' = tick /\ now' = now /\ ticked' = ticked /\ deaths' = deaths
        /\ log' = log /\ gates' = gates \union {Process("exec")}
    BY <1>5 DEF ManualGate
  <2>2. Gains(log, log')
    BY <1>1, <2>1, GainsNothing
  <2>3. tick.pc = "wait" => tick.gate \in gates'
    BY <2>1 DEF SettleInv, PassInv
  <2>4. tick.pc = "read" => tick' # Idle
    BY <2>1, IdleTick
  <2> QED BY <2>1, <2>2, <2>3, <2>4, SettleQuiet
<1> QED BY <1>2, <1>3, <1>4, <1>5

\* What a gate or a dispatch records of a conflict, and the tick of a failure.
LEMMA GainsReported ==
    ASSUME log' \in Seq(EventSet), NEW g, NEW l \in Seq(EventSet), Gains(log, l),
           log' \in Reported(l, g)
    PROVE  Gains(log, log')
<1> DEFINE f == [Event("failed", "tick", now) EXCEPT !.rule = "gate"]
<1>1. log' \in Inserted(l, f) \/ log' = l
  BY DEF Reported
<1>2. f.type = "failed"
  BY DEF Event
<1> HIDE DEF f
<1>3. Gains(l, log')
  BY <1>1, <1>2, GainsByInsert, GainsNothing
<1> QED BY <1>3, GainsTwice

LEMMA GainsConflict ==
    ASSUME log \in Seq(EventSet), NEW by, by.at \in Nat, NEW file \in Writer,
           NEW l \in ConflictRework(by, file)
    PROVE  l \in Seq(EventSet) /\ Gains(log, l)
<1> DEFINE e == Event("conflict", file, by.at)
<1>1. e \in EventSet /\ e.type = "conflict"
  BY ConflictIs
<1>2. l = log \/ l \in Inserted(log, e)
  BY DEF ConflictRework
<1> HIDE DEF e
<1>3. l \in Seq(EventSet)
  BY <1>1, <1>2, InsertedPoints
<1> QED BY <1>1, <1>2, <1>3, GainsByInsert, GainsNothing

LEMMA SettleGate ==
    ASSUME LaneInv, LaneInv', OnceInv', SettleInv, NEW g \in gates,
           \/ GateClean(g) \/ GateTooling(g) \/ GateRework(g) \/ GateNothing(g)
           \/ GateConflict(g) \/ GateRefreshed(g)
    PROVE  SettleInv'
<1>1. /\ now' = now /\ ticked' = ticked /\ deaths' = deaths /\ gates' = gates \ {g}
      /\ tick' = IF tick.gate = g THEN Idle ELSE tick
  BY DEF GateClean, GateTooling, GateRework, GateNothing, GateConflict, GateRefreshed, Ended
<1>2. log \in Seq(EventSet) /\ log' \in Seq(EventSet) /\ g \in GateSet
  BY DEF LaneInv, TypeOK
<1>3. g.at \in Nat /\ g.file \in Writer /\ "exec" \in Writer
  BY <1>2 DEF GateSet, Writer
<1>4. Gains(log, log') => SettleInv'
  <2>1. tick.gate = g => tick.pc = "wait" /\ tick' = Idle
    BY <1>1, <1>2, NoGate DEF SettleInv, PassInv
  <2>2. tick' = tick /\ tick.pc = "wait" => tick.gate \in gates'
    <3> SUFFICES ASSUME tick' = tick, tick.pc = "wait" PROVE tick.gate \in gates'
      OBVIOUS
    <3>1. tick.gate # g
      BY <2>1, IdleTick
    <3> QED BY <1>1, <3>1 DEF SettleInv, PassInv
  <2>3. tick.pc = "read" => tick' # Idle
    BY <1>1, <2>1, IdleTick
  <2> QED BY <1>1, <2>2, <2>3, SettleQuiet
<1>5. CASE GateClean(g)
  <2>1. log' \in Inserted(log, Verdict(g, "clean")) /\ Verdict(g, "clean").type = "clean"
    BY <1>5 DEF GateClean, Append1, Verdict, Event
  <2>2. Gains(log, log')
    BY <1>2, <2>1, GainsByInsert
  <2> QED BY <1>4, <2>2
<1>6. CASE GateTooling(g)
  <2>1. PICK e \in EventSet : e.type = "tooling" /\ log' \in Inserted(log, e)
    BY <1>2, <1>6, ToolingOutcome
  <2>2. Gains(log, log')
    BY <1>2, <2>1, GainsByInsert
  <2> QED BY <1>4, <2>2
<1>7. CASE GateRework(g)
  <2> DEFINE e == Verdict(g, "rework")
  <2>1. PICK l \in Inserted(log, e) : log' \in Reported(l, g)
    BY <1>7 DEF GateRework
  <2>2. e.type = "rework" /\ e \in EventSet
    BY <1>2, VerdictIs
  <2> HIDE DEF e
  <2>3. l \in Seq(EventSet)
    BY <1>2, <2>1, <2>2, InsertedPoints
  <2>4. Gains(log, l)
    BY <1>2, <2>1, <2>2, <2>3, GainsByInsert
  <2> QED BY <1>2, <1>4, <2>1, <2>3, <2>4, GainsReported
<1>8. CASE GateNothing(g)
  <2>1. log' \in Reported(log, g) /\ Gains(log, log)
    BY <1>2, <1>8, GainsNothing DEF GateNothing
  <2> QED BY <1>2, <1>4, <2>1, GainsReported
<1>9. CASE GateConflict(g)
  <2>1. PICK file \in {g.file, "exec"} :
          \E l \in ConflictRework(g, file) : log' \in Reported(l, g)
    BY <1>9 DEF GateConflict
  <2>2. PICK l \in ConflictRework(g, file) : log' \in Reported(l, g)
    BY <2>1
  <2>3. l \in Seq(EventSet) /\ Gains(log, l)
    BY <1>2, <1>3, GainsConflict
  <2> QED BY <1>2, <1>4, <2>2, <2>3, GainsReported
<1>10. CASE GateRefreshed(g)
  <2>1. log' \in ConflictRework(g, "exec")
    BY <1>10 DEF GateRefreshed, ConflictRework
  <2>2. Gains(log, log')
    BY <1>2, <1>3, <2>1, GainsConflict
  <2> QED BY <1>4, <2>2
<1> QED BY <1>5, <1>6, <1>7, <1>8, <1>9, <1>10

\* A rebase takes no gate away that the tick waits for.
LEMMA SettleRebase ==
    ASSUME LaneInv, LaneInv', RebaseInv, OnceInv', SettleInv,
           \/ Preflight \/ \E g \in gates : Conflict(g)
           \/ \E a \in adoption : Adopt(a) \/ Regate(a) \/ DispatchFails(a)
           \/ \E w \in regates : DispatchEnds(w)
    PROVE  SettleInv'
<1>1. /\ now' = now /\ ticked' = ticked /\ tick' = tick /\ deaths' = deaths
      /\ gates \subseteq gates'
  BY DEF Preflight, Conflict, Reserve, Adopt, Regate, DispatchFails, DispatchEnds
<1>2. \/ log' = log
      \/ \E a \in adoption \union regates : log' \in ConflictRework(a.by, "exec")
  BY DEF Preflight, Conflict, Reserve, Adopt, Regate, DispatchFails, DispatchEnds
<1>3. log \in Seq(EventSet) /\ "exec" \in Writer
  BY DEF LaneInv, TypeOK, Writer
<1>4. Gains(log, log')
  <2>1. CASE log' = log
    BY <1>3, <2>1, GainsNothing
  <2>2. ASSUME NEW a \in adoption \union regates, log' \in ConflictRework(a.by, "exec")
        PROVE  Gains(log, log')
    <3>1. a.by.at \in Nat
      BY OwnerPast
    <3> QED BY <1>3, <2>2, <3>1, GainsConflict
  <2> QED BY <1>2, <2>1, <2>2
<1>5. tick.pc = "wait" => tick.gate \in gates'
  BY <1>1 DEF SettleInv, PassInv
<1>6. tick.pc = "read" => tick' # Idle
  BY <1>1, IdleTick
<1> QED BY <1>1, <1>4, <1>5, <1>6, SettleQuiet

LEMMA SettleOthers ==
    ASSUME LaneInv, LaneInv', OnceInv', SettleInv, Look \/ Reject \/ Build \/ Review \/ Unblock
    PROVE  SettleInv'
<1>1. /\ now' = now /\ ticked' = ticked /\ tick' = tick /\ deaths' = deaths
      /\ gates' = gates
  BY DEF Look, Reject, Build, Review, Unblock
<1>2. \E e : /\ e.type # "dispatched" /\ (e.type = "review" => e.at = now)
             /\ log' \in Inserted(log, e)
  <2>1. CASE Look
    <3>1. PICK row \in Due(log, now) :
            log' \in Inserted(log, [Event("lane-stale", "look", now) EXCEPT
                                      !.rule = row.rule, !.since = row.since])
      BY <2>1 DEF Look, Append1
    <3>2. [Event("lane-stale", "look", now) EXCEPT
             !.rule = row.rule, !.since = row.since].type = "lane-stale"
      BY DEF Event
    <3> QED BY <3>1, <3>2
  <2>2. CASE Reject
    <3>1. Event("verdict", "judge", now).type = "verdict"
      BY DEF Event
    <3> QED BY <2>2, <3>1 DEF Reject, Append1
  <2>3. CASE Build
    <3>1. Event("built", "builder", now).type = "built"
      BY DEF Event
    <3> QED BY <2>3, <3>1 DEF Build, Append1
  <2>4. CASE Review
    <3> DEFINE e == [Event("review", "judge", now) EXCEPT !.version = head]
    <3>1. e.type = "review" /\ e.at = now
      BY DEF Event
    <3>2. log' \in Inserted(log, e)
      BY <2>4 DEF Review, Append1
    <3> HIDE DEF e
    <3> QED BY <3>1, <3>2
  <2>5. CASE Unblock
    <3>1. Event("unblocked", "thinker", now).type = "unblocked"
      BY DEF Event
    <3> QED BY <2>5, <3>1 DEF Unblock, Append1
  <2> QED BY <2>1, <2>2, <2>3, <2>4, <2>5
<1>3. log \in Seq(EventSet) /\ log' \in Seq(EventSet)
  BY DEF LaneInv, TypeOK
<1>4. Gains(log, log')
  BY <1>2, <1>3, GainsByInsert
<1>5. tick.pc = "wait" => tick.gate \in gates'
  BY <1>1 DEF SettleInv, PassInv
<1>6. tick.pc = "read" => tick' # Idle
  BY <1>1, IdleTick
<1> QED BY <1>1, <1>4, <1>5, <1>6, SettleQuiet

\* A period ends when look has seen the row and every gate is within its span.
LEMMA SettleClock ==
    ASSUME LaneInv, OnceInv, SettleInv, Clock
    PROVE  SettleInv'
<1>1. /\ tick.pc \in {"idle", "wait"} /\ (ticked \/ tick.pc = "wait")
      /\ ~ \E row \in Due(log, now) : LookDue(row)
      /\ \A g \in gates : now < g.at + Span
      /\ now' = now + 1 /\ ticked' = FALSE
      /\ log' = log /\ tick' = tick /\ gates' = gates /\ deaths' = deaths
  BY DEF Clock
<1>2. /\ log \in Seq(EventSet) /\ Ordered(log) /\ now \in Nat /\ deaths \in Nat
      /\ Limit["gate"] \in Nat /\ Span \in Nat /\ Span > 0
      /\ \A e \in Range(log) : e.at \in Nat /\ e.at <= now
      /\ \A r : Waiting(log, r) => r \in Nat /\ r <= now
  BY SettleFacts
<1>3. PassInv'
  BY <1>1 DEF SettleInv, PassInv
<1>4. ASSUME NEW r \in Nat, Waiting(log, r), ~Escalated(GateOf(r)) PROVE InTime(r)'
  <2>1. InTime(r) /\ r <= now
    BY <1>2, <1>4 DEF SettleInv
  <2>2. Retries(log', r) = Retries(log, r) /\ Late(r)' = Late(r) /\ Late(r) \in Nat
        /\ Late(r) = r + Limit["gate"] + Span + deaths
    BY <1>1, <1>2 DEF Late
  <2>3. CASE Retries(log, r) # {}
    <3>1. RetryTimely(r)
      BY <2>1, <2>3 DEF InTime
    <3>2. GateOf(r) \in Due(log, now) /\ GateOf(r).rule = "gate" /\ GateOf(r).since = r
      BY <1>2, <1>4, WaitingDue DEF GateOf
    <3>3. ASSUME NEW i \in Retries(log, r) PROVE now + 1 <= log[i].at + Limit["gate"] + 1
      <4>1. /\ i \in Index(log, {"dispatched"}) /\ log[i] \in Range(log)
            /\ log[i].retry /\ Matches(log[i], GateOf(r)) /\ i \in DOMAIN log
        BY DEF Retries, Sent, Index, Range
      <4>2. r <= log[i].at
        BY <3>2, <4>1 DEF OnceInv, DispatchesOnce, Matches
      <4>3. log[i].at \in Nat /\ log[i].at <= now
        BY <1>2, <4>1
      <4>4. CASE Overdue(GateOf(r), now)
        <5>1. Ladder(log, DOMAIN log, GateOf(r), now) # "inbox"
          BY <1>1, <3>2, <4>4 DEF LookDue
        <5>2. ~(now - log[i].at > Limit["gate"])
          BY <1>4, <3>2, <4>1, <5>1 DEF Ladder, Escalated
        <5> QED BY <1>2, <4>3, <5>2
      <4>5. CASE ~Overdue(GateOf(r), now)
        <5>1. ~(now - r > Limit["gate"])
          BY <3>2, <4>5 DEF Overdue
        <5> QED BY <1>2, <2>1, <4>2, <4>3, <5>1
      <4> QED BY <4>4, <4>5
    <3>4. RetryTimely(r)'
      BY <1>1, <2>2, <3>1, <3>3 DEF RetryTimely
    <3> QED BY <2>2, <2>3, <3>4 DEF InTime
  <2>4. CASE Retries(log, r) = {}
    <3>1. RetryAhead(r)
      BY <2>1, <2>4 DEF InTime
    <3>2. now + 1 <= Late(r)
      <4>1. CASE tick.pc = "idle"
        <5>1. now < Late(r)
          BY <1>1, <3>1, <4>1 DEF RetryAhead
        <5> QED BY <1>2, <2>2, <5>1
      <4>2. CASE tick.pc = "wait"
        <5>1. tick.gate \in gates
          BY <4>2 DEF SettleInv, PassInv
        <5>2. now < tick.gate.at + Span /\ tick.gate.at \in Nat
          BY <1>1, <5>1, GateFacts
        <5>3. tick.gate.at <= r + Limit["gate"]
          BY <3>1, <4>2 DEF RetryAhead
        <5>4. now + 1 <= tick.gate.at + Span
          BY <1>2, <5>2
        <5>5. now + 1 \in Nat /\ tick.gate.at + Span \in Nat
          BY <1>2, <5>2
        <5>6. tick.gate.at + Span <= Late(r)
          <6>1. tick.gate.at + Span <= (r + Limit["gate"]) + Span
            BY <1>2, <5>2, <5>3
          <6>2. (r + Limit["gate"]) + Span \in Nat
            BY <1>2
          <6>3. (r + Limit["gate"]) + Span <= Late(r)
            BY <1>2, <2>2, <6>2
          <6> QED BY <2>2, <5>5, <6>1, <6>2, <6>3
        <5> QED BY <2>2, <5>4, <5>5, <5>6
      <4> QED BY <1>1, <4>1, <4>2
    <3>3. RetryAhead(r)'
      BY <1>1, <2>2, <3>1, <3>2 DEF RetryAhead
    <3> QED BY <2>2, <2>4, <3>3 DEF InTime
  <2> QED BY <2>3, <2>4
<1>5. ASSUME NEW r \in Nat, Waiting(log', r), ~Escalated(GateOf(r))' PROVE InTime(r)'
  <2>1. Waiting(log, r) /\ ~Escalated(GateOf(r))
    BY <1>1, <1>5 DEF Escalated
  <2> QED BY <1>4, <2>1
<1> QED BY <1>3, <1>5 DEF SettleInv

LEMMA SettleNext ==
    LaneInv /\ LaneInv' /\ RebaseInv /\ OnceInv /\ OnceInv' /\ SettleInv /\ [Next]_vars
        => SettleInv'
<1> SUFFICES ASSUME LaneInv, LaneInv', RebaseInv, OnceInv, OnceInv', SettleInv, [Next]_vars
             PROVE  SettleInv'
  OBVIOUS
<1>1. CASE TickBegin \/ Dispatch \/ Clock
  BY <1>1, SettleTickBegin, SettleDispatch, SettleClock
<1>2. CASE RunGate \/ Enqueue \/ TickDie \/ ManualGate
  BY <1>2, SettleTick
<1>3. CASE \E g \in gates : \/ GateClean(g) \/ GateTooling(g) \/ GateRework(g) \/ GateNothing(g)
                            \/ GateConflict(g) \/ GateRefreshed(g)
  BY <1>3, SettleGate
<1>4. CASE \/ Preflight \/ \E g \in gates : Conflict(g)
           \/ \E a \in adoption : Adopt(a) \/ Regate(a) \/ DispatchFails(a)
           \/ \E w \in regates : DispatchEnds(w)
  BY <1>4, SettleRebase
<1>5. CASE Look \/ Reject \/ Build \/ Review \/ Unblock
  BY <1>5, SettleOthers
<1>6. CASE Done \/ UNCHANGED vars
  <2>1. /\ log' = log /\ now' = now /\ ticked' = ticked /\ tick' = tick
        /\ deaths' = deaths /\ gates' = gates
    BY <1>6 DEF Done, vars
  <2>2. Gains(log, log')
    BY <2>1, SettleFacts, GainsNothing
  <2>3. tick.pc = "wait" => tick.gate \in gates'
    BY <2>1 DEF SettleInv, PassInv
  <2>4. tick.pc = "read" => tick' # Idle
    BY <2>1, IdleTick
  <2> QED BY <2>1, <2>2, <2>3, <2>4, SettleQuiet
<1> QED BY <1>1, <1>2, <1>3, <1>4, <1>5, <1>6 DEF Next

LEMMA SettleInvariant == Spec => []SettleInv
BY LaneInvariant, OnceInvariant, SettleInit, SettleNext, PTL DEF Spec

\* No clean review is left: by its horizon it has an outcome, was superseded, or
\* look has escalated its row (look._check_lane_stale over enqueue_due's retry).
THEOREM EveryReviewSettlesHolds == Spec => []EveryReviewSettles
<1>1. LaneInv /\ SettleInv => EveryReviewSettles
  <2> SUFFICES ASSUME LaneInv, SettleInv, NEW row \in GateRow(log, now), Tooling(log) = None,
                      now > Horizon(row), ~Escalated(row)
               PROVE  FALSE
    BY DEF EveryReviewSettles
  <2>1. /\ log \in Seq(EventSet) /\ now \in Nat /\ deaths \in Nat
        /\ Limit["gate"] \in Nat /\ Span \in Nat /\ Span > 0
        /\ \A e \in Range(log) : e.at \in Nat
        /\ \A r : Waiting(log, r) => r \in Nat /\ r <= now
    BY SettleFacts
  <2> DEFINE r == CleanReview(log).at
  <2>2. row = GateOf(r) /\ Waiting(log, r)
    BY DEF GateRow, Row, GateOf, Waiting
  <2> HIDE DEF r
  <2>3. r \in Nat /\ InTime(r)
    BY <2>1, <2>2 DEF SettleInv
  <2>4. now > r + 2 * Limit["gate"] + Span + 1 + deaths
    BY <2>2 DEF Horizon, GateOf
  <2>5. CASE Retries(log, r) # {}
    <3>1. RetryTimely(r)
      BY <2>3, <2>5 DEF InTime
    <3>2. PICK i \in Retries(log, r) : log[i].at <= Late(r)
      BY <3>1 DEF RetryTimely
    <3>3. log[i].at \in Nat /\ now <= log[i].at + Limit["gate"] + 1
      <4>1. log[i] \in Range(log)
        BY DEF Retries, Sent, Index, Range
      <4> QED BY <2>1, <3>1, <4>1 DEF RetryTimely
    <3>4. ASSUME NEW a \in Nat, NEW b \in Nat, NEW c \in Nat, NEW d \in Nat,
                 NEW n \in Nat, a <= r + b + c + d, n <= a + b + 1
          PROVE  ~(n > r + 2 * b + c + 1 + d)
      BY <2>3, <3>4
    <3>5. log[i].at <= r + Limit["gate"] + Span + deaths
      BY <3>2 DEF Late
    <3> QED BY <2>1, <2>4, <3>3, <3>4, <3>5
  <2>6. CASE Retries(log, r) = {}
    <3>1. now <= r + Limit["gate"] + Span + deaths
      BY <2>3, <2>6 DEF InTime, RetryAhead, Late
    <3>2. ASSUME NEW b \in Nat, NEW c \in Nat, NEW d \in Nat, NEW n \in Nat,
                 n <= r + b + c + d
          PROVE  ~(n > r + 2 * b + c + 1 + d)
      BY <2>3, <3>2
    <3> QED BY <2>1, <2>4, <3>1, <3>2
  <2> QED BY <2>5, <2>6
<1> QED BY <1>1, LaneInvariant, SettleInvariant, PTL
====
