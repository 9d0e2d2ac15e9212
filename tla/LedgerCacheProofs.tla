-------------------------- MODULE LedgerCacheProofs --------------------------
(***************************************************************************)
(* The read cache, for any processes, files and bounds: what it publishes  *)
(* is what the files held, what a read returns is a moment since the read  *)
(* began, a read that nothing disturbs succeeds, and its lock keeps its    *)
(* promises although processes die.                                        *)
(*                                                                         *)
(* TypeInv and CacheInv need each other and go together (CacheTypeInv);    *)
(* MomentInv and QuietInv are inductive on top of them.                    *)
(***************************************************************************)
EXTENDS LedgerCache, SequenceFacts, FiniteSetTheorems, TLAPS

-----------------------------------------------------------------------------
(* The lock by itself: mutual exclusion and no overtaking, for any processes *)

\* Who holds what can be read off the program counters.
SharedIsMine == \A p \in Procs : p \in shared <=> lpc[p] = "in" /\ mode[p] = "SH"
ExclIsMine == \A p \in Procs : excl = p <=> lpc[p] = "in" /\ mode[p] = "EX"
GateIsMine == \A p \in Procs : gate = p <=> lpc[p] = "pass" \/ Waiting(p)
OnlyReadersPass == \A p \in Procs : lpc[p] = "pass" => mode[p] = "SH"

LockInv ==
    /\ LockTypeOK
    /\ SharedIsMine
    /\ ExclIsMine
    /\ GateIsMine
    /\ OnlyReadersPass
    /\ Exclusive

\* A step of one process: the form in which the proofs below use LockNext.
LEMMA Steps ==
    ASSUME LockNext
    PROVE  \E p \in Procs :
              \/ Request(p, "SH") \/ Request(p, "EX") \/ TakeGate(p) \/ PassGate(p)
              \/ TakeMain(p) \/ Release(p) \/ TimeOut(p)
BY DEF LockNext, Modes

\* The invariant holds at the start: nobody holds anything.
LEMMA InvInit == LockInit => LockInv
BY LockAssumption DEF LockInit, LockInv, LockTypeOK, LockPC, Modes, SharedIsMine,
    ExclIsMine, GateIsMine, OnlyReadersPass, Exclusive, Waiting

\* Every step of _locked keeps it.
LEMMA InvStep == LockInv /\ [LockNext]_lockVars => LockInv'
<1> SUFFICES ASSUME LockInv, [LockNext]_lockVars PROVE LockInv'
    OBVIOUS
<1> USE LockAssumption DEF LockInv, LockTypeOK, LockPC, Modes, SharedIsMine, ExclIsMine,
        GateIsMine, OnlyReadersPass, Exclusive, Waiting, Goto, LeaveGate
<1>1. ASSUME NEW p \in Procs, NEW m \in Modes, Request(p, m) PROVE LockInv'
    BY <1>1 DEF Request
<1>2. ASSUME NEW p \in Procs, TakeGate(p) PROVE LockInv'
    <2>1. gate = Nobody /\ gate' = p /\ lpc[p] = "gate"
        BY <1>2 DEF TakeGate, GateIsFree
    <2>2. LockTypeOK'
        BY <1>2, <2>1 DEF TakeGate
    <2>3. SharedIsMine' /\ ExclIsMine' /\ Exclusive' /\ OnlyReadersPass'
        BY <1>2 DEF TakeGate
    <2>4. GateIsMine'
        BY <1>2, <2>1 DEF TakeGate
    <2> QED BY <2>2, <2>3, <2>4
<1>3. ASSUME NEW p \in Procs, PassGate(p) PROVE LockInv'
    BY <1>3 DEF PassGate
<1>4. ASSUME NEW p \in Procs, TakeMain(p) PROVE LockInv'
    <2>1. LockTypeOK' /\ OnlyReadersPass'
        BY <1>4 DEF TakeMain
    <2>2. CASE mode[p] = "SH"
        <3>1. shared' = shared \cup {p} /\ excl' = excl /\ excl = Nobody
            BY <1>4, <2>2 DEF TakeMain, CompatibleMode
        <3>2. gate # p /\ gate' = gate
            BY <1>4, <2>2 DEF TakeMain
        <3> QED BY <1>4, <2>1, <2>2, <3>1, <3>2 DEF TakeMain
    <2>3. CASE mode[p] = "EX"
        <3>1. shared' = {} /\ shared = {} /\ excl' = p /\ excl = Nobody
            BY <1>4, <2>3 DEF TakeMain, CompatibleMode
        <3>2. gate = p /\ gate' = Nobody
            BY <1>4, <2>3 DEF TakeMain
        <3> QED BY <1>4, <2>1, <2>3, <3>1, <3>2 DEF TakeMain
    <2> QED BY <2>2, <2>3
<1>5. ASSUME NEW p \in Procs, Release(p) PROVE LockInv'
    BY <1>5 DEF Release
<1>6. ASSUME NEW p \in Procs, TimeOut(p) PROVE LockInv'
    BY <1>6 DEF TimeOut, WaitEnds
<1>7. CASE UNCHANGED lockVars
    BY <1>7 DEF lockVars
<1> QED
    BY <1>1, <1>2, <1>3, <1>4, <1>5, <1>6, <1>7 DEF LockNext

LEMMA Invariance == LockSpec => []LockInv
BY InvInit, InvStep, PTL DEF LockSpec

\* Types of the lock's state.
THEOREM LockTypeCorrect == LockSpec => []LockTypeOK
BY Invariance, PTL DEF LockInv

\* Whoever unlinks or rebuilds the cache is alone with it.
THEOREM ExclusiveHolds == LockSpec => []Exclusive
BY Invariance, PTL DEF LockInv

\* The gate is the waiting refresher's, so no reader comes to be ahead of it.
LEMMA NoOvertakingStep ==
    LockInv /\ [LockNext]_lockVars =>
        [\A q \in Procs : Waiting(q) /\ Waiting(q)' => Ahead' \subseteq Ahead]_lockVars
<1> SUFFICES ASSUME LockInv, LockNext, NEW q \in Procs, Waiting(q), Waiting(q)',
                    NEW r \in Ahead'
             PROVE  r \in Ahead
    BY DEF Ahead
<1> USE DEF LockInv, LockTypeOK, LockPC, Modes, Waiting, Ahead, Goto
<1>1. gate = q
    BY DEF GateIsMine
<1>2. PICK p \in Procs :
              \/ Request(p, "SH") \/ Request(p, "EX") \/ TakeGate(p) \/ PassGate(p)
              \/ TakeMain(p) \/ Release(p) \/ TimeOut(p)
    BY Steps
<1>3. r # p => lpc'[r] = lpc[r] /\ mode'[r] = mode[r]
    BY <1>2 DEF Request, TakeGate, PassGate, TakeMain, Release, TimeOut
<1>4. CASE r = p
    <2>1. ~TakeGate(p)
        BY <1>1, LockAssumption DEF TakeGate, GateIsFree
    <2>2. ~Request(p, "SH") /\ ~Request(p, "EX") /\ ~Release(p) /\ ~TimeOut(p)
        BY <1>4 DEF Request, Release, TimeOut
    <2> QED BY <1>2, <1>4, <2>1, <2>2 DEF PassGate, TakeMain
<1> QED BY <1>3, <1>4

THEOREM NoOvertakingHolds == LockSpec => NoOvertaking
BY Invariance, NoOvertakingStep, PTL DEF LockSpec, NoOvertaking

-----------------------------------------------------------------------------
(* What Parse computes *)

\* The first n values of Parse's function.
ParsedUpto(s, n, g) ==
    g = [i \in 0..n |-> IF i = 0 THEN <<>>
                        ELSE IF s[i] = End THEN g[i - 1] ELSE Append(g[i - 1], s[i])]

ParsedAt(s, g, i) ==
    g[i] = IF i = 0 THEN <<>> ELSE IF s[i] = End THEN g[i - 1] ELSE Append(g[i - 1], s[i])

LEMMA ParsedPoints ==
    ASSUME NEW s, NEW n \in Nat, NEW g, ParsedUpto(s, n, g)
    PROVE  \A i \in 0..n : ParsedAt(s, g, i)
BY Zenon DEF ParsedUpto, ParsedAt

LEMMA ParseFunction ==
    ASSUME NEW s
    PROVE  LET f == CHOOSE f : ParsedUpto(s, Len(s), f)
           IN  Parse(s) = f[Len(s)]
BY DEF Parse, ParsedUpto

LEMMA ParsedStep ==
    ASSUME NEW s, NEW n \in Nat, NEW g, ParsedUpto(s, n, g)
    PROVE  \E h : ParsedUpto(s, n + 1, h)
<1> DEFINE h == [i \in 0..(n + 1) |->
                   IF i # n + 1 THEN g[i]
                   ELSE IF s[i] = End THEN g[i - 1] ELSE Append(g[i - 1], s[i])]
<1>1. \A i \in 0..n : ParsedAt(s, g, i)
    BY ParsedPoints
<1>2. ASSUME NEW i \in 0..(n + 1)
      PROVE  h[i] = IF i = 0 THEN <<>>
                    ELSE IF s[i] = End THEN h[i - 1] ELSE Append(h[i - 1], s[i])
    <2>1. i # 0 => h[i - 1] = g[i - 1]
        OBVIOUS
    <2>2. CASE i = n + 1
        <3>1. i # 0 /\ h[i] = IF s[i] = End THEN g[i - 1] ELSE Append(g[i - 1], s[i])
            BY <2>2
        <3> QED BY <2>1, <3>1
    <2>3. CASE i # n + 1
        <3>1. i \in 0..n /\ h[i] = g[i]
            BY <2>3
        <3> QED BY <1>1, <2>1, <3>1 DEF ParsedAt
    <2> QED BY <2>2, <2>3
<1>3. ParsedUpto(s, n + 1, h)
    BY <1>2 DEF ParsedUpto
<1> QED BY <1>3

LEMMA ParsedExists ==
    ASSUME NEW s, NEW n \in Nat
    PROVE  \E f : ParsedUpto(s, n, f)
<1> DEFINE S == {m \in Nat : \E g : ParsedUpto(s, m, g)}
<1>1. 0 \in S
    <2>1. ParsedUpto(s, 0, [i \in 0..0 |-> <<>>])
        BY DEF ParsedUpto
    <2> QED BY <2>1
<1>2. ASSUME NEW m \in Nat, m \in S PROVE m + 1 \in S
    BY <1>2, ParsedStep
<1> HIDE DEF S
<1>3. n \in S
    BY <1>1, <1>2, Induction
<1> QED BY <1>3 DEF S

\* Parse reads its tokens one after the other.
LEMMA ParseEquation ==
    ASSUME NEW T, NEW s \in Seq(T)
    PROVE  \E f : Parse(s) = f[Len(s)] /\ \A i \in 0..Len(s) : ParsedAt(s, f, i)
<1>1. Len(s) \in Nat
    BY LenProperties
<1>2. \E f : ParsedUpto(s, Len(s), f)
    BY ParsedExists, <1>1
<1>3. ParsedUpto(s, Len(s), CHOOSE f : ParsedUpto(s, Len(s), f))
    BY <1>2, Zenon
<1> QED BY ParseFunction, ParsedPoints, <1>1, <1>3, Zenon

LEMMA ParsedTypes ==
    ASSUME NEW T, NEW s \in Seq(T), NEW f, \A i \in 0..Len(s) : ParsedAt(s, f, i)
    PROVE  \A i \in 0..Len(s) : f[i] \in Seq({t \in T : t # End})
<1> DEFINE U == {t \in T : t # End}
           S == {m \in Nat : m \in 0..Len(s) => f[m] \in Seq(U)}
<1>1. Len(s) \in Nat /\ \A i \in 1..Len(s) : s[i] \in T
    BY LenProperties
<1>2. 0 \in S
    <2>1. 0 \in 0..Len(s)
        BY <1>1
    <2>2. f[0] = <<>>
        BY <2>1 DEF ParsedAt
    <2> HIDE DEF U
    <2>3. f[0] \in Seq(U)
        BY <2>2, EmptySeq
    <2> QED BY <2>3
<1>3. ASSUME NEW m \in Nat, m \in S PROVE m + 1 \in S
    <2> SUFFICES ASSUME m + 1 \in 0..Len(s) PROVE f[m + 1] \in Seq(U)
        OBVIOUS
    <2>1. m \in 0..Len(s) /\ m + 1 \in 1..Len(s) /\ m + 1 # 0 /\ (m + 1) - 1 = m
        BY <1>1
    <2>2. f[m + 1] = IF s[m + 1] = End THEN f[m] ELSE Append(f[m], s[m + 1])
        BY <2>1 DEF ParsedAt
    <2>3. f[m] \in Seq(U) /\ s[m + 1] \in T
        BY <1>1, <1>3, <2>1
    <2>4. CASE s[m + 1] = End
        BY <2>2, <2>3, <2>4
    <2>5. CASE s[m + 1] # End
        <3>1. s[m + 1] \in U
            BY <2>3, <2>5
        <3> HIDE DEF U
        <3> QED BY <2>2, <2>3, <2>5, <3>1
    <2> QED BY <2>4, <2>5
<1> HIDE DEF S
<1>4. Nat \subseteq S
    BY <1>2, <1>3, Induction
<1> QED BY <1>1, <1>4 DEF S

LEMMA ParseType ==
    ASSUME NEW T, NEW s \in Seq(T)
    PROVE  Parse(s) \in Seq({t \in T : t # End})
<1>1. PICK f : Parse(s) = f[Len(s)] /\ \A i \in 0..Len(s) : ParsedAt(s, f, i)
    BY ParseEquation
<1>2. Len(s) \in Nat /\ Len(s) \in 0..Len(s)
    BY LenProperties
<1> QED BY <1>1, <1>2, ParsedTypes

\* Appending to the second part.
AppendedLater(a, b, e) == Append(a \o b, e) = a \o Append(b, e)

LEMMA AppendLater ==
    ASSUME NEW T, NEW a \in Seq(T), NEW b \in Seq(T), NEW e \in T
    PROVE  AppendedLater(a, b, e)
<1>1. <<e>> \in Seq(T)
    OBVIOUS
<1>2. (a \o b) \o <<e>> = a \o (b \o <<e>>)
    BY <1>1, ConcatAssociative
<1>3. a \o b \in Seq(T)
    BY ConcatProperties
<1>4. Append(a \o b, e) = (a \o b) \o <<e>> /\ Append(b, e) = b \o <<e>>
    BY <1>3, AppendIsConcat
<1> QED BY <1>2, <1>4 DEF AppendedLater

\* What is parsed in two parts is what is parsed at once.
LEMMA ParseConcat ==
    ASSUME NEW T, NEW s \in Seq(T), NEW t \in Seq(T)
    PROVE  Parse(s \o t) = Parse(s) \o Parse(t)
<1> DEFINE u == s \o t
<1>1. /\ u \in Seq(T) /\ Len(u) = Len(s) + Len(t) /\ Len(s) \in Nat /\ Len(t) \in Nat
      /\ \A i \in 1..Len(s) : u[i] = s[i]
      /\ \A i \in 1..Len(t) : u[Len(s) + i] = t[i] /\ t[i] \in T
    BY ConcatProperties, LenProperties
<1> HIDE DEF u
<1>2. PICK f : Parse(s) = f[Len(s)] /\ \A i \in 0..Len(s) : ParsedAt(s, f, i)
    BY ParseEquation
<1>3. PICK g : Parse(t) = g[Len(t)] /\ \A i \in 0..Len(t) : ParsedAt(t, g, i)
    BY ParseEquation
<1>4. PICK h : Parse(u) = h[Len(u)] /\ \A i \in 0..Len(u) : ParsedAt(u, h, i)
    BY ParseEquation, <1>1
<1>5. h[Len(s)] = f[Len(s)]
    <2> DEFINE S == {m \in Nat : m \in 0..Len(s) => h[m] = f[m]}
    <2>1. 0 \in S
        BY <1>1, <1>2, <1>4 DEF ParsedAt
    <2>2. ASSUME NEW m \in Nat, m \in S, m + 1 \in 0..Len(s) PROVE h[m + 1] = f[m + 1]
        <3>1. /\ m + 1 # 0 /\ (m + 1) - 1 = m /\ m + 1 \in 0..Len(u) /\ h[m] = f[m]
              /\ u[m + 1] = s[m + 1]
            BY <1>1, <2>2
        <3>2. ParsedAt(u, h, m + 1) /\ ParsedAt(s, f, m + 1)
            BY <1>2, <1>4, <2>2, <3>1
        <3> QED BY <3>1, <3>2 DEF ParsedAt
    <2>3. \A m \in Nat : m \in S => m + 1 \in S
        BY <2>2
    <2> HIDE DEF S
    <2>4. Nat \subseteq S
        BY <2>1, <2>3, Induction
    <2> QED BY <1>1, <2>4 DEF S
<1>6. Parse(s) \in Seq(T) /\ \A i \in 0..Len(t) : g[i] \in Seq(T)
    <2>1. Seq({x \in T : x # End}) \subseteq Seq(T)
        OBVIOUS
    <2> QED BY <1>3, <2>1, ParseType, ParsedTypes, Zenon
<1>7. h[Len(s) + Len(t)] = Parse(s) \o g[Len(t)]
    <2> DEFINE S == {m \in Nat : m \in 0..Len(t) => h[Len(s) + m] = Parse(s) \o g[m]}
    <2>1. 0 \in S
        <3>1. g[0] = <<>> /\ Len(s) + 0 = Len(s)
            BY <1>1, <1>3 DEF ParsedAt
        <3> QED BY <1>2, <1>5, <1>6, <3>1, PrefixSelf
    <2>2. ASSUME NEW m \in Nat, m \in S, m + 1 \in 0..Len(t)
          PROVE  h[Len(s) + (m + 1)] = Parse(s) \o g[m + 1]
        <3>1. /\ m + 1 # 0 /\ (m + 1) - 1 = m /\ h[Len(s) + m] = Parse(s) \o g[m]
              /\ m \in 0..Len(t) /\ Len(s) + (m + 1) \in 0..Len(u) /\ Len(s) + (m + 1) # 0
              /\ (Len(s) + (m + 1)) - 1 = Len(s) + m
              /\ u[Len(s) + (m + 1)] = t[m + 1] /\ t[m + 1] \in T
            <4>1. m + 1 # 0 /\ (m + 1) - 1 = m /\ m \in 0..Len(t) /\ m + 1 \in 1..Len(t)
                BY <1>1, <2>2
            <4>2. /\ Len(s) + (m + 1) \in 0..Len(u) /\ Len(s) + (m + 1) # 0
                  /\ (Len(s) + (m + 1)) - 1 = Len(s) + m
                BY <1>1, <4>1
            <4>3. h[Len(s) + m] = Parse(s) \o g[m]
                BY <2>2, <4>1
            <4> QED BY <1>1, <4>1, <4>2, <4>3
        <3>2. ParsedAt(u, h, Len(s) + (m + 1)) /\ ParsedAt(t, g, m + 1)
            BY <1>3, <1>4, <2>2, <3>1
        <3>3. CASE t[m + 1] = End
            BY <3>1, <3>2, <3>3 DEF ParsedAt
        <3>4. CASE t[m + 1] # End
            <4>1. /\ h[Len(s) + (m + 1)] = Append(Parse(s) \o g[m], t[m + 1])
                  /\ g[m + 1] = Append(g[m], t[m + 1])
                BY <3>1, <3>2, <3>4 DEF ParsedAt
            <4>2. g[m] \in Seq(T)
                BY <1>6, <3>1
            <4>3. Parse(s) \in Seq(T) /\ t[m + 1] \in T
                BY <1>6, <3>1
            <4>4. AppendedLater(Parse(s), g[m], t[m + 1])
                BY <4>2, <4>3, AppendLater
            <4> QED BY <4>1, <4>4, Zenon DEF AppendedLater
        <3> QED BY <3>3, <3>4
    <2>3. ASSUME NEW m \in Nat, m \in S PROVE m + 1 \in S
        <3>1. m + 1 \in 0..Len(t) => h[Len(s) + (m + 1)] = Parse(s) \o g[m + 1]
            BY <2>2, <2>3
        <3> QED BY <3>1
    <2> HIDE DEF S
    <2>4. Nat \subseteq S
        BY <2>1, <2>3, Induction
    <2> QED BY <1>1, <2>4 DEF S
<1> QED BY <1>1, <1>3, <1>4, <1>7 DEF u

-----------------------------------------------------------------------------
(* The invariants *)

\* The locals of a read without the bounds: see TypesFollow for those.
KeySet == [ver : Nat, size : Nat]
RowSet == [key : KeySet, raw : Seq(Nat), events : Seq(Nat), tail : Seq(Nat), bad : BOOLEAN]
AnswerSet == [key : KeySet, events : Seq(Nat)]
Maybe(S) == [Files -> S \cup {Idle}]
ReadSet == [pc : ReadPC, try : 0..2, scan : Maybe(KeySet) \cup {Idle}, todo : SUBSET Files,
            rows : Maybe(RowSet) \cup {Idle}, stamp : Nat, bad : Nat, verified : Nat,
            answer : [Files -> AnswerSet] \cup {Idle}, begun : [Files -> Nat] \cup {Idle},
            quiet : BOOLEAN]

\* The steps that use a scan, those that use rows, and those of a refresh.
Scanning == {"scan", "recheck", "refresh", "file", "verify"}
Filling == {"refresh", "file", "verify", "commit"}
Session == {"recheck", "refresh", "file", "verify", "commit", "decide"}

\* What the locals of a read are at the steps that use them.
Locals(p) ==
    /\ rd[p].pc \in Scanning => rd[p].scan \in Maybe(KeySet)
    /\ rd[p].pc \in Filling => rd[p].rows \in Maybe(RowSet)
    /\ rd[p].pc \in {"file", "verify"} =>
          \E f \in Files : rd[p].todo = {f} /\ rd[p].scan[f] \in KeySet
    /\ rd[p].pc # "idle" => rd[p].begun \in [Files -> Nat]
    /\ rd[p].pc = "done" => rd[p].answer \in [Files -> AnswerSet]

\* Where a read is with the lock.
LockPhase(p) ==
    /\ rd[p].pc \in Outside => lpc[p] = "out"
    /\ rd[p].pc \in {"scan", "load"} => lpc[p] = "in" /\ mode[p] = "SH"
    /\ rd[p].pc = "lock" => lpc[p] = "out" \/ mode[p] = "SH"
    /\ rd[p].pc = "relock" => \/ lpc[p] = "in" /\ mode[p] = "SH"
                              \/ rd[p].try < 2 /\ (lpc[p] = "out" \/ mode[p] = "EX")
    /\ rd[p].pc \in Session => lpc[p] = "in" /\ mode[p] = "EX" /\ rd[p].try < 2

Typed == rd \in [Procs -> ReadSet]

\* Files and cache.
World ==
    /\ past \in [Files -> Seq(Seq(Nat))] /\ writes \in Nat
    /\ \A f \in Files : past[f] # <<>>
    /\ db \in [stamp : Nat, ok : BOOLEAN, rows : Maybe(RowSet)]
    /\ stamps \in Nat /\ db.stamp <= stamps /\ (db.stamp = 0 => db = NoDb)
    /\ damage \in 0..MaxDamage /\ crashes \in 0..MaxCrashes

\* No read knows of a cache that has not been.
Known(p) == rd[p].stamp <= stamps /\ rd[p].bad <= stamps /\ rd[p].verified <= stamps

\* The rows a read is about to load are all there, as long as nobody changed them.
Loaded(p) ==
    rd[p].pc = "load" => /\ rd[p].stamp # 0
                         /\ db.stamp = rd[p].stamp => \A f \in Files : db.rows[f] # Idle

ReadInv(p) == Locals(p) /\ LockPhase(p) /\ Known(p) /\ Loaded(p)

TypeInv == LockInv /\ World /\ Typed /\ \A p \in Procs : ReadInv(p)

\* The tokens Complete leaves out.
Rest(text) == SubSeq(text, Len(Complete(text)) + 1, Len(text))

\* A key, or a row, is that of some content the file had.
KeyGood(key, f) == key.ver \in 1..Version(f) /\ key.size = Len(past[f][key.ver])

RowGood(row, f) ==
    row # Idle => /\ KeyGood(row.key, f)
                  /\ row.raw = past[f][row.key.ver]
                  /\ row.events = Parse(Complete(row.raw)) /\ row.tail = Parse(Rest(row.raw))

\* Writers only make files longer (a repair too, see WriteFile).
Grows == \A f \in Files : \A v \in 1..Version(f) : Len(past[f][v]) <= Len(Text(f))

\* What a refresh is putting together, except the file it has yet to verify.
RowsGood(p) ==
    /\ rd[p].pc \in {"refresh", "file", "commit"} => \A f \in Files : RowGood(rd[p].rows[f], f)
    /\ rd[p].pc \in {"file", "verify"} => \A f \in rd[p].todo : KeyGood(rd[p].scan[f], f)
    /\ rd[p].pc = "verify" =>
        \A f \in Files : (f \in rd[p].todo => KeyStands(p, f)) => RowGood(rd[p].rows[f], f)

CacheInv ==
    /\ Grows
    /\ \A f \in Files : RowGood(db.rows[f], f)
    /\ \A p \in Procs : RowsGood(p)

\* What a read has seen, is about to load, or answers is not older than the read.
Since(p, f, key) == key.ver \in rd[p].begun[f]..Version(f)

BegunEarlier(p) == rd[p].pc # "idle" => \A f \in Files : rd[p].begun[f] <= Version(f)

ScanMoment(p) ==
    rd[p].pc = "scan" => \A f \in Files \ rd[p].todo :
        rd[p].scan[f] \in KeySet /\ Since(p, f, rd[p].scan[f])

LoadMoment(p) ==
    rd[p].pc = "load" /\ db.stamp = rd[p].stamp =>
        \A f \in Files : Since(p, f, db.rows[f].key)

\* A cache file that the process has checked is not damaged.
Checked(p) ==
    rd[p].verified = db.stamp => \A f \in Files : db.rows[f] # Idle => ~db.rows[f].bad

\* The snapshot a caller keeps is of the contents its keys say.
AnswerGood(p) ==
    rd[p].pc = "done" \/ rd[p].answer # Idle => \A f \in Files :
        /\ rd[p].answer[f].key.ver \in 1..Version(f)
        /\ rd[p].answer[f].events = Parse(past[f][rd[p].answer[f].key.ver])

DoneMoment(p) == rd[p].pc = "done" => \A f \in Files : Since(p, f, rd[p].answer[f].key)

MomentOf(p) ==
    /\ BegunEarlier(p) /\ ScanMoment(p) /\ LoadMoment(p)
    /\ Checked(p) /\ AnswerGood(p) /\ DoneMoment(p)

MomentInv == \A p \in Procs : MomentOf(p)

\* The cache says what the files hold; it says something and is not damaged.
Current == db.ok /\ db.stamp # 0 /\ \A f \in Files : db.rows[f] # Idle /\ db.rows[f].key = Key(f)
Sound == db.ok /\ \A f \in Files : db.rows[f] # Idle /\ ~db.rows[f].bad

\* Nothing a read has looked at has changed since.
Seen(p) == IF rd[p].pc \in {"file", "verify"} THEN Files ELSE Files \ rd[p].todo
Steady(p) == rd[p].pc \in Scanning => \A f \in Seen(p) : rd[p].scan[f] = Key(f)
RowsCurrent(p) == \A f \in Files : rd[p].rows[f] # Idle /\ rd[p].rows[f].key = Key(f)
RowsSound(p) == \A f \in Files : rd[p].rows[f] # Idle => ~rd[p].rows[f].bad

\* A read that has refreshed the cache finds one that is current, or none.
Settled(p) ==
    /\ rd[p].try = 1 => db = NoDb \/ Current
    /\ rd[p].try = 1 /\ rd[p].pc \in {"relock", "recheck"} =>
          db = NoDb \/ Sound \/ rd[p].bad = db.stamp
    /\ rd[p].try = 2 => Current /\ Sound /\ rd[p].pc # "relock"

Undisturbed(p) ==
    /\ Steady(p)
    /\ rd[p].pc \in Filling => db.ok
    /\ rd[p].pc = "commit" => RowsCurrent(p)
    /\ rd[p].pc = "decide" => Current /\ (rd[p].try = 1 => Sound)
    /\ Settled(p)

\* A read under way that nothing has disturbed; one that has refreshed as well.
Quiet(p) == rd[p].quiet /\ rd[p].pc \notin Outside
Calm(p) == Quiet(p) /\ rd[p].try # 0
SomeCalm == \E p \in Procs : Calm(p)

\* While a read that has refreshed is undisturbed, another refresh builds the
\* whole cache and damages nothing.
CalmSession(q) ==
    /\ Steady(q)
    /\ rd[q].pc \in Filling => db = NoDb /\ RowsSound(q)
    /\ rd[q].pc = "commit" => RowsCurrent(q)

\* A cache found damaged is damaged, unless it was replaced.
DamageSeen(p) ==
    /\ rd[p].bad # 0 /\ rd[p].bad = db.stamp => ~Sound
    /\ rd[p].pc = "load" => rd[p].stamp = db.stamp \/ ~Sound

QuietOf(p) ==
    /\ Quiet(p) => Undisturbed(p)
    /\ rd[p].quiet => rd[p].pc # "failed"
    /\ DamageSeen(p)

QuietInv ==
    /\ \A p \in Procs : QuietOf(p)
    /\ SomeCalm => \A q \in Procs : rd[q].pc \in Session => CalmSession(q)

-----------------------------------------------------------------------------
(* Rows *)

\* A text is what Complete keeps and what it leaves out.
LEMMA CompleteParts ==
    ASSUME NEW T, NEW s \in Seq(T)
    PROVE  /\ Complete(s) \in Seq(T) /\ IsPrefix(Complete(s), s)
           /\ Len(s) - 1 <= Len(Complete(s)) /\ Len(Complete(s)) <= Len(s)
<1>0. Len(s) \in Nat
    BY LenProperties
<1>1. CASE s # <<>> /\ Last(s) # End
    <2>1. Len(s) # 0
        BY <1>1, EmptySeq
    <2>2. PICK n \in Nat : n = Len(s) - 1 /\ n <= Len(s)
        <3>1. \A k \in Nat : k # 0 => \E n \in Nat : n = k - 1 /\ n <= k
            <4> TAKE k \in Nat
            <4>1. k # 0 => k - 1 \in Nat /\ k - 1 <= k
                OBVIOUS
            <4> QED BY <4>1
        <3> QED BY <1>0, <2>1, <3>1, Zenon
    <2>3. Complete(s) = SubSeq(s, 1, n)
        BY <1>1, <2>2 DEF Complete, Front
    <2>4. /\ SubSeq(s, 1, n) \in Seq(T) /\ Len(SubSeq(s, 1, n)) = n
          /\ \A i \in 1..n : SubSeq(s, 1, n)[i] = s[i]
        <3>1. n \in Int /\ 1 \in Int /\ \A i \in 1..n : s[i] \in T
            BY <1>0, <2>2
        <3>2. /\ SubSeq(s, 1, n) \in Seq(T)
              /\ Len(SubSeq(s, 1, n)) = IF 1 <= n THEN n - 1 + 1 ELSE 0
              /\ \A i \in 1..(n - 1 + 1) : SubSeq(s, 1, n)[i] = s[1 + i - 1]
            BY <3>1, SubSeqProperties
        <3> QED BY <1>0, <2>2, <3>2
    <2>5. IsPrefix(SubSeq(s, 1, n), s)
        <3> DEFINE u == SubSeq(s, 1, n)
        <3>1. u \in Seq(T) /\ Len(u) <= Len(s) /\ \A i \in 1..Len(u) : u[i] = s[i]
            BY <2>2, <2>4
        <3> HIDE DEF u
        <3>2. IsPrefix(u, s)
            BY <3>1, PrefixPoints
        <3> QED BY <3>2 DEF u
    <2> QED BY <1>0, <2>2, <2>3, <2>4, <2>5
<1>2. CASE ~(s # <<>> /\ Last(s) # End)
    <2>1. Complete(s) = s
        BY <1>2, Zenon DEF Complete
    <2> QED BY <1>0, <2>1, PrefixSelf
<1> QED BY <1>1, <1>2

LEMMA RestParts ==
    ASSUME NEW T, NEW s \in Seq(T)
    PROVE  /\ Rest(s) \in Seq(T) /\ Complete(s) \o Rest(s) = s
           /\ Parse(s) = Parse(Complete(s)) \o Parse(Rest(s))
<1>1. /\ Complete(s) \in Seq(T) /\ IsPrefix(Complete(s), s)
      /\ Len(Complete(s)) \in Nat /\ Len(s) \in Nat
    BY CompleteParts, LenProperties
<1>2. SubSeq(s, Len(Complete(s)) + 1, Len(s)) \in Seq(T)
    BY <1>1
<1>3. Complete(s) \o SubSeq(s, Len(Complete(s)) + 1, Len(s)) = s
    BY <1>1, PrefixRest
<1>4. Parse(Complete(s) \o Rest(s)) = Parse(Complete(s)) \o Parse(Rest(s))
    BY <1>1, <1>2, ParseConcat DEF Rest
<1>5. Complete(s) \o Rest(s) = s
    BY <1>3 DEF Rest
<1> QED BY <1>2, <1>4, <1>5 DEF Rest

\* What was complete stays complete when a file grows behind it.
LEMMA CompleteGrows ==
    ASSUME NEW T, NEW s \in Seq(T), NEW t \in Seq(T), IsPrefix(s, t), Len(s) < Len(t)
    PROVE  IsPrefix(Complete(s), Complete(t))
<1>1. /\ Complete(s) \in Seq(T) /\ Complete(t) \in Seq(T)
      /\ Len(s) \in Nat /\ Len(t) \in Nat /\ Len(Complete(s)) \in Nat /\ Len(Complete(t)) \in Nat
    BY CompleteParts, LenProperties
<1>2. /\ Len(Complete(s)) <= Len(s) /\ \A i \in 1..Len(Complete(s)) : Complete(s)[i] = s[i]
      /\ \A i \in 1..Len(Complete(t)) : Complete(t)[i] = t[i]
      /\ Len(t) - 1 <= Len(Complete(t))
      /\ \A i \in 1..Len(s) : s[i] = t[i]
    BY <1>1, CompleteParts, PrefixPoints
<1>3. Len(Complete(s)) <= Len(Complete(t))
    BY <1>1, <1>2
<1>4. \A i \in 1..Len(Complete(s)) : i \in 1..Len(s) /\ i \in 1..Len(Complete(t))
    BY <1>1, <1>2, <1>3
<1>5. \A i \in 1..Len(Complete(s)) : Complete(s)[i] = Complete(t)[i]
    BY <1>2, <1>4
<1> QED BY <1>1, <1>3, <1>5, PrefixPoints

LEMMA ParseNat ==
    ASSUME NEW s \in Seq(Nat)
    PROVE  Parse(s) \in Seq(Nat) /\ Complete(s) \in Seq(Nat) /\ Rest(s) \in Seq(Nat)
<1>1. Seq({t \in Nat : t # End}) \subseteq Seq(Nat)
    OBVIOUS
<1> QED BY <1>1, ParseType, CompleteParts, RestParts, Zenon

\* A row is the row of its text; a row is made from an old one and a text.
RowFits(row) ==
    /\ row.key.size = Len(row.raw)
    /\ row.events = Parse(Complete(row.raw)) /\ row.tail = Parse(Rest(row.raw))

OldFits(old) == old # Idle => old \in RowSet /\ RowFits(old)

MadeFrom(row, old, key, text) ==
    /\ row \in RowSet /\ row.key = key /\ row.raw = text
    /\ row.events = Parse(Complete(text)) /\ row.tail = Parse(Rest(text))
    /\ row.bad => old # Idle /\ old.bad

\* A row made from the old one and a text is the row of that text, appended to
\* or built anew; only an old row that is damaged makes it a damaged one.
LEMMA FileRowFits ==
    ASSUME NEW old, NEW key \in KeySet, NEW text \in Seq(Nat), OldFits(old)
    PROVE  MadeFrom(FileRow(old, key, text), old, key, text)
<1>0. /\ Parse(Complete(text)) \in Seq(Nat) /\ Parse(Rest(text)) \in Seq(Nat)
    BY ParseNat
<1>1. CASE Appended(old, text)
    <2> DEFINE done == Complete(text)
               before == Complete(old.raw)
    <2>1. old # Idle /\ old \in RowSet /\ RowFits(old) /\ old.raw \in Seq(Nat)
          /\ Len(text) > Len(old.raw) /\ IsPrefix(old.raw, text)
        BY <1>1 DEF Appended, OldFits, RowFits, RowSet
    <2>2. IsPrefix(before, done) /\ before \in Seq(Nat) /\ done \in Seq(Nat)
        BY <2>1, CompleteGrows, ParseNat, LenProperties
    <2>3. before \o SubSeq(done, Len(before) + 1, Len(done)) = done
        BY <2>2, PrefixRest
    <2>4. SubSeq(done, Len(before) + 1, Len(done)) \in Seq(Nat)
        BY <2>2, LenProperties
    <2>5. Parse(before \o SubSeq(done, Len(before) + 1, Len(done))) =
          Parse(before) \o Parse(SubSeq(done, Len(before) + 1, Len(done)))
        BY <2>2, <2>4, ParseConcat
    <2>6. FileRow(old, key, text) =
            [key |-> key, raw |-> text, tail |-> Parse(Rest(text)), bad |-> old.bad,
             events |-> old.events \o Parse(SubSeq(done, Len(before) + 1, Len(done)))]
        BY <1>1 DEF FileRow, Rest
    <2>7. old.events = Parse(before) /\ old.bad \in BOOLEAN
        BY <2>1 DEF RowFits, RowSet
    <2>8. FileRow(old, key, text) =
            [key |-> key, raw |-> text, tail |-> Parse(Rest(text)), bad |-> old.bad,
             events |-> Parse(done)]
        BY <2>3, <2>5, <2>6, <2>7, Zenon
    <2> QED BY <1>0, <2>1, <2>7, <2>8 DEF RowSet, MadeFrom
<1>2. CASE ~Appended(old, text)
    <2>1. FileRow(old, key, text) =
            [key |-> key, raw |-> text, tail |-> Parse(Rest(text)), bad |-> FALSE,
             events |-> Parse(Complete(text))]
        BY <1>2 DEF FileRow, Rest
    <2> QED BY <1>0, <2>1 DEF RowSet, MadeFrom
<1> QED BY <1>1, <1>2

-----------------------------------------------------------------------------
(* What a step does to a read *)

\* The other reads are as they were.
Kept(p) == \A q \in Procs : q # p => rd'[q] = rd[q]

\* What only the begin and the end of a read change.
Carried(p) ==
    /\ rd'[p].verified = rd[p].verified /\ rd'[p].answer = rd[p].answer
    /\ rd'[p].begun = rd[p].begun /\ rd'[p].quiet = rd[p].quiet

LEMMA ScanFromEffect ==
    ASSUME Typed, NEW p \in Procs, NEW to \in ReadPC, ScanFrom(p, to)
    PROVE  /\ Typed' /\ Kept(p) /\ Carried(p)
           /\ rd'[p].pc = to /\ rd'[p].todo = Files /\ rd'[p].scan = [f \in Files |-> Idle]
           /\ rd'[p].try = rd[p].try /\ rd'[p].rows = rd[p].rows
           /\ rd'[p].stamp = rd[p].stamp /\ rd'[p].bad = rd[p].bad
<1>1. [f \in Files |-> Idle] \in Maybe(KeySet)
    BY DEF Maybe
<1> DEFINE none == [f \in Files |-> Idle]
           r == [rd[p] EXCEPT !.pc = to, !.todo = Files, !.scan = none]
<1>2. rd' = [rd EXCEPT ![p] = r] /\ Kept(p)
    BY DEF Typed, ReadSet, ScanFrom, Kept
<1> HIDE DEF none
<1>3. /\ r \in ReadSet /\ r.pc = to /\ r.todo = Files /\ r.scan = none /\ r.try = rd[p].try
      /\ r.rows = rd[p].rows /\ r.stamp = rd[p].stamp /\ r.bad = rd[p].bad
      /\ r.verified = rd[p].verified /\ r.answer = rd[p].answer
      /\ r.begun = rd[p].begun /\ r.quiet = rd[p].quiet
    BY <1>1 DEF Typed, ReadSet, none
<1> HIDE DEF r
<1>4. rd'[p] = r /\ Typed'
    BY <1>2, <1>3 DEF Typed
<1> QED BY <1>2, <1>3, <1>4 DEF Carried, none

LEMMA MoveEffect ==
    ASSUME Typed, NEW p \in Procs, NEW to \in ReadPC, Move(p, to)
    PROVE  /\ Typed' /\ Kept(p) /\ Carried(p)
           /\ rd'[p].pc = to /\ rd'[p].todo = rd[p].todo /\ rd'[p].scan = rd[p].scan
           /\ rd'[p].try = rd[p].try /\ rd'[p].rows = rd[p].rows
           /\ rd'[p].stamp = rd[p].stamp /\ rd'[p].bad = rd[p].bad
BY DEF Typed, ReadSet, Move, Kept, Carried

LEMMA FinishEffect ==
    ASSUME Typed, NEW p \in Procs, NEW pc \in ReadPC, NEW checked \in Nat,
           NEW events \in [Files -> AnswerSet] \cup {Idle}, Finish(p, pc, checked, events)
    PROVE  /\ Typed' /\ Kept(p)
           /\ rd'[p].pc = pc /\ rd'[p].try = 0 /\ rd'[p].stamp = 0 /\ rd'[p].bad = 0
           /\ rd'[p].verified = checked /\ rd'[p].answer = events
           /\ rd'[p].begun = rd[p].begun /\ rd'[p].quiet = rd[p].quiet
<1>1. rd'[p] = [pc |-> pc, try |-> 0, scan |-> Idle, todo |-> {}, rows |-> Idle, stamp |-> 0,
                bad |-> 0, verified |-> checked, answer |-> events, begun |-> rd[p].begun,
                quiet |-> rd[p].quiet]
    BY DEF Typed, Finish, NoRead
<1>2. Kept(p) /\ rd' \in [Procs -> ReadSet \cup {rd'[p]}]
    BY DEF Typed, Finish, Kept
<1>3. rd'[p] \in ReadSet
    BY <1>1 DEF Typed, ReadSet
<1>4. Typed'
    BY <1>2, <1>3 DEF Typed
<1> QED BY <1>1, <1>2, <1>4

\* What its caller keeps between reads.
Answered(p) == rd'[p].verified = rd[p].verified /\ rd'[p].answer = rd[p].answer

LEMMA BeginEffect ==
    ASSUME Typed, World, NEW p \in Procs, BeginRead(p)
    PROVE  /\ Typed' /\ Kept(p) /\ Answered(p) /\ rd[p].pc \in Outside
           /\ rd'[p].pc = "lock" /\ rd'[p].try = 0 /\ rd'[p].stamp = 0 /\ rd'[p].bad = 0
           /\ rd'[p].begun = [f \in Files |-> Version(f)]
<1>1. rd'[p] = [pc |-> "lock", try |-> 0, scan |-> Idle, todo |-> {}, rows |-> Idle, stamp |-> 0,
                bad |-> 0, verified |-> rd[p].verified, answer |-> rd[p].answer,
                begun |-> [f \in Files |-> Version(f)], quiet |-> TRUE]
    BY DEF Typed, BeginRead, NoRead
<1>2. Kept(p) /\ rd' \in [Procs -> ReadSet \cup {rd'[p]}]
    BY DEF Typed, BeginRead, Kept
<1>3. [f \in Files |-> Version(f)] \in [Files -> Nat]
    <2>1. \A f \in Files : Version(f) \in Nat
        BY LenProperties DEF World, Version
    <2> QED BY <2>1
<1>4. rd[p].verified \in Nat /\ rd[p].answer \in [Files -> AnswerSet] \cup {Idle}
    BY DEF Typed, ReadSet
<1>5. rd'[p] \in ReadSet
    BY <1>1, <1>3, <1>4 DEF ReadSet, ReadPC
<1>6. Typed'
    BY <1>2, <1>5 DEF Typed
<1>7. /\ rd'[p].pc = "lock" /\ rd'[p].try = 0 /\ rd'[p].stamp = 0 /\ rd'[p].bad = 0
      /\ rd'[p].begun = [f \in Files |-> Version(f)]
    BY <1>1
<1>8. Answered(p)
    BY <1>1 DEF Answered
<1>9. rd[p].pc \in Outside
    BY DEF BeginRead
<1> QED BY <1>2, <1>6, <1>7, <1>8, <1>9

LEMMA CrashEffect ==
    ASSUME Typed, NEW p \in Procs, Crash(p)
    PROVE  /\ Typed' /\ Kept(p) /\ rd[p].pc \notin Outside /\ rd'[p] = NoRead
<1>1. rd'[p] = NoRead /\ Kept(p) /\ rd' \in [Procs -> ReadSet \cup {NoRead}]
    BY DEF Typed, Crash, Kept
<1>2. NoRead \in ReadSet
    BY DEF NoRead, ReadSet, ReadPC
<1>3. Typed'
    BY <1>1, <1>2 DEF Typed
<1> QED BY <1>1, <1>3 DEF Crash

LEMMA DisturbEffect ==
    ASSUME Typed, Disturb
    PROVE  /\ Typed'
           /\ \A p \in Procs :
                /\ ~rd'[p].quiet /\ rd'[p].pc = rd[p].pc /\ rd'[p].try = rd[p].try
                /\ rd'[p].scan = rd[p].scan /\ rd'[p].todo = rd[p].todo
                /\ rd'[p].rows = rd[p].rows /\ rd'[p].stamp = rd[p].stamp
                /\ rd'[p].bad = rd[p].bad /\ rd'[p].verified = rd[p].verified
                /\ rd'[p].answer = rd[p].answer /\ rd'[p].begun = rd[p].begun
<1>1. \A p \in Procs : rd[p] \in ReadSet /\ rd'[p] = [rd[p] EXCEPT !.quiet = FALSE]
    BY DEF Typed, Disturb
<1>2. \A r \in ReadSet : [r EXCEPT !.quiet = FALSE] \in ReadSet
    BY DEF ReadSet
<1>3. Typed'
    BY <1>1, <1>2 DEF Typed, Disturb
<1>4. ASSUME NEW p \in Procs
      PROVE  /\ ~rd'[p].quiet /\ rd'[p].pc = rd[p].pc /\ rd'[p].try = rd[p].try
             /\ rd'[p].scan = rd[p].scan /\ rd'[p].todo = rd[p].todo
             /\ rd'[p].rows = rd[p].rows /\ rd'[p].stamp = rd[p].stamp
             /\ rd'[p].bad = rd[p].bad /\ rd'[p].verified = rd[p].verified
             /\ rd'[p].answer = rd[p].answer /\ rd'[p].begun = rd[p].begun
    <2>1. rd[p] \in ReadSet /\ rd'[p] = [rd[p] EXCEPT !.quiet = FALSE]
        BY <1>1
    <2> QED BY <2>1 DEF ReadSet
<1> QED BY <1>3, <1>4

LEMMA FileTypes ==
    ASSUME World, NEW f \in Files
    PROVE  /\ past[f] \in Seq(Seq(Nat)) /\ Version(f) \in Nat \ {0}
           /\ Text(f) \in Seq(Nat) /\ Key(f) \in KeySet
           /\ Key(f).ver = Version(f) /\ Key(f).size = Len(Text(f))
           /\ \A v \in 1..Version(f) : past[f][v] \in Seq(Nat)
<1>1. past[f] \in Seq(Seq(Nat)) /\ past[f] # <<>>
    BY DEF World
<1>2. Len(past[f]) \in Nat \ {0} /\ \A v \in 1..Len(past[f]) : past[f][v] \in Seq(Nat)
    BY <1>1, EmptySeq, LenProperties
<1>3. past[f][Len(past[f])] \in Seq(Nat)
    BY <1>2
<1>4. Len(past[f][Len(past[f])]) \in Nat
    BY <1>3, LenProperties
<1> QED BY <1>1, <1>2, <1>3, <1>4 DEF Version, Text, Key, KeySet

LEMMA InsideEffect ==
    ASSUME Typed, World, NEW p \in Procs, Inside(p)
    PROVE  /\ Typed' /\ Kept(p) /\ Carried(p)
           /\ rd[p].pc = "lock" /\ lpc[p] = "in" /\ UNCHANGED lockVars
           /\ rd'[p].try = rd[p].try /\ rd'[p].rows = rd[p].rows /\ rd'[p].stamp = rd[p].stamp
           /\ IF db.stamp = 0 \/ ~db.ok
              THEN rd'[p].pc = "relock" /\ rd'[p].bad = db.stamp
              ELSE /\ rd'[p].pc = "scan" /\ rd'[p].todo = Files /\ rd'[p].bad = rd[p].bad
                   /\ rd'[p].scan = [f \in Files |-> Idle]
<1>1. db.stamp \in Nat /\ rd[p].pc = "lock" /\ lpc[p] = "in" /\ UNCHANGED lockVars
    BY DEF World, Inside, At
<1>2. CASE db.stamp = 0 \/ ~db.ok
    <2>1. rd' = [rd EXCEPT ![p].pc = "relock", ![p].bad = db.stamp]
        BY <1>2 DEF Inside
    <2>2. rd[p] \in ReadSet /\ rd'[p] = [rd[p] EXCEPT !.pc = "relock", !.bad = db.stamp] /\ Kept(p)
        BY <2>1 DEF Typed, ReadSet, Kept
    <2>3. rd'[p] \in ReadSet
        BY <1>1, <2>2 DEF ReadSet, ReadPC
    <2>4. Typed'
        BY <2>1, <2>3 DEF Typed
    <2>5. /\ Carried(p) /\ rd'[p].pc = "relock" /\ rd'[p].bad = db.stamp
          /\ rd'[p].try = rd[p].try /\ rd'[p].rows = rd[p].rows /\ rd'[p].stamp = rd[p].stamp
        BY <2>2 DEF ReadSet, Carried
    <2> QED BY <1>1, <1>2, <2>2, <2>4, <2>5
<1>3. CASE ~(db.stamp = 0 \/ ~db.ok)
    <2>1. ScanFrom(p, "scan") /\ "scan" \in ReadPC
        BY <1>3 DEF Inside, ReadPC
    <2> QED BY <1>1, <1>3, <2>1, ScanFromEffect
<1> QED BY <1>2, <1>3

LEMMA ScanEffect ==
    ASSUME TypeInv, NEW p \in Procs, ScanOne(p)
    PROVE  /\ Typed' /\ Kept(p) /\ Carried(p) /\ UNCHANGED lockVars
           /\ rd[p].pc \in {"scan", "recheck", "refresh"}
           /\ \E f \in Files : rd'[p].todo = rd[p].todo \ {f}
                               /\ rd'[p].scan = [rd[p].scan EXCEPT ![f] = Key(f)]
           /\ rd[p].scan \in Maybe(KeySet) /\ rd'[p].scan \in Maybe(KeySet)
           /\ rd'[p].pc = rd[p].pc /\ rd'[p].try = rd[p].try /\ rd'[p].rows = rd[p].rows
           /\ rd'[p].stamp = rd[p].stamp /\ rd'[p].bad = rd[p].bad
<1>1. PICK f \in rd[p].todo : rd' = [rd EXCEPT ![p].scan[f] = Key(f), ![p].todo = @ \ {f}]
    BY DEF ScanOne
<1>2. rd[p].pc \in {"scan", "recheck", "refresh"} /\ UNCHANGED lockVars
    BY DEF ScanOne
<1>3. f \in Files /\ rd[p] \in ReadSet
    BY DEF TypeInv, Typed, ReadSet
<1>4. rd[p].scan \in Maybe(KeySet)
    BY <1>2 DEF TypeInv, ReadInv, Locals, Scanning
<1>5. Key(f) \in KeySet
    BY <1>3, FileTypes DEF TypeInv
<1>6. [rd[p].scan EXCEPT ![f] = Key(f)] \in Maybe(KeySet)
    BY <1>4, <1>5 DEF Maybe
<1>7. /\ Kept(p) /\ Carried(p)
      /\ rd'[p] = [rd[p] EXCEPT !.scan = [rd[p].scan EXCEPT ![f] = Key(f)],
                                !.todo = rd[p].todo \ {f}]
    BY <1>1, <1>3 DEF TypeInv, Typed, ReadSet, Kept, Carried
<1>8. rd'[p] \in ReadSet
    BY <1>3, <1>6, <1>7 DEF ReadSet
<1>9. Typed'
    BY <1>1, <1>8 DEF TypeInv, Typed
<1> QED BY <1>2, <1>3, <1>4, <1>6, <1>7, <1>9 DEF ReadSet

\* What only a few steps change.
Same(p) == rd'[p].try = rd[p].try /\ rd'[p].stamp = rd[p].stamp

LEMMA Replaced ==
    ASSUME Typed, NEW p \in Procs, NEW r \in ReadSet, rd' = [rd EXCEPT ![p] = r]
    PROVE  Typed' /\ Kept(p) /\ rd'[p] = r
BY DEF Typed, Kept

LEMMA CompareEffect ==
    ASSUME TypeInv, NEW p \in Procs, Compare(p)
    PROVE  /\ Typed' /\ Kept(p) /\ Carried(p) /\ rd[p].pc = "scan" /\ rd[p].todo = {}
           /\ \/ /\ Recorded(p) /\ Unchanged(p) /\ Release(p)
                 /\ rd'[p].pc = "done" /\ rd'[p].stamp = 0 /\ rd'[p].bad = 0 /\ rd'[p].try = 0
              \/ /\ rd'[p].pc = IF Recorded(p) THEN "load" ELSE "relock"
                 /\ rd'[p].stamp = db.stamp /\ rd'[p].bad = 0 /\ rd'[p].try = rd[p].try
                 /\ UNCHANGED lockVars
<1>0. rd[p] \in ReadSet /\ rd[p].pc = "scan" /\ rd[p].todo = {} /\ db.stamp \in Nat
    BY DEF TypeInv, Typed, World, Compare, Scanned, At
<1>1. CASE Recorded(p) /\ Unchanged(p)
    <2>1. Finish(p, "done", rd[p].verified, rd[p].answer) /\ Release(p)
        BY <1>1 DEF Compare
    <2>2. "done" \in ReadPC /\ rd[p].verified \in Nat /\ rd[p].answer \in [Files -> AnswerSet] \cup {Idle}
        BY <1>0 DEF ReadSet, ReadPC
    <2> QED BY <1>0, <1>1, <2>1, <2>2, FinishEffect DEF TypeInv, Carried
<1>2. CASE ~(Recorded(p) /\ Unchanged(p))
    <2> DEFINE to == IF Recorded(p) THEN "load" ELSE "relock"
               r == [rd[p] EXCEPT !.pc = to, !.stamp = db.stamp, !.bad = 0, !.scan = Idle]
    <2>1. /\ rd' = [rd EXCEPT ![p].pc = to, ![p].stamp = db.stamp, ![p].bad = 0,
                              ![p].scan = Idle]
          /\ UNCHANGED lockVars
        BY <1>2 DEF Compare
    <2>2. to \in ReadPC
        BY DEF ReadPC
    <2> HIDE DEF to
    <2>3. r \in ReadSet /\ r.pc = to /\ r.stamp = db.stamp /\ r.bad = 0
          /\ r.try = rd[p].try /\ r.verified = rd[p].verified /\ r.answer = rd[p].answer
          /\ r.begun = rd[p].begun /\ r.quiet = rd[p].quiet
        BY <1>0, <2>2 DEF ReadSet
    <2>4. rd' = [rd EXCEPT ![p] = r]
        BY <2>1 DEF TypeInv, Typed, ReadSet
    <2> HIDE DEF r
    <2>5. Typed' /\ Kept(p) /\ rd'[p] = r
        BY <2>3, <2>4, Replaced DEF TypeInv
    <2> QED BY <1>0, <2>1, <2>3, <2>5 DEF Carried, to
<1> QED BY <1>1, <1>2

\* What _read returns.
Loads(p) == [f \in Files |->
    [key |-> db.rows[f].key,
     events |-> IF db.rows[f].bad THEN <<>> ELSE db.rows[f].events \o db.rows[f].tail]]

LEMMA LoadEffect ==
    ASSUME TypeInv, NEW p \in Procs, Load(p)
    PROVE  /\ Typed' /\ Kept(p) /\ rd[p].pc = "load"
           /\ rd'[p].begun = rd[p].begun /\ rd'[p].quiet = rd[p].quiet
           /\ \/ /\ ChunksSound(p) /\ Release(p) /\ Loads(p) \in [Files -> AnswerSet]
                 /\ rd'[p].pc = "done" /\ rd'[p].verified = db.stamp /\ rd'[p].answer = Loads(p)
                 /\ rd'[p].stamp = 0 /\ rd'[p].bad = 0 /\ rd'[p].try = 0
              \/ /\ ~ChunksSound(p) /\ UNCHANGED lockVars /\ Carried(p)
                 /\ rd'[p].pc = "relock" /\ rd'[p].bad = db.stamp /\ Same(p)
<1>0. rd[p] \in ReadSet /\ rd[p].pc = "load" /\ db.stamp \in Nat
    BY DEF TypeInv, Typed, World, Load, At
<1>1. CASE ChunksSound(p)
    <2>1. Finish(p, "done", db.stamp, Loads(p)) /\ Release(p)
        BY <1>1 DEF Load, Loads
    <2>2. \A f \in Files : db.rows[f] \in RowSet
        BY <1>0, <1>1 DEF TypeInv, ReadInv, Loaded, World, Maybe, ChunksSound
    <2>3. ASSUME NEW f \in Files
          PROVE  /\ db.rows[f].key \in KeySet
                 /\ (IF db.rows[f].bad THEN <<>> ELSE db.rows[f].events \o db.rows[f].tail)
                        \in Seq(Nat)
        <3>1. /\ db.rows[f].key \in KeySet
              /\ db.rows[f].events \in Seq(Nat) /\ db.rows[f].tail \in Seq(Nat)
            BY <2>2 DEF RowSet
        <3>2. db.rows[f].events \o db.rows[f].tail \in Seq(Nat) /\ <<>> \in Seq(Nat)
            BY <3>1, ConcatProperties, EmptySeq
        <3> QED BY <3>1, <3>2
    <2>4. Loads(p) \in [Files -> AnswerSet]
        BY <2>3 DEF Loads, AnswerSet
    <2>5. "done" \in ReadPC
        BY DEF ReadPC
    <2> QED BY <1>0, <1>1, <2>1, <2>4, <2>5, FinishEffect DEF TypeInv
<1>2. CASE ~ChunksSound(p)
    <2> DEFINE r == [rd[p] EXCEPT !.pc = "relock", !.bad = db.stamp]
    <2>1. rd' = [rd EXCEPT ![p].pc = "relock", ![p].bad = db.stamp] /\ UNCHANGED lockVars
        BY <1>2 DEF Load
    <2>2. r \in ReadSet /\ r.pc = "relock" /\ r.stamp = rd[p].stamp /\ r.bad = db.stamp
          /\ r.try = rd[p].try /\ r.verified = rd[p].verified /\ r.answer = rd[p].answer
          /\ r.begun = rd[p].begun /\ r.quiet = rd[p].quiet
        BY <1>0 DEF ReadSet, ReadPC
    <2>3. rd' = [rd EXCEPT ![p] = r]
        BY <2>1 DEF TypeInv, Typed, ReadSet
    <2> HIDE DEF r
    <2>4. Typed' /\ Kept(p) /\ rd'[p] = r
        BY <2>2, <2>3, Replaced DEF TypeInv
    <2> QED BY <1>0, <1>2, <2>1, <2>2, <2>4 DEF Carried, Same
<1> QED BY <1>1, <1>2

LEMMA FailEffect ==
    ASSUME Typed, NEW p \in Procs, Fail(p)
    PROVE  /\ Typed' /\ Kept(p) /\ rd'[p].pc = "failed" /\ rd'[p].answer = Idle
           /\ rd'[p].verified = rd[p].verified /\ rd'[p].stamp = 0 /\ rd'[p].bad = 0
           /\ rd'[p].begun = rd[p].begun /\ rd'[p].quiet = rd[p].quiet /\ rd'[p].try = 0
<1>1. "failed" \in ReadPC /\ rd[p].verified \in Nat
    BY DEF Typed, ReadSet, ReadPC
<1> QED BY <1>1, FinishEffect DEF Fail

LEMMA GiveUpEffect ==
    ASSUME Typed, NEW p \in Procs, GiveUp(p)
    PROVE  /\ Typed' /\ Kept(p) /\ rd'[p].pc = "timeout" /\ rd'[p].answer = Idle
           /\ rd'[p].verified = rd[p].verified /\ rd'[p].stamp = 0 /\ rd'[p].bad = 0
           /\ rd'[p].begun = rd[p].begun /\ rd'[p].quiet = rd[p].quiet /\ rd'[p].try = 0
<1>1. "timeout" \in ReadPC /\ rd[p].verified \in Nat
    BY DEF Typed, ReadSet, ReadPC
<1> QED BY <1>1, FinishEffect DEF GiveUp

LEMMA UnlockEffect ==
    ASSUME Typed, NEW p \in Procs, Unlock(p)
    PROVE  /\ rd[p].pc = "relock" /\ lpc[p] = "in" /\ mode[p] = "SH" /\ Release(p)
           /\ IF rd[p].try = 2 THEN Fail(p) ELSE rd' = rd
BY DEF Unlock, At

LEMMA DecideEffect ==
    ASSUME TypeInv, NEW p \in Procs, Decide(p)
    PROVE  /\ Typed' /\ Kept(p) /\ Carried(p) /\ UNCHANGED lockVars /\ Same(p)
           /\ rd[p].pc = "recheck" /\ rd[p].todo = {} /\ rd'[p].bad = rd[p].bad
           /\ \/ /\ db.ok /\ Recorded(p) /\ ~StillDamaged(p) /\ db' = db
                 /\ rd'[p].pc = "decide"
              \/ /\ ~db.ok \/ ~Recorded(p) \/ StillDamaged(p)
                 /\ db' = NoDb \/ (db' = db /\ db.ok /\ ~Recorded(p))
                 /\ rd'[p].pc = "refresh" /\ rd'[p].rows = db'.rows /\ rd'[p].todo = Files
                 /\ rd'[p].scan = [f \in Files |-> Idle]
                 /\ rd'[p].scan \in Maybe(KeySet) /\ rd'[p].rows \in Maybe(RowSet)
<1>0. /\ rd[p] \in ReadSet /\ rd[p].pc = "recheck" /\ rd[p].todo = {} /\ UNCHANGED lockVars
      /\ db.rows \in Maybe(RowSet)
    BY DEF TypeInv, Typed, World, Decide, Scanned, At
<1>1. CASE db.ok /\ Recorded(p) /\ ~StillDamaged(p)
    <2>1. Move(p, "decide") /\ db' = db /\ "decide" \in ReadPC
        BY <1>1 DEF Decide, ReadPC
    <2> QED BY <1>0, <1>1, <2>1, MoveEffect DEF TypeInv, Same
<1>2. CASE ~(db.ok /\ Recorded(p) /\ ~StillDamaged(p))
    <2> DEFINE old == IF ~db.ok \/ Recorded(p) THEN NoDb ELSE db
               none == [f \in Files |-> Idle]
               r == [rd[p] EXCEPT !.pc = "refresh", !.rows = old.rows, !.todo = Files, !.scan = none]
    <2>1. /\ db' = old
          /\ rd' = [rd EXCEPT ![p].pc = "refresh", ![p].rows = old.rows,
                              ![p].todo = Files, ![p].scan = none]
        BY <1>2 DEF Decide
    <2>2. none \in Maybe(KeySet) /\ none \in Maybe(RowSet)
        BY DEF Maybe
    <2>3. /\ old = NoDb \/ (old = db /\ db.ok /\ ~Recorded(p))
          /\ old.rows \in Maybe(RowSet)
        BY <1>0, <2>2 DEF NoDb
    <2> HIDE DEF old, none
    <2>4. /\ r \in ReadSet /\ r.pc = "refresh" /\ r.rows = old.rows /\ r.todo = Files
          /\ r.scan = none /\ r.bad = rd[p].bad /\ r.stamp = rd[p].stamp
          /\ r.try = rd[p].try /\ r.verified = rd[p].verified /\ r.answer = rd[p].answer
          /\ r.begun = rd[p].begun /\ r.quiet = rd[p].quiet
        BY <1>0, <2>2, <2>3 DEF ReadSet, ReadPC
    <2>5. rd' = [rd EXCEPT ![p] = r]
        BY <2>1 DEF TypeInv, Typed, ReadSet
    <2> HIDE DEF r
    <2>6. Typed' /\ Kept(p) /\ rd'[p] = r
        BY <2>4, <2>5, Replaced DEF TypeInv
    <2> QED BY <1>0, <1>2, <2>1, <2>2, <2>3, <2>4, <2>6 DEF Carried, Same, none
<1> QED BY <1>1, <1>2

LEMMA TakeFileEffect ==
    ASSUME TypeInv, NEW p \in Procs, TakeFile(p)
    PROVE  /\ Typed' /\ Kept(p) /\ Carried(p) /\ UNCHANGED lockVars /\ Same(p)
           /\ rd[p].pc = "refresh" /\ rd[p].todo = {} /\ rd'[p].bad = rd[p].bad
           /\ rd'[p].rows = rd[p].rows /\ rd[p].rows \in Maybe(RowSet)
           /\ \/ /\ Changed(p) = {}
                 /\ rd'[p].pc = IF rd[p].rows = db.rows THEN "decide" ELSE "commit"
              \/ \E f \in Files :
                    /\ rd'[p].pc = "file" /\ rd'[p].todo = {f} /\ rd'[p].scan[f] = Key(f)
                    /\ rd[p].scan \in Maybe(KeySet) /\ rd'[p].scan \in Maybe(KeySet)
                    /\ rd'[p].scan = [rd[p].scan EXCEPT ![f] = Key(f)]
<1>0. /\ rd[p] \in ReadSet /\ rd[p].pc = "refresh" /\ rd[p].todo = {} /\ UNCHANGED lockVars
      /\ rd[p].scan \in Maybe(KeySet) /\ rd[p].rows \in Maybe(RowSet)
    BY DEF TypeInv, Typed, TakeFile, Scanned, At, ReadInv, Locals, Scanning, Filling
<1>1. CASE /\ Changed(p) = {}
           /\ Move(p, IF rd[p].rows = db.rows THEN "decide" ELSE "commit")
    <2> DEFINE to == IF rd[p].rows = db.rows THEN "decide" ELSE "commit"
    <2>1. to \in ReadPC
        BY DEF ReadPC
    <2>2. Move(p, to)
        BY <1>1
    <2> HIDE DEF to
    <2>3. Typed' /\ Kept(p) /\ Carried(p) /\ Same(p) /\ rd'[p].bad = rd[p].bad
          /\ rd'[p].rows = rd[p].rows /\ rd'[p].pc = to
        BY <2>1, <2>2, MoveEffect DEF TypeInv, Same
    <2> QED BY <1>0, <1>1, <2>3 DEF to
<1>2. CASE \E f \in Changed(p) :
              rd' = [rd EXCEPT ![p].pc = "file", ![p].todo = {f}, ![p].scan[f] = Key(f)]
    <2>1. PICK f \in Files :
              rd' = [rd EXCEPT ![p].pc = "file", ![p].todo = {f}, ![p].scan[f] = Key(f)]
        BY <1>2 DEF Changed
    <2> DEFINE seen == [rd[p].scan EXCEPT ![f] = Key(f)]
               r == [rd[p] EXCEPT !.pc = "file", !.todo = {f}, !.scan = seen]
    <2>2. seen \in Maybe(KeySet) /\ seen[f] = Key(f)
        BY <1>0, FileTypes DEF Maybe, TypeInv
    <2>3. rd' = [rd EXCEPT ![p] = r]
        BY <1>0, <2>1 DEF TypeInv, Typed, ReadSet
    <2> HIDE DEF seen
    <2>4. /\ r \in ReadSet /\ r.pc = "file" /\ r.rows = rd[p].rows /\ r.todo = {f}
          /\ r.scan = seen /\ r.bad = rd[p].bad /\ r.stamp = rd[p].stamp
          /\ r.try = rd[p].try /\ r.verified = rd[p].verified /\ r.answer = rd[p].answer
          /\ r.begun = rd[p].begun /\ r.quiet = rd[p].quiet
        BY <1>0, <2>2 DEF ReadSet, ReadPC
    <2> HIDE DEF r
    <2>5. Typed' /\ Kept(p) /\ rd'[p] = r
        BY <2>3, <2>4, Replaced DEF TypeInv
    <2> QED BY <1>0, <2>2, <2>4, <2>5 DEF Carried, Same, seen
<1> QED BY <1>1, <1>2 DEF TakeFile

LEMMA ReadFileEffect ==
    ASSUME TypeInv, CacheInv, NEW p \in Procs, ReadFile(p)
    PROVE  /\ Typed' /\ Kept(p) /\ Carried(p) /\ UNCHANGED lockVars /\ Same(p)
           /\ rd[p].pc = "file" /\ rd'[p].pc = "verify" /\ rd'[p].bad = rd[p].bad
           /\ rd'[p].scan = rd[p].scan /\ rd[p].scan \in Maybe(KeySet)
           /\ rd[p].rows \in Maybe(RowSet) /\ rd'[p].rows \in Maybe(RowSet)
           /\ \E f \in Files :
                /\ rd[p].todo = {f} /\ rd'[p].todo = {f} /\ rd[p].scan[f] \in KeySet
                /\ \A g \in Files : g # f => rd'[p].rows[g] = rd[p].rows[g]
                /\ MadeFrom(rd'[p].rows[f], rd[p].rows[f], rd[p].scan[f],
                            SubSeq(Text(f), 1, rd[p].scan[f].size))
<1>0. /\ rd[p] \in ReadSet /\ rd[p].pc = "file" /\ UNCHANGED lockVars
      /\ rd[p].scan \in Maybe(KeySet) /\ rd[p].rows \in Maybe(RowSet)
    BY DEF TypeInv, Typed, ReadFile, At, ReadInv, Locals, Scanning, Filling
<1>1. PICK f \in Files : rd[p].todo = {f} /\ rd[p].scan[f] \in KeySet
    BY <1>0 DEF TypeInv, ReadInv, Locals
<1>2. The(rd[p].todo) = f
    BY <1>1 DEF The
<1> DEFINE key == rd[p].scan[f]
           text == SubSeq(Text(f), 1, key.size)
           row == FileRow(rd[p].rows[f], key, text)
           rows == [rd[p].rows EXCEPT ![f] = row]
           r == [rd[p] EXCEPT !.pc = "verify", !.rows = rows]
<1>3. KeyGood(key, f)
    BY <1>0, <1>1 DEF CacheInv, RowsGood
<1>4. /\ key.ver \in 1..Version(f) /\ key.size = Len(past[f][key.ver])
      /\ Version(f) \in Nat \ {0} /\ Text(f) \in Seq(Nat)
      /\ past[f][key.ver] \in Seq(Nat) /\ Len(past[f][key.ver]) <= Len(Text(f))
    BY <1>3, FileTypes DEF KeyGood, CacheInv, Grows, TypeInv
<1>5. key.size \in Nat /\ key.size <= Len(Text(f)) /\ key.ver \in Nat
    BY <1>4, LenProperties
<1>6. text \in Seq(Nat)
    <2>1. Text(f) \in Seq(Nat) /\ Len(Text(f)) \in Nat
        BY <1>4, LenProperties
    <2> HIDE DEF key
    <2> QED BY <1>5, <2>1
<1>7. OldFits(rd[p].rows[f])
    <2>1. RowGood(rd[p].rows[f], f)
        BY <1>0 DEF CacheInv, RowsGood
    <2> QED BY <1>0, <2>1 DEF RowGood, OldFits, RowFits, KeyGood, Maybe
<1>8. MadeFrom(row, rd[p].rows[f], key, text)
    <2>1. key \in KeySet
        BY <1>1
    <2> HIDE DEF key, text
    <2> QED BY <1>6, <1>7, <2>1, FileRowFits
<1>9. rd' = [rd EXCEPT ![p] = r]
    <2>1. rd' = [rd EXCEPT ![p].pc = "verify", ![p].rows[f] = FileRow(@, key, text)]
        BY <1>2 DEF ReadFile
    <2> HIDE DEF key, text
    <2> QED BY <1>0, <2>1 DEF TypeInv, Typed, ReadSet
<1> HIDE DEF row
<1>10. /\ rows \in Maybe(RowSet) /\ rows[f] = row
       /\ \A g \in Files : g # f => rows[g] = rd[p].rows[g]
    BY <1>0, <1>8 DEF Maybe, MadeFrom
<1> HIDE DEF rows
<1>11. /\ r \in ReadSet /\ r.pc = "verify" /\ r.rows = rows /\ r.todo = rd[p].todo
       /\ r.scan = rd[p].scan /\ r.bad = rd[p].bad /\ r.stamp = rd[p].stamp
       /\ r.try = rd[p].try /\ r.verified = rd[p].verified /\ r.answer = rd[p].answer
       /\ r.begun = rd[p].begun /\ r.quiet = rd[p].quiet
    BY <1>0, <1>10 DEF ReadSet, ReadPC
<1> HIDE DEF r
<1>12. Typed' /\ Kept(p) /\ rd'[p] = r
    BY <1>9, <1>11, Replaced DEF TypeInv
<1>13. Typed' /\ Kept(p) /\ Carried(p) /\ Same(p) /\ rd'[p].bad = rd[p].bad
       /\ rd'[p].pc = "verify" /\ rd'[p].scan = rd[p].scan /\ rd'[p].rows = rows
       /\ rd'[p].todo = rd[p].todo
    BY <1>11, <1>12 DEF Carried, Same
<1> HIDE DEF key
<1> QED BY <1>0, <1>1, <1>8, <1>10, <1>13 DEF key

LEMMA VerifyEffect ==
    ASSUME TypeInv, NEW p \in Procs, VerifyFile(p)
    PROVE  /\ Typed' /\ Kept(p) /\ rd[p].pc = "verify"
           /\ rd[p].scan \in Maybe(KeySet) /\ rd[p].rows \in Maybe(RowSet)
           /\ \/ /\ UNCHANGED lockVars /\ Carried(p) /\ Same(p) /\ rd'[p].bad = rd[p].bad
                 /\ rd'[p].pc = "refresh" /\ rd'[p].rows = rd[p].rows
                 /\ rd'[p].scan = rd[p].scan /\ rd'[p].todo = {}
                 /\ \E f \in Files : rd[p].todo = {f} /\ KeyStands(p, f)
              \/ /\ Fail(p) /\ Release(p)
                 /\ \E f \in Files : rd[p].todo = {f} /\ ~KeyStands(p, f)
<1>0. /\ rd[p] \in ReadSet /\ rd[p].pc = "verify"
      /\ rd[p].scan \in Maybe(KeySet) /\ rd[p].rows \in Maybe(RowSet)
    BY DEF TypeInv, Typed, VerifyFile, At, ReadInv, Locals, Scanning, Filling
<1>1. PICK f \in Files : rd[p].todo = {f}
    BY <1>0 DEF TypeInv, ReadInv, Locals
<1>2. The(rd[p].todo) = f
    BY <1>1 DEF The
<1>3. CASE KeyStands(p, f)
    <2> DEFINE r == [rd[p] EXCEPT !.pc = "refresh", !.todo = {}]
    <2>1. rd' = [rd EXCEPT ![p].pc = "refresh", ![p].todo = {}] /\ UNCHANGED lockVars
        BY <1>2, <1>3 DEF VerifyFile
    <2>2. rd' = [rd EXCEPT ![p] = r]
        BY <2>1 DEF TypeInv, Typed, ReadSet
    <2>3. /\ r \in ReadSet /\ r.pc = "refresh" /\ r.rows = rd[p].rows /\ r.todo = {}
          /\ r.scan = rd[p].scan /\ r.bad = rd[p].bad /\ r.stamp = rd[p].stamp
          /\ r.try = rd[p].try /\ r.verified = rd[p].verified /\ r.answer = rd[p].answer
          /\ r.begun = rd[p].begun /\ r.quiet = rd[p].quiet
        BY <1>0 DEF ReadSet, ReadPC
    <2> HIDE DEF r
    <2>4. Typed' /\ Kept(p) /\ rd'[p] = r
        BY <2>2, <2>3, Replaced DEF TypeInv
    <2> QED BY <1>0, <1>1, <1>3, <2>1, <2>3, <2>4 DEF Carried, Same
<1>4. CASE ~KeyStands(p, f)
    <2>1. Fail(p) /\ Release(p)
        BY <1>2, <1>4 DEF VerifyFile
    <2> QED BY <1>0, <1>1, <1>4, <2>1, FailEffect DEF TypeInv
<1> QED BY <1>3, <1>4

LEMMA EndRefreshEffect ==
    ASSUME TypeInv, NEW p \in Procs, EndRefresh(p)
    PROVE  /\ Typed' /\ Kept(p) /\ Carried(p) /\ Release(p) /\ rd[p].pc = "decide"
           /\ rd'[p].pc = "lock" /\ rd'[p].try = rd[p].try + 1
           /\ rd'[p].stamp = rd[p].stamp /\ rd'[p].bad = rd[p].bad
<1>0. rd[p] \in ReadSet /\ rd[p].pc = "decide" /\ Release(p)
    BY DEF TypeInv, Typed, EndRefresh, At
<1>1. rd[p].try + 1 \in 0..2
    <2>1. rd[p].try < 2 /\ rd[p].try \in 0..2
        BY <1>0 DEF TypeInv, ReadInv, LockPhase, Session, ReadSet
    <2> QED BY <2>1
<1> DEFINE r == [rd[p] EXCEPT !.pc = "lock", !.try = rd[p].try + 1, !.rows = Idle, !.scan = Idle,
                              !.todo = {}]
<1>2. rd' = [rd EXCEPT ![p] = r]
    BY <1>0 DEF TypeInv, Typed, ReadSet, EndRefresh
<1>3. /\ r \in ReadSet /\ r.pc = "lock" /\ r.bad = rd[p].bad /\ r.stamp = rd[p].stamp
      /\ r.try = rd[p].try + 1 /\ r.verified = rd[p].verified /\ r.answer = rd[p].answer
      /\ r.begun = rd[p].begun /\ r.quiet = rd[p].quiet
    BY <1>0, <1>1 DEF ReadSet, ReadPC
<1> HIDE DEF r
<1>4. Typed' /\ Kept(p) /\ rd'[p] = r
    BY <1>2, <1>3, Replaced DEF TypeInv
<1> QED BY <1>0, <1>3, <1>4 DEF Carried

-----------------------------------------------------------------------------
(* Types, and where a read is with the lock *)

\* The others are where they were with the lock.
LockKept(p) == \A q \in Procs : q # p => lpc'[q] = lpc[q] /\ mode'[q] = mode[q]

LEMMA RequestEffect ==
    ASSUME LockInv, NEW p \in Procs, NEW m \in Modes, Request(p, m)
    PROVE  /\ LockInv' /\ LockKept(p)
           /\ lpc[p] = "out" /\ lpc'[p] = "gate" /\ mode'[p] = m
<1>1. LockInv'
    BY InvStep DEF LockNext
<1> QED BY <1>1 DEF Request, Goto, LockInv, LockTypeOK, LockKept

LEMMA ReleaseEffect ==
    ASSUME LockInv, NEW p \in Procs, Release(p)
    PROVE  /\ LockInv' /\ LockKept(p)
           /\ lpc[p] = "in" /\ lpc'[p] = "out" /\ mode'[p] = mode[p]
<1>1. LockInv'
    BY InvStep DEF LockNext
<1> QED BY <1>1 DEF Release, Goto, LockInv, LockTypeOK, LockKept

LEMMA TimeOutEffect ==
    ASSUME LockInv, NEW p \in Procs, TimeOut(p)
    PROVE  /\ LockInv' /\ LockKept(p)
           /\ lpc[p] \in {"gate", "main"} /\ lpc'[p] = "out" /\ mode'[p] = mode[p]
<1>1. LockInv'
    BY InvStep DEF LockNext
<1> QED BY <1>1 DEF TimeOut, Goto, LockInv, LockTypeOK, LockKept

LEMMA WaitEffect ==
    ASSUME LockInv, NEW p \in Procs, TakeGate(p) \/ PassGate(p) \/ TakeMain(p)
    PROVE  /\ LockInv' /\ LockKept(p)
           /\ lpc[p] \in {"gate", "pass", "main"} /\ lpc'[p] \in {"pass", "main", "in"}
           /\ mode'[p] = mode[p]
<1>1. LockInv'
    BY InvStep DEF LockNext
<1> QED BY <1>1 DEF TakeGate, PassGate, TakeMain, Goto, LockInv, LockTypeOK, LockKept

LEMMA SameLock ==
    ASSUME LockInv, UNCHANGED lockVars
    PROVE  LockInv' /\ lpc' = lpc /\ mode' = mode /\ \A p \in Procs : LockKept(p)
<1>1. LockInv'
    BY InvStep
<1> QED BY <1>1 DEF lockVars, LockKept

\* A death is a release, wherever it comes.
LEMMA DeathEffect ==
    ASSUME LockInv, NEW p \in Procs, Crash(p)
    PROVE  LockInv' /\ LockKept(p) /\ lpc'[p] = "out" /\ mode'[p] = mode[p]
<1> USE LockAssumption DEF LockInv, LockTypeOK, LockPC, Modes
<1>1. /\ lpc' = [lpc EXCEPT ![p] = "out"] /\ mode' = mode /\ timeouts' = timeouts
      /\ gate' = IF gate = p THEN Nobody ELSE gate
      /\ shared' = shared \ {p} /\ excl' = IF excl = p THEN Nobody ELSE excl
    BY DEF Crash, Goto, LeaveGate
<1>2. LockTypeOK'
    BY <1>1
<1>3. SharedIsMine' /\ OnlyReadersPass' /\ Exclusive'
    BY <1>1 DEF SharedIsMine, OnlyReadersPass, Exclusive
<1>4. ExclIsMine'
    BY <1>1 DEF ExclIsMine
<1>5. GateIsMine'
    BY <1>1 DEF GateIsMine, Waiting
<1> QED BY <1>1, <1>2, <1>3, <1>4, <1>5 DEF LockKept

\* What a step that is not a read's own may do to the cache.
DbMoves ==
    /\ stamps \in Nat /\ stamps' \in Nat /\ stamps <= stamps'
    /\ db' = db \/ db' = NoDb \/ (stamps' = stamps + 1 /\ db'.stamp = stamps')

LEMMA OthersTyped ==
    ASSUME TypeInv, NEW p \in Procs, Kept(p), LockKept(p), DbMoves
    PROVE  \A q \in Procs : q # p => ReadInv(q)'
<1> SUFFICES ASSUME NEW q \in Procs, q # p PROVE ReadInv(q)'
    OBVIOUS
<1>1. rd'[q] = rd[q] /\ lpc'[q] = lpc[q] /\ mode'[q] = mode[q] /\ ReadInv(q) /\ rd[q] \in ReadSet
    BY DEF Kept, LockKept, TypeInv, Typed
<1>2. Locals(q)' /\ LockPhase(q)'
    BY <1>1 DEF ReadInv, Locals, LockPhase
<1>3. Known(q)'
    BY <1>1 DEF ReadInv, Known, DbMoves, ReadSet
<1>4. Loaded(q)'
    <2>1. CASE db' = db
        BY <1>1, <2>1 DEF ReadInv, Loaded
    <2>2. CASE db' = NoDb
        BY <1>1, <2>2 DEF ReadInv, Loaded, NoDb
    <2>3. CASE stamps' = stamps + 1 /\ db'.stamp = stamps'
        <3>1. rd[q].stamp <= stamps /\ rd[q].stamp \in Nat
            BY <1>1 DEF ReadInv, Known, ReadSet
        <3>2. db'.stamp # rd[q].stamp
            BY <2>3, <3>1 DEF DbMoves
        <3> QED BY <1>1, <3>2 DEF ReadInv, Loaded
    <2> QED BY <2>1, <2>2, <2>3 DEF DbMoves
<1> QED BY <1>2, <1>3, <1>4 DEF ReadInv

\* A step that leaves files and cache alone.
LEMMA WorldKept ==
    ASSUME World, UNCHANGED <<files, cache>>, crashes' \in 0..MaxCrashes
    PROVE  World' /\ DbMoves /\ db' = db /\ stamps' = stamps /\ past' = past
BY DEF World, files, cache, DbMoves

\* The contents a file has had stay what they were; a new one comes after them.
Longer == \A f \in Files : /\ Version(f)' \in Nat /\ Version(f) <= Version(f)'
                           /\ \A v \in 1..Version(f) : past'[f][v] = past[f][v]

\* One more content of a file.
Written(f, t) == past' = [past EXCEPT ![f] = Append(@, t)]

LEMMA WriteEffect ==
    ASSUME World, NEW f \in Files, WriteFile(f)
    PROVE  /\ \E t \in Seq(Nat) : Written(f, t) /\ Len(Text(f)) <= Len(t)
           /\ Disturb /\ UNCHANGED <<lockVars, cache, crashes>> /\ writes' = writes + 1
<1>0. Disturb /\ UNCHANGED <<lockVars, cache, crashes>>
    BY DEF WriteFile
<1>1. Text(f) \in Seq(Nat) /\ Len(Text(f)) \in Nat
    BY FileTypes, LenProperties
<1>2. Fresh \in Nat /\ Fresh + 1 \in Nat /\ End \in Nat
    BY DEF World, Fresh, End
<1>3. ASSUME NEW t \in Seq(Nat), NEW k \in Nat, Len(t) = Len(Text(f)) + k, Write(f, t)
      PROVE  /\ writes' = writes + 1
             /\ \E u \in Seq(Nat) : Written(f, u) /\ Len(Text(f)) <= Len(u)
    <2>1. Written(f, t) /\ writes' = writes + 1
        BY <1>3, Zenon DEF Write, Written
    <2>2. Len(Text(f)) <= Len(t)
        BY <1>1, <1>3
    <2> QED BY <2>1, <2>2
<1>4. CASE Write(f, Append(Text(f), End))
    <2>1. Append(Text(f), End) \in Seq(Nat) /\ Len(Append(Text(f), End)) = Len(Text(f)) + 1
        BY <1>1, <1>2, AppendProperties
    <2> QED BY <1>0, <1>3, <1>4, <2>1
<1>5. CASE Write(f, Text(f) \o <<Fresh, End>>)
    <2>1. <<Fresh, End>> \in Seq(Nat) /\ Len(<<Fresh, End>>) = 2
        BY <1>2
    <2>2. /\ Text(f) \o <<Fresh, End>> \in Seq(Nat)
          /\ Len(Text(f) \o <<Fresh, End>>) = Len(Text(f)) + 2
        BY <1>1, <2>1, ConcatProperties
    <2> QED BY <1>0, <1>3, <1>5, <2>2
<1>6. CASE Write(f, Append(Text(f), Fresh))
    <2>1. Append(Text(f), Fresh) \in Seq(Nat) /\ Len(Append(Text(f), Fresh)) = Len(Text(f)) + 1
        BY <1>1, <1>2, AppendProperties
    <2> QED BY <1>0, <1>3, <1>6, <2>1
<1>7. CASE Text(f) # <<>> /\ Write(f, <<Fresh>> \o Tail(Text(f)) \o <<Fresh + 1, End>>)
    <2>1. Tail(Text(f)) \in Seq(Nat) /\ Len(Tail(Text(f))) = Len(Text(f)) - 1
        BY <1>1, <1>7, HeadTailProperties
    <2>2. <<Fresh>> \in Seq(Nat) /\ Len(<<Fresh>>) = 1
          /\ <<Fresh + 1, End>> \in Seq(Nat) /\ Len(<<Fresh + 1, End>>) = 2
        BY <1>2
    <2>3. <<Fresh>> \o Tail(Text(f)) \in Seq(Nat) /\ Len(<<Fresh>> \o Tail(Text(f))) = Len(Text(f))
        BY <1>1, <2>1, <2>2, ConcatProperties
    <2>4. /\ (<<Fresh>> \o Tail(Text(f))) \o <<Fresh + 1, End>> \in Seq(Nat)
          /\ Len((<<Fresh>> \o Tail(Text(f))) \o <<Fresh + 1, End>>) = Len(Text(f)) + 2
        BY <2>2, <2>3, ConcatProperties
    <2> QED BY <1>0, <1>3, <1>7, <2>4
<1> QED BY <1>4, <1>5, <1>6, <1>7 DEF WriteFile

LEMMA WrittenGrows ==
    ASSUME World, NEW f \in Files, NEW t \in Seq(Nat), Written(f, t)
    PROVE  /\ past' \in [Files -> Seq(Seq(Nat))] /\ Longer
           /\ Version(f)' = Version(f) + 1 /\ past'[f][Version(f) + 1] = t
           /\ \A g \in Files : past'[g] # <<>> /\ (g # f => past'[g] = past[g])
<1>1. past[f] \in Seq(Seq(Nat)) /\ Len(past[f]) \in Nat
    BY FileTypes DEF Version
<1>2. /\ Append(past[f], t) \in Seq(Seq(Nat)) /\ Len(Append(past[f], t)) = Len(past[f]) + 1
      /\ Append(past[f], t)[Len(past[f]) + 1] = t
      /\ \A v \in 1..Len(past[f]) : Append(past[f], t)[v] = past[f][v]
    BY <1>1, AppendProperties
<1>3. past'[f] = Append(past[f], t) /\ \A g \in Files : g # f => past'[g] = past[g]
    BY DEF World, Written
<1>4. past' \in [Files -> Seq(Seq(Nat))]
    BY <1>2 DEF World, Written
<1>5. Append(past[f], t) # <<>>
    <2>1. Append(past[f], t) \in Seq(Seq(Nat)) /\ Len(Append(past[f], t)) # 0
        BY <1>1, <1>2
    <2> QED BY <2>1, EmptySeq
<1>6. ASSUME NEW g \in Files
      PROVE  /\ Version(g)' \in Nat /\ Version(g) <= Version(g)'
             /\ \A v \in 1..Version(g) : past'[g][v] = past[g][v]
    <2>1. CASE g = f
        <3>1. Version(f)' = Version(f) + 1 /\ Version(f) \in Nat
            BY <1>1, <1>2, <1>3 DEF Version
        <3>2. \A v \in 1..Version(f) : past'[f][v] = past[f][v]
            BY <1>2, <1>3 DEF Version
        <3>3. Version(f)' \in Nat /\ Version(f) <= Version(f)'
            BY <3>1
        <3> QED BY <2>1, <3>2, <3>3
    <2>2. CASE g # f
        <3>1. Version(g) \in Nat /\ past'[g] = past[g]
            BY <1>3, <2>2, FileTypes
        <3> QED BY <3>1 DEF Version
    <2> QED BY <2>1, <2>2
<1>7. \A g \in Files : past'[g] # <<>>
    BY <1>3, <1>5 DEF World
<1>8. Longer
    BY <1>6 DEF Longer
<1> QED BY <1>1, <1>2, <1>3, <1>4, <1>7, <1>8 DEF Version

LEMMA DamageEffect ==
    ASSUME World, Damage
    PROVE  /\ Disturb /\ UNCHANGED <<lockVars, files, crashes>>
           /\ stamps' = stamps + 1 /\ db'.stamp = stamps + 1 /\ damage' \in 0..MaxDamage
           /\ db' \in [stamp : Nat, ok : BOOLEAN, rows : Maybe(RowSet)]
           /\ \/ ~db'.ok /\ db'.rows = db.rows
              \/ \E f \in Files :
                    /\ db'.ok = db.ok /\ db.rows[f] # Idle
                    /\ db'.rows = [db.rows EXCEPT ![f] = [db.rows[f] EXCEPT !.bad = TRUE]]
<1>1. /\ Disturb /\ UNCHANGED <<lockVars, files, crashes>> /\ stamps' = stamps + 1
      /\ damage' \in 0..MaxDamage /\ stamps + 1 \in Nat
    <2>1. damage < MaxDamage /\ damage' = damage + 1 /\ damage \in 0..MaxDamage /\ MaxDamage \in Nat
        BY CacheAssumption DEF Damage, World
    <2>2. damage' \in 0..MaxDamage
        BY <2>1
    <2>3. Disturb /\ UNCHANGED <<lockVars, files, crashes>> /\ stamps' = stamps + 1
        BY DEF Damage
    <2> QED BY <2>2, <2>3 DEF World
<1>2. CASE db' = [db EXCEPT !.ok = FALSE, !.stamp = stamps + 1]
    BY <1>1, <1>2 DEF World
<1>3. CASE \E f \in Files : /\ db.rows[f] # Idle
                            /\ db' = [db EXCEPT !.rows[f].bad = TRUE, !.stamp = stamps + 1]
    <2>1. PICK f \in Files : /\ db.rows[f] # Idle
                             /\ db' = [db EXCEPT !.rows[f].bad = TRUE, !.stamp = stamps + 1]
        BY <1>3
    <2>2. db.rows[f] \in RowSet /\ db.rows \in Maybe(RowSet)
        BY <2>1 DEF World, Maybe
    <2>3. [db.rows[f] EXCEPT !.bad = TRUE] \in RowSet
        BY <2>2 DEF RowSet
    <2> DEFINE rows == [db.rows EXCEPT ![f] = [db.rows[f] EXCEPT !.bad = TRUE]]
    <2>4. rows \in Maybe(RowSet)
        BY <2>2, <2>3 DEF Maybe
    <2>5. db' = [db EXCEPT !.rows = rows, !.stamp = stamps + 1]
        BY <2>1 DEF World
    <2> HIDE DEF rows
    <2>6. /\ db'.stamp = stamps + 1 /\ db'.ok = db.ok /\ db'.rows = rows
          /\ db' \in [stamp : Nat, ok : BOOLEAN, rows : Maybe(RowSet)]
        BY <1>1, <2>4, <2>5 DEF World
    <2> QED BY <1>1, <2>1, <2>6 DEF rows
<1> QED BY <1>1, <1>2, <1>3 DEF Damage

LEMMA StepTyped ==
    ASSUME TypeInv, NEW p \in Procs, LockInv', World', Typed', Kept(p), LockKept(p), DbMoves,
           ReadInv(p)'
    PROVE  TypeInv'
BY OthersTyped, Zenon DEF TypeInv

LEMMA DisturbTyped ==
    ASSUME TypeInv, Disturb, UNCHANGED lockVars, DbMoves, db' # db => stamps' = stamps + 1 /\ db'.stamp = stamps'
    PROVE  Typed' /\ LockInv' /\ \A q \in Procs : ReadInv(q)'
<1>1. Typed' /\ LockInv' /\ lpc' = lpc /\ mode' = mode
    BY DisturbEffect, SameLock DEF TypeInv
<1>2. ASSUME NEW q \in Procs PROVE ReadInv(q)'
    <2>1. /\ rd'[q].pc = rd[q].pc /\ rd'[q].try = rd[q].try
          /\ rd'[q].scan = rd[q].scan /\ rd'[q].todo = rd[q].todo
          /\ rd'[q].rows = rd[q].rows /\ rd'[q].stamp = rd[q].stamp
          /\ rd'[q].bad = rd[q].bad /\ rd'[q].verified = rd[q].verified
          /\ rd'[q].answer = rd[q].answer /\ rd'[q].begun = rd[q].begun
        BY DisturbEffect DEF TypeInv
    <2>2. ReadInv(q) /\ rd[q] \in ReadSet
        BY DEF TypeInv, Typed
    <2>3. Locals(q)' /\ LockPhase(q)'
        BY <1>1, <2>1, <2>2 DEF ReadInv, Locals, LockPhase
    <2>4. Known(q)'
        BY <2>1, <2>2 DEF ReadInv, Known, DbMoves, ReadSet
    <2>5. Loaded(q)'
        <3>1. CASE db' = db
            BY <2>1, <2>2, <3>1 DEF ReadInv, Loaded
        <3>2. CASE db' # db
            <4>1. rd[q].stamp <= stamps /\ rd[q].stamp \in Nat
                BY <2>2 DEF ReadInv, Known, ReadSet
            <4>2. db'.stamp # rd[q].stamp
                BY <3>2, <4>1 DEF DbMoves
            <4> QED BY <2>1, <2>2, <4>2 DEF ReadInv, Loaded
        <3> QED BY <3>1, <3>2
    <2> QED BY <2>3, <2>4, <2>5 DEF ReadInv
<1> QED BY <1>1, <1>2

LEMMA TypeInit == Init => TypeInv
<1> SUFFICES ASSUME Init PROVE TypeInv
    OBVIOUS
<1>1. LockInv
    BY InvInit DEF Init
<1>2. World
    <2>1. << <<>> >> \in Seq(Seq(Nat)) /\ << <<>> >> # <<>>
        OBVIOUS
    <2>2. [f \in Files |-> << <<>> >>] \in [Files -> Seq(Seq(Nat))]
        BY <2>1
    <2> QED BY <2>1, <2>2, CacheAssumption DEF Init, World, NoDb, Maybe
<1>3. NoRead \in ReadSet
    BY DEF NoRead, ReadSet, ReadPC
<1>4. Typed
    BY <1>3 DEF Init, Typed
<1>5. ASSUME NEW p \in Procs PROVE ReadInv(p)
    <2>1. rd[p] = NoRead /\ lpc[p] = "out" /\ stamps = 0
        BY DEF Init, LockInit
    <2> QED BY <2>1 DEF NoRead, ReadInv, Locals, LockPhase, Known, Loaded, Scanning, Filling,
                        Session, Outside
<1> QED BY <1>1, <1>2, <1>4, <1>5 DEF TypeInv

LEMMA TypeStep ==
    ASSUME TypeInv, CacheInv, [Next]_vars
    PROVE  TypeInv'
<1>0. LockInv /\ World /\ Typed /\ \A p \in Procs : ReadInv(p) /\ rd[p] \in ReadSet
    BY DEF TypeInv, Typed
<1>a. ASSUME UNCHANGED <<files, cache, crashes>>
      PROVE  World' /\ DbMoves /\ db' = db /\ stamps' = stamps
    <2>1. crashes' \in 0..MaxCrashes /\ UNCHANGED <<files, cache>>
        BY <1>0, <1>a DEF World
    <2> QED BY <1>0, <2>1, WorldKept
<1>1. ASSUME NEW p \in Procs, BeginRead(p) PROVE TypeInv'
    <2>1. World' /\ DbMoves /\ db' = db /\ stamps' = stamps
        BY <1>1, <1>a DEF BeginRead
    <2>2. LockInv' /\ LockKept(p) /\ lpc'[p] = "gate" /\ mode'[p] = "SH"
        BY <1>0, <1>1, RequestEffect DEF BeginRead, Modes
    <2>3. /\ Typed' /\ Kept(p) /\ Answered(p) /\ rd[p].pc \in Outside
          /\ rd'[p].pc = "lock" /\ rd'[p].try = 0 /\ rd'[p].stamp = 0 /\ rd'[p].bad = 0
          /\ rd'[p].begun = [f \in Files |-> Version(f)]
        BY <1>0, <1>1, BeginEffect
    <2>4. [f \in Files |-> Version(f)] \in [Files -> Nat]
        BY <1>0, FileTypes
    <2>5. Locals(p)' /\ LockPhase(p)' /\ Loaded(p)'
        BY <2>2, <2>3, <2>4 DEF Locals, LockPhase, Loaded, Scanning, Filling, Session, Outside
    <2>6. Known(p)'
        BY <1>0, <2>1, <2>3 DEF Known, Answered, ReadInv, World
    <2> QED BY <2>1, <2>2, <2>3, <2>5, <2>6, StepTyped DEF ReadInv
<1>2. ASSUME NEW p \in Procs, Inside(p) PROVE TypeInv'
    <2>1. World' /\ DbMoves /\ db' = db /\ stamps' = stamps
        BY <1>2, <1>a DEF Inside
    <2>2. /\ Typed' /\ Kept(p) /\ Carried(p)
          /\ rd[p].pc = "lock" /\ lpc[p] = "in" /\ UNCHANGED lockVars
          /\ rd'[p].stamp = rd[p].stamp
          /\ \/ rd'[p].pc = "relock" /\ rd'[p].bad = db.stamp
             \/ rd'[p].pc = "scan" /\ rd'[p].bad = rd[p].bad
                /\ rd'[p].scan = [f \in Files |-> Idle]
        BY <1>0, <1>2, InsideEffect
    <2>3. LockInv' /\ LockKept(p) /\ lpc'[p] = "in" /\ mode'[p] = "SH"
        <3>1. mode[p] = "SH"
            BY <1>0, <2>2 DEF ReadInv, LockPhase
        <3> QED BY <1>0, <2>2, <3>1, SameLock
    <2>4. [f \in Files |-> Idle] \in Maybe(KeySet) /\ rd[p].begun \in [Files -> Nat]
        BY <1>0, <2>2 DEF Maybe, ReadInv, Locals
    <2>5. Locals(p)' /\ LockPhase(p)' /\ Loaded(p)'
        BY <2>2, <2>3, <2>4 DEF Locals, LockPhase, Loaded, Carried, Scanning, Filling, Session,
                                Outside
    <2>6. Known(p)'
        BY <1>0, <2>1, <2>2 DEF Known, Carried, ReadInv, World
    <2> QED BY <2>1, <2>2, <2>3, <2>5, <2>6, StepTyped DEF ReadInv
<1>3. ASSUME NEW p \in Procs, ScanOne(p) PROVE TypeInv'
    <2>1. World' /\ DbMoves /\ db' = db /\ stamps' = stamps
        BY <1>3, <1>a DEF ScanOne
    <2>2. /\ Typed' /\ Kept(p) /\ Carried(p) /\ UNCHANGED lockVars
          /\ rd[p].pc \in {"scan", "recheck", "refresh"}
          /\ rd'[p].scan \in Maybe(KeySet)
          /\ rd'[p].pc = rd[p].pc /\ rd'[p].try = rd[p].try /\ rd'[p].rows = rd[p].rows
          /\ rd'[p].stamp = rd[p].stamp /\ rd'[p].bad = rd[p].bad
        BY <1>3, ScanEffect
    <2>3. LockInv' /\ LockKept(p) /\ lpc' = lpc /\ mode' = mode
        BY <1>0, <2>2, SameLock
    <2>4. ReadInv(p)
        BY <1>0
    <2>5. Locals(p)' /\ LockPhase(p)' /\ Loaded(p)' /\ Known(p)'
        BY <2>1, <2>2, <2>3, <2>4 DEF ReadInv, Locals, LockPhase, Loaded, Known, Carried, Scanning,
                                      Filling, Session, Outside
    <2> QED BY <2>1, <2>2, <2>3, <2>5, StepTyped DEF ReadInv
<1>4. ASSUME NEW p \in Procs, Compare(p) PROVE TypeInv'
    <2>1. World' /\ DbMoves /\ db' = db /\ stamps' = stamps
        BY <1>4, <1>a DEF Compare
    <2>2. /\ Typed' /\ Kept(p) /\ Carried(p) /\ rd[p].pc = "scan" /\ rd[p].todo = {}
          /\ \/ /\ Recorded(p) /\ Unchanged(p) /\ Release(p)
                /\ rd'[p].pc = "done" /\ rd'[p].stamp = 0 /\ rd'[p].bad = 0 /\ rd'[p].try = 0
             \/ /\ rd'[p].pc = IF Recorded(p) THEN "load" ELSE "relock"
                /\ rd'[p].stamp = db.stamp /\ rd'[p].bad = 0 /\ rd'[p].try = rd[p].try
                /\ UNCHANGED lockVars
        BY <1>4, CompareEffect
    <2>3. ReadInv(p) /\ lpc[p] = "in" /\ mode[p] = "SH" /\ rd[p].begun \in [Files -> Nat]
          /\ db.stamp \in Nat /\ db.stamp <= stamps /\ stamps \in Nat
        BY <1>0, <2>2 DEF ReadInv, LockPhase, Locals, World
    <2>4. CASE /\ Recorded(p) /\ Unchanged(p) /\ Release(p)
               /\ rd'[p].pc = "done" /\ rd'[p].stamp = 0 /\ rd'[p].bad = 0 /\ rd'[p].try = 0
        <3>1. LockInv' /\ LockKept(p) /\ lpc'[p] = "out"
            BY <1>0, <2>4, ReleaseEffect
        <3>2. rd'[p].answer \in [Files -> AnswerSet]
            BY <1>0, <2>2, <2>4 DEF Unchanged, Carried, ReadSet
        <3>3. rd'[p].begun = rd[p].begun /\ rd'[p].verified = rd[p].verified
            BY <2>2 DEF Carried
        <3>4. Locals(p)' /\ LockPhase(p)' /\ Loaded(p)'
            BY <2>3, <2>4, <3>1, <3>2, <3>3 DEF Locals, LockPhase, Loaded, Scanning, Filling,
                                                Session, Outside
        <3>5. Known(p)'
            BY <2>1, <2>3, <2>4, <3>3 DEF ReadInv, Known
        <3> QED BY <2>1, <2>2, <3>1, <3>4, <3>5, StepTyped DEF ReadInv
    <2>5. CASE /\ rd'[p].pc = IF Recorded(p) THEN "load" ELSE "relock"
               /\ rd'[p].stamp = db.stamp /\ rd'[p].bad = 0 /\ rd'[p].try = rd[p].try
               /\ UNCHANGED lockVars
        <3>1. LockInv' /\ LockKept(p) /\ lpc' = lpc /\ mode' = mode
            BY <1>0, <2>5, SameLock
        <3>2. Recorded(p) => db.stamp # 0 /\ \A f \in Files : db.rows[f] # Idle
            BY <1>0, CacheAssumption DEF Recorded, World, NoDb
        <3>3. rd'[p].begun = rd[p].begun /\ rd'[p].verified = rd[p].verified
            BY <2>2 DEF Carried
        <3>4. Locals(p)' /\ LockPhase(p)'
            BY <2>3, <2>5, <3>1, <3>3 DEF Locals, LockPhase, Scanning, Filling, Session, Outside
        <3>5. Known(p)'
            BY <2>1, <2>3, <2>5, <3>3 DEF ReadInv, Known
        <3>6. Loaded(p)'
            BY <2>1, <2>5, <3>2 DEF Loaded
        <3> QED BY <2>1, <2>2, <3>1, <3>4, <3>5, <3>6, StepTyped DEF ReadInv
    <2> QED BY <2>2, <2>4, <2>5
<1>5. ASSUME NEW p \in Procs, Load(p) PROVE TypeInv'
    <2>1. World' /\ DbMoves /\ db' = db /\ stamps' = stamps
        BY <1>5, <1>a DEF Load
    <2>2. /\ Typed' /\ Kept(p) /\ rd[p].pc = "load"
          /\ rd'[p].begun = rd[p].begun /\ rd'[p].quiet = rd[p].quiet
          /\ \/ /\ ChunksSound(p) /\ Release(p) /\ Loads(p) \in [Files -> AnswerSet]
                /\ rd'[p].pc = "done" /\ rd'[p].verified = db.stamp /\ rd'[p].answer = Loads(p)
                /\ rd'[p].stamp = 0 /\ rd'[p].bad = 0 /\ rd'[p].try = 0
             \/ /\ ~ChunksSound(p) /\ UNCHANGED lockVars /\ Carried(p)
                /\ rd'[p].pc = "relock" /\ rd'[p].bad = db.stamp /\ Same(p)
        BY <1>5, LoadEffect
    <2>3. ReadInv(p) /\ lpc[p] = "in" /\ mode[p] = "SH" /\ rd[p].begun \in [Files -> Nat]
          /\ db.stamp \in Nat /\ db.stamp <= stamps /\ stamps \in Nat
        BY <1>0, <2>2 DEF ReadInv, LockPhase, Locals, World
    <2>4. CASE Release(p) /\ Loads(p) \in [Files -> AnswerSet]
               /\ rd'[p].pc = "done" /\ rd'[p].verified = db.stamp /\ rd'[p].answer = Loads(p)
               /\ rd'[p].stamp = 0 /\ rd'[p].bad = 0
        <3>1. LockInv' /\ LockKept(p) /\ lpc'[p] = "out"
            BY <1>0, <2>4, ReleaseEffect
        <3>2. Locals(p)' /\ LockPhase(p)' /\ Loaded(p)' /\ Known(p)'
            BY <2>1, <2>2, <2>3, <2>4, <3>1 DEF ReadInv, Locals, LockPhase, Loaded, Known, Carried, Same, Scanning,
                                      Filling, Session, Outside
        <3> QED BY <2>1, <2>2, <3>1, <3>2, StepTyped DEF ReadInv
    <2>5. CASE /\ UNCHANGED lockVars /\ Carried(p)
               /\ rd'[p].pc = "relock" /\ rd'[p].bad = db.stamp /\ Same(p)
        <3>1. LockInv' /\ LockKept(p) /\ lpc' = lpc /\ mode' = mode
            BY <1>0, <2>5, SameLock
        <3>2. Locals(p)' /\ LockPhase(p)' /\ Loaded(p)' /\ Known(p)'
            BY <2>1, <2>2, <2>3, <2>5, <3>1 DEF ReadInv, Locals, LockPhase, Loaded, Known, Carried, Same, Scanning,
                                      Filling, Session, Outside
        <3> QED BY <2>1, <2>2, <3>1, <3>2, StepTyped DEF ReadInv
    <2> QED BY <2>2, <2>4, <2>5
\* A read that gives up, and one that only waits for the lock.
<1>b. ASSUME NEW p \in Procs, Kept(p), Typed', World', DbMoves, stamps' = stamps,
             LockInv', LockKept(p), lpc'[p] = "out",
             rd'[p].pc \in {"failed", "timeout"}, rd'[p].verified = rd[p].verified,
             rd'[p].stamp = 0, rd'[p].bad = 0, rd'[p].begun = rd[p].begun,
             rd[p].pc # "idle"
      PROVE  TypeInv'
    <2>1. ReadInv(p) /\ stamps \in Nat
        BY <1>0 DEF World
    <2>2. Locals(p)' /\ LockPhase(p)' /\ Loaded(p)' /\ Known(p)'
        BY <1>b, <2>1 DEF ReadInv, Locals, LockPhase, Loaded, Known, Carried, Same, Scanning,
                                      Filling, Session, Outside
    <2> QED BY <1>b, <2>2, StepTyped DEF ReadInv
<1>c. ASSUME NEW p \in Procs, rd' = rd, World', DbMoves, db' = db, stamps' = stamps,
             LockInv', LockKept(p), LockPhase(p)'
      PROVE  TypeInv'
    <2>1. Typed' /\ Kept(p) /\ ReadInv(p)
        BY <1>0, <1>c DEF Typed, Kept
    <2>2. Locals(p)' /\ Loaded(p)' /\ Known(p)'
        BY <1>c, <2>1 DEF ReadInv, Locals, Loaded, Known
    <2> QED BY <1>c, <2>1, <2>2, StepTyped DEF ReadInv
<1>6. ASSUME NEW p \in Procs, Unlock(p) PROVE TypeInv'
    <2>1. World' /\ DbMoves /\ db' = db /\ stamps' = stamps
        BY <1>6, <1>a DEF Unlock
    <2>2. /\ rd[p].pc = "relock" /\ lpc[p] = "in" /\ mode[p] = "SH" /\ Release(p)
          /\ IF rd[p].try = 2 THEN Fail(p) ELSE rd' = rd
        BY <1>0, <1>6, UnlockEffect
    <2>3. LockInv' /\ LockKept(p) /\ lpc'[p] = "out" /\ mode'[p] = mode[p]
        BY <1>0, <2>2, ReleaseEffect
    <2>4. CASE rd[p].try = 2
        BY <1>0, <1>b, <2>1, <2>2, <2>3, <2>4, FailEffect
    <2>5. CASE rd[p].try # 2
        <3>1. rd' = rd /\ rd[p].try < 2
            BY <1>0, <2>2, <2>5 DEF ReadSet
        <3>2. LockPhase(p)'
            BY <2>2, <2>3, <3>1 DEF LockPhase, Session, Outside
        <3> QED BY <1>c, <2>1, <2>3, <3>1, <3>2
    <2> QED BY <2>4, <2>5
<1>7. ASSUME NEW p \in Procs, LockExclusive(p) PROVE TypeInv'
    <2>1. World' /\ DbMoves /\ db' = db /\ stamps' = stamps /\ rd' = rd
        BY <1>7, <1>a DEF LockExclusive
    <2>2. LockInv' /\ LockKept(p) /\ lpc[p] = "out" /\ lpc'[p] = "gate" /\ mode'[p] = "EX"
        BY <1>0, <1>7, RequestEffect DEF LockExclusive, Modes
    <2>3. LockPhase(p)'
        BY <1>0, <1>7, <2>1, <2>2 DEF ReadInv, LockPhase, LockExclusive, At, Session, Outside
    <2> QED BY <1>c, <2>1, <2>2, <2>3
<1>8. ASSUME NEW p \in Procs, LookAgain(p) PROVE TypeInv'
    <2>1. World' /\ DbMoves /\ db' = db /\ stamps' = stamps /\ UNCHANGED lockVars
          /\ rd[p].pc = "relock" /\ lpc[p] = "in" /\ mode[p] = "EX"
        BY <1>8, <1>a DEF LookAgain, At
    <2>2. LockInv' /\ LockKept(p) /\ lpc' = lpc /\ mode' = mode
        BY <1>0, <2>1, SameLock
    <2>3. /\ Typed' /\ Kept(p) /\ Carried(p)
          /\ rd'[p].pc = "recheck" /\ rd'[p].todo = Files /\ rd'[p].scan = [f \in Files |-> Idle]
          /\ rd'[p].try = rd[p].try /\ rd'[p].stamp = rd[p].stamp /\ rd'[p].bad = rd[p].bad
        BY <1>0, <1>8, ScanFromEffect DEF LookAgain, ReadPC
    <2>4. ReadInv(p) /\ [f \in Files |-> Idle] \in Maybe(KeySet)
        BY <1>0 DEF Maybe
    <2>5. Locals(p)' /\ LockPhase(p)' /\ Loaded(p)' /\ Known(p)'
        BY <2>1, <2>2, <2>3, <2>4 DEF ReadInv, Locals, LockPhase, Loaded, Known, Carried, Same, Scanning,
                                      Filling, Session, Outside
    <2> QED BY <2>1, <2>2, <2>3, <2>5, StepTyped DEF ReadInv
<1>9. ASSUME NEW p \in Procs, Decide(p) PROVE TypeInv'
    <2>1. UNCHANGED <<files, stamps, damage, crashes>>
        BY <1>9 DEF Decide
    <2>2. /\ Typed' /\ Kept(p) /\ Carried(p) /\ UNCHANGED lockVars /\ Same(p)
          /\ rd[p].pc = "recheck" /\ rd'[p].bad = rd[p].bad
          /\ \/ db' = db /\ rd'[p].pc = "decide"
             \/ /\ db' = NoDb \/ db' = db
                /\ rd'[p].pc = "refresh"
                /\ rd'[p].scan \in Maybe(KeySet) /\ rd'[p].rows \in Maybe(RowSet)
        BY <1>9, DecideEffect
    <2>3. LockInv' /\ LockKept(p) /\ lpc' = lpc /\ mode' = mode
        BY <1>0, <2>2, SameLock
    <2>4. DbMoves /\ World' /\ stamps' = stamps
        <3>1. db' = db \/ db' = NoDb
            BY <2>2
        <3>2. NoDb \in [stamp : Nat, ok : BOOLEAN, rows : Maybe(RowSet)] /\ NoDb.stamp = 0
            BY DEF NoDb, Maybe
        <3> QED BY <1>0, <2>1, <3>1, <3>2 DEF World, files, DbMoves
    <2>5. ReadInv(p)
        BY <1>0
    <2>6. Locals(p)' /\ LockPhase(p)' /\ Loaded(p)' /\ Known(p)'
        BY <2>2, <2>3, <2>4, <2>5 DEF ReadInv, Locals, LockPhase, Loaded, Known, Carried, Same, Scanning,
                                      Filling, Session, Outside
    <2> QED BY <2>2, <2>3, <2>4, <2>6, StepTyped DEF ReadInv
<1>10. ASSUME NEW p \in Procs, TakeFile(p) PROVE TypeInv'
    <2>1. World' /\ DbMoves /\ db' = db /\ stamps' = stamps
        BY <1>10, <1>a DEF TakeFile
    <2>2. /\ Typed' /\ Kept(p) /\ Carried(p) /\ UNCHANGED lockVars /\ Same(p)
          /\ rd[p].pc = "refresh" /\ rd'[p].bad = rd[p].bad
          /\ rd'[p].rows = rd[p].rows /\ rd[p].rows \in Maybe(RowSet)
          /\ \/ rd'[p].pc \in {"decide", "commit"}
             \/ \E f \in Files :
                   /\ rd'[p].pc = "file" /\ rd'[p].todo = {f} /\ rd'[p].scan[f] = Key(f)
                   /\ rd'[p].scan \in Maybe(KeySet)
        BY <1>10, TakeFileEffect
    <2>3. LockInv' /\ LockKept(p) /\ lpc' = lpc /\ mode' = mode
        BY <1>0, <2>2, SameLock
    <2>4. ReadInv(p) /\ \A f \in Files : Key(f) \in KeySet
        BY <1>0, FileTypes
    <2>5. LockPhase(p)' /\ Loaded(p)' /\ Known(p)'
        BY <2>1, <2>2, <2>3, <2>4 DEF ReadInv, Locals, LockPhase, Loaded, Known, Carried, Same, Scanning,
                                      Filling, Session, Outside
    <2>6. Locals(p)'
        BY <2>2, <2>4 DEF ReadInv, Locals, Carried, Scanning, Filling
    <2> QED BY <2>1, <2>2, <2>3, <2>5, <2>6, StepTyped DEF ReadInv
<1>11. ASSUME NEW p \in Procs, ReadFile(p) PROVE TypeInv'
    <2>1. World' /\ DbMoves /\ db' = db /\ stamps' = stamps
        BY <1>11, <1>a DEF ReadFile
    <2>2. /\ Typed' /\ Kept(p) /\ Carried(p) /\ UNCHANGED lockVars /\ Same(p)
          /\ rd[p].pc = "file" /\ rd'[p].pc = "verify" /\ rd'[p].bad = rd[p].bad
          /\ rd'[p].scan = rd[p].scan /\ rd[p].scan \in Maybe(KeySet)
          /\ rd'[p].rows \in Maybe(RowSet)
          /\ \E f \in Files : rd'[p].todo = {f} /\ rd[p].scan[f] \in KeySet
        BY <1>11, ReadFileEffect
    <2>3. LockInv' /\ LockKept(p) /\ lpc' = lpc /\ mode' = mode
        BY <1>0, <2>2, SameLock
    <2>4. ReadInv(p)
        BY <1>0
    <2>5. Locals(p)' /\ LockPhase(p)' /\ Loaded(p)' /\ Known(p)'
        BY <2>1, <2>2, <2>3, <2>4 DEF ReadInv, Locals, LockPhase, Loaded, Known, Carried, Same, Scanning,
                                      Filling, Session, Outside
    <2> QED BY <2>1, <2>2, <2>3, <2>5, StepTyped DEF ReadInv
<1>12. ASSUME NEW p \in Procs, VerifyFile(p) PROVE TypeInv'
    <2>1. World' /\ DbMoves /\ db' = db /\ stamps' = stamps
        BY <1>12, <1>a DEF VerifyFile
    <2>2. /\ Typed' /\ Kept(p) /\ rd[p].pc = "verify"
          /\ rd[p].scan \in Maybe(KeySet) /\ rd[p].rows \in Maybe(RowSet)
          /\ \/ /\ UNCHANGED lockVars /\ Carried(p) /\ Same(p) /\ rd'[p].bad = rd[p].bad
                /\ rd'[p].pc = "refresh" /\ rd'[p].rows = rd[p].rows
                /\ rd'[p].scan = rd[p].scan
             \/ Fail(p) /\ Release(p)
        BY <1>12, VerifyEffect
    <2>3. CASE Fail(p) /\ Release(p)
        <3>1. LockInv' /\ LockKept(p) /\ lpc'[p] = "out"
            BY <1>0, <2>3, ReleaseEffect
        <3> QED BY <1>0, <1>b, <2>1, <2>2, <2>3, <3>1, FailEffect
    <2>4. CASE /\ UNCHANGED lockVars /\ Carried(p) /\ Same(p) /\ rd'[p].bad = rd[p].bad
               /\ rd'[p].pc = "refresh" /\ rd'[p].rows = rd[p].rows
               /\ rd'[p].scan = rd[p].scan
        <3>1. LockInv' /\ LockKept(p) /\ lpc' = lpc /\ mode' = mode
            BY <1>0, <2>4, SameLock
        <3>2. ReadInv(p)
            BY <1>0
        <3>3. Locals(p)' /\ LockPhase(p)' /\ Loaded(p)' /\ Known(p)'
            BY <2>1, <2>2, <2>4, <3>1, <3>2 DEF ReadInv, Locals, LockPhase, Loaded, Known, Carried, Same, Scanning,
                                      Filling, Session, Outside
        <3> QED BY <2>1, <2>2, <3>1, <3>3, StepTyped DEF ReadInv
    <2> QED BY <2>2, <2>3, <2>4
<1>13. ASSUME NEW p \in Procs, Commit(p) PROVE TypeInv'
    <2>1. /\ rd[p].pc = "commit" /\ Move(p, "decide") /\ stamps' = stamps + 1
          /\ db' = [stamp |-> stamps + 1, ok |-> TRUE, rows |-> rd[p].rows]
          /\ UNCHANGED <<lockVars, files, damage, crashes>>
        BY <1>13 DEF Commit, At
    <2>2. LockInv' /\ LockKept(p) /\ lpc' = lpc /\ mode' = mode
        BY <1>0, <2>1, SameLock
    <2>3. /\ Typed' /\ Kept(p) /\ Carried(p) /\ Same(p) /\ rd'[p].bad = rd[p].bad
          /\ rd'[p].pc = "decide"
        BY <1>0, <2>1, MoveEffect DEF ReadPC, Same
    <2>4. ReadInv(p) /\ rd[p].rows \in Maybe(RowSet) /\ stamps \in Nat
        BY <1>0, <2>1 DEF World, ReadInv, Locals, Filling
    <2>5. DbMoves /\ World'
        BY <1>0, <2>1, <2>4 DEF World, files, DbMoves
    <2>6. Locals(p)' /\ LockPhase(p)' /\ Loaded(p)'
        BY <2>1, <2>2, <2>3, <2>4 DEF ReadInv, Locals, LockPhase, Loaded, Known, Carried, Same, Scanning,
                                      Filling, Session, Outside
    <2>7. Known(p)'
        BY <1>0, <2>1, <2>3, <2>4 DEF ReadInv, Known, Carried, Same, ReadSet
    <2> QED BY <2>2, <2>3, <2>5, <2>6, <2>7, StepTyped DEF ReadInv
<1>14. ASSUME NEW p \in Procs, EndRefresh(p) PROVE TypeInv'
    <2>1. World' /\ DbMoves /\ db' = db /\ stamps' = stamps
        BY <1>14, <1>a DEF EndRefresh
    <2>2. /\ Typed' /\ Kept(p) /\ Carried(p) /\ Release(p) /\ rd[p].pc = "decide"
          /\ rd'[p].pc = "lock" /\ rd'[p].stamp = rd[p].stamp /\ rd'[p].bad = rd[p].bad
        BY <1>14, EndRefreshEffect
    <2>3. LockInv' /\ LockKept(p) /\ lpc'[p] = "out"
        BY <1>0, <2>2, ReleaseEffect
    <2>4. ReadInv(p)
        BY <1>0
    <2>5. Locals(p)' /\ LockPhase(p)' /\ Loaded(p)' /\ Known(p)'
        BY <2>1, <2>2, <2>3, <2>4 DEF ReadInv, Locals, LockPhase, Loaded, Known, Carried, Same, Scanning,
                                      Filling, Session, Outside
    <2> QED BY <2>1, <2>2, <2>3, <2>5, StepTyped DEF ReadInv
<1>15. ASSUME NEW p \in Procs, LockAgain(p) PROVE TypeInv'
    <2>1. World' /\ DbMoves /\ db' = db /\ stamps' = stamps /\ rd' = rd
        BY <1>15, <1>a DEF LockAgain
    <2>2. LockInv' /\ LockKept(p) /\ lpc'[p] = "gate" /\ mode'[p] = "SH"
        BY <1>0, <1>15, RequestEffect DEF LockAgain, Modes
    <2>3. LockPhase(p)'
        BY <1>15, <2>1, <2>2 DEF LockPhase, LockAgain, At, Session, Outside
    <2> QED BY <1>c, <2>1, <2>2, <2>3
<1>16. ASSUME NEW p \in Procs, LockSteps(p) PROVE TypeInv'
    <2>1. World' /\ DbMoves /\ db' = db /\ stamps' = stamps /\ rd' = rd
        BY <1>16, <1>a DEF LockSteps
    <2>2. LockInv' /\ LockKept(p) /\ lpc[p] \in {"gate", "pass", "main"} /\ mode'[p] = mode[p]
        BY <1>0, <1>16, WaitEffect DEF LockSteps
    <2>3. LockPhase(p)'
        BY <1>0, <2>1, <2>2 DEF ReadInv, LockPhase
    <2> QED BY <1>c, <2>1, <2>2, <2>3
<1>17. ASSUME NEW p \in Procs, GiveUp(p) PROVE TypeInv'
    <2>1. World' /\ DbMoves /\ db' = db /\ stamps' = stamps
        BY <1>17, <1>a DEF GiveUp
    <2>2. LockInv' /\ LockKept(p) /\ lpc[p] # "out" /\ lpc'[p] = "out"
        BY <1>0, <1>17, TimeOutEffect DEF GiveUp
    <2>3. rd[p].pc # "idle"
        BY <1>0, <2>2 DEF ReadInv, LockPhase, Outside
    <2> QED BY <1>0, <1>17, <1>b, <2>1, <2>2, <2>3, GiveUpEffect
<1>18. ASSUME NEW p \in Procs, Crash(p) PROVE TypeInv'
    <2>1. World' /\ DbMoves
        <3>1. crashes' = crashes + 1 /\ crashes < MaxCrashes /\ crashes \in 0..MaxCrashes
              /\ MaxCrashes \in Nat /\ UNCHANGED <<files, cache>>
            BY <1>0, <1>18, CacheAssumption DEF Crash, World
        <3>2. crashes' \in 0..MaxCrashes
            BY <3>1
        <3> QED BY <1>0, <3>1, <3>2, WorldKept
    <2>2. LockInv' /\ LockKept(p) /\ lpc'[p] = "out"
        BY <1>0, <1>18, DeathEffect
    <2>3. Typed' /\ Kept(p) /\ rd'[p] = NoRead
        BY <1>0, <1>18, CrashEffect
    <2>4. Locals(p)' /\ LockPhase(p)' /\ Loaded(p)'
        BY <2>2, <2>3 DEF NoRead, Locals, LockPhase, Loaded, Scanning, Filling, Session, Outside
    <2>5. Known(p)'
        BY <2>1, <2>3 DEF NoRead, Known, DbMoves
    <2> QED BY <2>1, <2>2, <2>3, <2>4, <2>5, StepTyped DEF ReadInv
<1>19. ASSUME NEW f \in Files, WriteFile(f) PROVE TypeInv'
    <2>1. /\ \E t \in Seq(Nat) : Written(f, t)
          /\ Disturb /\ UNCHANGED <<lockVars, cache, crashes>> /\ writes' = writes + 1
        BY <1>0, <1>19, WriteEffect
    <2>2. past' \in [Files -> Seq(Seq(Nat))] /\ \A g \in Files : past'[g] # <<>>
        BY <1>0, <2>1, WrittenGrows
    <2>3. World' /\ DbMoves /\ db' = db
        BY <1>0, <2>1, <2>2 DEF World, cache, DbMoves
    <2> QED BY <2>1, <2>3, DisturbTyped DEF TypeInv
<1>20. ASSUME Damage PROVE TypeInv'
    <2>1. /\ Disturb /\ UNCHANGED <<lockVars, files, crashes>>
          /\ stamps' = stamps + 1 /\ db'.stamp = stamps + 1 /\ damage' \in 0..MaxDamage
          /\ db' \in [stamp : Nat, ok : BOOLEAN, rows : Maybe(RowSet)]
        BY <1>0, <1>20, DamageEffect
    <2>2. World' /\ DbMoves
        BY <1>0, <2>1 DEF World, files, DbMoves
    <2> QED BY <2>1, <2>2, DisturbTyped DEF TypeInv
<1>21. CASE UNCHANGED vars
    <2>1. UNCHANGED lockVars /\ UNCHANGED <<past, writes, db, stamps, damage, crashes, rd>>
        BY <1>21 DEF vars, files, cache
    <2>2. LockInv' /\ lpc' = lpc /\ mode' = mode
        BY <1>0, <2>1, SameLock
    <2>3. World' /\ Typed'
        BY <1>0, <2>1 DEF World, Typed
    <2>4. ASSUME NEW p \in Procs PROVE ReadInv(p)'
        BY <1>0, <2>1, <2>2 DEF ReadInv, Locals, LockPhase, Known, Loaded
    <2> QED BY <2>2, <2>3, <2>4 DEF TypeInv
<1> QED
    BY <1>1, <1>2, <1>3, <1>4, <1>5, <1>6, <1>7, <1>8, <1>9, <1>10, <1>11, <1>12, <1>13, <1>14,
       <1>15, <1>16, <1>17, <1>18, <1>19, <1>20, <1>21 DEF Next

-----------------------------------------------------------------------------
(* What is recorded of a file is what the file held *)

LEMMA CacheInit == Init => CacheInv
<1> SUFFICES ASSUME Init PROVE CacheInv
    OBVIOUS
<1>1. Grows
    <2>1. Len(<< <<>> >>) = 1 /\ \A v \in 1..1 : v = 1
        OBVIOUS
    <2>2. \A f \in Files : past[f] = << <<>> >>
        BY DEF Init
    <2> QED BY <2>1, <2>2 DEF Grows, Version, Text
<1>2. \A f \in Files : db.rows[f] = Idle
    BY DEF Init, NoDb
<1>3. \A p \in Procs : rd[p].pc = "idle"
    BY DEF Init, NoRead
<1> QED BY <1>1, <1>2, <1>3 DEF CacheInv, RowGood, RowsGood

LEMMA SameGood ==
    ASSUME NEW q \in Procs, RowsGood(q), past' = past,
           rd'[q].pc = rd[q].pc, rd'[q].scan = rd[q].scan, rd'[q].todo = rd[q].todo,
           rd'[q].rows = rd[q].rows
    PROVE  RowsGood(q)'
<1>1. \A f \in Files : RowGood(rd[q].rows[f], f)' <=> RowGood(rd[q].rows[f], f)
    BY DEF RowGood, KeyGood, Version
<1>2. \A f \in Files : KeyStands(q, f)' <=> KeyStands(q, f)
    BY DEF KeyStands, Key, Version, Text
<1>3. rd'[q].pc \in {"refresh", "file", "commit"} => \A f \in Files : RowGood(rd[q].rows[f], f)'
    BY <1>1 DEF RowsGood
<1>4. rd'[q].pc \in {"file", "verify"} => \A f \in rd[q].todo : KeyGood(rd[q].scan[f], f)'
    BY DEF RowsGood, KeyGood, Version
<1>5. rd'[q].pc = "verify" =>
        \A f \in Files : (f \in rd[q].todo => KeyStands(q, f)') => RowGood(rd[q].rows[f], f)'
    BY <1>1, <1>2 DEF RowsGood
<1> QED BY <1>3, <1>4, <1>5 DEF RowsGood

LEMMA OthersGood ==
    ASSUME CacheInv, NEW p \in Procs, Kept(p), past' = past
    PROVE  \A q \in Procs : q # p => RowsGood(q)'
<1> SUFFICES ASSUME NEW q \in Procs, q # p PROVE RowsGood(q)'
    OBVIOUS
<1>1. rd'[q] = rd[q] /\ RowsGood(q)
    BY DEF CacheInv, Kept
<1> QED BY <1>1, SameGood

LEMMA StepGood ==
    ASSUME CacheInv, NEW p \in Procs, Kept(p), past' = past,
           \A f \in Files : RowGood(db'.rows[f], f), RowsGood(p)'
    PROVE  CacheInv'
<1>1. \A q \in Procs : RowsGood(q)'
    BY OthersGood
<1>2. Grows'
    BY DEF CacheInv, Grows, Version, Text
<1>3. \A f \in Files : RowGood(db.rows[f], f)'
    BY DEF RowGood, KeyGood, Version
<1> QED BY <1>1, <1>2, <1>3 DEF CacheInv

\* What is good stays good when files grow.
LEMMA KeyStays ==
    ASSUME World, Longer, NEW f \in Files, NEW key, KeyGood(key, f)
    PROVE  key.ver \in 1..Version(f)' /\ key.size = Len(past'[f][key.ver])
<1>1. /\ key.ver \in 1..Version(f) /\ key.size = Len(past[f][key.ver])
      /\ Version(f)' \in Nat /\ Version(f) <= Version(f)' /\ Version(f) \in Nat
      /\ past'[f][key.ver] = past[f][key.ver]
    BY FileTypes DEF KeyGood, Longer
<1>2. key.ver \in 1..Version(f)'
    BY <1>1
<1> QED BY <1>1, <1>2

\* RowGood(row, f) after the step, of the row as it was before.
RowLater(row, f) ==
    row # Idle => /\ row.key.ver \in 1..Version(f)' /\ row.key.size = Len(past'[f][row.key.ver])
                  /\ row.raw = past'[f][row.key.ver]
                  /\ row.events = Parse(Complete(row.raw)) /\ row.tail = Parse(Rest(row.raw))

LEMMA RowStays ==
    ASSUME World, Longer, NEW f \in Files, NEW row, RowGood(row, f)
    PROVE  RowLater(row, f)
<1>1. row # Idle => KeyGood(row.key, f)
    BY DEF RowGood
<1>2. row # Idle => row.key.ver \in 1..Version(f)' /\ row.key.size = Len(past'[f][row.key.ver])
    BY <1>1, KeyStays
<1>3. row # Idle => past'[f][row.key.ver] = past[f][row.key.ver]
    BY <1>1 DEF KeyGood, Longer
<1> QED BY <1>2, <1>3 DEF RowGood, RowLater

LEMMA WriteGood ==
    ASSUME TypeInv, CacheInv, NEW f \in Files, WriteFile(f)
    PROVE  CacheInv'
<1>0. World /\ Typed
    BY DEF TypeInv
<1>1. PICK t \in Seq(Nat) : Written(f, t) /\ Len(Text(f)) <= Len(t)
    BY <1>0, WriteEffect
<1>2. Disturb /\ db' = db
    BY <1>0, WriteEffect DEF cache
<1>3. /\ Longer /\ Version(f)' = Version(f) + 1 /\ past'[f][Version(f) + 1] = t
      /\ \A g \in Files : g # f => past'[g] = past[g]
    BY <1>0, <1>1, WrittenGrows
<1>4. Grows'
    <2>1. ASSUME NEW g \in Files, NEW v \in 1..Version(g)'
          PROVE  Len(past'[g][v]) <= Len(past'[g][Version(g)'])
        <3>1. CASE g # f
            <4>1. Version(g)' = Version(g) /\ past'[g] = past[g]
                BY <1>3, <3>1 DEF Version
            <4> QED BY <2>1, <4>1 DEF CacheInv, Grows, Text
        <3>2. CASE g = f
            <4>1. Version(f) \in Nat /\ Len(Text(f)) \in Nat /\ Len(t) \in Nat
                BY <1>0, FileTypes, LenProperties
            <4>2. CASE v = Version(f) + 1
                BY <1>3, <3>2, <4>1, <4>2
            <4>3. CASE v # Version(f) + 1
                <5>1. v \in 1..Version(f)
                    BY <1>3, <2>1, <3>2, <4>1, <4>3
                <5>2. past'[f][v] = past[f][v] /\ Len(past[f][v]) <= Len(Text(f))
                    BY <1>3, <5>1 DEF Longer, CacheInv, Grows
                <5>3. Len(past[f][v]) \in Nat
                    BY <1>0, <5>1, FileTypes, LenProperties
                <5> QED BY <1>1, <1>3, <3>2, <4>1, <5>2, <5>3
            <4> QED BY <4>2, <4>3
        <3> QED BY <3>1, <3>2
    <2> QED BY <2>1 DEF Grows, Text
<1>5. \A g \in Files : RowGood(db.rows[g], g)'
    <2>1. \A g \in Files : RowLater(db.rows[g], g)
        BY <1>0, <1>3, RowStays DEF CacheInv
    <2> QED BY <1>2, <2>1 DEF RowLater, RowGood, KeyGood
<1>6. ASSUME NEW q \in Procs PROVE RowsGood(q)'
    <2>1. rd'[q].pc = rd[q].pc /\ rd'[q].scan = rd[q].scan /\ rd'[q].todo = rd[q].todo
          /\ rd'[q].rows = rd[q].rows
        BY <1>0, <1>2, DisturbEffect
    <2>2. RowsGood(q)
        BY DEF CacheInv
    <2>3. rd[q].todo \subseteq Files
        BY <1>0 DEF Typed, ReadSet
    <2>4. CASE rd[q].pc \in {"refresh", "file", "commit"}
        <3>1. \A g \in Files : RowLater(rd[q].rows[g], g)
            BY <1>0, <1>3, <2>2, <2>4, RowStays DEF RowsGood
        <3>2. rd[q].pc = "file" => \A g \in rd[q].todo : KeyGood(rd[q].scan[g], g)
            BY <2>2 DEF RowsGood
        <3>3. rd[q].pc = "file" => \A g \in rd[q].todo :
                  rd[q].scan[g].ver \in 1..Version(g)'
                  /\ rd[q].scan[g].size = Len(past'[g][rd[q].scan[g].ver])
            BY <1>0, <1>3, <2>3, <3>2, KeyStays
        <3> QED BY <2>1, <2>4, <3>1, <3>3 DEF RowsGood, RowLater, RowGood, KeyGood
    <2>5. CASE rd[q].pc = "verify"
        <3>1. \A g \in rd[q].todo : KeyGood(rd[q].scan[g], g)
            BY <2>2, <2>5 DEF RowsGood
        <3>2. \A g \in rd[q].todo :
                  rd[q].scan[g].ver \in 1..Version(g)'
                  /\ rd[q].scan[g].size = Len(past'[g][rd[q].scan[g].ver])
            BY <1>0, <1>3, <2>3, <3>1, KeyStays
        <3>3. ASSUME NEW g \in Files, g \in rd[q].todo => KeyStands(q, g)'
              PROVE  g \in rd[q].todo => KeyStands(q, g)
            <4>1. g \in rd[q].todo => Key(g)' = rd[q].scan[g] /\ g # f
                <5>1. ASSUME g \in rd[q].todo, g = f PROVE FALSE
                    <6>1. Key(f)' = rd[q].scan[f]
                        BY <2>1, <3>3, <5>1 DEF KeyStands
                    <6>2. rd[q].scan[f].ver = Version(f) + 1
                        BY <1>3, <6>1 DEF Key
                    <6>3. rd[q].scan[f].ver \in 1..Version(f) /\ Version(f) \in Nat
                        BY <1>0, <3>1, <5>1, FileTypes DEF KeyGood
                    <6> QED BY <6>2, <6>3
                <5> QED BY <2>1, <3>3, <5>1 DEF KeyStands
            <4> QED BY <1>3, <4>1 DEF KeyStands, Key, Version, Text
        <3>4. \A g \in Files : (g \in rd[q].todo => KeyStands(q, g)') => RowGood(rd[q].rows[g], g)
            BY <2>2, <2>5, <3>3 DEF RowsGood
        <3>5. \A g \in Files : (g \in rd[q].todo => KeyStands(q, g)') => RowLater(rd[q].rows[g], g)
            BY <1>0, <1>3, <3>4, RowStays
        <3> QED BY <2>1, <2>5, <3>2, <3>5 DEF RowsGood, RowLater, RowGood, KeyGood
    <2>6. CASE rd[q].pc \notin {"refresh", "file", "verify", "commit"}
        BY <2>1, <2>6 DEF RowsGood
    <2> QED BY <2>4, <2>5, <2>6
<1> QED BY <1>4, <1>5, <1>6 DEF CacheInv

\* Where RowsGood asks something.
Busy == {"refresh", "file", "verify", "commit"}

LEMMA CacheStep ==
    ASSUME TypeInv, CacheInv, [Next]_vars
    PROVE  CacheInv'
<1>0. /\ LockInv /\ World /\ Typed
      /\ \A p \in Procs : RowsGood(p) /\ rd[p] \in ReadSet
      /\ \A f \in Files : RowGood(db.rows[f], f)
    BY DEF TypeInv, Typed, CacheInv
\* A step after which nothing is being put together.
<1>a. ASSUME NEW p \in Procs, Kept(p), past' = past, db' = db, rd'[p].pc \notin Busy
      PROVE  CacheInv'
    <2>1. RowsGood(p)'
        BY <1>a DEF RowsGood, Busy
    <2> QED BY <1>0, <1>a, <2>1, StepGood
<1>b. ASSUME rd' = rd, past' = past, db' = db PROVE CacheInv'
    <2>1. Grows'
        BY <1>b DEF CacheInv, Grows, Version, Text
    <2>2. \A f \in Files : RowGood(db.rows[f], f)'
        BY <1>0, <1>b DEF RowGood, KeyGood, Version
    <2>3. \A p \in Procs : RowsGood(p)'
        BY <1>0, <1>b, SameGood
    <2> QED BY <2>1, <2>2, <2>3 DEF CacheInv
<1>1. ASSUME NEW p \in Procs, BeginRead(p) PROVE CacheInv'
    <2>1. Kept(p) /\ rd'[p].pc = "lock"
        BY <1>0, <1>1, BeginEffect
    <2> QED BY <1>1, <1>a, <2>1 DEF BeginRead, files, cache, Busy
<1>2. ASSUME NEW p \in Procs, Inside(p) PROVE CacheInv'
    <2>1. Kept(p) /\ rd'[p].pc \in {"relock", "scan"}
        BY <1>0, <1>2, InsideEffect
    <2> QED BY <1>2, <1>a, <2>1 DEF Inside, files, cache, Busy
<1>3. ASSUME NEW p \in Procs, ScanOne(p) PROVE CacheInv'
    <2>1. /\ Kept(p) /\ rd[p].pc \in {"scan", "recheck", "refresh"}
          /\ rd'[p].pc = rd[p].pc /\ rd'[p].rows = rd[p].rows
        BY <1>3, ScanEffect
    <2>2. past' = past /\ db' = db
        BY <1>3 DEF ScanOne, files, cache
    <2>3. RowsGood(p)'
        <3>1. rd[p].pc = "refresh" => \A f \in Files : RowGood(rd[p].rows[f], f)
            BY <1>0 DEF RowsGood
        <3>2. rd[p].pc = "refresh" => \A f \in Files : RowGood(rd[p].rows[f], f)'
            BY <2>1, <2>2, <3>1 DEF RowGood, KeyGood, Version
        <3> QED BY <2>1, <3>2 DEF RowsGood
    <2> QED BY <1>0, <2>1, <2>2, <2>3, StepGood
<1>4. ASSUME NEW p \in Procs, Compare(p) PROVE CacheInv'
    <2>1. Kept(p) /\ rd'[p].pc \in {"done", "load", "relock"}
        BY <1>4, CompareEffect
    <2> QED BY <1>4, <1>a, <2>1 DEF Compare, files, cache, Busy
<1>5. ASSUME NEW p \in Procs, Load(p) PROVE CacheInv'
    <2>1. Kept(p) /\ rd'[p].pc \in {"done", "relock"}
        BY <1>5, LoadEffect
    <2> QED BY <1>5, <1>a, <2>1 DEF Load, files, cache, Busy
<1>6. ASSUME NEW p \in Procs, Unlock(p) PROVE CacheInv'
    <2>1. CASE Fail(p)
        <3>1. Kept(p) /\ rd'[p].pc = "failed"
            BY <1>0, <2>1, FailEffect
        <3> QED BY <1>6, <1>a, <3>1 DEF Unlock, files, cache, Busy
    <2>2. CASE rd' = rd
        BY <1>6, <1>b, <2>2 DEF Unlock, files, cache
    <2> QED BY <1>0, <1>6, <2>1, <2>2, UnlockEffect
<1>7. ASSUME NEW p \in Procs, LockExclusive(p) \/ LockAgain(p) \/ LockSteps(p) PROVE CacheInv'
    BY <1>7, <1>b DEF LockExclusive, LockAgain, LockSteps, files, cache
<1>8. ASSUME NEW p \in Procs, LookAgain(p) PROVE CacheInv'
    <2>1. Kept(p) /\ rd'[p].pc = "recheck"
        BY <1>0, <1>8, ScanFromEffect DEF LookAgain, ReadPC
    <2> QED BY <1>8, <1>a, <2>1 DEF LookAgain, files, cache, Busy
<1>9. ASSUME NEW p \in Procs, Decide(p) PROVE CacheInv'
    <2>1. past' = past
        BY <1>9 DEF Decide, files
    <2>2. /\ Kept(p)
          /\ \/ db' = db /\ rd'[p].pc = "decide"
             \/ /\ db' = NoDb \/ db' = db
                /\ rd'[p].pc = "refresh" /\ rd'[p].rows = db'.rows
        BY <1>9, DecideEffect
    <2>3. \A f \in Files : RowGood(db'.rows[f], f)
        BY <1>0, <2>2 DEF RowGood, NoDb
    <2>4. RowsGood(p)'
        <3>1. CASE rd'[p].pc = "decide"
            BY <3>1 DEF RowsGood
        <3>2. CASE rd'[p].pc = "refresh" /\ rd'[p].rows = db'.rows
            <4>1. \A f \in Files : RowGood(rd'[p].rows[f], f)
                BY <2>3, <3>2
            <4>2. \A f \in Files : RowGood(rd[p].rows[f], f)'
                BY <2>1, <4>1 DEF RowGood, KeyGood, Version
            <4> QED BY <3>2, <4>2 DEF RowsGood
        <3> QED BY <2>2, <3>1, <3>2
    <2> QED BY <1>0, <2>1, <2>2, <2>3, <2>4, StepGood
<1>10. ASSUME NEW p \in Procs, TakeFile(p) PROVE CacheInv'
    <2>1. past' = past /\ db' = db
        BY <1>10 DEF TakeFile, files, cache
    <2>2. /\ Kept(p) /\ rd[p].pc = "refresh" /\ rd'[p].rows = rd[p].rows
          /\ \/ rd'[p].pc \in {"decide", "commit"}
             \/ \E f \in Files :
                   rd'[p].pc = "file" /\ rd'[p].todo = {f} /\ rd'[p].scan[f] = Key(f)
        BY <1>10, TakeFileEffect
    <2>3. \A f \in Files : RowGood(rd[p].rows[f], f)'
        <3>1. \A f \in Files : RowGood(rd[p].rows[f], f)
            BY <1>0, <2>2 DEF RowsGood
        <3>2. \A f \in Files : rd[p].rows[f]' = rd[p].rows[f]
            BY <2>2
        <3> QED BY <2>1, <3>1, <3>2 DEF RowGood, KeyGood, Version
    <2>4. ASSUME NEW f \in Files, rd'[p].pc = "file", rd'[p].todo = {f}, rd'[p].scan[f] = Key(f)
          PROVE  KeyGood(rd[p].scan[f], f)'
        <3>1. Version(f) \in 1..Version(f) /\ Key(f).size = Len(past[f][Version(f)])
              /\ Key(f).ver = Version(f)
            BY <1>0, FileTypes DEF Text
        <3> QED BY <2>1, <2>4, <3>1 DEF KeyGood, Version
    <2>5. RowsGood(p)'
        BY <2>2, <2>3, <2>4 DEF RowsGood
    <2> QED BY <1>0, <2>1, <2>2, <2>5, StepGood
<1>11. ASSUME NEW p \in Procs, ReadFile(p) PROVE CacheInv'
    <2>1. past' = past /\ db' = db
        BY <1>11 DEF ReadFile, files, cache
    <2>2. /\ Kept(p) /\ rd[p].pc = "file" /\ rd'[p].pc = "verify" /\ rd'[p].scan = rd[p].scan
        BY <1>11, ReadFileEffect
    <2>3. PICK f \in Files :
                /\ rd[p].todo = {f} /\ rd'[p].todo = {f} /\ rd[p].scan[f] \in KeySet
                /\ \A g \in Files : g # f => rd'[p].rows[g] = rd[p].rows[g]
                /\ MadeFrom(rd'[p].rows[f], rd[p].rows[f], rd[p].scan[f],
                            SubSeq(Text(f), 1, rd[p].scan[f].size))
        BY <1>11, ReadFileEffect
    <2>4. KeyGood(rd[p].scan[f], f) /\ \A g \in Files : RowGood(rd[p].rows[g], g)
        BY <1>0, <2>2, <2>3 DEF RowsGood
    <2>5. \A g \in Files : g # f => RowGood(rd[p].rows[g], g)'
        BY <2>1, <2>3, <2>4 DEF RowGood, KeyGood, Version
    <2>6. ASSUME KeyStands(p, f)' PROVE RowGood(rd[p].rows[f], f)'
        <3>1. rd[p].scan[f] = Key(f)
            BY <2>1, <2>2, <2>6 DEF KeyStands, Key, Version, Text
        <3>2. SubSeq(Text(f), 1, rd[p].scan[f].size) = Text(f)
            BY <1>0, <3>1, FileTypes, SubSeqFull
        <3>3. MadeFrom(rd'[p].rows[f], rd[p].rows[f], Key(f), Text(f))
            BY <2>3, <3>1, <3>2
        <3>4. Key(f).ver = Version(f) /\ Key(f).size = Len(Text(f)) /\ Version(f) \in 1..Version(f)
            BY <1>0, FileTypes
        <3> QED BY <2>1, <3>3, <3>4 DEF MadeFrom, RowGood, KeyGood, Version, Text
    <2>7. KeyGood(rd[p].scan[f], f)'
        BY <2>1, <2>2, <2>4 DEF KeyGood, Version
    <2>8. RowsGood(p)'
        BY <2>2, <2>3, <2>5, <2>6, <2>7 DEF RowsGood
    <2> QED BY <1>0, <2>1, <2>2, <2>8, StepGood
<1>12. ASSUME NEW p \in Procs, VerifyFile(p) PROVE CacheInv'
    <2>1. past' = past /\ db' = db
        BY <1>12 DEF VerifyFile, files, cache
    <2>2. Kept(p) /\ rd[p].pc = "verify"
        BY <1>12, VerifyEffect
    <2>3. CASE Fail(p)
        <3>1. rd'[p].pc = "failed"
            BY <1>0, <2>3, FailEffect
        <3> QED BY <1>a, <2>1, <2>2, <3>1 DEF Busy
    <2>4. CASE /\ rd'[p].pc = "refresh" /\ rd'[p].rows = rd[p].rows
               /\ \E f \in Files : rd[p].todo = {f} /\ KeyStands(p, f)
        <3>1. \A g \in Files : RowGood(rd[p].rows[g], g)
            BY <1>0, <2>2, <2>4 DEF RowsGood
        <3>2. RowsGood(p)'
            BY <2>1, <2>4, <3>1 DEF RowsGood, RowGood, KeyGood, Version
        <3> QED BY <1>0, <2>1, <2>2, <3>2, StepGood
    <2> QED BY <1>12, <2>3, <2>4, VerifyEffect
<1>13. ASSUME NEW p \in Procs, Commit(p) PROVE CacheInv'
    <2>1. /\ rd[p].pc = "commit" /\ Move(p, "decide") /\ past' = past
          /\ db'.rows = rd[p].rows
        BY <1>13 DEF Commit, At, files
    <2>2. Kept(p) /\ rd'[p].pc = "decide"
        BY <1>0, <2>1, MoveEffect DEF ReadPC
    <2>3. \A f \in Files : RowGood(db'.rows[f], f)
        BY <1>0, <2>1 DEF RowsGood
    <2>4. RowsGood(p)'
        BY <2>2 DEF RowsGood
    <2> QED BY <1>0, <2>1, <2>2, <2>3, <2>4, StepGood
<1>14. ASSUME NEW p \in Procs, EndRefresh(p) PROVE CacheInv'
    <2>1. Kept(p) /\ rd'[p].pc = "lock"
        BY <1>14, EndRefreshEffect
    <2> QED BY <1>14, <1>a, <2>1 DEF EndRefresh, files, cache, Busy
<1>15. ASSUME NEW p \in Procs, GiveUp(p) PROVE CacheInv'
    <2>1. Kept(p) /\ rd'[p].pc = "timeout"
        BY <1>0, <1>15, GiveUpEffect
    <2> QED BY <1>15, <1>a, <2>1 DEF GiveUp, files, cache, Busy
<1>16. ASSUME NEW p \in Procs, Crash(p) PROVE CacheInv'
    <2>1. Kept(p) /\ rd'[p].pc = "idle"
        BY <1>0, <1>16, CrashEffect DEF NoRead
    <2> QED BY <1>16, <1>a, <2>1 DEF Crash, files, cache, Busy
<1>17. ASSUME NEW f \in Files, WriteFile(f) PROVE CacheInv'
    BY <1>17, WriteGood
<1>18. ASSUME Damage PROVE CacheInv'
    <2>1. Disturb /\ past' = past
        BY <1>0, <1>18, DamageEffect DEF files
    <2>2. ASSUME NEW g \in Files PROVE RowGood(db.rows[g], g)'
        <3>1. CASE db'.rows = db.rows
            BY <1>0, <2>1, <3>1 DEF RowGood, KeyGood, Version
        <3>2. CASE \E f \in Files :
                    /\ db.rows[f] # Idle
                    /\ db'.rows = [db.rows EXCEPT ![f] = [db.rows[f] EXCEPT !.bad = TRUE]]
            <4>1. PICK f \in Files :
                    /\ db.rows[f] # Idle
                    /\ db'.rows = [db.rows EXCEPT ![f] = [db.rows[f] EXCEPT !.bad = TRUE]]
                BY <3>2
            <4>2. CASE g # f
                <5>1. db'.rows[g] = db.rows[g]
                    BY <1>0, <4>1, <4>2 DEF World, Maybe
                <5> QED BY <1>0, <2>1, <5>1 DEF RowGood, KeyGood, Version
            <4>3. CASE g = f
                <5>1. db.rows[f] \in RowSet /\ db'.rows[f] = [db.rows[f] EXCEPT !.bad = TRUE]
                    BY <1>0, <4>1 DEF World, Maybe
                <5>2. /\ db'.rows[f].key = db.rows[f].key /\ db'.rows[f].raw = db.rows[f].raw
                      /\ db'.rows[f].events = db.rows[f].events
                      /\ db'.rows[f].tail = db.rows[f].tail
                    BY <5>1 DEF RowSet
                <5> QED BY <1>0, <2>1, <4>1, <4>3, <5>2 DEF RowGood, KeyGood, Version
            <4> QED BY <4>2, <4>3
        <3> QED BY <1>0, <1>18, <3>1, <3>2, DamageEffect
    <2>3. Grows'
        BY <2>1 DEF CacheInv, Grows, Version, Text
    <2>4. ASSUME NEW q \in Procs PROVE RowsGood(q)'
        <3>1. rd'[q].pc = rd[q].pc /\ rd'[q].scan = rd[q].scan /\ rd'[q].todo = rd[q].todo
              /\ rd'[q].rows = rd[q].rows
            BY <1>0, <2>1, DisturbEffect
        <3> QED BY <1>0, <2>1, <3>1, SameGood
    <2> QED BY <2>2, <2>3, <2>4 DEF CacheInv
<1>19. CASE UNCHANGED vars
    BY <1>19, <1>b DEF vars, files, cache
<1> QED
    BY <1>1, <1>2, <1>3, <1>4, <1>5, <1>6, <1>7, <1>8, <1>9, <1>10, <1>11, <1>12, <1>13, <1>14,
       <1>15, <1>16, <1>17, <1>18, <1>19 DEF Next

\* Locks, types and the cache's rows, together.
CacheTypeInv == TypeInv /\ CacheInv

LEMMA CacheInvariance == Spec => []CacheTypeInv
<1>1. Init => CacheTypeInv
    BY TypeInit, CacheInit DEF CacheTypeInv
<1>2. CacheTypeInv /\ [Next]_vars => CacheTypeInv'
    BY TypeStep, CacheStep DEF CacheTypeInv
<1> QED BY <1>1, <1>2, PTL DEF Spec

-----------------------------------------------------------------------------
(* The bounds, and with them the types *)

\* A text of the first n writes: two tokens each, at most.
WrittenBy(t, n) == t \in Seq(0..(2 * n)) /\ Len(t) <= 2 * n

\* What there is was written, see MaxWrites.
Bounded ==
    /\ writes <= MaxWrites
    /\ \A f \in Files : /\ Version(f) <= writes + 1
                        /\ \A v \in 1..Version(f) : WrittenBy(past[f][v], writes)

LEMMA SeqWider ==
    ASSUME NEW A, NEW B, A \subseteq B, NEW s \in Seq(A)
    PROVE  s \in Seq(B)
<1>1. Len(s) \in Nat /\ s = [i \in 1..Len(s) |-> s[i]] /\ \A i \in 1..Len(s) : s[i] \in A
    BY LenProperties
<1> QED BY <1>1

LEMMA WrittenByLater ==
    ASSUME NEW n \in Nat, NEW t, WrittenBy(t, n)
    PROVE  WrittenBy(t, n + 1)
<1>1. 0..(2 * n) \subseteq 0..(2 * (n + 1)) /\ Len(t) \in Nat
    BY LenProperties DEF WrittenBy
<1>2. t \in Seq(0..(2 * (n + 1)))
    BY <1>1 DEF WrittenBy
<1> QED BY <1>1, <1>2 DEF WrittenBy

LEMMA WriteBounded ==
    ASSUME World, Bounded, NEW f \in Files, WriteFile(f)
    PROVE  /\ \E t \in Seq(Nat) : Written(f, t) /\ WrittenBy(t, writes + 1)
           /\ writes' = writes + 1 /\ writes < MaxWrites
<1> DEFINE T == 0..(2 * (writes + 1))
<1>1. writes \in Nat /\ writes < MaxWrites /\ Text(f) \in Seq(Nat) /\ Version(f) \in Nat \ {0}
    BY FileTypes DEF World, WriteFile, WritesLeft
<1>2. WrittenBy(Text(f), writes)
    BY <1>1 DEF Bounded, Text
<1>3. /\ Text(f) \in Seq(T) /\ Len(Text(f)) \in Nat /\ Len(Text(f)) <= 2 * writes
    BY <1>1, <1>2, WrittenByLater, LenProperties DEF WrittenBy
<1>4. Fresh \in T /\ Fresh + 1 \in T /\ End \in T /\ T \subseteq Nat
    BY <1>1 DEF Fresh, End
<1> HIDE DEF T
<1>5. ASSUME NEW t \in Seq(T), Len(t) <= Len(Text(f)) + 2, Write(f, t)
      PROVE  /\ writes' = writes + 1
             /\ \E u \in Seq(Nat) : Written(f, u) /\ WrittenBy(u, writes + 1)
    <2>1. Written(f, t) /\ writes' = writes + 1
        BY <1>5, Zenon DEF Write, Written
    <2>2. t \in Seq(Nat) /\ Len(t) \in Nat
        <3>1. t \in Seq(Nat)
            BY <1>4, <1>5, SeqWider
        <3> QED BY <3>1, LenProperties
    <2>3. Len(t) <= 2 * (writes + 1)
        BY <1>1, <1>3, <1>5, <2>2
    <2>4. WrittenBy(t, writes + 1)
        BY <1>5, <2>3 DEF WrittenBy, T
    <2> QED BY <2>1, <2>2, <2>4
<1>6. CASE Write(f, Append(Text(f), End))
    <2>1. Append(Text(f), End) \in Seq(T) /\ Len(Append(Text(f), End)) = Len(Text(f)) + 1
        BY <1>3, <1>4, AppendProperties
    <2>2. Len(Append(Text(f), End)) <= Len(Text(f)) + 2
        BY <1>3, <2>1
    <2> QED BY <1>1, <1>5, <1>6, <2>1, <2>2
<1>7. CASE Write(f, Text(f) \o <<Fresh, End>>)
    <2>1. <<Fresh, End>> \in Seq(T) /\ Len(<<Fresh, End>>) = 2
        BY <1>4
    <2>2. /\ Text(f) \o <<Fresh, End>> \in Seq(T)
          /\ Len(Text(f) \o <<Fresh, End>>) = Len(Text(f)) + 2
        BY <1>3, <2>1, ConcatProperties
    <2>3. Len(Text(f) \o <<Fresh, End>>) <= Len(Text(f)) + 2
        BY <1>3, <2>2
    <2> QED BY <1>1, <1>5, <1>7, <2>2, <2>3
<1>8. CASE Write(f, Append(Text(f), Fresh))
    <2>1. Append(Text(f), Fresh) \in Seq(T) /\ Len(Append(Text(f), Fresh)) = Len(Text(f)) + 1
        BY <1>3, <1>4, AppendProperties
    <2>2. Len(Append(Text(f), Fresh)) <= Len(Text(f)) + 2
        BY <1>3, <2>1
    <2> QED BY <1>1, <1>5, <1>8, <2>1, <2>2
<1>9. CASE Text(f) # <<>> /\ Write(f, <<Fresh>> \o Tail(Text(f)) \o <<Fresh + 1, End>>)
    <2>1. Tail(Text(f)) \in Seq(T) /\ Len(Tail(Text(f))) = Len(Text(f)) - 1
        BY <1>3, <1>9, HeadTailProperties
    <2>2. <<Fresh>> \in Seq(T) /\ Len(<<Fresh>>) = 1
          /\ <<Fresh + 1, End>> \in Seq(T) /\ Len(<<Fresh + 1, End>>) = 2
        BY <1>4
    <2>3. <<Fresh>> \o Tail(Text(f)) \in Seq(T) /\ Len(<<Fresh>> \o Tail(Text(f))) = Len(Text(f))
        BY <1>3, <2>1, <2>2, ConcatProperties
    <2>4. /\ (<<Fresh>> \o Tail(Text(f))) \o <<Fresh + 1, End>> \in Seq(T)
          /\ Len((<<Fresh>> \o Tail(Text(f))) \o <<Fresh + 1, End>>) = Len(Text(f)) + 2
        BY <2>2, <2>3, ConcatProperties
    <2>5. Len((<<Fresh>> \o Tail(Text(f))) \o <<Fresh + 1, End>>) <= Len(Text(f)) + 2
        BY <1>3, <2>4
    <2> QED BY <1>1, <1>5, <1>9, <2>4, <2>5
<1> QED BY <1>1, <1>6, <1>7, <1>8, <1>9 DEF WriteFile

LEMMA BoundedInit == Init => Bounded
<1> SUFFICES ASSUME Init PROVE Bounded
    OBVIOUS
<1>1. \A f \in Files : past[f] = << <<>> >> /\ writes = 0
    BY DEF Init
<1>2. << <<>> >>[1] = <<>> /\ Len(<< <<>> >>) = 1 /\ <<>> \in Seq(0..(2 * 0)) /\ Len(<<>>) = 0
    OBVIOUS
<1>3. WrittenBy(<<>>, 0)
    BY <1>2 DEF WrittenBy
<1> QED BY <1>1, <1>2, <1>3, CacheAssumption DEF Init, Bounded, Version

LEMMA BoundedStep ==
    ASSUME World, Bounded, [Next]_vars
    PROVE  Bounded'
<1>1. ASSUME UNCHANGED files PROVE Bounded'
    BY <1>1 DEF files, Bounded, Version
<1>2. ASSUME NEW f \in Files, WriteFile(f) PROVE Bounded'
    <2>1. writes' = writes + 1 /\ writes < MaxWrites /\ writes \in Nat /\ MaxWrites \in Nat
        BY <1>2, WriteBounded, CacheAssumption DEF World
    <2>2. PICK t \in Seq(Nat) : Written(f, t) /\ WrittenBy(t, writes + 1)
        BY <1>2, WriteBounded
    <2>3. /\ Longer /\ Version(f)' = Version(f) + 1 /\ past'[f][Version(f) + 1] = t
          /\ \A g \in Files : g # f => past'[g] = past[g]
        BY <2>2, WrittenGrows
    <2>4. ASSUME NEW g \in Files
          PROVE  /\ Version(g)' <= writes + 2
                 /\ \A v \in 1..Version(g)' : WrittenBy(past'[g][v], writes + 1)
        <3>1. /\ Version(g) \in Nat /\ Version(g) <= writes + 1
              /\ \A v \in 1..Version(g) : WrittenBy(past[g][v], writes + 1)
            BY <2>1, FileTypes, WrittenByLater DEF Bounded
        <3>2. CASE g = f
            <4>1. \A v \in 1..Version(f) : past'[f][v] = past[f][v]
                BY <2>3 DEF Longer
            <4>2. \A v \in 1..(Version(f) + 1) : v \in 1..Version(f) \/ v = Version(f) + 1
                BY <3>1, <3>2
            <4>3. \A v \in 1..(Version(f) + 1) : WrittenBy(past'[f][v], writes + 1)
                BY <2>2, <2>3, <3>1, <3>2, <4>1, <4>2
            <4>4. Version(f) + 1 <= writes + 2
                BY <2>1, <3>1, <3>2
            <4> QED BY <2>3, <3>2, <4>3, <4>4
        <3>3. CASE g # f
            <4>1. past'[g] = past[g]
                BY <2>3, <3>3
            <4> QED BY <2>1, <3>1, <4>1 DEF Version
        <3> QED BY <3>2, <3>3
    <2>5. writes' <= MaxWrites /\ writes' + 1 = writes + 2
        BY <2>1
    <2> QED BY <2>1, <2>4, <2>5 DEF Bounded
<1>3. UNCHANGED files \/ \E f \in Files : WriteFile(f)
    <2>1. CASE \E p \in Procs : BeginRead(p) \/ Inside(p) \/ ScanOne(p) \/ Compare(p) \/ Load(p)
        BY <2>1 DEF BeginRead, Inside, ScanOne, Compare, Load
    <2>2. CASE \E p \in Procs : Unlock(p) \/ LockExclusive(p) \/ LookAgain(p) \/ Decide(p)
        BY <2>2 DEF Unlock, LockExclusive, LookAgain, Decide
    <2>3. CASE \E p \in Procs : TakeFile(p) \/ ReadFile(p) \/ VerifyFile(p) \/ Commit(p)
        BY <2>3 DEF TakeFile, ReadFile, VerifyFile, Commit
    <2>4. CASE \E p \in Procs : EndRefresh(p) \/ LockAgain(p) \/ LockSteps(p) \/ GiveUp(p) \/ Crash(p)
        BY <2>4 DEF EndRefresh, LockAgain, LockSteps, GiveUp, Crash
    <2>5. CASE Damage \/ UNCHANGED vars
        BY <2>5 DEF Damage, vars
    <2> QED BY <2>1, <2>2, <2>3, <2>4, <2>5 DEF Next
<1> QED BY <1>1, <1>2, <1>3

LEMMA TypesFollow ==
    ASSUME CacheTypeInv, Bounded
    PROVE  TypeOK
<1>1. /\ World /\ Typed /\ LockTypeOK /\ writes \in Nat /\ MaxWrites \in Nat /\ writes <= MaxWrites
      /\ stamps \in Nat /\ \A p \in Procs : rd[p] \in ReadSet /\ Known(p)
    BY CacheAssumption DEF CacheTypeInv, TypeInv, LockInv, World, Typed, Bounded, ReadInv
<1>2. ASSUME NEW f \in Files, NEW v \in 1..Version(f)
      PROVE  past[f][v] \in Seq(Lines \cup {End}) /\ Len(past[f][v]) \in 0..(2 * MaxWrites)
    <2>1. WrittenBy(past[f][v], writes)
        BY DEF Bounded
    <2>2. 0..(2 * writes) \subseteq Lines \cup {End}
        BY <1>1 DEF Lines, End
    <2>3. past[f][v] \in Seq(Lines \cup {End})
        <3>1. past[f][v] \in Seq(0..(2 * writes))
            BY <2>1 DEF WrittenBy
        <3> QED BY <2>2, <3>1, SeqWider
    <2>4. Len(past[f][v]) \in Nat /\ Len(past[f][v]) <= 2 * writes
        BY <2>1, <2>3, LenProperties DEF WrittenBy
    <2> QED BY <1>1, <2>3, <2>4
<1>3. \A f \in Files : \A i \in DOMAIN past[f] : past[f][i] \in Seq(Lines \cup {End})
    <2>1. \A f \in Files : DOMAIN past[f] = 1..Version(f)
        BY <1>1, FileTypes, LenProperties DEF Version
    <2> QED BY <1>2, <2>1
<1>4. ASSUME NEW f \in Files, db.rows[f] # Idle PROVE db.rows[f] \in Rows
    <2> DEFINE row == db.rows[f]
    <2>1. RowGood(row, f) /\ row \in RowSet
        BY <1>1, <1>4 DEF CacheTypeInv, CacheInv, World, Maybe
    <2> HIDE DEF row
    <2>2. /\ row.key.ver \in 1..Version(f) /\ row.key.size = Len(past[f][row.key.ver])
          /\ row.raw = past[f][row.key.ver]
          /\ row.events = Parse(Complete(row.raw)) /\ row.tail = Parse(Rest(row.raw))
        BY <1>4, <2>1 DEF RowGood, KeyGood, row
    <2>3. row.raw \in Seq(Lines \cup {End}) /\ row.key.size \in 0..(2 * MaxWrites)
        BY <1>2, <2>2
    <2>4. row.key.ver \in 1..(MaxWrites + 1)
        <3>1. Version(f) \in Nat /\ Version(f) <= writes + 1
            BY <1>1, FileTypes DEF Bounded
        <3> QED BY <1>1, <2>2, <3>1
    <2>5. row.events \in Seq(Lines) /\ row.tail \in Seq(Lines)
        <3>1. Complete(row.raw) \in Seq(Lines \cup {End}) /\ Rest(row.raw) \in Seq(Lines \cup {End})
            BY <2>3, CompleteParts, RestParts
        <3>2. /\ row.events \in Seq({t \in Lines \cup {End} : t # End})
              /\ row.tail \in Seq({t \in Lines \cup {End} : t # End})
            BY <2>2, <3>1, ParseType
        <3>3. {t \in Lines \cup {End} : t # End} \subseteq Lines
            OBVIOUS
        <3> QED BY <3>2, <3>3
    <2>6. row.key \in Keys
        BY <2>1, <2>3, <2>4 DEF RowSet, KeySet, Keys
    <2>7. row \in Rows
        BY <2>1, <2>3, <2>5, <2>6 DEF RowSet, Rows
    <2> QED BY <2>7 DEF row
<1>5. db.stamp \in 0..stamps /\ damage \in 0..MaxDamage /\ crashes \in 0..MaxCrashes
    BY <1>1 DEF World
<1>6. \A p \in Procs : /\ rd[p].pc \in ReadPC /\ rd[p].try \in 0..2 /\ rd[p].todo \subseteq Files
                       /\ {rd[p].bad, rd[p].stamp, rd[p].verified} \subseteq 0..stamps
    BY <1>1 DEF ReadSet, Known
<1> QED BY <1>1, <1>3, <1>4, <1>5, <1>6 DEF TypeOK

\* The variables stay in their types: in particular the rows hold keys and
\* lines that were written, and nothing else.
THEOREM CacheTypeCorrect == Spec => []TypeOK
<1>1. Init => Bounded
    BY BoundedInit
<1>2. CacheTypeInv /\ Bounded /\ [Next]_vars => Bounded'
    BY BoundedStep DEF CacheTypeInv, TypeInv
<1>3. CacheTypeInv /\ Bounded => TypeOK
    BY TypesFollow
<1> QED BY <1>1, <1>2, <1>3, CacheInvariance, PTL DEF Spec

-----------------------------------------------------------------------------
(* What the cache publishes, and the lock *)

\* What the cache publishes is what the files held, however the rows were put
\* together: at once, from a part that was kept, or around a torn line.
THEOREM CacheFaithfulHolds == Spec => []CacheFaithful
<1>1. CacheTypeInv => CacheFaithful
    <2> SUFFICES ASSUME CacheTypeInv, NEW f \in Files, db.rows[f] # Idle
                 PROVE  db.rows[f].events \o db.rows[f].tail = Parse(past[f][db.rows[f].key.ver])
        BY DEF CacheFaithful
    <2>1. RowGood(db.rows[f], f) /\ db.rows[f].raw \in Seq(Nat)
        BY DEF CacheTypeInv, CacheInv, TypeInv, World, Maybe, RowSet
    <2> QED BY <2>1, RestParts DEF RowGood
<1> QED BY <1>1, CacheInvariance, PTL

\* The lock keeps its promise in the cache too, where its holders may die.
THEOREM CacheExclusiveHolds == Spec => []Exclusive
<1>1. CacheTypeInv => Exclusive
    BY DEF CacheTypeInv, TypeInv, LockInv
<1> QED BY <1>1, CacheInvariance, PTL

LEMMA NoOvertakingCacheStep ==
    ASSUME TypeInv, [Next]_vars
    PROVE  [\A q \in Procs : Waiting(q) /\ Waiting(q)' => Ahead' \subseteq Ahead]_lockVars
<1>0. LockInv
    BY DEF TypeInv
<1>1. CASE [LockNext]_lockVars
    BY <1>0, <1>1, NoOvertakingStep
<1>2. CASE \E p \in Procs : Crash(p)
    <2>1. PICK p \in Procs : Crash(p)
        BY <1>2
    <2>2. lpc' = [lpc EXCEPT ![p] = "out"] /\ mode' = mode /\ lpc \in [Procs -> LockPC]
        BY <1>0, <2>1 DEF Crash, Goto, LockInv, LockTypeOK
    <2> QED BY <2>2 DEF Ahead
<1>3. [LockNext]_lockVars \/ \E p \in Procs : Crash(p)
    <2>1. UNCHANGED vars => UNCHANGED lockVars
        BY DEF vars
    <2>2. ASSUME NEW p \in Procs,
                 BeginRead(p) \/ Compare(p) \/ Load(p) \/ Unlock(p) \/ LockExclusive(p)
                 \/ VerifyFile(p) \/ EndRefresh(p) \/ LockAgain(p) \/ LockSteps(p) \/ GiveUp(p)
          PROVE  [LockNext]_lockVars
        <3>1. \/ Request(p, "SH") \/ Request(p, "EX") \/ Release(p) \/ TimeOut(p)
              \/ TakeGate(p) \/ PassGate(p) \/ TakeMain(p) \/ UNCHANGED lockVars
            BY <2>2 DEF BeginRead, Compare, Load, Unlock, LockExclusive, VerifyFile, EndRefresh,
                        LockAgain, LockSteps, GiveUp
        <3> QED BY <3>1 DEF LockNext, Modes
    <2>3. ASSUME NEW p \in Procs,
                 Inside(p) \/ ScanOne(p) \/ LookAgain(p) \/ Decide(p) \/ TakeFile(p)
                 \/ ReadFile(p) \/ Commit(p)
          PROVE  UNCHANGED lockVars
        BY <2>3 DEF Inside, ScanOne, LookAgain, Decide, TakeFile, ReadFile, Commit
    <2>4. Damage \/ (\E f \in Files : WriteFile(f)) => UNCHANGED lockVars
        BY DEF Damage, WriteFile
    <2> QED BY <2>1, <2>2, <2>3, <2>4 DEF Next
<1> QED BY <1>1, <1>2, <1>3

\* No reader gets ahead of a waiting refresher, whatever the cache is doing and
\* whoever dies.
THEOREM CacheNoOvertakingHolds == Spec => NoOvertaking
<1>1. CacheTypeInv /\ [Next]_vars =>
        [\A q \in Procs : Waiting(q) /\ Waiting(q)' => Ahead' \subseteq Ahead]_lockVars
    BY NoOvertakingCacheStep DEF CacheTypeInv
<1> QED BY <1>1, CacheInvariance, PTL DEF Spec, NoOvertaking

-----------------------------------------------------------------------------
(* What a read returns is what the files held since it began *)

LEMMA StaysPut ==
    ASSUME TypeInv, UNCHANGED <<files, cache>>
    PROVE  past' = past /\ db' = db /\ DbMoves
BY DEF files, cache, DbMoves, TypeInv, World

LEMMA SameLonger ==
    ASSUME World, past' = past
    PROVE  Longer
BY FileTypes DEF Longer, Version

\* Nothing that others do spoils a read's moment.
LEMMA MomentStays ==
    ASSUME TypeInv, NEW q \in Procs, MomentOf(q), Longer, DbMoves,
           rd'[q].pc = rd[q].pc, rd'[q].scan = rd[q].scan, rd'[q].todo = rd[q].todo,
           rd'[q].stamp = rd[q].stamp, rd'[q].verified = rd[q].verified,
           rd'[q].answer = rd[q].answer, rd'[q].begun = rd[q].begun
    PROVE  MomentOf(q)'
<1>0. /\ World /\ ReadInv(q) /\ rd[q] \in ReadSet /\ stamps \in Nat
      /\ \A f \in Files : /\ Version(f) \in Nat /\ Version(f)' \in Nat /\ Version(f) <= Version(f)'
                          /\ \A v \in 1..Version(f) : past'[f][v] = past[f][v]
    BY FileTypes DEF TypeInv, Typed, World, Longer
<1>1. rd[q].pc # "idle" => rd[q].begun \in [Files -> Nat]
    BY <1>0 DEF ReadInv, Locals
<1>2. BegunEarlier(q)'
    BY <1>0, <1>1 DEF MomentOf, BegunEarlier
<1>3. ASSUME NEW f \in Files, NEW key, key.ver \in rd[q].begun[f]..Version(f),
             rd[q].begun \in [Files -> Nat]
      PROVE  key.ver \in rd[q].begun[f]..Version(f)'
    <2>1. rd[q].begun[f] \in Nat /\ Version(f) \in Nat /\ Version(f)' \in Nat
          /\ Version(f) <= Version(f)'
        BY <1>0, <1>3
    <2> QED BY <1>3, <2>1
<1>4. ScanMoment(q)'
    <2> SUFFICES ASSUME rd[q].pc = "scan", NEW f \in Files \ rd[q].todo
                 PROVE  rd[q].scan[f] \in KeySet /\ rd[q].scan[f].ver \in rd[q].begun[f]..Version(f)'
        BY DEF ScanMoment, Since
    <2> QED BY <1>1, <1>3 DEF MomentOf, ScanMoment, Since
<1>5. LoadMoment(q)'
    <2> SUFFICES ASSUME rd[q].pc = "load", db'.stamp = rd[q].stamp, NEW f \in Files
                 PROVE  db'.rows[f].key.ver \in rd[q].begun[f]..Version(f)'
        BY DEF LoadMoment, Since
    <2>1. rd[q].stamp # 0 /\ rd[q].stamp <= stamps /\ rd[q].stamp \in Nat
        BY <1>0 DEF ReadInv, Loaded, Known, ReadSet
    <2>2. db' = db
        BY <1>0, <2>1 DEF DbMoves, NoDb
    <2> QED BY <1>1, <1>3, <2>2 DEF MomentOf, LoadMoment, Since
<1>6. Checked(q)'
    <2> SUFFICES ASSUME rd[q].verified = db'.stamp, NEW f \in Files, db'.rows[f] # Idle
                 PROVE  ~db'.rows[f].bad
        BY DEF Checked
    <2>1. rd[q].verified <= stamps /\ rd[q].verified \in Nat
        BY <1>0 DEF ReadInv, Known, ReadSet
    <2>2. db' # NoDb
        BY DEF NoDb
    <2>3. db' = db
        BY <1>0, <2>1, <2>2 DEF DbMoves
    <2> QED BY <2>3 DEF MomentOf, Checked
<1>7. AnswerGood(q)'
    <2> SUFFICES ASSUME rd[q].pc = "done" \/ rd[q].answer # Idle, NEW f \in Files
                 PROVE  /\ rd[q].answer[f].key.ver \in 1..Version(f)'
                        /\ rd[q].answer[f].events = Parse(past'[f][rd[q].answer[f].key.ver])
        BY DEF AnswerGood
    <2>1. /\ rd[q].answer[f].key.ver \in 1..Version(f)
          /\ rd[q].answer[f].events = Parse(past[f][rd[q].answer[f].key.ver])
        BY DEF MomentOf, AnswerGood
    <2>2. past'[f][rd[q].answer[f].key.ver] = past[f][rd[q].answer[f].key.ver]
        BY <1>0, <2>1
    <2>3. rd[q].answer[f].key.ver \in 1..Version(f)'
        BY <1>0, <2>1
    <2> QED BY <2>1, <2>2, <2>3
<1>8. DoneMoment(q)'
    <2> SUFFICES ASSUME rd[q].pc = "done", NEW f \in Files
                 PROVE  rd[q].answer[f].key.ver \in rd[q].begun[f]..Version(f)'
        BY DEF DoneMoment, Since
    <2> QED BY <1>1, <1>3 DEF MomentOf, DoneMoment, Since
<1> QED BY <1>2, <1>4, <1>5, <1>6, <1>7, <1>8 DEF MomentOf

LEMMA CheckedStays ==
    ASSUME TypeInv, NEW p \in Procs, Checked(p), DbMoves, rd'[p].verified = rd[p].verified
    PROVE  Checked(p)'
<1> SUFFICES ASSUME rd[p].verified = db'.stamp, NEW f \in Files, db'.rows[f] # Idle
             PROVE  ~db'.rows[f].bad
    BY DEF Checked
<1>1. rd[p].verified <= stamps /\ rd[p].verified \in Nat /\ stamps \in Nat
    BY DEF TypeInv, ReadInv, Known, Typed, ReadSet, World
<1>2. db' # NoDb
    BY DEF NoDb
<1>3. db' = db
    BY <1>1, <1>2 DEF DbMoves
<1> QED BY <1>3 DEF Checked

LEMMA AnswerStays ==
    ASSUME NEW p \in Procs, AnswerGood(p), past' = past, rd'[p].answer = rd[p].answer,
           rd'[p].pc = "done" => rd[p].answer # Idle
    PROVE  AnswerGood(p)'
BY DEF AnswerGood, Version

\* A step between the shared looks at the files.
LEMMA MomentCarried ==
    ASSUME TypeInv, NEW p \in Procs, MomentOf(p), past' = past, DbMoves,
           rd[p].pc # "idle", rd'[p].pc \notin {"idle", "scan", "load", "done"},
           rd'[p].verified = rd[p].verified, rd'[p].begun = rd[p].begun,
           rd'[p].answer = rd[p].answer \/ rd'[p].answer = Idle
    PROVE  MomentOf(p)'
<1>1. BegunEarlier(p)'
    BY DEF MomentOf, BegunEarlier, Version
<1>2. Checked(p)'
    BY CheckedStays DEF MomentOf
<1>3. AnswerGood(p)'
    BY AnswerStays DEF MomentOf, AnswerGood
<1> QED BY <1>1, <1>2, <1>3 DEF MomentOf, ScanMoment, LoadMoment, DoneMoment

\* After a step of p only p itself needs a look.
LEMMA MomentOthers ==
    ASSUME TypeInv, MomentInv, NEW p \in Procs, Kept(p), past' = past, DbMoves, MomentOf(p)'
    PROVE  MomentInv'
<1>1. Longer
    BY SameLonger DEF TypeInv
<1>2. ASSUME NEW q \in Procs, q # p PROVE MomentOf(q)'
    <2>1. rd'[q] = rd[q] /\ MomentOf(q)
        BY <1>2 DEF Kept, MomentInv
    <2> QED BY <1>1, <2>1, MomentStays
<1> QED BY <1>2 DEF MomentInv

LEMMA MomentInit == Init => MomentInv
<1> SUFFICES ASSUME Init, NEW p \in Procs PROVE MomentOf(p)
    BY DEF MomentInv
<1>1. rd[p] = NoRead /\ db = NoDb
    BY DEF Init
<1> QED BY <1>1 DEF NoRead, NoDb, MomentOf, BegunEarlier, ScanMoment, LoadMoment, Checked,
                    AnswerGood, DoneMoment

LEMMA MomentStep ==
    ASSUME TypeInv, CacheInv, MomentInv, [Next]_vars
    PROVE  MomentInv'
<1>0. /\ World /\ Typed
      /\ \A p \in Procs : MomentOf(p) /\ ReadInv(p) /\ rd[p] \in ReadSet
      /\ \A f \in Files : Version(f) \in Nat \ {0} /\ Key(f) \in KeySet /\ Key(f).ver = Version(f)
    BY FileTypes DEF TypeInv, Typed, MomentInv
<1>a. ASSUME UNCHANGED <<files, cache>> PROVE past' = past /\ db' = db /\ DbMoves
    BY <1>0, <1>a DEF files, cache, DbMoves, World
\* A step of p that keeps files, cache and what p has to show.
<1>b. ASSUME NEW p \in Procs, UNCHANGED <<files, cache>>, Kept(p),
             rd[p].pc # "idle", rd'[p].pc \notin {"idle", "scan", "load", "done"},
             rd'[p].verified = rd[p].verified, rd'[p].begun = rd[p].begun,
             rd'[p].answer = rd[p].answer \/ rd'[p].answer = Idle
      PROVE  MomentInv'
    <2>1. MomentOf(p)'
        BY <1>0, <1>a, <1>b, MomentCarried
    <2> QED BY <1>a, <1>b, <2>1, MomentOthers
<1>c. ASSUME rd' = rd, UNCHANGED <<files, cache>> PROVE MomentInv'
    <2>1. Longer
        BY <1>0, <1>a, <1>c, SameLonger
    <2>2. ASSUME NEW q \in Procs PROVE MomentOf(q)'
        BY <1>0, <1>a, <1>c, <2>1, MomentStays
    <2> QED BY <2>2 DEF MomentInv
<1>1. ASSUME NEW p \in Procs, BeginRead(p) PROVE MomentInv'
    <2>1. past' = past /\ db' = db /\ DbMoves
        BY <1>1, <1>a DEF BeginRead
    <2>2. /\ Kept(p) /\ Answered(p) /\ rd'[p].pc = "lock"
          /\ rd'[p].begun = [f \in Files |-> Version(f)]
        BY <1>0, <1>1, BeginEffect
    <2>3. Checked(p)'
        BY <1>0, <2>1, <2>2, CheckedStays DEF MomentOf, Answered
    <2>4. AnswerGood(p)'
        BY <1>0, <2>1, <2>2, AnswerStays DEF MomentOf, Answered
    <2>5. BegunEarlier(p)'
        <3>1. \A f \in Files : rd'[p].begun[f] = Version(f)
            BY <2>2
        <3> QED BY <1>0, <2>1, <3>1 DEF BegunEarlier, Version
    <2>6. MomentOf(p)'
        BY <2>2, <2>3, <2>4, <2>5 DEF MomentOf, ScanMoment, LoadMoment, DoneMoment
    <2> QED BY <2>1, <2>2, <2>6, MomentOthers
<1>2. ASSUME NEW p \in Procs, Inside(p) PROVE MomentInv'
    <2>1. past' = past /\ db' = db /\ DbMoves
        BY <1>2, <1>a DEF Inside
    <2>2. /\ Kept(p) /\ Carried(p) /\ rd[p].pc = "lock"
          /\ \/ rd'[p].pc = "relock"
             \/ rd'[p].pc = "scan" /\ rd'[p].todo = Files
        BY <1>0, <1>2, InsideEffect
    <2>3. Checked(p)'
        BY <1>0, <2>1, <2>2, CheckedStays DEF MomentOf, Carried
    <2>4. AnswerGood(p)'
        BY <1>0, <2>1, <2>2, AnswerStays DEF MomentOf, Carried
    <2>5. BegunEarlier(p)'
        BY <1>0, <2>1, <2>2 DEF MomentOf, BegunEarlier, Version, Carried
    <2>6. MomentOf(p)'
        BY <2>2, <2>3, <2>4, <2>5 DEF MomentOf, ScanMoment, LoadMoment, DoneMoment
    <2> QED BY <2>1, <2>2, <2>6, MomentOthers
\* A key is taken now, which is after the read began.
<1>3. ASSUME NEW p \in Procs, ScanOne(p) PROVE MomentInv'
    <2>1. past' = past /\ db' = db /\ DbMoves
        BY <1>3, <1>a DEF ScanOne
    <2>2. /\ Kept(p) /\ Carried(p) /\ rd[p].pc \in {"scan", "recheck", "refresh"}
          /\ rd[p].scan \in Maybe(KeySet) /\ rd'[p].pc = rd[p].pc
        BY <1>3, ScanEffect
    <2>3. PICK f \in Files : rd'[p].todo = rd[p].todo \ {f}
                             /\ rd'[p].scan = [rd[p].scan EXCEPT ![f] = Key(f)]
        BY <1>3, ScanEffect
    <2>4. Checked(p)'
        BY <1>0, <2>1, <2>2, CheckedStays DEF MomentOf, Carried
    <2>5. AnswerGood(p)'
        BY <1>0, <2>1, <2>2, AnswerStays DEF MomentOf, Carried
    <2>6. BegunEarlier(p)' /\ \A g \in Files : rd[p].begun[g] <= Version(g)
        BY <1>0, <2>1, <2>2 DEF MomentOf, BegunEarlier, Version, Carried
    <2>7. ScanMoment(p)'
        <3> SUFFICES ASSUME rd[p].pc = "scan", NEW g \in Files \ rd'[p].todo
                     PROVE  /\ rd'[p].scan[g] \in KeySet
                            /\ rd'[p].scan[g].ver \in rd[p].begun[g]..Version(g)
            BY <2>1, <2>2 DEF ScanMoment, Since, Version, Carried
        <3>1. CASE g = f
            <4>1. rd'[p].scan[f] = Key(f)
                BY <2>2, <2>3 DEF Maybe
            <4>2. rd[p].begun[f] \in Nat
                BY <1>0, <2>2 DEF ReadInv, Locals
            <4>3. Version(f) \in rd[p].begun[f]..Version(f)
                BY <1>0, <2>6, <4>2
            <4> QED BY <1>0, <3>1, <4>1, <4>3
        <3>2. CASE g # f
            <4>1. rd'[p].scan[g] = rd[p].scan[g] /\ g \notin rd[p].todo
                BY <2>2, <2>3, <3>2 DEF Maybe
            <4> QED BY <1>0, <4>1 DEF MomentOf, ScanMoment, Since
        <3> QED BY <3>1, <3>2
    <2>8. MomentOf(p)'
        BY <2>2, <2>4, <2>5, <2>6, <2>7 DEF MomentOf, LoadMoment, DoneMoment
    <2> QED BY <2>1, <2>2, <2>8, MomentOthers
\* What was scanned is what is answered, or what is about to be loaded.
<1>4. ASSUME NEW p \in Procs, Compare(p) PROVE MomentInv'
    <2>1. past' = past /\ db' = db /\ DbMoves /\ UNCHANGED <<files, cache>>
        BY <1>4, <1>a DEF Compare
    <2>2. /\ Kept(p) /\ Carried(p) /\ rd[p].pc = "scan" /\ rd[p].todo = {}
          /\ \/ Recorded(p) /\ Unchanged(p) /\ rd'[p].pc = "done"
             \/ Recorded(p) /\ rd'[p].pc = "load" /\ rd'[p].stamp = db.stamp
             \/ rd'[p].pc = "relock"
        BY <1>4, CompareEffect
    <2>3. \A f \in Files : rd[p].scan[f].ver \in rd[p].begun[f]..Version(f)
        BY <1>0, <2>2 DEF MomentOf, ScanMoment, Since
    <2>4. Checked(p)' /\ BegunEarlier(p)'
        BY <1>0, <2>1, <2>2, CheckedStays DEF MomentOf, Carried, BegunEarlier, Version
    <2>5. CASE Recorded(p) /\ Unchanged(p) /\ rd'[p].pc = "done"
        <3>1. AnswerGood(p)'
            BY <1>0, <2>1, <2>2, <2>5, AnswerStays DEF MomentOf, Carried, Unchanged
        <3>2. DoneMoment(p)'
            BY <2>1, <2>2, <2>3, <2>5 DEF DoneMoment, Since, Unchanged, Carried, Version
        <3>3. MomentOf(p)'
            BY <2>4, <2>5, <3>1, <3>2 DEF MomentOf, ScanMoment, LoadMoment
        <3> QED BY <2>1, <2>2, <3>3, MomentOthers
    <2>6. CASE Recorded(p) /\ rd'[p].pc = "load" /\ rd'[p].stamp = db.stamp
        <3>1. AnswerGood(p)'
            BY <1>0, <2>1, <2>2, <2>6, AnswerStays DEF MomentOf, Carried
        <3>2. LoadMoment(p)'
            BY <2>1, <2>2, <2>3, <2>6 DEF LoadMoment, Since, Recorded, Carried, Version
        <3>3. MomentOf(p)'
            BY <2>4, <2>6, <3>1, <3>2 DEF MomentOf, ScanMoment, DoneMoment
        <3> QED BY <2>1, <2>2, <3>3, MomentOthers
    <2>7. CASE rd'[p].pc = "relock"
        BY <1>b, <2>1, <2>2, <2>7 DEF Carried
    <2> QED BY <2>2, <2>5, <2>6, <2>7
\* The rows that are loaded are those the scan was compared with.
<1>5. ASSUME NEW p \in Procs, Load(p) PROVE MomentInv'
    <2>1. past' = past /\ db' = db /\ DbMoves /\ UNCHANGED <<files, cache>>
        BY <1>5, <1>a DEF Load
    <2>2. /\ Kept(p) /\ rd[p].pc = "load" /\ rd'[p].begun = rd[p].begun
          /\ \/ /\ ChunksSound(p)
                /\ rd'[p].pc = "done" /\ rd'[p].verified = db.stamp /\ rd'[p].answer = Loads(p)
             \/ Carried(p) /\ rd'[p].pc = "relock"
        BY <1>5, LoadEffect
    <2>3. CASE /\ ChunksSound(p)
               /\ rd'[p].pc = "done" /\ rd'[p].verified = db.stamp /\ rd'[p].answer = Loads(p)
        <3>1. \A f \in Files : db.rows[f] # Idle
            BY <1>0, <2>2, <2>3 DEF ReadInv, Loaded, ChunksSound
        <3>2. \A f \in Files : ~db.rows[f].bad
            BY <1>0, <2>3, <3>1 DEF ChunksSound, MomentOf, Checked
        <3>3. \A f \in Files : db.rows[f].key.ver \in rd[p].begun[f]..Version(f)
            BY <1>0, <2>2, <2>3 DEF ChunksSound, MomentOf, LoadMoment, Since
        <3>4. ASSUME NEW f \in Files
              PROVE  /\ rd'[p].answer[f].key = db.rows[f].key
                     /\ rd'[p].answer[f].events = Parse(past[f][db.rows[f].key.ver])
                     /\ db.rows[f].key.ver \in 1..Version(f)
            <4>1. rd'[p].answer[f].key = db.rows[f].key
                  /\ rd'[p].answer[f].events = db.rows[f].events \o db.rows[f].tail
                <5> DEFINE e == db.rows[f].events \o db.rows[f].tail
                <5>1. rd'[p].answer = Loads(p) /\ ~db.rows[f].bad
                    BY <2>3, <3>2
                <5>2. Loads(p)[f] = [key |-> db.rows[f].key, events |-> e]
                    BY <5>1 DEF Loads
                <5> HIDE DEF e
                <5>3. rd'[p].answer[f].key = db.rows[f].key /\ rd'[p].answer[f].events = e
                    BY <5>1, <5>2
                <5> QED BY <5>3 DEF e
            <4>2. /\ RowGood(db.rows[f], f) /\ db.rows[f].raw \in Seq(Nat)
                BY <1>0, <3>1 DEF CacheInv, World, Maybe, RowSet
            <4>3. /\ db.rows[f].key.ver \in 1..Version(f)
                  /\ db.rows[f].raw = past[f][db.rows[f].key.ver]
                  /\ db.rows[f].events = Parse(Complete(db.rows[f].raw))
                  /\ db.rows[f].tail = Parse(Rest(db.rows[f].raw))
                BY <3>1, <4>2 DEF RowGood, KeyGood
            <4>4. db.rows[f].events \o db.rows[f].tail = Parse(db.rows[f].raw)
                BY <4>2, <4>3, RestParts
            <4> QED BY <4>1, <4>3, <4>4
        <3>5. AnswerGood(p)' /\ DoneMoment(p)'
            BY <2>1, <2>2, <3>3, <3>4 DEF AnswerGood, DoneMoment, Since, Version
        <3>6. Checked(p)' /\ BegunEarlier(p)'
            BY <1>0, <2>1, <2>2, <3>2 DEF Checked, MomentOf, BegunEarlier, Version
        <3>7. MomentOf(p)'
            BY <2>3, <3>5, <3>6 DEF MomentOf, ScanMoment, LoadMoment
        <3> QED BY <2>1, <2>2, <3>7, MomentOthers
    <2>4. CASE Carried(p) /\ rd'[p].pc = "relock"
        BY <1>b, <2>1, <2>2, <2>4 DEF Carried
    <2> QED BY <2>2, <2>3, <2>4
<1>6. ASSUME NEW p \in Procs, Unlock(p) PROVE MomentInv'
    <2>1. rd[p].pc = "relock" /\ UNCHANGED <<files, cache>>
        BY <1>6 DEF Unlock, At
    <2>2. CASE Fail(p)
        <3>1. Kept(p) /\ rd'[p].pc = "failed" /\ rd'[p].answer = Idle
              /\ rd'[p].verified = rd[p].verified /\ rd'[p].begun = rd[p].begun
            BY <1>0, <2>2, FailEffect
        <3> QED BY <1>b, <2>1, <3>1
    <2>3. CASE rd' = rd
        BY <1>c, <2>1, <2>3
    <2> QED BY <1>0, <1>6, <2>2, <2>3, UnlockEffect
<1>7. ASSUME NEW p \in Procs, LockExclusive(p) \/ LockAgain(p) \/ LockSteps(p) PROVE MomentInv'
    <2>1. rd' = rd /\ UNCHANGED <<files, cache>>
        BY <1>7 DEF LockExclusive, LockAgain, LockSteps
    <2> QED BY <1>c, <2>1
<1>8. ASSUME NEW p \in Procs, LookAgain(p) PROVE MomentInv'
    <2>1. Kept(p) /\ Carried(p) /\ rd[p].pc = "relock" /\ rd'[p].pc = "recheck"
          /\ UNCHANGED <<files, cache>>
        BY <1>0, <1>8, ScanFromEffect DEF LookAgain, ReadPC, At
    <2> QED BY <1>b, <2>1 DEF Carried
<1>9. ASSUME NEW p \in Procs, Decide(p) PROVE MomentInv'
    <2>1. /\ Kept(p) /\ Carried(p) /\ rd[p].pc = "recheck" /\ rd'[p].pc \in {"decide", "refresh"}
          /\ db' = db \/ db' = NoDb
        BY <1>9, DecideEffect
    <2>2. past' = past /\ stamps' = stamps
        BY <1>9 DEF Decide, files
    <2>3. DbMoves
        BY <1>0, <2>1, <2>2 DEF DbMoves, World
    <2>4. MomentOf(p)'
        BY <1>0, <2>1, <2>2, <2>3, MomentCarried DEF Carried
    <2> QED BY <2>1, <2>2, <2>3, <2>4, MomentOthers
<1>10. ASSUME NEW p \in Procs, TakeFile(p) PROVE MomentInv'
    <2>1. /\ Kept(p) /\ Carried(p) /\ rd[p].pc = "refresh"
          /\ rd'[p].pc \in {"decide", "commit", "file"}
        BY <1>10, TakeFileEffect
    <2>2. UNCHANGED <<files, cache>>
        BY <1>10 DEF TakeFile
    <2> QED BY <1>b, <2>1, <2>2 DEF Carried
<1>11. ASSUME NEW p \in Procs, ReadFile(p) PROVE MomentInv'
    <2>1. /\ Kept(p) /\ Carried(p) /\ rd[p].pc = "file" /\ rd'[p].pc = "verify"
          /\ UNCHANGED <<files, cache>>
        BY <1>11, ReadFileEffect DEF ReadFile
    <2> QED BY <1>b, <2>1 DEF Carried
<1>12. ASSUME NEW p \in Procs, VerifyFile(p) PROVE MomentInv'
    <2>1. rd[p].pc = "verify" /\ UNCHANGED <<files, cache>> /\ Kept(p)
          /\ (Fail(p) \/ (Carried(p) /\ rd'[p].pc = "refresh"))
        BY <1>12, VerifyEffect DEF VerifyFile
    <2>2. CASE Fail(p)
        <3>1. rd'[p].pc = "failed" /\ rd'[p].answer = Idle
              /\ rd'[p].verified = rd[p].verified /\ rd'[p].begun = rd[p].begun
            BY <1>0, <2>2, FailEffect
        <3> QED BY <1>b, <2>1, <3>1
    <2> QED BY <1>b, <2>1, <2>2 DEF Carried
<1>13. ASSUME NEW p \in Procs, Commit(p) PROVE MomentInv'
    <2>1. /\ rd[p].pc = "commit" /\ Move(p, "decide") /\ past' = past
          /\ stamps' = stamps + 1 /\ db'.stamp = stamps'
        BY <1>13 DEF Commit, At, files
    <2>2. Kept(p) /\ Carried(p) /\ rd'[p].pc = "decide"
        BY <1>0, <2>1, MoveEffect DEF ReadPC
    <2>3. DbMoves
        BY <1>0, <2>1 DEF DbMoves, World
    <2>4. MomentOf(p)'
        BY <1>0, <2>1, <2>2, <2>3, MomentCarried DEF Carried
    <2> QED BY <2>1, <2>2, <2>3, <2>4, MomentOthers
<1>14. ASSUME NEW p \in Procs, EndRefresh(p) PROVE MomentInv'
    <2>1. Kept(p) /\ Carried(p) /\ rd[p].pc = "decide" /\ rd'[p].pc = "lock"
          /\ UNCHANGED <<files, cache>>
        BY <1>14, EndRefreshEffect DEF EndRefresh
    <2> QED BY <1>b, <2>1 DEF Carried
<1>15. ASSUME NEW p \in Procs, GiveUp(p) PROVE MomentInv'
    <2>1. Kept(p) /\ rd'[p].pc = "timeout" /\ rd'[p].answer = Idle
          /\ rd'[p].verified = rd[p].verified /\ rd'[p].begun = rd[p].begun
          /\ UNCHANGED <<files, cache>>
        BY <1>0, <1>15, GiveUpEffect DEF GiveUp
    <2>2. rd[p].pc # "idle"
        <3>1. lpc[p] \in {"gate", "main"}
            BY <1>15, TimeOutEffect DEF GiveUp, TypeInv
        <3> QED BY <1>0, <3>1 DEF ReadInv, LockPhase, Outside
    <2> QED BY <1>b, <2>1, <2>2
\* A process that starts again has checked nothing.
<1>16. ASSUME NEW p \in Procs, Crash(p) PROVE MomentInv'
    <2>1. Kept(p) /\ rd'[p] = NoRead
        BY <1>0, <1>16, CrashEffect
    <2>2. past' = past /\ db' = db /\ DbMoves
        BY <1>16, <1>a DEF Crash
    <2>3. Checked(p)'
        <3>1. db.stamp = 0 => db = NoDb
            BY <1>0 DEF World
        <3> QED BY <2>1, <2>2, <3>1 DEF Checked, NoRead, NoDb
    <2>4. MomentOf(p)'
        BY <2>1, <2>3 DEF NoRead, MomentOf, BegunEarlier, ScanMoment, LoadMoment, AnswerGood,
                          DoneMoment
    <2> QED BY <2>1, <2>2, <2>4, MomentOthers
<1>17. ASSUME Disturb, Longer, DbMoves PROVE MomentInv'
    <2>1. ASSUME NEW q \in Procs PROVE MomentOf(q)'
        <3>1. /\ rd'[q].pc = rd[q].pc /\ rd'[q].scan = rd[q].scan /\ rd'[q].todo = rd[q].todo
              /\ rd'[q].stamp = rd[q].stamp /\ rd'[q].verified = rd[q].verified
              /\ rd'[q].answer = rd[q].answer /\ rd'[q].begun = rd[q].begun
            BY <1>0, <1>17, DisturbEffect
        <3> QED BY <1>0, <1>17, <3>1, MomentStays
    <2> QED BY <2>1 DEF MomentInv
<1>18. ASSUME NEW f \in Files, WriteFile(f) PROVE MomentInv'
    <2>1. Disturb /\ UNCHANGED cache /\ \E t \in Seq(Nat) : Written(f, t)
        BY <1>0, <1>18, WriteEffect
    <2>2. Longer
        BY <1>0, <2>1, WrittenGrows
    <2>3. DbMoves
        BY <1>0, <2>1 DEF DbMoves, World, cache
    <2> QED BY <1>17, <2>1, <2>2, <2>3
<1>19. ASSUME Damage PROVE MomentInv'
    <2>1. Disturb /\ past' = past /\ stamps' = stamps + 1 /\ db'.stamp = stamps + 1
        BY <1>0, <1>19, DamageEffect DEF files
    <2>2. Longer /\ DbMoves
        BY <1>0, <2>1, SameLonger DEF DbMoves, World
    <2> QED BY <1>17, <2>1, <2>2
<1>20. CASE UNCHANGED vars
    BY <1>20, <1>c DEF vars
<1> QED
    BY <1>1, <1>2, <1>3, <1>4, <1>5, <1>6, <1>7, <1>8, <1>9, <1>10, <1>11, <1>12, <1>13, <1>14,
       <1>15, <1>16, <1>18, <1>19, <1>20 DEF Next

\* What a read returns is, file by file, what the file held at some moment
\* since the read began, whoever writes, refreshes, damages the cache or dies.
THEOREM ReadIsMomentHolds == Spec => []ReadIsMoment
<1>1. Init => MomentInv
    BY MomentInit
<1>2. CacheTypeInv /\ MomentInv /\ [Next]_vars => MomentInv'
    BY MomentStep DEF CacheTypeInv
<1>3. MomentInv => ReadIsMoment
    BY DEF MomentInv, MomentOf, AnswerGood, DoneMoment, Since, ReadIsMoment, At
<1> QED BY <1>1, <1>2, <1>3, CacheInvariance, PTL DEF Spec

-----------------------------------------------------------------------------
(* A read that nothing disturbs *)

\* A refresh is alone: nobody else refreshes, looks or loads.
LEMMA SessionAlone ==
    ASSUME TypeInv, NEW p \in Procs, rd[p].pc \in Session, NEW q \in Procs, q # p
    PROVE  rd[q].pc \notin Session \cup {"scan", "load"}
<1>1. /\ LockInv /\ LockPhase(p) /\ LockPhase(q)
    BY DEF TypeInv, ReadInv
<1>2. excl = p /\ shared = {}
    BY <1>1, LockAssumption DEF LockPhase, LockInv, ExclIsMine, Exclusive
<1> QED BY <1>1, <1>2 DEF LockPhase, LockInv, ExclIsMine, SharedIsMine

LEMMA FilesStay ==
    ASSUME past' = past
    PROVE  /\ \A f \in Files : Key(f)' = Key(f)
           /\ db' = db => (Current' <=> Current) /\ (Sound' <=> Sound)
BY DEF Key, Version, Text, Current, Sound

\* A current cache is not the empty one.
LEMMA NotEmpty ==
    ASSUME World, \A f \in Files : db.rows[f] # Idle
    PROVE  db.stamp # 0 /\ db # NoDb
<1>1. PICK f \in Files : TRUE
    BY CacheAssumption
<1> QED BY <1>1 DEF World, NoDb

\* What a step of p does to the cache leaves the others undisturbed.
SparesCalm(p) ==
    \A q \in Procs : q # p /\ Calm(q) =>
        db' = db \/ (rd[q].try = 1 /\ (db' = NoDb \/ (Current' /\ Sound')))

LEMMA QuietOthers ==
    ASSUME TypeInv, QuietInv, NEW p \in Procs, Kept(p), past' = past, DbMoves,
           db' = db \/ rd[p].pc \in Session, SparesCalm(p), QuietOf(p)',
           Calm(p)' => Calm(p) \/ \A q \in Procs : q # p => rd[q].pc \notin Session,
           rd'[p].pc \in Session /\ SomeCalm' => CalmSession(p)'
    PROVE  QuietInv'
<1>1. ASSUME NEW q \in Procs, q # p PROVE QuietOf(q)' /\ (Calm(q)' => Calm(q))
    <2>1. rd'[q] = rd[q] /\ QuietOf(q) /\ rd[q] \in ReadSet /\ Known(q) /\ stamps \in Nat
          /\ LockPhase(q)
        BY <1>1 DEF Kept, QuietInv, TypeInv, Typed, ReadInv, World
    <2>2. Calm(q)' => Calm(q)
        BY <2>1 DEF Calm, Quiet
    <2>3. CASE db' = db
        <3>1. Steady(q) => Steady(q)'
            BY <2>1, FilesStay DEF Steady, Seen
        <3>2. RowsCurrent(q) => RowsCurrent(q)'
            BY <2>1, FilesStay DEF RowsCurrent
        <3>3. Settled(q) => Settled(q)'
            BY <2>1, <2>3, FilesStay DEF Settled
        <3>4. DamageSeen(q)'
            BY <2>1, <2>3, FilesStay DEF DamageSeen, QuietOf
        <3>5. Undisturbed(q) => Undisturbed(q)'
            BY <2>1, <2>3, <3>1, <3>2, <3>3, FilesStay DEF Undisturbed
        <3> QED BY <2>1, <2>2, <3>4, <3>5 DEF QuietOf, Quiet
    <2>4. CASE db' # db
        <3>1. rd[q].pc \notin Session \cup {"scan", "load"}
            BY <1>1, <2>4, SessionAlone
        <3>2. DamageSeen(q)'
            <4>1. rd[q].bad # 0 => rd[q].bad # db'.stamp
                BY <2>1, <2>4 DEF DbMoves, NoDb, Known, ReadSet
            <4> QED BY <2>1, <3>1, <4>1 DEF DamageSeen
        <3>3. ASSUME Quiet(q) PROVE Settled(q)'
            BY <1>1, <2>1, <2>4, <3>3 DEF SparesCalm, Calm, Settled, ReadSet
        <3>4. ASSUME Quiet(q) PROVE Undisturbed(q)'
            BY <2>1, <3>1, <3>3, <3>4 DEF Undisturbed, Steady, Scanning, Filling, Session
        <3> QED BY <2>1, <2>2, <3>2, <3>4 DEF QuietOf, Quiet
    <2> QED BY <2>3, <2>4
<1>2. ASSUME SomeCalm', NEW q \in Procs, rd'[q].pc \in Session PROVE CalmSession(q)'
    <2>1. CASE q = p
        BY <1>2, <2>1
    <2>2. CASE q # p
        <3>1. rd'[q] = rd[q] /\ rd[q].pc \in Session
            BY <1>2, <2>2 DEF Kept
        <3>2. SomeCalm
            BY <1>1, <1>2, <2>2, <3>1 DEF SomeCalm
        <3>3. CalmSession(q) /\ db' = db
            BY <2>2, <3>1, <3>2, SessionAlone DEF QuietInv
        <3>4. Steady(q)' /\ (RowsCurrent(q) => RowsCurrent(q)')
            BY <3>1, <3>3, FilesStay DEF CalmSession, Steady, Seen, RowsCurrent
        <3> QED BY <3>1, <3>3, <3>4 DEF CalmSession, RowsSound
    <2> QED BY <2>1, <2>2
<1> QED BY <1>1, <1>2 DEF QuietInv

\* A step within a read.
LEMMA QuietMove ==
    ASSUME TypeInv, QuietInv, NEW p \in Procs, Kept(p), past' = past, DbMoves,
           db' = db \/ rd[p].pc \in Session, SparesCalm(p), Carried(p), rd'[p].try = rd[p].try,
           rd[p].pc \notin Outside, rd'[p].pc \notin Outside,
           Quiet(p) => Undisturbed(p)', DamageSeen(p)',
           rd'[p].pc \in Session /\ SomeCalm => CalmSession(p)'
    PROVE  QuietInv'
<1>1. (Quiet(p)' <=> Quiet(p)) /\ (Calm(p)' <=> Calm(p))
    BY DEF Carried, Quiet, Calm
<1>2. SomeCalm' => SomeCalm
    <2>1. ASSUME NEW q \in Procs, Calm(q)' PROVE Calm(q)
        BY <1>1, <2>1 DEF Kept, Calm, Quiet
    <2> QED BY <2>1 DEF SomeCalm
<1>3. QuietOf(p)'
    BY <1>1 DEF QuietOf, Outside
<1> QED BY <1>1, <1>2, <1>3, QuietOthers

\* A step that ends a read.
LEMMA QuietEnd ==
    ASSUME TypeInv, QuietInv, NEW p \in Procs, Kept(p), past' = past, DbMoves, db' = db,
           rd'[p].pc \in Outside, rd'[p].bad = 0, rd'[p].quiet => rd'[p].pc # "failed"
    PROVE  QuietInv'
<1>1. QuietOf(p)' /\ ~Calm(p)' /\ rd'[p].pc \notin Session
    BY DEF QuietOf, Quiet, Calm, DamageSeen, Outside, Session
<1> QED BY <1>1, QuietOthers DEF SparesCalm

LEMMA QuietInit == Init => QuietInv
<1> SUFFICES ASSUME Init PROVE QuietInv
    OBVIOUS
<1>1. \A p \in Procs : rd[p] = NoRead
    BY DEF Init
<1> QED BY <1>1 DEF QuietInv, QuietOf, SomeCalm, Calm, Quiet, DamageSeen, NoRead, Outside

\* A scan of steady files is recorded in a current cache.
LEMMA SteadyRecorded ==
    ASSUME NEW p \in Procs, rd[p].pc \in {"scan", "recheck"}, rd[p].todo = {}, Steady(p)
    PROVE  /\ \A f \in Files : rd[p].scan[f] = Key(f)
           /\ Current => Recorded(p)
<1>1. \A f \in Files : rd[p].scan[f] = Key(f)
    BY DEF Steady, Seen, Scanning
<1> QED BY <1>1 DEF Current, Recorded

LEMMA SteadyScan ==
    ASSUME TypeInv, NEW p \in Procs, ScanOne(p), Steady(p)
    PROVE  Steady(p)'
<1>1. /\ rd[p].pc \in {"scan", "recheck", "refresh"} /\ rd'[p].pc = rd[p].pc
      /\ rd[p].scan \in Maybe(KeySet) /\ past' = past
    BY ScanEffect DEF ScanOne, files
<1>2. PICK f \in Files : rd'[p].todo = rd[p].todo \ {f}
                         /\ rd'[p].scan = [rd[p].scan EXCEPT ![f] = Key(f)]
    BY ScanEffect
<1>3. \A g \in Files : rd'[p].scan[g] = IF g = f THEN Key(f) ELSE rd[p].scan[g]
    BY <1>1, <1>2 DEF Maybe
<1>4. Seen(p)' \subseteq Seen(p) \cup {f} /\ Seen(p)' \subseteq Files
    BY <1>1, <1>2 DEF Seen
<1> QED BY <1>1, <1>3, <1>4, FilesStay DEF Steady, Scanning

LEMMA QuietScan ==
    ASSUME TypeInv, QuietInv, NEW p \in Procs, ScanOne(p)
    PROVE  QuietInv'
<1>1. /\ Kept(p) /\ Carried(p) /\ rd[p].pc \in {"scan", "recheck", "refresh"}
      /\ rd'[p].pc = rd[p].pc /\ rd'[p].try = rd[p].try /\ rd'[p].rows = rd[p].rows
      /\ rd'[p].stamp = rd[p].stamp /\ rd'[p].bad = rd[p].bad
    BY ScanEffect
<1>2. past' = past /\ db' = db /\ DbMoves
    <2>1. UNCHANGED <<files, cache>>
        BY DEF ScanOne
    <2> QED BY <2>1, StaysPut
<1>3. QuietOf(p) /\ (SomeCalm => \A q \in Procs : rd[q].pc \in Session => CalmSession(q))
    BY DEF QuietInv
<1>4. Settled(p) => Settled(p)'
    BY <1>1, <1>2, FilesStay DEF Settled
<1>5. Quiet(p) => Undisturbed(p)'
    BY <1>1, <1>2, <1>3, <1>4, SteadyScan DEF QuietOf, Undisturbed
<1>6. DamageSeen(p)'
    BY <1>1, <1>2, <1>3, FilesStay DEF QuietOf, DamageSeen
<1>7. rd'[p].pc \in Session /\ SomeCalm => CalmSession(p)'
    BY <1>1, <1>2, <1>3, SteadyScan DEF CalmSession, RowsSound
<1> QED BY <1>1, <1>2, <1>5, <1>6, <1>7, QuietMove DEF SparesCalm, Outside

LEMMA QuietInside ==
    ASSUME TypeInv, QuietInv, NEW p \in Procs, Inside(p)
    PROVE  QuietInv'
<1>1. /\ Kept(p) /\ Carried(p) /\ rd[p].pc = "lock"
      /\ rd'[p].try = rd[p].try /\ rd'[p].stamp = rd[p].stamp
      /\ IF db.stamp = 0 \/ ~db.ok
         THEN rd'[p].pc = "relock" /\ rd'[p].bad = db.stamp
         ELSE rd'[p].pc = "scan" /\ rd'[p].todo = Files /\ rd'[p].bad = rd[p].bad
    BY InsideEffect DEF TypeInv
<1>2. past' = past /\ db' = db /\ DbMoves
    <2>1. UNCHANGED <<files, cache>>
        BY DEF Inside
    <2> QED BY <2>1, StaysPut
<1>3. QuietOf(p) /\ rd'[p].pc \notin Session
    BY <1>1 DEF QuietInv, Session
<1>4. Settled(p) => Settled(p)'
    BY <1>1, <1>2, FilesStay DEF Settled, Current
<1>5. Quiet(p) => Undisturbed(p)'
    BY <1>1, <1>3, <1>4 DEF QuietOf, Undisturbed, Steady, Seen, Scanning, Filling
<1>6. DamageSeen(p)'
    BY <1>1, <1>2, <1>3, FilesStay DEF QuietOf, DamageSeen, Sound
<1> QED BY <1>1, <1>2, <1>3, <1>5, <1>6, QuietMove DEF SparesCalm, Outside

\* A read that has refreshed twice finds what it refreshed.
LEMMA QuietCompare ==
    ASSUME TypeInv, QuietInv, NEW p \in Procs, Compare(p)
    PROVE  QuietInv'
<1>1. /\ Kept(p) /\ Carried(p) /\ rd[p].pc = "scan" /\ rd[p].todo = {} /\ rd'[p].bad = 0
      /\ \/ rd'[p].pc = "done"
         \/ /\ rd'[p].pc = IF Recorded(p) THEN "load" ELSE "relock"
            /\ rd'[p].stamp = db.stamp /\ rd'[p].try = rd[p].try
    BY CompareEffect
<1>2. past' = past /\ db' = db /\ DbMoves
    <2>1. UNCHANGED <<files, cache>>
        BY DEF Compare
    <2> QED BY <2>1, StaysPut
<1>3. QuietOf(p)
    BY DEF QuietInv
<1>4. CASE rd'[p].pc = "done"
    BY <1>1, <1>2, <1>4, QuietEnd DEF Outside
<1>5. CASE /\ rd'[p].pc = IF Recorded(p) THEN "load" ELSE "relock"
           /\ rd'[p].stamp = db.stamp /\ rd'[p].try = rd[p].try
    <2>1. ASSUME Quiet(p) PROVE Settled(p)'
        <3>1. Settled(p) /\ (Current => Recorded(p))
            BY <1>1, <1>3, <2>1, SteadyRecorded DEF QuietOf, Undisturbed
        <3> QED BY <1>2, <1>5, <3>1, FilesStay DEF Settled
    <2>2. Quiet(p) => Undisturbed(p)'
        BY <1>5, <2>1 DEF Undisturbed, Steady, Scanning, Filling
    <2>3. DamageSeen(p)' /\ rd'[p].pc \notin Session /\ rd'[p].pc \notin Outside
        BY <1>1, <1>2, <1>5 DEF DamageSeen, Session, Outside
    <2> QED BY <1>1, <1>2, <1>5, <2>2, <2>3, QuietMove DEF SparesCalm, Outside
<1> QED BY <1>1, <1>4, <1>5

LEMMA QuietLoad ==
    ASSUME TypeInv, QuietInv, NEW p \in Procs, Load(p)
    PROVE  QuietInv'
<1>1. /\ Kept(p) /\ rd[p].pc = "load"
      /\ \/ rd'[p].pc = "done" /\ rd'[p].bad = 0
         \/ /\ ~ChunksSound(p) /\ Carried(p)
            /\ rd'[p].pc = "relock" /\ rd'[p].bad = db.stamp /\ Same(p)
    BY LoadEffect
<1>2. past' = past /\ db' = db /\ DbMoves
    <2>1. UNCHANGED <<files, cache>>
        BY DEF Load
    <2> QED BY <2>1, StaysPut
<1>3. QuietOf(p) /\ (Sound => ChunksSound(p))
    BY <1>1 DEF QuietInv, QuietOf, DamageSeen, ChunksSound, Sound
<1>4. CASE rd'[p].pc = "done" /\ rd'[p].bad = 0
    BY <1>1, <1>2, <1>4, QuietEnd DEF Outside
<1>5. CASE /\ ~ChunksSound(p) /\ Carried(p)
           /\ rd'[p].pc = "relock" /\ rd'[p].bad = db.stamp /\ Same(p)
    <2>1. Settled(p) => Settled(p)'
        BY <1>2, <1>3, <1>5, FilesStay DEF Settled, Same
    <2>2. Quiet(p) => Undisturbed(p)'
        BY <1>3, <1>5, <2>1 DEF QuietOf, Undisturbed, Steady, Scanning, Filling
    <2>3. DamageSeen(p)' /\ rd'[p].pc \notin Session /\ rd'[p].pc \notin Outside
        BY <1>2, <1>3, <1>5, FilesStay DEF DamageSeen, Session, Outside
    <2> QED BY <1>1, <1>2, <1>5, <2>2, <2>3, QuietMove DEF SparesCalm, Outside, Same
<1> QED BY <1>1, <1>4, <1>5

\* Nothing but the lock changes.
LEMMA QuietSame ==
    ASSUME QuietInv, rd' = rd, past' = past, db' = db
    PROVE  QuietInv'
<1>1. \A p \in Procs : /\ Steady(p) => Steady(p)'
                       /\ RowsCurrent(p) => RowsCurrent(p)'
                       /\ RowsSound(p) => RowsSound(p)'
                       /\ Settled(p) => Settled(p)'
                       /\ DamageSeen(p) => DamageSeen(p)'
    BY FilesStay DEF Steady, Seen, RowsCurrent, RowsSound, Settled, DamageSeen
<1>2. \A p \in Procs : (Undisturbed(p) => Undisturbed(p)') /\ (CalmSession(p) => CalmSession(p)')
    BY <1>1, FilesStay DEF Undisturbed, CalmSession
<1>3. \A p \in Procs : QuietOf(p)'
    <2> SUFFICES ASSUME NEW p \in Procs PROVE QuietOf(p)'
        OBVIOUS
    <2>1. QuietOf(p) /\ (Quiet(p)' <=> Quiet(p))
        BY DEF QuietInv, Quiet
    <2>2. (Undisturbed(p) => Undisturbed(p)') /\ (DamageSeen(p) => DamageSeen(p)')
        BY <1>1, <1>2
    <2>3. Quiet(p)' => Undisturbed(p)'
        BY <2>1, <2>2 DEF QuietOf
    <2>4. (rd[p].quiet => rd[p].pc # "failed")'
        BY <2>1 DEF QuietOf
    <2> QED BY <2>1, <2>2, <2>3, <2>4 DEF QuietOf
<1>4. SomeCalm' => SomeCalm
    BY DEF SomeCalm, Calm, Quiet
<1> QED BY <1>2, <1>3, <1>4 DEF QuietInv

LEMMA QuietUnlock ==
    ASSUME TypeInv, QuietInv, NEW p \in Procs, Unlock(p)
    PROVE  QuietInv'
<1>1. /\ rd[p].pc = "relock" /\ past' = past /\ db' = db /\ DbMoves
      /\ IF rd[p].try = 2 THEN Fail(p) ELSE rd' = rd
    BY UnlockEffect DEF Unlock, files, cache, DbMoves, TypeInv, World
<1>2. CASE rd[p].try = 2
    <2>1. Kept(p) /\ rd'[p].pc = "failed" /\ rd'[p].bad = 0 /\ rd'[p].quiet = rd[p].quiet
        BY <1>1, <1>2, FailEffect DEF TypeInv
    <2>2. ~rd[p].quiet
        BY <1>1, <1>2 DEF QuietInv, QuietOf, Quiet, Undisturbed, Settled, Outside
    <2> QED BY <1>1, <2>1, <2>2, QuietEnd DEF Outside
<1> QED BY <1>1, <1>2, QuietSame

LEMMA QuietLookAgain ==
    ASSUME TypeInv, QuietInv, NEW p \in Procs, LookAgain(p)
    PROVE  QuietInv'
<1>1. /\ Kept(p) /\ Carried(p) /\ rd[p].pc = "relock" /\ rd'[p].pc = "recheck"
      /\ rd'[p].todo = Files /\ rd'[p].try = rd[p].try /\ rd'[p].bad = rd[p].bad
    BY ScanFromEffect DEF LookAgain, ReadPC, At, TypeInv
<1>2. past' = past /\ db' = db /\ DbMoves
    <2>1. UNCHANGED <<files, cache>>
        BY DEF LookAgain
    <2> QED BY <2>1, StaysPut
<1>3. QuietOf(p)
    BY DEF QuietInv
<1>4. Settled(p) => Settled(p)'
    BY <1>1, <1>2, FilesStay DEF Settled
<1>5. Steady(p)'
    BY <1>1 DEF Steady, Seen
<1>6. Quiet(p) => Undisturbed(p)'
    BY <1>1, <1>3, <1>4, <1>5 DEF QuietOf, Undisturbed, Filling
<1>7. DamageSeen(p)'
    BY <1>1, <1>2, <1>3, FilesStay DEF QuietOf, DamageSeen
<1>8. CalmSession(p)'
    BY <1>1, <1>5 DEF CalmSession, Filling
<1> QED BY <1>1, <1>2, <1>6, <1>7, <1>8, QuietMove DEF SparesCalm, Outside

\* A current and sound cache is kept; while somebody who has refreshed counts
\* on a current one, it is kept or replaced by none.
LEMMA DecideSpares ==
    ASSUME TypeInv, QuietInv, NEW p \in Procs, Decide(p), NEW q \in Procs, Calm(q)
    PROVE  /\ db' = db \/ (rd[q].try = 1 /\ db' = NoDb)
           /\ rd'[p].pc = "refresh" => db' = NoDb
<1>1. /\ rd[p].pc = "recheck" /\ rd[p].todo = {} /\ rd[q].try \in 0..2
      /\ \/ db' = db /\ rd'[p].pc = "decide"
         \/ /\ ~db.ok \/ ~Recorded(p) \/ StillDamaged(p)
            /\ db' = NoDb \/ (db' = db /\ ~Recorded(p))
    BY DecideEffect DEF TypeInv, Typed, ReadSet
<1>2. Steady(p) /\ DamageSeen(p) /\ Settled(q) /\ rd[q].try # 0
    BY <1>1 DEF QuietInv, QuietOf, SomeCalm, CalmSession, Session, Calm, Undisturbed
<1>3. Current => Recorded(p)
    BY <1>1, <1>2, SteadyRecorded
<1>4. CASE rd[q].try = 1
    <2>1. db = NoDb \/ Recorded(p)
        BY <1>2, <1>3, <1>4 DEF Settled
    <2> QED BY <1>1, <1>4, <2>1
<1>5. CASE rd[q].try = 2
    <2>1. Current /\ Sound /\ Recorded(p)
        BY <1>2, <1>3, <1>5 DEF Settled
    <2>2. db.ok /\ ~StillDamaged(p)
        BY <1>2, <2>1 DEF Sound, DamageSeen, StillDamaged
    <2> QED BY <1>1, <2>1, <2>2
<1> QED BY <1>1, <1>2, <1>4, <1>5

LEMMA QuietDecide ==
    ASSUME TypeInv, QuietInv, NEW p \in Procs, Decide(p)
    PROVE  QuietInv'
<1>1. /\ Kept(p) /\ Carried(p) /\ Same(p) /\ rd[p].pc = "recheck" /\ rd[p].todo = {}
      /\ rd'[p].bad = rd[p].bad
      /\ \/ /\ db.ok /\ Recorded(p) /\ ~StillDamaged(p) /\ db' = db
            /\ rd'[p].pc = "decide"
         \/ /\ ~db.ok \/ ~Recorded(p) \/ StillDamaged(p)
            /\ db' = NoDb \/ (db' = db /\ db.ok /\ ~Recorded(p))
            /\ rd'[p].pc = "refresh" /\ rd'[p].rows = db'.rows /\ rd'[p].todo = Files
    BY DecideEffect
<1>2. past' = past /\ stamps' = stamps /\ DbMoves
    BY <1>1 DEF Decide, files, DbMoves, TypeInv, World
<1>3. QuietOf(p) /\ rd[p].try < 2 /\ rd[p].try \in 0..2
    BY <1>1 DEF QuietInv, TypeInv, ReadInv, LockPhase, Session, Typed, ReadSet
<1>4. SparesCalm(p)
    BY DecideSpares DEF SparesCalm
<1>5. DamageSeen(p)'
    BY <1>1, <1>2, <1>3, FilesStay DEF QuietOf, DamageSeen, NoDb
<1>6. rd'[p].pc = "refresh" => Steady(p)'
    BY <1>1 DEF Steady, Seen
<1>7. SomeCalm => CalmSession(p)'
    <2>1. CASE rd'[p].pc = "decide"
        BY <2>1 DEF CalmSession, Steady, Scanning, Filling
    <2>2. CASE rd'[p].pc = "refresh"
        <3>1. SomeCalm => db' = NoDb
            BY <2>2, DecideSpares DEF SomeCalm
        <3>2. db' = NoDb => RowsSound(p)'
            BY <1>1, <2>2 DEF NoDb, RowsSound
        <3> QED BY <1>6, <2>2, <3>1, <3>2 DEF CalmSession
    <2> QED BY <1>1, <2>1, <2>2
<1>8. ASSUME Quiet(p) PROVE Undisturbed(p)'
    <2>0. Undisturbed(p) /\ (Current => Recorded(p)) /\ \A f \in Files : rd[p].scan[f] = Key(f)
        BY <1>1, <1>3, <1>8, SteadyRecorded DEF QuietOf, Undisturbed
    <2>1. CASE rd'[p].pc = "decide"
        <3>1. db.ok /\ Recorded(p) /\ ~StillDamaged(p) /\ db' = db
            BY <1>1, <2>1
        <3>2. db.stamp # 0 /\ db # NoDb
            BY <3>1, NotEmpty DEF Recorded, TypeInv
        <3>3. Current
            BY <2>0, <3>1, <3>2 DEF Current, Recorded
        <3>4. rd[p].try = 1 => Sound
            BY <1>1, <2>0, <3>1, <3>2 DEF Undisturbed, Settled, StillDamaged
        <3>5. Settled(p)'
            BY <1>1, <1>2, <1>3, <2>1, <3>1, <3>3, FilesStay DEF Settled, Same
        <3> QED BY <1>1, <1>2, <2>1, <3>1, <3>3, <3>4, <3>5, FilesStay
                DEF Undisturbed, Steady, Scanning, Filling, Same
    <2>2. CASE rd'[p].pc = "refresh"
        <3>1. db'.ok
            BY <1>1, <2>2 DEF NoDb
        <3>2. rd[p].try = 1 => db' = NoDb
            BY <1>1, <1>8, <2>2, DecideSpares DEF Calm
        <3>3. Settled(p)'
            BY <1>1, <1>3, <2>2, <3>2 DEF Settled, Same
        <3> QED BY <1>6, <2>2, <3>1, <3>3 DEF Undisturbed
    <2> QED BY <1>1, <2>1, <2>2
<1> QED BY <1>1, <1>2, <1>4, <1>5, <1>7, <1>8, QuietMove DEF Outside, Session, Same

LEMMA QuietTakeFile ==
    ASSUME TypeInv, QuietInv, NEW p \in Procs, TakeFile(p)
    PROVE  QuietInv'
<1>1. /\ Kept(p) /\ Carried(p) /\ Same(p) /\ rd[p].pc = "refresh" /\ rd[p].todo = {}
      /\ rd'[p].bad = rd[p].bad /\ rd'[p].rows = rd[p].rows
      /\ \/ /\ Changed(p) = {}
            /\ rd'[p].pc = IF rd[p].rows = db.rows THEN "decide" ELSE "commit"
         \/ \E f \in Files :
               /\ rd'[p].pc = "file" /\ rd'[p].scan = [rd[p].scan EXCEPT ![f] = Key(f)]
               /\ rd[p].scan \in Maybe(KeySet)
    BY TakeFileEffect
<1>2. past' = past /\ db' = db /\ DbMoves
    <2>1. UNCHANGED <<files, cache>>
        BY DEF TakeFile
    <2> QED BY <2>1, StaysPut
<1>3. QuietOf(p) /\ (SomeCalm => CalmSession(p)) /\ (Calm(p) => SomeCalm)
    BY <1>1 DEF QuietInv, SomeCalm, Session
<1>4. DamageSeen(p)'
    BY <1>1, <1>2, <1>3, FilesStay DEF QuietOf, DamageSeen
<1>5. Settled(p) => Settled(p)'
    BY <1>1, <1>2, FilesStay DEF Settled, Same
<1>6. CASE /\ Changed(p) = {}
           /\ rd'[p].pc = IF rd[p].rows = db.rows THEN "decide" ELSE "commit"
    <2>1. Steady(p) => RowsCurrent(p) /\ RowsCurrent(p)'
        <3>1. Steady(p) => RowsCurrent(p)
            BY <1>1, <1>6 DEF Steady, Seen, Scanning, Changed, RowsCurrent
        <3> QED BY <1>1, <1>2, <3>1, FilesStay DEF RowsCurrent
    <2>2. RowsCurrent(p) /\ rd[p].rows = db.rows => db.stamp # 0 /\ db # NoDb
        BY NotEmpty DEF RowsCurrent, TypeInv
    <2>3. SomeCalm => CalmSession(p)'
        BY <1>1, <1>2, <1>3, <1>6, <2>1 DEF CalmSession, RowsSound, Steady, Scanning, Filling
    <2>4. ASSUME Quiet(p) PROVE Undisturbed(p)'
        <3>1. Undisturbed(p) /\ RowsCurrent(p) /\ db.ok
            BY <1>1, <1>3, <2>1, <2>4 DEF QuietOf, Undisturbed, Filling
        <3>2. rd[p].rows = db.rows => Current
            BY <2>2, <3>1 DEF RowsCurrent, Current
        <3>3. rd[p].rows = db.rows => rd[p].try = 0
            BY <1>1, <1>3, <2>2, <2>4, <3>1 DEF Calm, CalmSession, Filling
        <3>4. Settled(p)'
            BY <1>5, <3>1 DEF Undisturbed
        <3>5. rd'[p].pc = "decide" => Current' /\ rd'[p].try = 0
            BY <1>1, <1>2, <1>6, <3>2, <3>3, FilesStay DEF Same
        <3> QED BY <1>2, <1>6, <2>1, <3>1, <3>4, <3>5 DEF Undisturbed, Steady, Scanning, Filling
    <2> QED BY <1>1, <1>2, <1>4, <1>6, <2>3, <2>4, QuietMove DEF SparesCalm, Outside, Same
<1>7. CASE \E f \in Files :
               /\ rd'[p].pc = "file" /\ rd'[p].scan = [rd[p].scan EXCEPT ![f] = Key(f)]
               /\ rd[p].scan \in Maybe(KeySet)
    <2>1. PICK f \in Files :
               /\ rd'[p].pc = "file" /\ rd'[p].scan = [rd[p].scan EXCEPT ![f] = Key(f)]
               /\ rd[p].scan \in Maybe(KeySet)
        BY <1>7
    <2>2. \A g \in Files : rd'[p].scan[g] = IF g = f THEN Key(f) ELSE rd[p].scan[g]
        BY <2>1 DEF Maybe
    <2>3. Steady(p) => Steady(p)'
        BY <1>1, <1>2, <2>1, <2>2, FilesStay DEF Steady, Seen, Scanning
    <2>4. SomeCalm => CalmSession(p)'
        BY <1>1, <1>2, <1>3, <2>1, <2>3 DEF CalmSession, RowsSound, Filling
    <2>5. Quiet(p) => Undisturbed(p)'
        BY <1>1, <1>2, <1>3, <1>5, <2>1, <2>3 DEF QuietOf, Undisturbed, Filling
    <2> QED BY <1>1, <1>2, <1>4, <2>1, <2>4, <2>5, QuietMove DEF SparesCalm, Outside, Same
<1> QED BY <1>1, <1>6, <1>7

LEMMA QuietReadFile ==
    ASSUME TypeInv, CacheInv, QuietInv, NEW p \in Procs, ReadFile(p)
    PROVE  QuietInv'
<1>1. /\ Kept(p) /\ Carried(p) /\ Same(p) /\ rd[p].pc = "file" /\ rd'[p].pc = "verify"
      /\ rd'[p].bad = rd[p].bad /\ rd'[p].scan = rd[p].scan
    BY ReadFileEffect
<1>2. past' = past /\ db' = db /\ DbMoves
    <2>1. UNCHANGED <<files, cache>>
        BY DEF ReadFile
    <2> QED BY <2>1, StaysPut
<1>3. QuietOf(p) /\ (SomeCalm => CalmSession(p))
    BY <1>1 DEF QuietInv, Session
<1>4. DamageSeen(p)'
    BY <1>1, <1>2, <1>3, FilesStay DEF QuietOf, DamageSeen
<1>5. Settled(p) => Settled(p)'
    BY <1>1, <1>2, FilesStay DEF Settled, Same
<1>6. Steady(p) => Steady(p)'
    BY <1>1, <1>2, FilesStay DEF Steady, Seen, Scanning
<1>7. RowsSound(p) => RowsSound(p)'
    <2>1. PICK f \in Files :
                /\ \A g \in Files : g # f => rd'[p].rows[g] = rd[p].rows[g]
                /\ MadeFrom(rd'[p].rows[f], rd[p].rows[f], rd[p].scan[f],
                            SubSeq(Text(f), 1, rd[p].scan[f].size))
        BY ReadFileEffect
    <2> QED BY <2>1 DEF RowsSound, MadeFrom
<1>8. SomeCalm => CalmSession(p)'
    BY <1>1, <1>2, <1>3, <1>6, <1>7 DEF CalmSession, Filling
<1>9. Quiet(p) => Undisturbed(p)'
    BY <1>1, <1>2, <1>3, <1>5, <1>6 DEF QuietOf, Undisturbed, Filling
<1> QED BY <1>1, <1>2, <1>4, <1>8, <1>9, QuietMove DEF SparesCalm, Outside, Same

\* The key of a file nobody writes stands.
LEMMA QuietVerify ==
    ASSUME TypeInv, QuietInv, NEW p \in Procs, VerifyFile(p)
    PROVE  QuietInv'
<1>1. /\ Kept(p) /\ rd[p].pc = "verify"
      /\ \/ /\ Carried(p) /\ Same(p) /\ rd'[p].bad = rd[p].bad
            /\ rd'[p].pc = "refresh" /\ rd'[p].rows = rd[p].rows
            /\ rd'[p].scan = rd[p].scan /\ rd'[p].todo = {}
         \/ Fail(p) /\ \E f \in Files : ~KeyStands(p, f)
    BY VerifyEffect
<1>2. past' = past /\ db' = db /\ DbMoves
    <2>1. UNCHANGED <<files, cache>>
        BY DEF VerifyFile
    <2> QED BY <2>1, StaysPut
<1>3. QuietOf(p) /\ (SomeCalm => CalmSession(p))
    BY <1>1 DEF QuietInv, Session
<1>4. CASE /\ Carried(p) /\ Same(p) /\ rd'[p].bad = rd[p].bad
           /\ rd'[p].pc = "refresh" /\ rd'[p].rows = rd[p].rows
           /\ rd'[p].scan = rd[p].scan /\ rd'[p].todo = {}
    <2>1. DamageSeen(p)'
        BY <1>1, <1>2, <1>3, <1>4, FilesStay DEF QuietOf, DamageSeen
    <2>2. Settled(p) => Settled(p)'
        BY <1>1, <1>2, <1>4, FilesStay DEF Settled, Same
    <2>3. Steady(p) => Steady(p)'
        BY <1>1, <1>2, <1>4, FilesStay DEF Steady, Seen, Scanning
    <2>4. SomeCalm => CalmSession(p)'
        BY <1>1, <1>2, <1>3, <1>4, <2>3 DEF CalmSession, RowsSound, Filling
    <2>5. Quiet(p) => Undisturbed(p)'
        BY <1>1, <1>2, <1>3, <1>4, <2>2, <2>3 DEF QuietOf, Undisturbed, Filling
    <2> QED BY <1>1, <1>2, <1>4, <2>1, <2>4, <2>5, QuietMove DEF SparesCalm, Outside, Same
<1>5. CASE Fail(p) /\ \E f \in Files : ~KeyStands(p, f)
    <2>1. rd'[p].pc = "failed" /\ rd'[p].bad = 0 /\ rd'[p].quiet = rd[p].quiet
        BY <1>5, FailEffect DEF TypeInv
    <2>2. ~Steady(p)
        BY <1>1, <1>5 DEF Steady, Seen, Scanning, KeyStands
    <2>3. ~rd[p].quiet
        BY <1>1, <1>3, <2>2 DEF QuietOf, Undisturbed, Quiet, Outside
    <2> QED BY <1>1, <1>2, <2>1, <2>3, QuietEnd DEF Outside
<1> QED BY <1>1, <1>4, <1>5

\* What is committed is current, and sound if it was all built anew.
LEMMA QuietCommit ==
    ASSUME TypeInv, QuietInv, NEW p \in Procs, Commit(p)
    PROVE  QuietInv'
<1>1. /\ rd[p].pc = "commit" /\ Move(p, "decide") /\ past' = past /\ stamps' = stamps + 1
      /\ db' = [stamp |-> stamps + 1, ok |-> TRUE, rows |-> rd[p].rows]
    BY DEF Commit, At, files
<1>2. Kept(p) /\ Carried(p) /\ rd'[p].pc = "decide" /\ rd'[p].try = rd[p].try
      /\ rd'[p].bad = rd[p].bad
    BY <1>1, MoveEffect DEF ReadPC, TypeInv
<1>3. /\ QuietOf(p) /\ (SomeCalm => CalmSession(p)) /\ (Calm(p) => SomeCalm)
      /\ rd[p].try < 2 /\ rd[p].try \in 0..2 /\ rd[p].bad <= stamps /\ rd[p].bad \in Nat
      /\ stamps \in Nat
    BY <1>1 DEF QuietInv, SomeCalm, Session, TypeInv, ReadInv, LockPhase, Known, Typed, ReadSet,
                World
<1>4. DbMoves /\ db'.stamp # 0 /\ db'.stamp # rd[p].bad
    BY <1>1, <1>3 DEF DbMoves
<1>5. RowsCurrent(p) => Current'
    BY <1>1, <1>4, FilesStay DEF RowsCurrent, Current
<1>6. RowsCurrent(p) /\ RowsSound(p) => Sound'
    BY <1>1 DEF RowsCurrent, RowsSound, Sound
<1>7. SomeCalm => db = NoDb /\ Current' /\ Sound'
    BY <1>1, <1>3, <1>5, <1>6 DEF CalmSession, Filling
<1>8. SparesCalm(p)
    <2> SUFFICES ASSUME NEW q \in Procs, Calm(q) PROVE rd[q].try = 1 /\ Current' /\ Sound'
        BY DEF SparesCalm
    <2>1. db = NoDb /\ Current' /\ Sound' /\ Settled(q) /\ rd[q].try \in 0..2 /\ rd[q].try # 0
        BY <1>7 DEF SomeCalm, Calm, QuietInv, QuietOf, Undisturbed, TypeInv, Typed, ReadSet
    <2>2. rd[q].try # 2
        BY <2>1 DEF Settled, Current, NoDb
    <2> QED BY <2>1, <2>2
<1>9. DamageSeen(p)' /\ CalmSession(p)'
    BY <1>2, <1>4 DEF DamageSeen, CalmSession, Steady, Scanning, Filling
<1>10. ASSUME Quiet(p) PROVE Undisturbed(p)'
    <2>1. RowsCurrent(p) /\ (rd[p].try = 1 => Sound')
        BY <1>1, <1>3, <1>7, <1>10 DEF QuietOf, Undisturbed, Calm
    <2>2. Settled(p)'
        BY <1>2, <1>3, <1>5, <2>1 DEF Settled
    <2> QED BY <1>2, <1>5, <2>1, <2>2 DEF Undisturbed, Steady, Scanning, Filling
<1> QED BY <1>1, <1>2, <1>4, <1>8, <1>9, <1>10, QuietMove DEF Outside, Session

\* From here on the read counts on what it has refreshed.
LEMMA QuietEndRefresh ==
    ASSUME TypeInv, QuietInv, NEW p \in Procs, EndRefresh(p)
    PROVE  QuietInv'
<1>1. /\ Kept(p) /\ Carried(p) /\ rd[p].pc = "decide"
      /\ rd'[p].pc = "lock" /\ rd'[p].try = rd[p].try + 1
      /\ rd'[p].stamp = rd[p].stamp /\ rd'[p].bad = rd[p].bad
    BY EndRefreshEffect
<1>2. past' = past /\ db' = db /\ DbMoves
    <2>1. UNCHANGED <<files, cache>>
        BY DEF EndRefresh
    <2> QED BY <2>1, StaysPut
<1>3. QuietOf(p) /\ rd[p].try \in 0..2 /\ rd[p].try < 2
    BY <1>1 DEF QuietInv, TypeInv, ReadInv, LockPhase, Session, Typed, ReadSet
<1>4. \A q \in Procs : q # p => rd[q].pc \notin Session
    BY <1>1, SessionAlone DEF Session
<1>5. DamageSeen(p)'
    BY <1>1, <1>2, <1>3, FilesStay DEF QuietOf, DamageSeen
<1>6. ASSUME Quiet(p)' PROVE Undisturbed(p)'
    <2>1. Undisturbed(p)
        BY <1>1, <1>3, <1>6 DEF QuietOf, Quiet, Carried, Outside
    <2>2. Current /\ (rd[p].try = 1 => Sound)
        BY <1>1, <2>1 DEF Undisturbed
    <2>3. Settled(p)'
        BY <1>1, <1>2, <1>3, <2>2, FilesStay DEF Settled
    <2> QED BY <1>1, <2>3 DEF Undisturbed, Steady, Scanning, Filling
<1>7. QuietOf(p)' /\ rd'[p].pc \notin Session
    BY <1>1, <1>5, <1>6 DEF QuietOf, Session
<1> QED BY <1>1, <1>2, <1>4, <1>7, QuietOthers DEF SparesCalm

LEMMA QuietBegin ==
    ASSUME TypeInv, QuietInv, NEW p \in Procs, BeginRead(p)
    PROVE  QuietInv'
<1>1. Kept(p) /\ rd'[p].pc = "lock" /\ rd'[p].try = 0 /\ rd'[p].bad = 0
    BY BeginEffect DEF TypeInv
<1>2. past' = past /\ db' = db /\ DbMoves
    <2>1. UNCHANGED <<files, cache>>
        BY DEF BeginRead
    <2> QED BY <2>1, StaysPut
<1>3. QuietOf(p)' /\ ~Calm(p)' /\ rd'[p].pc \notin Session
    BY <1>1 DEF QuietOf, Quiet, Calm, Undisturbed, Steady, Settled, DamageSeen, Scanning, Filling,
                Session
<1> QED BY <1>1, <1>2, <1>3, QuietOthers DEF SparesCalm

\* Somebody writes, or damages the cache: no read is undisturbed any more.
LEMMA QuietDisturbed ==
    ASSUME TypeInv, QuietInv, Disturb,
           db' = db \/ (db'.stamp = stamps + 1 /\ ~Sound')
    PROVE  QuietInv'
<1>1. ASSUME NEW p \in Procs PROVE ~rd'[p].quiet /\ DamageSeen(p)'
    <2>1. ~rd'[p].quiet /\ rd'[p].bad = rd[p].bad /\ rd'[p].pc = rd[p].pc
          /\ rd'[p].stamp = rd[p].stamp
        BY DisturbEffect DEF TypeInv
    <2>2. DamageSeen(p) /\ rd[p].bad <= stamps /\ rd[p].bad \in Nat /\ stamps \in Nat
        BY DEF QuietInv, QuietOf, TypeInv, ReadInv, Known, Typed, ReadSet, World
    <2>3. CASE db' = db
        BY <2>1, <2>2, <2>3 DEF DamageSeen, Sound
    <2>4. CASE db'.stamp = stamps + 1 /\ ~Sound'
        BY <2>1, <2>2, <2>4 DEF DamageSeen
    <2> QED BY <2>1, <2>3, <2>4
<1> QED BY <1>1 DEF QuietInv, QuietOf, SomeCalm, Calm, Quiet

LEMMA QuietStep ==
    ASSUME TypeInv, CacheInv, QuietInv, [Next]_vars
    PROVE  QuietInv'
<1>a. ASSUME UNCHANGED <<files, cache>> PROVE past' = past /\ db' = db /\ DbMoves
    BY <1>a DEF files, cache, DbMoves, TypeInv, World
<1>1. ASSUME NEW p \in Procs, LockExclusive(p) \/ LockAgain(p) \/ LockSteps(p) PROVE QuietInv'
    <2>1. rd' = rd /\ UNCHANGED <<files, cache>>
        BY <1>1 DEF LockExclusive, LockAgain, LockSteps
    <2> QED BY <1>a, <2>1, QuietSame
<1>2. ASSUME NEW p \in Procs, GiveUp(p) PROVE QuietInv'
    <2>1. Kept(p) /\ rd'[p].pc = "timeout" /\ rd'[p].bad = 0
        BY <1>2, GiveUpEffect DEF TypeInv
    <2>2. UNCHANGED <<files, cache>>
        BY <1>2 DEF GiveUp
    <2> QED BY <1>a, <2>1, <2>2, QuietEnd DEF Outside
<1>3. ASSUME NEW p \in Procs, Crash(p) PROVE QuietInv'
    <2>1. Kept(p) /\ rd'[p].pc = "idle" /\ rd'[p].bad = 0
        BY <1>3, CrashEffect DEF TypeInv, NoRead
    <2>2. UNCHANGED <<files, cache>>
        BY <1>3 DEF Crash
    <2> QED BY <1>a, <2>1, <2>2, QuietEnd DEF Outside
<1>4. ASSUME NEW f \in Files, WriteFile(f) PROVE QuietInv'
    <2>1. Disturb /\ db' = db
        BY <1>4 DEF WriteFile, cache
    <2> QED BY <2>1, QuietDisturbed
<1>5. ASSUME Damage PROVE QuietInv'
    <2>1. /\ Disturb /\ db'.stamp = stamps + 1
          /\ \/ ~db'.ok
             \/ \E f \in Files :
                   /\ db.rows[f] # Idle
                   /\ db'.rows = [db.rows EXCEPT ![f] = [db.rows[f] EXCEPT !.bad = TRUE]]
        BY <1>5, DamageEffect DEF TypeInv
    <2>2. ~Sound'
        <3>1. CASE ~db'.ok
            BY <3>1 DEF Sound
        <3>2. ASSUME NEW f \in Files, db.rows[f] # Idle,
                     db'.rows = [db.rows EXCEPT ![f] = [db.rows[f] EXCEPT !.bad = TRUE]]
              PROVE  ~Sound'
            <4>1. db.rows[f] \in RowSet /\ db'.rows[f] = [db.rows[f] EXCEPT !.bad = TRUE]
                BY <3>2 DEF TypeInv, World, Maybe
            <4>2. db'.rows[f].bad = TRUE
                BY <4>1 DEF RowSet
            <4> QED BY <4>2 DEF Sound
        <3> QED BY <2>1, <3>1, <3>2
    <2> QED BY <2>1, <2>2, QuietDisturbed
<1>6. CASE UNCHANGED vars
    BY <1>a, <1>6, QuietSame DEF vars
<1> QED
    BY <1>1, <1>2, <1>3, <1>4, <1>5, <1>6, QuietBegin, QuietInside, QuietScan, QuietCompare,
       QuietLoad, QuietUnlock, QuietLookAgain, QuietDecide, QuietTakeFile, QuietReadFile,
       QuietVerify, QuietCommit, QuietEndRefresh DEF Next

\* "Unavailable" needs a writer: a read that nothing disturbs succeeds, whatever
\* cache it finds, however damaged, and whoever else reads, refreshes or dies.
THEOREM QuietReadSucceedsHolds == Spec => []QuietReadSucceeds
<1>1. Init => QuietInv
    BY QuietInit
<1>2. CacheTypeInv /\ QuietInv /\ [Next]_vars => QuietInv'
    BY QuietStep DEF CacheTypeInv
<1>3. QuietInv => QuietReadSucceeds
    BY DEF QuietInv, QuietOf, QuietReadSucceeds, At
<1> QED BY <1>1, <1>2, <1>3, CacheInvariance, PTL DEF Spec

=============================================================================
