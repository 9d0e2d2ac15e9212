----------------------------- MODULE LedgerOrder -----------------------------
(***************************************************************************)
(* The order of the ledger: fold.finish_events.                            *)
(*                                                                         *)
(* Every writer appends lines to one of several files.  A line carries the *)
(* time its writer took some steps earlier: fold.append stamps the start   *)
(* of its process, dispatch.emit the moment before it opens the file.  A   *)
(* reader sorts all lines by stamp; lines with the same stamp are merged   *)
(* file by file, by what they say.                                         *)
(*                                                                         *)
(* A file is known by the place of its name in the directory listing.      *)
(***************************************************************************)
EXTENDS Naturals, Sequences, FiniteSets, SequencesExt

CONSTANTS
    NumFiles,  \* event files, by the order of their names
    NumKeys,   \* contents of a line: subject, type, canonical JSON, in order
    Seconds,   \* bound: the clock runs from 1 to this second
    MaxLines,  \* bound: lines in all files
    Writers    \* processes that append

ASSUME OrderAssumption ==
    NumFiles \in Nat /\ Seconds \in Nat \ {0} /\ MaxLines \in Nat

Files == 1..NumFiles
Keys  == 1..NumKeys

\* A stamp is a string that sorts like a number: a second, or a second with
\* microseconds ("...+00:00" sorts before "....5+00:00").
Whole(second)  == 2 * second
RoundedUp(second) == 2 * second + 2     \* mutant: rounded to the next second
Micros(second) == 2 * second + 1
Stamps == 2 .. 2 * Seconds + 1

VARIABLES
    log,    \* [Files -> sequence of [ts, key]]
    clock,  \* the current second
    stamp   \* [Writers -> the stamp it took, 0 before]

orderVars == <<log, clock, stamp>>

Line == [ts : Stamps, key : Keys]

\* A line is named by its file and its number, the _src of its event.
Lines(l) == UNION {{f} \X (1 .. Len(l[f])) : f \in Files}
Size(l)  == Cardinality(Lines(l))

OrderTypeOK ==
    /\ log \in [Files -> Seq(Line)]
    /\ Size(log) <= MaxLines
    /\ clock \in 1..Seconds
    /\ stamp \in [Writers -> Stamps \cup {0}]

-----------------------------------------------------------------------------
(* Reading *)

StampOf(l, n) == l[n[1]][n[2]].ts
KeyOf(l, n)   == l[n[1]][n[2]].key

\* The lines of one stamp.
Run(l, t) == {n \in Lines(l) : StampOf(l, n) = t}

\* The heap of _merge_same_ts: the heads of the files' queues, of which `left`
\* are the lines not yet taken.
Heads(left) == {n \in left : \A m \in left : m[1] = n[1] => n[2] <= m[2]}

\* mutant: the newest line of a queue decides
LastKey(l, left, n) ==
    KeyOf(l, CHOOSE m \in left : m[1] = n[1] /\ \A k \in left : k[1] = n[1] => k[2] <= m[2])

\* Each head counts with the key of its line.
HeadKey(l, left, n) == KeyOf(l, n)

\* mutant: the run is sorted by content, whatever file a line is from
Smallest(l, left) ==
    CHOOSE n \in left : \A m \in left \ {n} :
        \/ KeyOf(l, n) < KeyOf(l, m)
        \/ KeyOf(l, n) = KeyOf(l, m) /\ n[1] < m[1]
        \/ KeyOf(l, n) = KeyOf(l, m) /\ n[1] = m[1] /\ n[2] < m[2]

\* What the heap pops: the smallest head, the first queue among equals.  The
\* queues were opened in the order of the files' names.
Popped(l, left) ==
    CHOOSE n \in Heads(left) : \A m \in Heads(left) \ {n} :
        \/ HeadKey(l, left, n) < HeadKey(l, left, m)
        \/ HeadKey(l, left, n) = HeadKey(l, left, m) /\ n[1] < m[1]

Pop(l, merge) ==
    LET n == Popped(l, merge.left)
    IN  [out |-> Append(merge.out, n), left |-> merge.left \ {n}]

MergeSameTs(l, run) ==
    LET merge[i \in 0 .. Cardinality(run)] ==
            IF i = 0 THEN [out |-> <<>>, left |-> run] ELSE Pop(l, merge[i - 1])
    IN  merge[Cardinality(run)].out

\* finish_events: sort by stamp, then every run of one stamp.
Order(l) == FlattenSeq([t \in 1 .. 2 * Seconds + 1 |-> MergeSameTs(l, Run(l, t))])

-----------------------------------------------------------------------------
(* Writing *)

OrderInit ==
    /\ log = [f \in Files |-> <<>>]
    /\ clock = 1
    /\ stamp = [w \in Writers |-> 0]

Tick == clock < Seconds /\ clock' = clock + 1 /\ UNCHANGED <<log, stamp>>

\* fold.NOW at import, or the now() of dispatch.emit; a seat-queued event is
\* stamped with microseconds.
TakeStamp(w) ==
    /\ \E t \in {Whole(clock), Micros(clock)} :
          t # stamp[w] /\ stamp' = [stamp EXCEPT ![w] = t]
    /\ UNCHANGED <<log, clock>>

\* One line, in one write, at the end of the file.  A process that appends
\* again with fold.append still has its first stamp.
AppendLine(w) ==
    /\ stamp[w] # 0 /\ Size(log) < MaxLines
    /\ \E f \in Files, k \in Keys :
          log' = [log EXCEPT ![f] = Append(@, [ts |-> stamp[w], key |-> k])]
    /\ UNCHANGED <<clock, stamp>>

OrderNext == Tick \/ \E w \in Writers : TakeStamp(w) \/ AppendLine(w)

OrderSpec == OrderInit /\ [][OrderNext]_orderVars

-----------------------------------------------------------------------------
(* Properties *)

\* The place of a line in an order.
Place(order, n) == CHOOSE i \in DOMAIN order : order[i] = n

InOrder ==
    LET before == Order(log)
        after  == Order(log')
    IN  \A i, j \in DOMAIN before :
            i < j => Place(after, before[i]) < Place(after, before[j])

\* Two lines that were read never change places, whatever is appended later
\* and to whichever file: a fold that was right on what it read stays right
\* about the order of it (finish_events).
ReadStable == [][InOrder]_orderVars

\* A file's own order is never overridden among lines of one stamp, whatever
\* the other files hold (_merge_same_ts).
FileOrderKept ==
    LET order == Order(log)
    IN  \A m, n \in Lines(log) :
            /\ m[1] = n[1] /\ m[2] < n[2]
            /\ log[m[1]][m[2]].ts = log[n[1]][n[2]].ts
            => Place(order, m) < Place(order, n)

\* Two neighbours of the directory listing change names.  Every other naming
\* is reached by such swaps, and every log with names swapped is a log.
Swap(f) == [g \in Files |-> CASE g = f -> f + 1 [] g = f + 1 -> f [] OTHER -> g]
Renamed(l, p) == [f \in Files |-> l[p[f]]]
BackNamed(order, p) == [i \in DOMAIN order |-> <<p[order[i][1]], order[i][2]>>]

SameInAnyNaming ==
    \A f \in 1..(NumFiles - 1) :
        BackNamed(Order(Renamed(log, Swap(f))), Swap(f)) = Order(log)

\* Lines of different files with one stamp are ordered "by event_content_key -
\* never by which file sorts first alphabetically" (_merge_same_ts).
NameBlind == SameInAnyNaming

\* That is so as long as no two files say the same thing at the same time.
ContentOrders ==
    (\A m, n \in Lines(log) :
        m[1] # n[1] => log[m[1]][m[2]] # log[n[1]][n[2]])
    => SameInAnyNaming
=============================================================================
