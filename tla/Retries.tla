---- MODULE Retries ----
(***************************************************************************)
(* The retry budget of a first build: tick.py launches `doit dispatch      *)
(* --detach` for a written spec, and every later tick derives from the     *)
(* ledger alone how many attempts its trigger has had, whether one is      *)
(* alive, and when the next is due (attempts.history).  What is spent is   *)
(* escalated, and a ruling gives a new budget.                             *)
(*                                                                         *)
(* An attempt leaves traces of two kinds: the tick's marker, which has the *)
(* pid of the process it forked, and the rows of that process itself,      *)
(* which have a spawn id.  Only a start row has both.  The gate between    *)
(* dispatches and the recording of dead waiters are in Spawns.             *)
(*                                                                         *)
(* The unit of time is one period of the tick's cron line.                 *)
(***************************************************************************)
EXTENDS Naturals, FiniteSets, SequencesExt

CONSTANTS
    Limit,      \* attempts.MAX_ATTEMPTS
    Backoff,    \* attempts.BACKOFF_MIN, as far as Limit uses it
    MarkerCap,  \* attempts._MARKER_CAP_MIN: how long a marker alone is an attempt
    Span,       \* a waiter's window and cap
    PassSpan,   \* a pass launches at most so many periods after its read
    MaxNow,     \* bound: the clock stops here
    MaxTries,   \* bound: dispatches
    MaxDeaths,  \* bound: ticks that die
    MaxManual,  \* bound: dispatches by hand
    MaxHung,    \* bound: waiters that outlive their span
    MaxTriggers \* bound: spec-written and releasing rows

\* The longest wait between two attempts is the last.
ASSUME RetryAssumption ==
    /\ Limit \in Nat \ {0} /\ MarkerCap \in Nat \ {0}
    /\ \A n \in 1 .. Limit - 1 : Backoff[n] \in Nat /\ Backoff[n] <= Backoff[Limit - 1]
    /\ Span \in Nat /\ PassSpan \in Nat
    /\ MaxTries \in Nat

Tries == 1 .. MaxTries

VARIABLES
    now,
    log,      \* the spec's rows, in order: type, who (a try; of an escalation the
              \* trigger it is about), at
    try,      \* of each dispatch process: where it is
    forked,   \* how long the log was when a tick forked it, 0 for others
    tick,     \* the tick that holds the tick lock: pc (what its copy of the log
              \* calls for), the trigger in it, its NOW, its fork
    ticked,   \* cron has started a tick in this period
    deaths
vars == <<now, log, try, forked, tick, ticked, deaths>>

Row(type, who) == [type |-> type, who |-> who, at |-> now]
Write(type, who) == log' = Append(log, Row(type, who))

Rows(l, types)  == {i \in DOMAIN l : l[i].type \in types}
Of(l, a, types) == {i \in Rows(l, types) : l[i].who = a}
First(set)  == CHOOSE i \in set : \A j \in set : i <= j
Newest(set) == CHOOSE i \in set : \A j \in set : j <= i

\* spawn-failed by the process or (vanished) by a tick; autodispatch-failed.
Real    == {"failed", "vanished", "launch_failed"}
Receipt == Real \union {"refused"}
Child   == {"started", "failed", "vanished", "refused", "stale", "done"}

-----------------------------------------------------------------------------
\* attempts._marker_groups: whose rows are one attempt

\* Mutant of Following: a marker joins only the start with its pid.
NoFollowing(l, m) == {}

\* The dispatches, starts and receipts after a marker.
Following(l, m) == {i \in Rows(l, Receipt \union {"started", "marker"}) : i > m}

\* A group is named by its try; one without a process row by its first row.
Alone(i) == MaxTries + i

ReceiptGroup(l, i) == IF l[i].type = "launch_failed" THEN Alone(i) ELSE l[i].who

\* A marker belongs to the start with its pid; else to the next row, if that is
\* a receipt; else it stands alone.
MarkerGroup(l, m) ==
    LET next == Following(l, m) IN
    CASE Of(l, l[m].who, {"started"}) # {} -> l[m].who
      [] /\ Of(l, l[m].who, {"started"}) = {}
         /\ next # {} /\ l[First(next)].type \in Receipt -> ReceiptGroup(l, First(next))
      [] OTHER -> Alone(m)

GroupOf(l, i) == IF l[i].type = "marker" THEN MarkerGroup(l, i) ELSE ReceiptGroup(l, i)

Grouped(l) == Rows(l, Child \union {"marker", "launch_failed"})
Group(l, g) == {i \in Grouped(l) : GroupOf(l, i) = g}
In(l, g, types) == {i \in Group(l, g) : l[i].type \in types}

-----------------------------------------------------------------------------
\* The governing trigger: nextstep._build, _released_retry_trigger

Released(l, h) == {r \in Rows(l, {"release"}) : r > h}

Trigger(l) ==
    LET spec     == Newest(Rows(l, {"spec"}))
        releases == {Newest(Released(l, h)) : h \in
                       {h \in Rows(l, {"escalated"}) :
                           /\ Released(l, h) # {}
                           /\ \A i \in Rows(l, {"output"}) : i < h}}
    IN  Newest({spec} \union {r \in releases : r > spec})

\* nextstep._unanswered, tick.launch: a hold that no ruling has answered.
Held(l) == \E h \in Rows(l, {"escalated"}) : Released(l, h) = {}

-----------------------------------------------------------------------------
\* attempts.history, of the governing trigger

\* What began before the trigger is not its attempt.
Current(l) == {g \in {GroupOf(l, i) : i \in Grouped(l)} : First(Group(l, g)) >= Trigger(l)}

Consumed(l) == \E i \in Rows(l, {"output"}) : i >= Trigger(l) /\ l[i].who \in Current(l)

HasOutput(l, g) == Of(l, g, {"output"}) # {}

\* Mutant of EndedEmpty: an end is an end.
NeverEmpty(l, g) == FALSE

\* spawn-done without its output
EndedEmpty(l, g) == In(l, g, {"done"}) # {} /\ ~HasOutput(l, g)

\* A marker that nothing followed.
Unheard(l, g) == In(l, g, {"marker"}) # {} /\ In(l, g, Child \union {"launch_failed"}) = {}

Deadline(l, g) == l[First(In(l, g, {"marker"}))].at + MarkerCap

\* Mutant of Expired: it is waited for.
NeverExpired(l, g, t) == FALSE

Expired(l, g, t) == t >= Deadline(l, g)

\* The moments at which a group failed: one or none.
FailedAt(l, g, t) ==
    CASE In(l, g, Real) # {}                -> {l[First(In(l, g, Real))].at}
      [] In(l, g, Real) = {} /\ In(l, g, {"stale"}) # {} -> {l[First(In(l, g, {"stale"}))].at}
      [] In(l, g, Real \union {"stale"}) = {} /\ EndedEmpty(l, g) -> {l[First(In(l, g, {"done"}))].at}
      [] Unheard(l, g) /\ Expired(l, g, t)  -> {Deadline(l, g)}
      [] OTHER -> {}

Failures(l, t) ==
    UNION {{[group |-> g, at |-> at] : at \in FailedAt(l, g, t)} : g \in Current(l)}

Living(l, g, t) ==
    \/ /\ In(l, g, {"started"}) # {} /\ ~HasOutput(l, g)
       /\ In(l, g, Child \ {"started"}) = {}
    \/ Unheard(l, g) /\ ~Expired(l, g, t)

Live(l, t)      == ~Consumed(l) /\ \E g \in Current(l) : Living(l, g, t)
Failed(l, t)    == Cardinality(Failures(l, t))
Exhausted(l, t) == ~Consumed(l) /\ ~Live(l, t) /\ Failed(l, t) >= Limit

\* Backoff counts from the last failure.
Waits(l, t) ==
    \E f \in Failures(l, t) : t < f.at + Backoff[Failed(l, t)]

-----------------------------------------------------------------------------
\* What a pass does: nextstep._build, _retry_result, tick._record_retry_exhaustion

\* Started, and not known to have ended (nextstep.next_steps).
Busy(l) == \E a \in Tries : Of(l, a, {"started"}) # {} /\ Of(l, a, Child \ {"started"}) = {}

Idles(l, t) ==
    \/ Rows(l, {"output"}) # {} \/ Held(l) \/ Busy(l)
    \/ Consumed(l) \/ Live(l, t)

Choice(l, t) ==
    CASE Idles(l, t)                                         -> "idle"
      [] ~Idles(l, t) /\ Exhausted(l, t)                     -> "escalate"
      [] ~Idles(l, t) /\ ~Exhausted(l, t) /\ Waits(l, t)     -> "idle"
      [] OTHER                                               -> "launch"

Idle == [pc |-> "idle", trigger |-> 0, at |-> 0, fork |-> 0]

Init ==
    /\ now = 1
    /\ log = <<[type |-> "spec", who |-> 0, at |-> 1]>>
    /\ try = [a \in Tries |-> "none"]
    /\ forked = [a \in Tries |-> 0]
    /\ tick = Idle /\ ticked = FALSE
    /\ deaths = 0

Free == {a \in Tries : try[a] = "none"}
Goto(a, to) == try' = [try EXCEPT ![a] = to]
Is(a, pcs) == try[a] \in pcs
StartOf(a) == log[First(Of(log, a, {"started"}))].at

-----------------------------------------------------------------------------
\* The tick

\* tick._spawn_busy: started processes that are gone or too old.
Gone(a)  == /\ Is(a, {"over"}) /\ Of(log, a, {"started"}) # {}
            /\ Of(log, a, {"done", "failed", "vanished"}) = {}
Stale(a) == Is(a, {"hung"}) /\ Of(log, a, {"stale"}) = {}

Reconciled == {Row("vanished", a) : a \in {a \in Tries : Gone(a)}}
       \union {Row("stale", a) : a \in {a \in Tries : Stale(a)}}

\* One read for the whole pass; what it records itself it sees the next time.
TickBegin ==
    /\ tick.pc = "idle" /\ ~ticked
    /\ log' = log \o SetToSeq(Reconciled)
    /\ LET choice == Choice(log, now) IN
       tick' = IF choice = "idle" THEN Idle
               ELSE [Idle EXCEPT !.pc = choice, !.trigger = Trigger(log), !.at = now]
    /\ ticked' = TRUE
    /\ UNCHANGED <<now, try, forked, deaths>>

\* Recorded once for each trigger: the tick looks into its own file again.
Escalate ==
    /\ tick.pc = "escalate"
    /\ IF \E h \in Rows(log, {"escalated"}) : log[h].who = tick.trigger
       THEN UNCHANGED log ELSE Write("escalated", tick.trigger)
    /\ tick' = Idle
    /\ UNCHANGED <<now, try, forked, ticked, deaths>>

\* No work tree, readiness or packet; or the fork's answer or its marker is lost,
\* and the process runs without.
LaunchFails ==
    /\ tick.pc \in {"launch", "forked"}
    /\ Write("launch_failed", 0)
    /\ tick' = Idle
    /\ UNCHANGED <<now, try, forked, ticked, deaths>>

Fork ==
    /\ tick.pc = "launch" /\ Free # {}
    /\ Goto(First(Free), "starting")
    /\ forked' = [forked EXCEPT ![First(Free)] = Len(log)]
    /\ tick' = [Idle EXCEPT !.pc = "forked", !.fork = First(Free)]
    /\ UNCHANGED <<now, log, ticked, deaths>>

\* The marker: `autodispatched` with the pid.
Mark ==
    /\ tick.pc = "forked"
    /\ Write("marker", tick.fork)
    /\ tick' = Idle
    /\ UNCHANGED <<now, try, forked, ticked, deaths>>

TickDie ==
    /\ tick.pc # "idle" /\ deaths < MaxDeaths
    /\ tick' = Idle
    /\ deaths' = deaths + 1
    /\ UNCHANGED <<now, log, try, forked, ticked>>

-----------------------------------------------------------------------------
\* The dispatch process

ByHand == {a \in Tries : try[a] # "none" /\ forked[a] = 0}

\* `doit dispatch` by hand: no marker.
Manual ==
    /\ Free # {}
    /\ Cardinality(ByHand) < MaxManual
    /\ Goto(First(Free), "starting")
    /\ UNCHANGED <<now, log, forked, tick, ticked, deaths>>

Step(a, from, to, type) ==
    /\ Is(a, from) /\ Goto(a, to) /\ Write(type, a)
    /\ UNCHANGED <<now, forked, tick, ticked, deaths>>

Other(a, pcs) == \E b \in Tries \ {a} : Is(b, pcs)

\* One that runs keeps others out; one past its span does not.
Start(a) == ~Other(a, {"running", "closing"}) /\ Step(a, {"starting"}, "running", "started")

\* Another runs, or one of the refusals that are no attempts.
Refuse(a) == Step(a, {"starting"}, "over", "refused")

Fail(a) == Step(a, {"starting", "running", "hung"}, "over", "failed")

\* The output, and only then its end.
Output(a) == Step(a, {"running", "hung"}, "closing", "output")
Close(a)  == Step(a, {"closing"}, "over", "done")

\* A card without the output of the role.
Empty(a) == Step(a, {"running", "hung"}, "over", "done")

\* A process that dies, or that records a hold and no end.
Vanish(a) ==
    /\ Is(a, {"starting", "running", "closing", "hung"}) /\ Goto(a, "over")
    /\ UNCHANGED <<now, log, forked, tick, ticked, deaths>>

Hung == {a \in Tries : Of(log, a, {"stale"}) # {} \/ Is(a, {"hung"})}

\* A waiter that outlives its span.
Hang(a) ==
    /\ Is(a, {"running"}) /\ now >= StartOf(a) + Span
    /\ Cardinality(Hung) < MaxHung
    /\ Goto(a, "hung")
    /\ UNCHANGED <<now, log, forked, tick, ticked, deaths>>

-----------------------------------------------------------------------------
\* People, and time

\* A rewritten spec is a new trigger.
Rewrite ==
    /\ Cardinality(Rows(log, {"spec", "release"})) < MaxTriggers
    /\ Rows(log, {"output"}) = {}
    /\ Write("spec", 0)
    /\ UNCHANGED <<now, try, forked, tick, ticked, deaths>>

\* A thinker or operator decides an escalation.
Release ==
    /\ Cardinality(Rows(log, {"spec", "release"})) < MaxTriggers
    /\ Held(log)
    /\ Write("release", 0)
    /\ UNCHANGED <<now, try, forked, tick, ticked, deaths>>

\* A marker follows its fork, and a start-up ends, within a period; a waiter that
\* does not hang ends within its span.
Clock ==
    /\ now < MaxNow
    /\ ticked \/ tick.pc # "idle"
    /\ tick.pc # "forked"
    /\ tick.pc \in {"launch", "escalate"} => now < tick.at + PassSpan
    /\ \A a \in Tries : /\ ~Is(a, {"starting", "closing"})
                        /\ Is(a, {"running"}) => now < StartOf(a) + Span
    /\ now' = now + 1
    /\ ticked' = (tick.pc # "idle")
    /\ UNCHANGED <<log, try, forked, tick, deaths>>

\* At the horizon, or with its processes used up, the model stops.
Done == (now = MaxNow \/ Free = {}) /\ UNCHANGED vars

Next ==
    \/ TickBegin \/ Escalate \/ LaunchFails \/ Fork \/ Mark \/ TickDie
    \/ Manual
    \/ \E a \in Tries : \/ Start(a) \/ Refuse(a) \/ Fail(a) \/ Output(a) \/ Close(a)
                        \/ Empty(a) \/ Vanish(a) \/ Hang(a)
    \/ Rewrite \/ Release \/ Clock \/ Done

Spec == Init /\ [][Next]_vars

-----------------------------------------------------------------------------
\* Rows and forks of one trigger: up to the next.
Triggers == Rows(log, {"spec", "release"})
Reign(T) == T .. Min({Len(log) + 1} \union {U \in Triggers : U > T}) - 1

\* A trigger never starts more than Limit attempts by itself, whatever ticks,
\* processes and people do between the rows the budget is counted from
\* (attempts.history).
BudgetKept ==
    \A T \in Triggers :
        Cardinality({a \in Tries : forked[a] \in Reign(T) /\ Of(log, a, {"started"}) # {}}) <= Limit

\* Between the trigger and its escalation, as many dispatches and launches as the
\* budget has went wrong: a refusal is none, and a dispatch that left two traces is
\* one (attempts._marker_groups).  Only a receipt that does not follow its marker,
\* because it was there first or another dispatch came between, may count again.
WentWrong(a, rows) ==
    LET types == {log[i].type : i \in {i \in rows \intersect Grouped(log) : log[i].who = a}} IN
    \/ types \intersect {"failed", "vanished", "stale"} # {}
    \/ "done" \in types /\ ~HasOutput(log, a)
    \/ types = {"marker"}
Apart(m) ==
    LET own  == Of(log, log[m].who, Receipt)
        next == {i \in Grouped(log) : i > m}
    IN  own # {} /\ (next = {} \/ log[First(next)].who # log[m].who)
EscalationEarned ==
    \A h \in Rows(log, {"escalated"}) :
        LET rows == log[h].who .. h IN
        Limit <= Cardinality({a \in Tries : WentWrong(a, rows)})
               + Cardinality(rows \intersect Rows(log, {"launch_failed"}))
               + Cardinality({m \in rows \intersect Rows(log, {"marker"}) : Apart(m)})

\* Until the output or an unanswered escalation some row appears: no trace of a
\* lost process, marker or tick keeps the spec waiting for longer than the marker's
\* cap and the longest backoff, or a waiter's span, and the pass that then acts, with
\* one pass and its period more for each tick that died.
Settled == Rows(log, {"output"}) # {} \/ Held(log)
Longest == IF Limit = 1 THEN 0 ELSE Backoff[Limit - 1]
Pause   == Max({MarkerCap + Longest, Span + 1})
Patience == Pause + PassSpan + deaths * (PassSpan + 1)
NoLongSilence == Settled \/ now - Last(log).at <= Patience
====
