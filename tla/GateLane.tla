---- MODULE GateLane ----
(***************************************************************************)
(* The tick's gate and enqueue lane for one spec: merge_queue.enqueue_due *)
(* takes the row the lane rules find due in a copy of the ledger, records *)
(* the dispatch, runs the merge gate or queues the branch, and retries    *)
(* once; look.py escalates a row whose retry has aged.  The gate          *)
(* (src/merge_gate.py) is a process of its own, which outlives a tick     *)
(* that dies and which an executor may also start by hand.  On a merge    *)
(* conflict it rebases the branch itself and gates the rebase in a new    *)
(* process; the dispatch of a builder does the same                       *)
(* (src/branch_refresh.py).  A judge and a builder go on writing to the   *)
(* same ledger.                                                            *)
(*                                                                         *)
(* The unit of time is one period of the tick's cron line: events of one  *)
(* tick can carry equal stamps, those of two ticks cannot.                *)
(***************************************************************************)
EXTENDS Naturals, FiniteSets, SequencesExt

CONSTANTS
    Limit,       \* of "gate" and "enqueue": lane_rules.toml, limit_min (an integer)
    Backoff,     \* <<after one failure, after two>>: 5 and 15 minutes
    Span,        \* a gate ends within these periods: its set-up has 60 seconds, a
                 \* pass of its scan up to ten minutes; on a conflict the checks of
                 \* the rebase have a cap too, and its re-gate ten minutes
    PerDay,      \* look.toml, branch_refresh_per_day: rebases of a spec in a day, and
                 \* a day is longer than the clock runs
    MaxNow,      \* bound: the clock stops here
    MaxHead,     \* bound: versions of the branch a builder delivers
    MaxDeaths,   \* bound: ticks that die
    MaxManual,   \* bound: gates started by hand
    MaxVerdicts, \* bound: rejecting verdicts on a reviewed branch
    MaxUnblocked \* bound: `unblocked` rulings

ASSUME LaneAssumption ==
    /\ Backoff[1] \in Nat /\ Backoff[2] \in Nat
    /\ Limit["gate"] \in Nat
    /\ Span \in Nat \ {0}

VARIABLES
    now,
    log,     \* the spec's events as a fold reads them: by stamp
    head,    \* the builder's version that the branch carries
    rebase,  \* which rebase of that version its tip is: 0, as it was built
    tick,    \* the tick that holds the tick lock: pc, its copy of the ledger,
             \* its NOW, the row it acts on, the gate it waits for
    ticked,  \* cron has started a tick in this period
    gates,   \* gate processes: file, at (NOW), and what they read: the tip (version
             \* and rebase), cycle, count
    rebases, \* rebases attempted
    adoption, \* the rebase under the spec's reservation lock, if any: by whom, of
             \* which tip, and its number once the branch has it
    regates, \* who waits for the gate of the rebase: that gate, and its exit code
    deaths, manual
rebasing == <<rebases, adoption, regates>>
vars == <<now, log, head, rebase, tick, ticked, gates, rebasing, deaths, manual>>

None == [none |-> TRUE]

\* An event.  The branch_sha of a gate's outcome is its tip, a version and a rebase
\* of it (version 0: not resolved).  A review records no sha: its version is that
\* of the branch it judged.
Event(type, file, at) ==
    [type |-> type, file |-> file, at |-> at, rule |-> "", since |-> 0,
     retry |-> FALSE, version |-> 0, rebase |-> 0, cycle |-> 0,
     attempt |-> FALSE, retryable |-> FALSE, due |-> 0, hold |-> FALSE]

\* A fold orders by stamp, and keeps a file's own order among equal stamps.
Inserted(l, e) ==
    {InsertAt(l, p + 1, e) : p \in
        {q \in 0 .. Len(l) :
            /\ \A i \in 1 .. q : l[i].at <= e.at
            /\ \A i \in q + 1 .. Len(l) : /\ l[i].at >= e.at
                                          /\ l[i].at = e.at => l[i].file # e.file}}

Index(l, types) == {i \in DOMAIN l : l[i].type \in types}
Has(l, types)   == Index(l, types) # {}
Latest(l, types) == l[CHOOSE i \in Index(l, types) : \A j \in Index(l, types) : j <= i]
After(l, at, types) == \E i \in Index(l, types) : l[i].at >= at

Judging == {"review", "verdict"}
Outcome == {"clean", "rework", "tooling"}   \* merge-gate-clean, -rework, -undetermined
Answer  == Outcome \union {"conflict"}      \* conflict-rework ends an outcome's turn

\* nextstep._clean_review
CleanReview(l) ==
    LET types == Judging \union {"built"} IN
    IF Has(l, types) /\ Latest(l, types).type = "review" THEN Latest(l, types) ELSE None

Reset(l) == IF Has(l, {"unblocked"}) THEN Latest(l, {"unblocked"}).at ELSE 0

\* The failures that took the scan lock, of the review and the tip of an event,
\* since the last ruling.
Acquired(l, event) ==
    {i \in Index(l, {"tooling"}) :
        /\ l[i].cycle = event.cycle
        /\ l[i].version = event.version /\ l[i].rebase = event.rebase
        /\ l[i].attempt /\ l[i].at > Reset(l)}
Attempts(l, event) == Cardinality({i \in Acquired(l, event) : l[i].retryable})

\* Mutant of Tooling: a lock-busy refusal decides for itself.
ToolingByLast(l) ==
    LET types  == Answer \union Judging
        event  == Latest(l, types)
        review == CleanReview(l)
        Hold(hold, due) == [at |-> event.at, hold |-> hold, due |-> due]
    IN  IF \/ ~Has(l, types) \/ event.type # "tooling"
           \/ review # None /\ review.at > event.at
        THEN None
        ELSE IF review = None \/ event.cycle # review.at THEN Hold(TRUE, 0)
        ELSE IF Reset(l) > event.at THEN Hold(FALSE, 0)
        ELSE Hold(event.hold \/ Attempts(l, event) >= 3, event.due)

\* nextstep._gate_tooling: the standing tooling hold, if any.
Tooling(l) ==
    LET types  == Answer \union Judging
        event  == Latest(l, types)
        review == CleanReview(l)
        past   == Acquired(l, event)
        policy == IF ~event.attempt /\ past # {}    \* lock-busy
                  THEN l[CHOOSE i \in past : \A j \in past : j <= i] ELSE event
        Hold(hold, due) == [at |-> event.at, hold |-> hold, due |-> due]
    IN  IF \/ ~Has(l, types) \/ event.type # "tooling"
           \/ review # None /\ review.at > event.at
        THEN None
        ELSE IF review = None \/ event.cycle # review.at THEN Hold(TRUE, 0)
        ELSE IF Reset(l) > event.at THEN Hold(FALSE, 0)
        ELSE Hold(\/ policy.hold \/ ~policy.retryable
                  \/ Attempts(l, event) >= 3, policy.due)

Row(rule, since) == {[rule |-> rule, since |-> since]}

\* nextstep._gate
GateRow(l, t) ==
    LET tooling == Tooling(l)
        review  == CleanReview(l)
    IN  CASE tooling # None -> IF tooling.hold \/ t < tooling.due
                               THEN {} ELSE Row("gate", tooling.at)
          [] tooling = None /\ review # None /\ ~After(l, review.at, Outcome \union {"queue-add"})
                            -> Row("gate", review.at)
          [] OTHER          -> {}

\* nextstep._enqueue.  Without a clean review the predicate raises: no row acts.
EnqueueRow(l) ==
    LET clean == Latest(l, Answer) IN
    IF /\ Has(l, Answer)
       /\ clean.type = "clean"
       /\ Has(l, {"verdict"}) => Latest(l, {"verdict"}).at <= clean.at
       /\ ~After(l, clean.at, {"queue-add"})
       /\ CleanReview(l) # None
       /\ clean.at >= CleanReview(l).at
    THEN Row("enqueue", CleanReview(l).at) ELSE {}

Due(l, t) == GateRow(l, t) \union EnqueueRow(l)

Overdue(row, t) == t - row.since > Limit[row.rule]
Matches(e, row) == e.rule = row.rule /\ e.since = row.since

\* Mutant of Ladder: a retry that was made is the answer, whatever its age.
LadderNoInbox(l, of, row, t) ==
    LET retries == {i \in Index(l, {"dispatched"}) \intersect of : l[i].retry /\ Matches(l[i], row)}
    IN  IF \E i \in Index(l, {"lane-stale"}) : Matches(l[i], row) THEN "digest"
        ELSE IF retries # {} \/ Overdue(row, t) THEN "retry" ELSE "act"

\* lane_rules.ladder over the events at the indices `of`
Ladder(l, of, row, t) ==
    LET retries == {i \in Index(l, {"dispatched"}) \intersect of : l[i].retry /\ Matches(l[i], row)}
    IN  IF \E i \in Index(l, {"lane-stale"}) : Matches(l[i], row) THEN "digest"
        ELSE IF \E i \in retries : t - l[i].at > Limit[row.rule] THEN "inbox"
        ELSE IF retries # {} \/ Overdue(row, t) THEN "retry" ELSE "act"

\* enqueue_due: an outcome can share its second with the dispatch before it,
\* so what a tooling row's dispatch is looked for in begins at the outcome.
Anchor(l, row) ==
    LET own == {i \in Index(l, {"tooling"}) : row.rule = "gate" /\ l[i].at = row.since}
    IN  IF own = {} THEN 0 ELSE CHOOSE i \in own : \A j \in own : j <= i

Newer(l, row) ==
    LET a == Anchor(l, row) IN
    {i \in DOMAIN l : IF a > 0 THEN i > a ELSE l[i].at >= row.since}

\* Mutant of Spent: a tooling row is dispatched and retried like any other.
NeverSpent(l, row) == FALSE

\* A tooling outcome gives one dispatch: only a new outcome gives another.
Spent(l, row) ==
    Anchor(l, row) > 0 /\ \E i \in Newer(l, row) :
        l[i].type = "dispatched" /\ l[i].rule = "gate" /\ l[i].since = row.since

\* What the pass does with a due row: "act", "retry" or nothing.  (A gate dispatch
\* refused with a spawn-failed row would not count: nothing writes that row.)
Choice(l, row, t) ==
    LET a      == Anchor(l, row)
        before == {i \in Index(l, {"dispatched"}) : i <= a /\ l[i].rule = "gate"}
        rung   == Ladder(l, DOMAIN l \ before, row, t)
        sent   == {i \in Newer(l, row) : l[i].type = "dispatched" /\ l[i].rule = row.rule}
        failed == {i \in Newer(l, row) : l[i].type = "failed" /\ l[i].rule = row.rule}
    IN  IF \/ Spent(l, row)
           \/ rung \notin {"act", "retry"}
           \/ \E i \in sent : l[i].since = row.since /\ l[i].retry
           \/ rung = "act" /\ sent \union failed # {}
        THEN "none" ELSE rung

Idle == [pc |-> "idle", seen |-> <<>>, at |-> 0, row |-> None, gate |-> None]

\* The branch is built and reviewed.
Init ==
    /\ now = 1
    /\ log = <<[Event("review", "judge", 1) EXCEPT !.version = 1]>>
    /\ head = 1 /\ rebase = 0
    /\ tick = Idle
    /\ ticked = FALSE
    /\ gates = {}
    /\ rebases = 0 /\ adoption = {} /\ regates = {}
    /\ deaths = 0 /\ manual = 0

Append1(e) == log' \in Inserted(log, e)

-----------------------------------------------------------------------------
\* The tick

\* The rows of a ledger copy that the pass acts on, each with its rung.
Eligible(l, t) ==
    {e \in [row : Due(l, t), rung : {"act", "retry"}] : Choice(l, e.row, t) = e.rung}

\* Under the tick lock, NOW and the ledger are read once for the whole pass.
TickBegin ==
    /\ tick.pc = "idle" /\ ~ticked
    /\ tick' = IF Eligible(log, now) = {} THEN Idle
               ELSE [Idle EXCEPT !.pc = "read", !.seen = log, !.at = now]
    /\ ticked' = TRUE
    /\ UNCHANGED <<now, log, head, rebase, gates, deaths, manual, rebasing>>

Dispatched(e) == [Event("dispatched", "tick", now) EXCEPT
                    !.rule = e.row.rule, !.since = e.row.since, !.retry = (e.rung = "retry")]

\* The rest of the pass lies between the read and the dispatch: its stamp is of a
\* later second than those of the events the pass has read.
KeepsRead(l, d) == \A i, j \in DOMAIN l : l[i] = d /\ l[j] \in Range(tick.seen) => j < i

\* The dispatch is on record before the work begins.
Dispatch ==
    /\ tick.pc = "read"
    /\ \E e \in Eligible(tick.seen, tick.at) :
        /\ log' \in {l \in Inserted(log, Dispatched(e)) : KeepsRead(l, Dispatched(e))}
        /\ tick' = [tick EXCEPT !.pc = e.row.rule, !.row = e.row]
    /\ UNCHANGED <<now, head, rebase, ticked, gates, deaths, manual, rebasing>>

\* merge_gate.main_: NOW, what the copy of the ledger says of the review and of
\* the failures of its cycle (this one counted), and the branch it resolves.
Process(file) ==
    LET review == CleanReview(log)
        run    == [file |-> file, at |-> now, version |-> head, rebase |-> rebase,
                   cycle |-> IF review = None THEN 0 ELSE review.at, count |-> 0]
    IN  [run EXCEPT !.count = Attempts(log, run) + (IF now > Reset(log) THEN 1 ELSE 0)]

RunGate ==
    /\ tick.pc = "gate"
    /\ gates' = gates \union {Process("tick")}
    /\ tick' = [tick EXCEPT !.pc = "wait", !.gate = Process("tick")]
    /\ UNCHANGED <<now, log, head, rebase, ticked, deaths, manual, rebasing>>

\* A gate row's dispatch fails (exit code 1), or an enqueue does.
Failed(rule) == Append1([Event("failed", "tick", now) EXCEPT !.rule = rule])

\* enqueue: the branch of the clean in the copy is queued, by its name; a Base line
\* that names another branch leaves the row due; an error is recorded.
Enqueue ==
    /\ tick.pc = "enqueue"
    /\ \/ Append1(Event("queue-add", "tick", now))
       \/ UNCHANGED log
       \/ Failed("enqueue")
    /\ tick' = Idle
    /\ UNCHANGED <<now, head, rebase, ticked, gates, deaths, manual, rebasing>>

TickDie ==
    /\ tick.pc # "idle" /\ deaths < MaxDeaths
    /\ tick' = Idle
    /\ deaths' = deaths + 1
    /\ UNCHANGED <<now, log, head, rebase, ticked, gates, manual, rebasing>>

-----------------------------------------------------------------------------
\* The gate

\* `doit gate` by an executor.
ManualGate ==
    /\ manual < MaxManual
    /\ gates' = gates \union {Process("exec")}
    /\ manual' = manual + 1
    /\ UNCHANGED <<now, log, head, rebase, tick, ticked, deaths, rebasing>>

\* The stamp of an outcome is NOW, taken when the process began.
Stamp(g) == g.at

\* What a gate records of the tip it has read.
Verdict(g, type) ==
    [Event(type, g.file, Stamp(g)) EXCEPT !.version = g.version, !.rebase = g.rebase]

\* merge_gate._emit_tooling
ToolingEvent(g, busy, retryable) ==
    LET event == [Verdict(g, "tooling") EXCEPT
                    !.cycle = g.cycle, !.attempt = ~busy, !.retryable = TRUE]
        hold  == [event EXCEPT !.retryable = FALSE, !.hold = TRUE]
    IN  CASE g.cycle = 0 \/ ~retryable -> hold
          [] g.cycle # 0 /\ busy       -> event
          [] OTHER -> IF g.count >= 3 THEN hold
                      ELSE [event EXCEPT !.due = g.at + Backoff[IF g.count <= 1 THEN 1 ELSE 2]]

\* A tip that was not resolved is a hold.
Unresolved(g) == [ToolingEvent(g, FALSE, FALSE) EXCEPT !.version = 0, !.rebase = 0]

\* The tick that waits for the gate, and whoever waits for it as its re-gate, get
\* its exit code: 2 is a hold, 1 a failed dispatch.
Ended(g, code) ==
    /\ gates' = gates \ {g}
    /\ tick' = IF tick.gate = g THEN Idle ELSE tick
    /\ adoption' = {a \in adoption : a.by # g}
    /\ regates' = {IF w.gate = g THEN [w EXCEPT !.exit = {code}] ELSE w :
                      w \in {x \in regates : x.by # g}}
    /\ UNCHANGED <<now, head, rebase, ticked, rebases, deaths, manual>>

\* The gate has not met a conflict that it rebases.
Judges(g) == \A a \in adoption \union regates : a.by # g

GateClean(g) ==
    /\ Judges(g)
    /\ Append1(Verdict(g, "clean"))
    /\ Ended(g, 0)

\* The scan or git fails, or a conflict cannot be diagnosed.
GateTooling(g) ==
    /\ Judges(g)
    /\ \/ \E busy, retryable \in BOOLEAN :
            /\ busy => retryable
            /\ Append1(ToolingEvent(g, busy, retryable))
       \/ Append1(Unresolved(g))
    /\ Ended(g, 2)

\* A ledger with what the waiting tick writes of a gate that has failed.
Reported(l, g) ==
    IF tick.gate = g
    THEN Inserted(l, [Event("failed", "tick", now) EXCEPT !.rule = "gate"]) ELSE {l}

GateRework(g) ==
    /\ Judges(g)
    /\ \E l \in Inserted(log, Verdict(g, "rework")) : log' \in Reported(l, g)
    /\ Ended(g, 1)

\* A gate that a freeze refuses, that dies, or that is killed because it outlasts the
\* ten minutes of a re-gate, records nothing itself.
GateNothing(g) ==
    /\ log' \in Reported(log, g)
    /\ Ended(g, 1)

-----------------------------------------------------------------------------
\* A rebase of the branch: by a gate that meets a conflict (refresh), or by a builder's
\* dispatch that is refused because the branch is behind (refresh or recut)

\* The ledgers after `conflict-rework`, which is left out if the last attempt of this
\* tip recorded it, or its checks had no answer.
ConflictRework(by, file) == {log} \union Inserted(log, Event("conflict", file, by.at))

\* Under the reservation lock the tip is resolved anew and the attempt is recorded.
Reserve(by) ==
    /\ adoption = {} /\ rebases < PerDay
    /\ adoption' = {[by |-> by, version |-> head, rebase |-> rebase, done |-> 0]}
    /\ rebases' = rebases + 1
    /\ UNCHANGED <<now, log, head, rebase, tick, ticked, gates, regates, deaths, manual>>

Conflict(g) == Judges(g) /\ Reserve(g)

\* A dispatch: only its NOW matters.
Preflight == Reserve([dispatch |-> TRUE, at |-> now])

\* Mutant of Unmoved: the branch is not looked at again.
UnmovedOrNot(a) == TRUE

\* The branch is still the tip that was resolved.
Unmoved(a) == head = a.version /\ rebase = a.rebase

\* After the rebase and its checks, which take long, the branch is set to it.  (That a
\* builder is at work makes it refuse as well.)
Adopt(a) ==
    /\ a.done = 0 /\ Unmoved(a)
    /\ head' = a.version /\ rebase' = rebases
    /\ adoption' = {[a EXCEPT !.done = rebases]}
    /\ UNCHANGED <<now, log, tick, ticked, gates, rebases, regates, deaths, manual>>

GateFile(by) == IF by \in gates THEN by.file ELSE "exec"

\* The rebase's bundle is built, the lock released, and a new process gates the branch.
Regate(a) ==
    /\ a.done # 0
    /\ LET g == Process(GateFile(a.by)) IN
        /\ gates' = gates \union {g}
        /\ regates' = regates \union
             {[by |-> a.by, gate |-> g, exit |-> {}, version |-> a.version,
               rebase |-> a.rebase, done |-> a.done]}
    /\ adoption' = {}
    /\ UNCHANGED <<now, log, head, rebase, tick, ticked, rebases, deaths, manual>>

\* No rebase (the branch or the state of its work trees forbid it), one that fails or
\* comes too late, or a re-gate that fails.
GateConflict(g) ==
    /\ \A w \in regates : w.by = g => w.exit = {1}
    /\ \E file \in {g.file, "exec"} : \E l \in ConflictRework(g, file) : log' \in Reported(l, g)
    /\ Ended(g, 1)

\* A re-gate's other exit codes are the gate's own.
GateRefreshed(g) ==
    /\ \E w \in regates :
        /\ w.by = g
        /\ \/ w.exit = {0} /\ UNCHANGED log /\ Ended(g, 0)
           \/ w.exit = {2} /\ log' \in ConflictRework(g, "exec") /\ Ended(g, 2)

\* A recut sets the branch back, if it still is the recut; a refresh does not.
TakenBack(a) ==
    a.done # 0 /\ head = a.version /\ rebase = a.done /\ rebase' = a.rebase

\* The rebase or its checks fail, they come too late, the bundle cannot be built, or
\* the dispatch dies.
DispatchFails(a) ==
    /\ a.by \notin gates
    /\ log' \in ConflictRework(a.by, "exec")
    /\ UNCHANGED rebase \/ TakenBack(a)
    /\ adoption' = {}
    /\ UNCHANGED <<now, head, tick, ticked, gates, rebases, regates, deaths, manual>>

\* The dispatch keeps a rebase that its gate let pass, or dies; else it records the
\* rework, a recut under the lock, taken anew.
DispatchEnds(w) ==
    /\ w.by \notin gates
    /\ regates' = regates \ {w}
    /\ \/ UNCHANGED <<log, rebase>>
       \/ /\ w.exit \notin {{}, {0}}
          /\ log' \in ConflictRework(w.by, "exec")
          /\ UNCHANGED rebase \/ (adoption = {} /\ TakenBack(w))
    /\ UNCHANGED <<now, head, tick, ticked, gates, rebases, adoption, deaths, manual>>

-----------------------------------------------------------------------------
\* The other writers

\* look._check_lane_stale
LookDue(row) ==
    /\ Overdue(row, now)
    /\ Ladder(log, DOMAIN log, row, now) = "inbox"

Look ==
    /\ \E row \in Due(log, now) :
        /\ LookDue(row)
        /\ Append1([Event("lane-stale", "look", now) EXCEPT
                      !.rule = row.rule, !.since = row.since])
    /\ UNCHANGED <<now, head, rebase, tick, ticked, gates, deaths, manual, rebasing>>

Count(type) == Cardinality(Index(log, {type}))

\* A grader or reviewer rejects the reviewed branch.
Reject ==
    /\ Count("verdict") < MaxVerdicts
    /\ CleanReview(log) # None
    /\ Append1(Event("verdict", "judge", now))
    /\ UNCHANGED <<now, head, rebase, tick, ticked, gates, deaths, manual, rebasing>>

\* A builder answers the rejection, the gate's rework or the conflict with a new
\* version; that and its judgment take longer than a period.
Build ==
    /\ head < MaxHead
    /\ LET last == Latest(log, Judging \union Answer \union {"built"}) IN
       last.type \in {"verdict", "rework", "conflict"} /\ last.at < now
    /\ head' = head + 1 /\ rebase' = 0
    /\ Append1(Event("built", "builder", now))
    /\ UNCHANGED <<now, tick, ticked, gates, rebasing, deaths, manual>>

Review ==
    /\ Latest(log, Judging \union {"built"}).type = "built"
    /\ Latest(log, {"built"}).at < now
    /\ Append1([Event("review", "judge", now) EXCEPT !.version = head])
    /\ UNCHANGED <<now, head, rebase, tick, ticked, gates, deaths, manual, rebasing>>

Unblock ==
    /\ Count("unblocked") < MaxUnblocked
    /\ Tooling(log) # None /\ Tooling(log).hold
    /\ Append1(Event("unblocked", "thinker", now))
    /\ UNCHANGED <<now, head, rebase, tick, ticked, gates, deaths, manual, rebasing>>

\* Cron starts a tick in every period unless one still runs; look passes every
\* period; a gate ends by its deadline.
Clock ==
    /\ now < MaxNow
    /\ tick.pc \in {"idle", "wait"}
    /\ ticked \/ tick.pc = "wait"
    /\ ~ \E row \in Due(log, now) : LookDue(row)
    /\ \A g \in gates : now < g.at + Span
    /\ now' = now + 1
    /\ ticked' = FALSE
    /\ UNCHANGED <<log, head, rebase, tick, gates, deaths, manual, rebasing>>

\* At the horizon the model stops.
Done ==
    /\ now = MaxNow /\ tick.pc = "idle" /\ ticked
    /\ gates = {} /\ adoption = {} /\ regates = {}
    /\ UNCHANGED vars

Next ==
    \/ TickBegin \/ Dispatch \/ RunGate \/ Enqueue \/ TickDie
    \/ ManualGate \/ Preflight
    \/ \E g \in gates : \/ GateClean(g) \/ GateTooling(g) \/ GateRework(g) \/ GateNothing(g)
                        \/ Conflict(g) \/ GateConflict(g) \/ GateRefreshed(g)
    \/ \E a \in adoption : Adopt(a) \/ Regate(a) \/ DispatchFails(a)
    \/ \E w \in regates : DispatchEnds(w)
    \/ Look \/ Reject \/ Build \/ Review \/ Unblock \/ Clock \/ Done

Spec == Init /\ [][Next]_vars

-----------------------------------------------------------------------------
\* However ticks and gates die or overlap, one due row is dispatched at most
\* once to act and once to retry, and a tooling outcome once in all.
OncePerTrigger ==
    \A d \in Index(log, {"dispatched"}) :
        LET sent     == {i \in Index(log, {"dispatched"}) : Matches(log[i], log[d])}
            Of(type) == Cardinality({i \in Index(log, {type}) : log[i].at = log[d].since})
            holds    == IF log[d].rule = "gate" THEN Of("tooling") ELSE 0
        IN  /\ Cardinality({i \in sent : log[i].retry}) <= Of("review") + holds
            /\ Cardinality(sent) <= 2 * Of("review") + holds

\* The clean outcome that a branch is queued on was recorded for the builder's version
\* that its review has judged, as it was built or rebased since, however often: though
\* the gate and the judge read the branch at other moments, a gate's stamp is that of
\* its start, and others rebase the branch or deliver a new version meanwhile.
QueuedWasReviewed ==
    tick.pc = "enqueue" =>
        Latest(tick.seen, {"clean"}).version = CleanReview(tick.seen).version

\* While the last failure that held the scan lock stands (of the review and tip of the
\* newest one, no ruling since) the tick starts no gate before its retry time, after
\* the third of them, or over a hold, whatever lock-busy refusals came later.
BackoffKept ==
    tick.pc = "gate" /\ Has(tick.seen, {"tooling"}) =>
        LET last == Latest(tick.seen, {"tooling"})
            past == Acquired(tick.seen, last)
        IN  last.cycle = CleanReview(tick.seen).at =>
                \A i \in past : (\A j \in past : j <= i) =>
                    tick.seen[i].retryable /\ tick.at >= tick.seen[i].due

\* A clean review is not left: some time after it, with a dispatch lost to a dead
\* tick or gate, it has an outcome, was superseded, or look has escalated its row.
\* A gate started as late as the row may wait runs its whole span, a dead tick
\* costs a period, and the retry ages as long as the row did.
Horizon(row) == row.since + 2 * Limit[row.rule] + Span + 1 + deaths
Escalated(row) == \E i \in Index(log, {"lane-stale"}) : Matches(log[i], row)
EveryReviewSettles ==
    \A i \in Index(log, {"review"}) :
        LET row == [rule |-> "gate", since |-> log[i].at] IN
        now > Horizon(row) /\ row \in GateRow(log, now) /\ Tooling(log) = None
            => Escalated(row)

\* A tooling hold whose retry is due gets the one retry of its row, as a review
\* does, when its dispatch left no outcome.
ToolingRetried ==
    \A row \in GateRow(log, now) :
        now > Horizon(row) /\ gates = {} /\ tick.pc = "idle" =>
            \/ Escalated(row)
            \/ \E i \in Index(log, {"dispatched"}) : log[i].retry /\ Matches(log[i], row)
====
