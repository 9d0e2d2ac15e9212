---- MODULE Spawns ----
(***************************************************************************)
(* The life of a spawn: src/dispatch.py opens it behind the gate of       *)
(* src/spawns.py and waits for a pane's result, `doit cancel`             *)
(* (src/cancel.py) may end it while it waits, and every process that asks *)
(* tick.py what is busy records the end of a waiter that is gone.  The    *)
(* actors share nothing but the ledger, the seat directory, one flock per *)
(* subject and the process table of the host.                             *)
(*                                                                         *)
(* One dispatch is one process and one spawn id.  A ledger read is a copy *)
(* of the record; what is decided from it is decided later.               *)
(***************************************************************************)
EXTENDS Naturals, FiniteSets

CONSTANTS Spawn, Reconciler, Canceller,
          Role, Subject, Tree,   \* of each spawn, as it was dispatched
          Window, Cap,           \* minutes: offered to a pane, allowed to a pane
          LastStart,             \* bound: the last minute a spawn starts in
          MaxNow                 \* bound: the clock stops here, with all windows and caps
                                 \* over (MaxNow > LastStart + Window + Cap)

VARIABLES
    now,      \* minutes
    pc,       \* of each waiter, the dispatch process of the spawn
    seen,     \* the ledger as each waiter read it before the gate
    lock,     \* subject -> the spawn whose waiter holds its flock, or None
    start,    \* the minute of each spawn's start event, or Never
    ends,     \* terminal events: spawn, type, why, by
    held,     \* holds recorded in place of an end: spawn, why
    packet,   \* seat/<spawn>.packet.md: "none", "there", "moved"
    pane,     \* of each spawn: "none", "looked", "working", "stamped"
    marker,   \* spawns with a seat/<spawn>.cancelled
    claimT,   \* when the waiter saw the claim, or Never
    cancel,   \* each `doit cancel`: at, spawn
    recon     \* each reconciling process: at, its copy, what it will record
vars == <<now, pc, seen, lock, start, ends, held, packet, pane, marker,
          claimT, cancel, recon>>
seat == <<packet, pane, marker, claimT>>

None  == "none"
Never == MaxNow + 1

\* spawns.CONFLICTS: the roles that may not run on one subject beside a role.
Conflicts == [builder  |-> {"builder", "grader", "reviewer"},
              grader   |-> {"builder", "grader"},
              reviewer |-> {"builder", "reviewer"}]

Ledger  == [start |-> start, ends |-> ends, held |-> held]
Started(led, s) == led.start[s] # Never
EndedIn(led, s, types) == \E e \in led.ends : e.spawn = s /\ e.type \in types
Terminal == {"done", "failed", "stale"}
RealEnd  == {"done", "failed"}

Alive(s) == pc[s] \notin {"idle", "dead"}

\* Mutant of StartState: the age counted without the pane's cap.
StartStateNoCap(led, s, at) ==
    IF ~Alive(s) THEN "vanished"
    ELSE IF at > led.start[s] + Window THEN "stale" ELSE "busy"

\* spawns.start_state: dead waiters first, then the age.
StartState(led, s, at) ==
    IF ~Alive(s) THEN "vanished"
    ELSE IF at > led.start[s] + Window + Cap THEN "stale" ELSE "busy"

\* spawns.open_spawns over the events dispatch kept: not the starts it knows
\* ended in a hold.
Open(led, at) ==
    {s \in Spawn : /\ Started(led, s)
                   /\ ~EndedIn(led, s, Terminal)
                   /\ \A h \in led.held : h.spawn # s
                   /\ StartState(led, s, at) = "busy"}

Collide(s, t) ==
    \/ Subject[t] = Subject[s] /\ Role[t] \in Conflicts[Role[s]]
    \/ Role[s] = "builder" /\ Role[t] = "builder" /\ Tree[t] = Tree[s]

\* Mutant of Free: the release leaves no holder and no free lock.
FreeNobody(s) == [lock EXCEPT ![Subject[s]] = IF @ = s THEN "" ELSE @]

Free(s) == [lock EXCEPT ![Subject[s]] = IF @ = s THEN None ELSE @]
End(s, type, why, by) == ends' = ends \cup
    {[spawn |-> s, type |-> type, why |-> why, by |-> by]}
Hold(s, why) == held' = held \cup {[spawn |-> s, why |-> why]}

Init ==
    /\ now = 0
    /\ pc = [s \in Spawn |-> "idle"]
    /\ lock = [x \in {Subject[s] : s \in Spawn} |-> None]
    /\ start = [s \in Spawn |-> Never] /\ ends = {} /\ held = {}
    /\ seen = [s \in Spawn |-> Ledger]
    /\ packet = [s \in Spawn |-> "none"] /\ pane = [s \in Spawn |-> "none"]
    /\ marker = {} /\ claimT = [s \in Spawn |-> Never]
    /\ cancel = [c \in Canceller |-> [at |-> "idle", spawn |-> None]]
    /\ recon = [r \in Reconciler |->
                  [at |-> "idle", led |-> Ledger, now |-> 0, left |-> {}, spawn |-> None]]

----------------------------------------------------------------------------
(* The waiter: dispatch._main and run_seat.                                *)

Read(s) ==
    /\ pc[s] = "idle" /\ now <= LastStart
    /\ seen' = [seen EXCEPT ![s] = Ledger]
    /\ pc' = [pc EXCEPT ![s] = "read"]
    /\ UNCHANGED <<now, lock, start, ends, held, cancel, recon>> /\ UNCHANGED seat

\* What the gate compares with: the events read before the lock.
GateView(s) == seen[s]

\* Mutant of Acquire: the lock alone, without the conflict table.
AcquireLockOnly(s) ==
    /\ pc[s] = "read" /\ lock[Subject[s]] = None
    /\ lock' = [lock EXCEPT ![Subject[s]] = s]
    /\ pc' = [pc EXCEPT ![s] = "gated"]
    /\ UNCHANGED <<now, seen, start, ends, held, cancel, recon>> /\ UNCHANGED seat

\* spawns.acquire: the subject's flock, not waited for, and the conflict
\* table under it.
Acquire(s) ==
    /\ pc[s] = "read" /\ lock[Subject[s]] = None
    /\ \A t \in Open(GateView(s), now) : ~Collide(s, t)
    /\ lock' = [lock EXCEPT ![Subject[s]] = s]
    /\ pc' = [pc EXCEPT ![s] = "gated"]
    /\ UNCHANGED <<now, seen, start, ends, held, cancel, recon>> /\ UNCHANGED seat

Refuse(s) ==
    /\ pc[s] = "read"
    /\ \/ lock[Subject[s]] # None
       \/ \E t \in Open(GateView(s), now) : Collide(s, t)
    /\ End(s, "failed", "refused", s)
    /\ pc' = [pc EXCEPT ![s] = "said"]
    /\ UNCHANGED <<now, seen, lock, start, held, cancel, recon>> /\ UNCHANGED seat

\* Every later check before the spend: fail() ends the spawn it never
\* started, or records the machine hold in place of an end.
Preflight(s) ==
    /\ pc[s] = "gated"
    /\ \/ End(s, "failed", "refused", s) /\ UNCHANGED held
       \/ Hold(s, "preflight") /\ UNCHANGED ends
    /\ pc' = [pc EXCEPT ![s] = "said"]
    /\ UNCHANGED <<now, seen, lock, start, cancel, recon>> /\ UNCHANGED seat

Start(s) ==
    /\ pc[s] = "gated" /\ now <= LastStart
    /\ start' = [start EXCEPT ![s] = now]
    /\ pc' = [pc EXCEPT ![s] = "started"]
    /\ UNCHANGED <<now, seen, lock, ends, held, cancel, recon>> /\ UNCHANGED seat

\* The flock is closed once the start event is on disk; then the packet.
Queue(s) ==
    /\ pc[s] = "started"
    /\ lock' = Free(s)
    /\ packet' = [packet EXCEPT ![s] = "there"]
    /\ pc' = [pc EXCEPT ![s] = "waiting"]
    /\ UNCHANGED <<now, seen, start, ends, held, pane, marker, claimT, cancel, recon>>

\* The loop of run_seat, in its order: result, marker, claim, clock.
SeeResult(s) ==
    /\ pc[s] = "waiting" /\ pane[s] = "stamped"
    /\ pc' = [pc EXCEPT ![s] = "post"]
    /\ UNCHANGED <<now, seen, lock, start, ends, held, cancel, recon>> /\ UNCHANGED seat

SeeMarker(s) ==
    /\ pc[s] = "waiting" /\ pane[s] # "stamped" /\ s \in marker
    /\ pc' = [pc EXCEPT ![s] = "dead"]
    /\ UNCHANGED <<now, seen, lock, start, ends, held, cancel, recon>> /\ UNCHANGED seat

SeeClaim(s) ==
    /\ pc[s] = "waiting" /\ pane[s] = "working" /\ s \notin marker
    /\ claimT[s] = Never
    /\ claimT' = [claimT EXCEPT ![s] = now]
    /\ UNCHANGED <<now, pc, seen, lock, start, ends, held, packet, pane, marker, cancel, recon>>

\* Unserved past the window, or a timeout past the pane's cap.  The SIGTERM
\* handler of the loop stays installed.
OutOfTime(s) ==
    \/ claimT[s] = Never /\ pane[s] # "working" /\ now > start[s] + Window
    \/ claimT[s] # Never /\ now > claimT[s] + Cap

GiveUp(s) ==
    /\ pc[s] = "waiting" /\ pane[s] # "stamped" /\ s \notin marker
    /\ OutOfTime(s)
    /\ pc' = [pc EXCEPT ![s] = "gaveup"]
    /\ UNCHANGED <<now, seen, lock, start, ends, held, cancel, recon>> /\ UNCHANGED seat

\* Both texts are unknown to the classifier: a hold, and exit 2 with no end.
HoldUnknown(s) ==
    /\ pc[s] = "gaveup"
    /\ Hold(s, "gaveup")
    /\ pc' = [pc EXCEPT ![s] = "armed"]
    /\ UNCHANGED <<now, seen, lock, start, ends, cancel, recon>> /\ UNCHANGED seat

\* What came back is checked: done, failed, or a machine hold.
Finish(s) ==
    /\ pc[s] = "post"
    /\ \/ \E type \in RealEnd : End(s, type, "result", s) /\ UNCHANGED held
       \/ Hold(s, "result") /\ UNCHANGED ends
    /\ pc' = [pc EXCEPT ![s] = "said"]
    /\ UNCHANGED <<now, seen, lock, start, cancel, recon>> /\ UNCHANGED seat

\* main's handler of a Cancelled raised outside the loop: the crash text is
\* unknown to the classifier too.
Crash(s) ==
    /\ pc[s] = "crashing"
    /\ Hold(s, "crash")
    /\ pc' = [pc EXCEPT ![s] = "said"]
    /\ UNCHANGED <<now, seen, lock, start, ends, cancel, recon>> /\ UNCHANGED seat

Exit(s) ==
    /\ pc[s] \in {"said", "armed"}
    /\ pc' = [pc EXCEPT ![s] = "dead"]
    /\ lock' = Free(s)
    /\ UNCHANGED <<now, seen, start, ends, held, cancel, recon>> /\ UNCHANGED seat

\* Killed, or the host goes down, anywhere.
Die(s) ==
    /\ Alive(s)
    /\ pc' = [pc EXCEPT ![s] = "dead"]
    /\ lock' = Free(s)
    /\ UNCHANGED <<now, seen, start, ends, held, cancel, recon>> /\ UNCHANGED seat

----------------------------------------------------------------------------
(* The pane: claim.sh looks for the packet, then creates the claim file;   *)
(* stamp.sh writes the result.                                             *)

Look(s) ==
    /\ pane[s] = "none" /\ packet[s] = "there"
    /\ pane' = [pane EXCEPT ![s] = "looked"]
    /\ UNCHANGED <<now, pc, seen, lock, start, ends, held, packet, marker, claimT, cancel, recon>>

Claim(s) ==
    /\ pane[s] = "looked"
    /\ pane' = [pane EXCEPT ![s] = "working"]
    /\ UNCHANGED <<now, pc, seen, lock, start, ends, held, packet, marker, claimT, cancel, recon>>

Stamp(s) ==
    /\ pane[s] = "working"
    /\ pane' = [pane EXCEPT ![s] = "stamped"]
    /\ UNCHANGED <<now, pc, seen, lock, start, ends, held, packet, marker, claimT, cancel, recon>>

Claimed(s) == pane[s] \in {"working", "stamped"}

----------------------------------------------------------------------------
(* doit cancel, with or without --force.                                   *)

At(c, at, s) == cancel' = [cancel EXCEPT ![c] = [at |-> at, spawn |-> s]]

\* Admitted on the ledger and the claim file, read once.
Admit(c, s, force) ==
    /\ cancel[c].at = "idle"
    /\ Started(Ledger, s) /\ ~EndedIn(Ledger, s, Terminal)
    /\ Claimed(s) => force
    /\ At(c, IF Claimed(s) THEN "forced" ELSE "admitted", s)
    /\ UNCHANGED <<now, pc, seen, lock, start, ends, held, recon>> /\ UNCHANGED seat

Withdraw(c) ==
    LET s == cancel[c].spawn IN
    /\ cancel[c].at \in {"admitted", "forced"}
    /\ packet' = [packet EXCEPT ![s] = IF @ = "there" THEN "moved" ELSE @]
    /\ marker' = marker \cup {s}
    /\ At(c, "marked", s)
    /\ UNCHANGED <<now, pc, seen, lock, start, ends, held, pane, claimT, recon>>

\* In the loop the handler raises Cancelled, and the waiter exits in silence;
\* while an exception of the loop is handled it is main that sees it.
Signal(c) ==
    LET s == cancel[c].spawn IN
    /\ cancel[c].at = "marked"
    /\ IF Alive(s)
       THEN /\ pc' = [pc EXCEPT ![s] =
                        IF @ \in {"gaveup", "armed", "crashing"} THEN "crashing" ELSE "dead"]
            /\ lock' = IF pc'[s] = "dead" THEN Free(s) ELSE lock
       ELSE UNCHANGED <<pc, lock>>
    /\ At(c, "signalled", s)
    /\ UNCHANGED <<now, seen, start, ends, held, recon>> /\ UNCHANGED seat

RecordCancel(c) ==
    LET s == cancel[c].spawn IN
    /\ cancel[c].at = "signalled"
    /\ End(s, "failed", "cancelled", c)
    /\ At(c, "over", s)
    /\ UNCHANGED <<now, pc, seen, lock, start, held, recon>> /\ UNCHANGED seat

----------------------------------------------------------------------------
(* tick._spawn_busy: one pass of a tick, of a closing pane, of `up`.       *)

ReadAll(r) ==
    /\ recon[r].at = "idle"
    /\ recon' = [recon EXCEPT ![r] =
          [at |-> "read", led |-> Ledger, now |-> now,
           left |-> {s \in Spawn : Started(Ledger, s)}, spawn |-> None]]
    /\ UNCHANGED <<now, pc, seen, lock, start, ends, held, cancel>> /\ UNCHANGED seat

\* Mutant of EndedSinceRead: only the tick's own file is read again.
EndedInTick(s) ==
    \E e \in ends : e.spawn = s /\ e.type \in RealEnd /\ e.by \in Reconciler

\* tick._ended_since_read: the spawn's own file and the tick's, not the
\* canceller's.
EndedSinceRead(s) ==
    \E e \in ends : e.spawn = s /\ e.type \in RealEnd /\ e.by \in Reconciler \cup {s}

\* Mutant of Verdict: a stale spawn is settled, whatever becomes of it.
VerdictStaleSettled(r, s) ==
    LET led == recon[r].led IN
    IF EndedIn(led, s, Terminal) \/ EndedSinceRead(s) THEN ""
    ELSE [busy |-> "", vanished |-> "vanished", stale |-> "stale"]
             [StartState(led, s, recon[r].now)]

\* What one start of the copy calls for, "" when nothing.
Verdict(r, s) ==
    LET led == recon[r].led
        st  == StartState(led, s, recon[r].now) IN
    IF EndedIn(led, s, RealEnd) \/ EndedSinceRead(s) THEN ""
    ELSE IF st = "vanished" THEN "vanished"
    ELSE IF EndedIn(led, s, {"stale"}) \/ st = "busy" THEN ""
    ELSE "stale"

\* The pass goes on with the copy it has.
GoOn(r, at, left, s) ==
    recon' = [recon EXCEPT ![r] = [at |-> at, led |-> recon[r].led, now |-> recon[r].now,
                                   left |-> left, spawn |-> s]]

Judge(r, s) ==
    /\ recon[r].at = "read" /\ s \in recon[r].left
    /\ LET v == Verdict(r, s) IN
       IF v = "" THEN GoOn(r, "read", recon[r].left \ {s}, None)
                 ELSE GoOn(r, v, recon[r].left \ {s}, s)
    /\ UNCHANGED <<now, pc, seen, lock, start, ends, held, cancel>> /\ UNCHANGED seat

RecordEnd(r) ==
    /\ recon[r].at \in {"vanished", "stale"}
    /\ End(recon[r].spawn, IF recon[r].at = "stale" THEN "stale" ELSE "failed", recon[r].at, r)
    /\ GoOn(r, "read", recon[r].left, None)
    /\ UNCHANGED <<now, pc, seen, lock, start, held, cancel>> /\ UNCHANGED seat

PassOver(r) ==
    /\ recon[r].at = "read" /\ recon[r].left = {}
    /\ recon' = [recon EXCEPT ![r] =
          [at |-> "idle", led |-> Ledger, now |-> 0, left |-> {}, spawn |-> None]]
    /\ UNCHANGED <<now, pc, seen, lock, start, ends, held, cancel>> /\ UNCHANGED seat

----------------------------------------------------------------------------
\* A waiter goes from its start event to the loop, and round the loop, many
\* times a minute.
PollDue(s) ==
    \/ pc[s] = "started"
    \/ /\ pc[s] = "waiting"
       /\ \/ pane[s] = "stamped" \/ s \in marker \/ OutOfTime(s)
          \/ pane[s] = "working" /\ claimT[s] = Never

Clock ==
    /\ now < MaxNow
    /\ \A s \in Spawn : ~PollDue(s)
    /\ now' = now + 1
    /\ UNCHANGED <<pc, seen, lock, start, ends, held, cancel, recon>> /\ UNCHANGED seat

Wait(s) == SeeResult(s) \/ SeeMarker(s) \/ SeeClaim(s) \/ GiveUp(s)
Work(s) == \/ Read(s) \/ Acquire(s) \/ Refuse(s) \/ Preflight(s) \/ Start(s)
           \/ Queue(s) \/ Wait(s) \/ HoldUnknown(s) \/ Finish(s) \/ Crash(s) \/ Exit(s)
Pane(s) == Look(s) \/ Claim(s) \/ Stamp(s)
Cancel(c) == \/ \E s \in Spawn, force \in BOOLEAN : Admit(c, s, force)
             \/ Withdraw(c) \/ Signal(c) \/ RecordCancel(c)
Pass(r) == ReadAll(r) \/ (\E s \in Spawn : Judge(r, s)) \/ RecordEnd(r) \/ PassOver(r)

Next == \/ \E s \in Spawn : Work(s) \/ Die(s) \/ Pane(s)
        \/ \E c \in Canceller : Cancel(c)
        \/ \E r \in Reconciler : Pass(r)
        \/ Clock

\* Cron runs a tick every few minutes, the clock does not stop, and a waiter that
\* is alive goes on.  Nothing is assumed of panes, of cancels or of deaths.
Spec == /\ Init /\ [][Next]_vars
        /\ WF_vars(Clock)
        /\ \A s \in Spawn : WF_vars(Work(s))
        /\ \A r \in Reconciler : WF_vars(Pass(r))

----------------------------------------------------------------------------
Snapshot == [start : [Spawn -> 0..Never],
             ends : SUBSET [spawn : Spawn, type : Terminal, why : STRING,
                            by : Spawn \cup Canceller \cup Reconciler],
             held : SUBSET [spawn : Spawn, why : STRING]]

\* The state keeps its type and the clock its bound.
TypeOK ==
    /\ now \in 0..MaxNow
    /\ pc \in [Spawn -> {"idle", "read", "gated", "started", "waiting", "post",
                         "gaveup", "armed", "crashing", "said", "dead"}]
    /\ Ledger \in Snapshot
    /\ lock \in [{Subject[s] : s \in Spawn} -> Spawn \cup {None}]
    /\ claimT \in [Spawn -> 0..Never] /\ marker \subseteq Spawn
    /\ \A s \in Spawn : seen[s] \in Snapshot

\* A spawn is recorded vanished only when its waiter is gone and left no end
\* of its own: what it recorded after the pass read the ledger is seen
\* (tick._ended_since_read).
VanishedIsSilent ==
    \A e \in ends : e.why = "vanished" =>
        /\ ~Alive(e.spawn)
        /\ \A f \in ends : f.spawn = e.spawn => f.by # e.spawn

\* A spawn recorded as stale had outlived its window and its cap, so what a
\* pane claimed in time is never written off while its own cap runs
\* (spawns.start_state, tick._spawn_busy).
StaleIsOver ==
    \A e \in ends : (e.why = "stale" /\ claimT[e.spawn] # Never) =>
        now >= claimT[e.spawn] + Cap

\* Two spawns that may not run together run together only when the gate of
\* the later read the ledger before the earlier one's start was in it, or
\* found it past its window and cap, or ended, or held (spawns.acquire).
Running(s) == pc[s] \in {"started", "waiting", "post"}
TogetherOnlyUnseen ==
    \A s, t \in Spawn :
        (s # t /\ Running(s) /\ Running(t) /\ Collide(s, t) /\ Started(seen[s], t))
        => now > start[t] + Window + Cap

\* Every spawn that starts gets a real end on the record, whoever dies and
\* whatever is held or cancelled (dispatch._main, tick._spawn_busy).
EveryStartEnds ==
    \A s \in Spawn : start[s] # Never ~> EndedIn(Ledger, s, RealEnd)

\* spawns.acquire: "The duplicate-dispatch gate"; two colliding spawns never
\* run together.
NeverTogether ==
    \A s, t \in Spawn : (s # t /\ Running(s) /\ Running(t)) => ~Collide(s, t)

\* spawns.Cancelled: "main() exits on it quietly and emits NOTHING".
CancelledIsQuiet == \A h \in held : h.why # "crash"

\* cancel.py: "one `spawn-failed reason=cancelled` is appended -- the single
\* terminal event".
CancelIsTheEnd ==
    \A e, f \in ends :
        (e.why = "cancelled" /\ f.spawn = e.spawn /\ f.type \in RealEnd) => f = e

\* tick._spawn_busy: "Reconcile vanished attempts once".
VanishedOnce ==
    \A e, f \in ends :
        (e.why = "vanished" /\ f.why = "vanished" /\ f.spawn = e.spawn) => f = e
====
