----------------------------- MODULE MergeWindow -----------------------------
(***************************************************************************)
(* The merge window: how queued specs reach the protected branch.          *)
(*                                                                         *)
(* Three kinds of operating-system process share the event ledger, one git *)
(* reference and four small files:                                         *)
(*                                                                         *)
(*   launcher  merge_queue.window_run: takes the run lock, reconciles the  *)
(*             queue, selects a batch, starts a gate, leaves its pid.      *)
(*   gate      window_gate.main_: takes the project's chain lock and slot, *)
(*             merges its batch on the branch, verifies, advances.         *)
(*   tick      one pass of the tick: it reads the ledger once, closes an   *)
(*             escalated window (window_policy.apply_default), and then    *)
(*             reconciles and fills the queue (merge_queue.enqueue_due)    *)
(*             from what it read first.                                    *)
(*                                                                         *)
(* Every ledger append, every reference update and every lock operation is *)
(* a step of its own, and any process may die between two of them.  The    *)
(* kernel frees a dead process's flock; pid files stay behind.             *)
(*                                                                         *)
(* What the ledger says is kept folded: for a spec, its place in the queue *)
(* (QueueRow) and what it waits for; for a window, its last milestone.     *)
(***************************************************************************)
EXTENDS Naturals, FiniteSets, QueueRow

CONSTANTS
    Pids,        \* process ids, reused once their process is gone
    NoPid,       \* no process: a free flock, or a file that is not there
    Cap,         \* configured batch_cap
    MaxCrashes,  \* bound: processes that die before their last step
    MaxExternal, \* bound: commits pushed to the branch by something else
    MaxRebuilds, \* bound: fresh merge-gate-clean events after rework
    MaxRecycled, \* bound: unrelated processes given a stale pid
    MaxQuits     \* bound: gates that end without an event

ASSUME NullAssumption == NoPid \notin Pids /\ NoWindow \notin Windows
ASSUME BoundAssumption ==
    {Cap, MaxCrashes, MaxExternal, MaxRebuilds, MaxRecycled, MaxQuits} \subseteq Nat

VARIABLES
    row,      \* [Specs -> [in, batch]]: the spec's queue row, see RowType
    need,     \* [Specs -> what the spec waits for], see NeedType
    red,      \* specs with a precheck-red newer than their queue-add
    win,      \* [Windows -> last milestone of the window in the ledger]
    members,  \* [Windows -> specs named by its queue-batch]
    final,    \* <<w, s>>: w charged or could not merge s, for the default
    answered, \* <<w, s, kind>>: default events of w's escalation, by ref
    shipped,  \* specs with a shipped event
    main,     \* the branch: [ext, merged], see Commit
    green,    \* trees with a green verdict
    runPid,   \* state/window-run.<project>.lock: the pid written there
    launch,   \* [Windows -> pid in state/window-run.<window>.pid]
    chain,    \* holder of the flock on state/window-chain.<project>.lock
    slot,     \* state/window-gate.0.lock: [pid, win], NoSlot if absent
    pc, wid, live, todo, base, round, child,   \* per process, by pid
    prune, due,                                \* per tick, what it read first
    crashes, external, rebuilds, recycled, quits   \* counters, for the bounds

ledger == <<row, need, red, win, members, final, answered, shipped>>
git    == <<main, green>>
files  == <<runPid, launch, chain, slot>>
snap   == <<prune, due>>
locals == <<pc, wid, live, todo, base, round, child, snap>>
bounds == <<crashes, external, rebuilds, recycled, quits>>
vars   == <<ledger, git, files, locals, bounds>>

-----------------------------------------------------------------------------
(* Types *)

\* clean: a merge-gate-clean newer than every queue-add and outcome.
\* rework: a merge-conflict or precheck-red since; nextstep._rebuild acts on
\*   it whatever the queue does.
\* blamed: a gate's window-dropped charges the spec since; its builder is to
\*   rework it.
\* dropped: a window-dropped that charges nobody, and no queue-add since.
\* none: nothing but the queue will move it.
NeedType == {"none", "clean", "rework", "blamed", "dropped"}

WinType == {"new", "batched", "candidate", "verified", "escalated", "defaulted"}

\* A commit is known by what it contains: the external commits counted, and
\* the specs merged.  Only one gate advances at a time, so two different
\* commits of the branch a gate can compare differ in one of the two.
Commit == [ext : 0..MaxExternal, merged : SUBSET Specs]

LauncherPC == {"l_read", "l_prune", "l_probe", "l_check", "l_reread",
               "l_prune2", "l_batch", "l_popen", "l_pid", "l_unlock"}
SlotPC     == {"g_select", "g_verify", "g_drop", "g_advance", "g_ship",
               "g_clean"}
AcquirePC  == {"g_admit", "g_take", "g_stale", "g_retake", "g_stale2"}
GatePC     == {"g_start", "g_close"} \cup AcquirePC \cup SlotPC
DefaultPC  == {"d_drop", "d_add", "d_close"}
TickPC     == {"t_fill"} \cup DefaultPC
\* The processes between a successful chain_lock and its close.
ChainPC    == {"l_probe", "g_close"} \cup AcquirePC \cup SlotPC \cup DefaultPC
PC         == {"off", "other"} \cup LauncherPC \cup GatePC \cup TickPC

LedgerTypeOK ==
    /\ row \in [Specs -> RowType]
    /\ need \in [Specs -> NeedType]
    /\ red \subseteq Specs
    /\ win \in [Windows -> WinType]
    /\ members \in [Windows -> SUBSET Specs]
    /\ final \subseteq Windows \X Specs
    /\ answered \subseteq Windows \X Specs \X {"drop", "add"}
    /\ shipped \subseteq Specs

GitTypeOK == main \in Commit /\ green \subseteq Commit

FileTypeOK ==
    /\ runPid \in Pids \cup {NoPid}
    /\ launch \in [Windows -> Pids \cup {NoPid}]
    /\ chain \in Pids \cup {NoPid}
    /\ slot \in [pid : Pids \cup {NoPid}, win : Windows \cup {NoWindow}]

LocalTypeOK ==
    /\ pc \in [Pids -> PC]
    /\ wid \in [Pids -> Windows \cup {NoWindow}]
    /\ live \in [Pids -> SUBSET Specs]
    /\ todo \in [Pids -> SUBSET Specs]
    /\ base \in [Pids -> Commit]
    /\ round \in [Pids -> {1, 2}]
    /\ child \in [Pids -> Pids \cup {NoPid}]
    /\ prune \in [Pids -> SUBSET Specs]
    /\ due \in [Pids -> SUBSET Specs]

BoundTypeOK ==
    /\ crashes \in 0..MaxCrashes
    /\ external \in 0..MaxExternal
    /\ rebuilds \in 0..MaxRebuilds
    /\ recycled \in 0..MaxRecycled
    /\ quits \in 0..MaxQuits

TypeOK == LedgerTypeOK /\ GitTypeOK /\ FileTypeOK /\ LocalTypeOK /\ BoundTypeOK

-----------------------------------------------------------------------------
(* Helpers *)

\* merge_queue._alive and the kill(pid, 0) of window_gate.lock_holder: they
\* see a process with that pid, not the process that wrote the file.
Alive(p) == p # NoPid /\ pc[p] # "off"

Free == {p \in Pids : pc[p] = "off"}

\* No slot file.
NoSlot == [pid |-> NoPid, win |-> NoWindow]

\* A refused gate has no slot to release: release belongs to _admitted.
ReleasedAnyway == NoSlot                \* mutant: main_ releases on every path
SlotAfterRefusal == slot

\* chain_lock: LOCK_EX | LOCK_NB on the chain file.
ChainIgnored == TRUE                    \* mutant: the refusal is not looked at
ChainFree == chain = NoPid

\* update-ref with the old value: the branch is still what the gate read.
BaseAssumed(p) == TRUE                  \* mutant: no old value given
BaseHolds(p) == main = base[p]

\* _run_lock: only a living pid keeps the lock.
RunLockIgnored == TRUE                  \* mutant: the file is overwritten
RunLockFree == ~Alive(runPid)

\* The kernel frees the flock of a dead process.
ChainFileStays(p) == chain              \* mutant: a lock file, never taken over
ChainWithout(p) == IF chain = p THEN NoPid ELSE chain

\* window_gate.in_flight: candidates with no terminal event whose slot file
\* names them and a living process.
InFlight == {w \in Windows : win[w] = "candidate" /\ slot.win = w /\ Alive(slot.pid)}

LaunchingSeen == InFlight               \* mutant: a launch counts once it has a candidate

\* merge_queue._launching: batches with no terminal event that are in flight
\* or whose pid file names a living process.
Launching ==
    InFlight \cup {w \in Windows : win[w] \in {"batched", "candidate"} /\ Alive(launch[w])}

\* What a spec waits for after an outcome that charges nobody, and after a
\* queue-add.  Neither stops _rebuild.
AfterDrop(n) == IF n \in {"rework", "blamed"} THEN n ELSE "dropped"
AfterQueueAdd(n) == IF n \in {"clean", "dropped"} THEN "none" ELSE n

\* The tree a gate proposes: its base with the batch merged into it.
Candidate(p) == [base[p] EXCEPT !.merged = @ \cup live[p]]

\* The window a gate is told to run, on its command line.
NoWindowArgument(p) == NoWindow         \* mutant: the argument is left out
WindowArgument(p) == wid[p]

\* The specs advance announces, and the round that follows a red first run.
WholeBatch(p) == members[wid[p]]        \* mutant: the batch, not what was kept
Kept(p) == live[p]

SameRound == 1                          \* mutant: red runs are not counted
SecondRound == 2

Goto(p, label) == pc' = [pc EXCEPT ![p] = label]

\* A process that is gone leaves nothing behind but its files.
EmptyCommit == [ext |-> 0, merged |-> {}]
Gone(p) ==
    /\ Goto(p, "off")
    /\ wid'   = [wid EXCEPT ![p] = NoWindow]
    /\ live'  = [live EXCEPT ![p] = {}]
    /\ todo'  = [todo EXCEPT ![p] = {}]
    /\ base'  = [base EXCEPT ![p] = EmptyCommit]
    /\ round' = [round EXCEPT ![p] = 1]
    /\ child' = [child EXCEPT ![p] = NoPid]
    /\ prune' = [prune EXCEPT ![p] = {}]
    /\ due'   = [due EXCEPT ![p] = {}]

\* An attempt of a gate returns, and its locals with it.
Return(p) ==
    /\ Goto(p, "g_clean")
    /\ live'  = [live EXCEPT ![p] = {}]
    /\ todo'  = [todo EXCEPT ![p] = {}]
    /\ base'  = [base EXCEPT ![p] = EmptyCommit]
    /\ round' = [round EXCEPT ![p] = 1]

Init ==
    /\ row = [s \in Specs |-> NoRow]
    /\ need = [s \in Specs |-> "clean"]
    /\ red = {}
    /\ win = [w \in Windows |-> "new"]
    /\ members = [w \in Windows |-> {}]
    /\ final = {} /\ answered = {} /\ shipped = {}
    /\ main = EmptyCommit /\ green = {}
    /\ runPid = NoPid /\ chain = NoPid
    /\ launch = [w \in Windows |-> NoPid]
    /\ slot = NoSlot
    /\ pc = [p \in Pids |-> "off"]
    /\ wid = [p \in Pids |-> NoWindow]
    /\ live = [p \in Pids |-> {}] /\ todo = [p \in Pids |-> {}]
    /\ base = [p \in Pids |-> EmptyCommit]
    /\ round = [p \in Pids |-> 1]
    /\ child = [p \in Pids |-> NoPid]
    /\ prune = [p \in Pids |-> {}] /\ due = [p \in Pids |-> {}]
    /\ crashes = 0 /\ external = 0 /\ rebuilds = 0 /\ recycled = 0 /\ quits = 0

-----------------------------------------------------------------------------
(* The launcher: merge_queue.window_run *)

\* _run_lock: a living pid keeps the lock, a dead one is taken over.  The
\* whole exchange is one step, it happens under a flock on the directory.  A
\* launcher that finds the lock held exits and changes nothing.
LaunchStart(p) ==
    /\ pc[p] = "off" /\ RunLockFree
    /\ \E w \in Windows : win[w] = "new"              \* bound: window ids
    /\ runPid' = p
    /\ Goto(p, "l_read")
    /\ UNCHANGED <<ledger, git, launch, chain, slot, wid, live, todo, base,
                   round, child, snap, bounds>>

\* _window_reconcile reads the ledger once: the rows an outcome has settled.
LaunchRead(p) ==
    /\ \/ pc[p] = "l_read" /\ Goto(p, "l_prune")
       \/ pc[p] = "l_reread" /\ Goto(p, "l_prune2")
    /\ todo' = [todo EXCEPT ![p] = Settled(row)]
    /\ UNCHANGED <<ledger, git, files, wid, live, base, round, child, snap, bounds>>

\* _reconcile: one queue-remove for each row it has read.  The append does not
\* look again whether the row is still the one that was read.
LaunchPrune(p, s) ==
    /\ pc[p] \in {"l_prune", "l_prune2"}
    /\ s \in todo[p]
    /\ row' = AfterRemove(row, s)
    /\ todo' = [todo EXCEPT ![p] = @ \ {s}]
    /\ UNCHANGED <<need, red, win, members, final, answered, shipped, git,
                   files, pc, wid, live, base, round, child, snap, bounds>>

\* _cleanup_pending takes the chain lock itself to find out whether it is free.
\* A gate that starts while the launcher has it is refused.
LaunchProbe(p) ==
    /\ pc[p] = "l_prune" /\ todo[p] = {}
    /\ IF ChainFree
       THEN chain' = p /\ Goto(p, "l_probe")
       ELSE chain' = chain /\ Goto(p, "l_unlock")
    /\ UNCHANGED <<ledger, git, runPid, launch, slot, wid, live, todo, base,
                   round, child, snap, bounds>>

\* The probe ends; a living slot holder, a reserved launch or an empty queue
\* ends the run.  _launching removes the pid files of dead launches it meets.
LaunchAdmit(p) ==
    /\ pc[p] = "l_probe"
    /\ chain' = NoPid
    /\ launch' = [w \in Windows |->
                    IF ~Alive(slot.pid) /\ ~Alive(launch[w]) /\ win[w] \in {"batched", "candidate"}
                    THEN NoPid ELSE launch[w]]
    /\ IF Alive(slot.pid) \/ Launching # {} \/ Queued(row) = {}
       THEN Goto(p, "l_unlock")
       ELSE Goto(p, "l_check")
    /\ UNCHANGED <<ledger, git, runPid, slot, wid, live, todo, base, round,
                   child, snap, bounds>>

\* precheck.selection runs for minutes; it may settle a queued spec with a
\* merge-conflict, or mark it red and leave it in the queue.
LaunchCheck(p) ==
    /\ pc[p] = "l_check"
    /\ \/ UNCHANGED <<row, need, red>>
       \/ \E s \in Queued(row) :
            /\ need' = [need EXCEPT ![s] = "rework"]
            /\ \/ row' = AfterOutcome(row, s) /\ red' = red
               \/ row' = row /\ red' = red \cup {s}
    /\ Goto(p, "l_reread")
    /\ UNCHANGED <<win, members, final, answered, shipped, git, files, wid,
                   live, todo, base, round, child, snap, bounds>>

\* Selection over a fresh read.  Footprints, tiers and conflicts on master
\* decide which ready rows fit together: any nonempty choice within the cap.
LaunchSelect(p) ==
    /\ pc[p] = "l_prune2" /\ todo[p] = {}
    /\ \/ /\ live' = live                     \* nothing fits, or undetermined
          /\ Goto(p, "l_unlock")
       \/ \E batch \in SUBSET (Queued(row) \ red) :
            /\ batch # {} /\ Cardinality(batch) <= Cap
            /\ live' = [live EXCEPT ![p] = batch]
            /\ Goto(p, "l_batch")
    /\ UNCHANGED <<ledger, git, files, wid, todo, base, round, child, snap, bounds>>

\* queue-batch, under a window id nobody has used.
LaunchBatch(p, w) ==
    /\ pc[p] = "l_batch" /\ win[w] = "new"
    /\ win' = [win EXCEPT ![w] = "batched"]
    /\ members' = [members EXCEPT ![w] = live[p]]
    /\ row' = AfterBatch(row, w, live[p])
    /\ wid' = [wid EXCEPT ![p] = w]
    /\ Goto(p, "l_popen")
    /\ UNCHANGED <<need, red, final, answered, shipped, git, files, live,
                   todo, base, round, child, snap, bounds>>

\* Popen of `doit gate-window`: the gate runs from here on.
LaunchPopen(p, g) ==
    /\ pc[p] = "l_popen" /\ g \in Free
    /\ pc' = [pc EXCEPT ![p] = "l_pid", ![g] = "g_start"]
    /\ wid' = [wid EXCEPT ![g] = WindowArgument(p)]
    /\ live' = [live EXCEPT ![p] = {}, ![g] = live[p]]
    /\ child' = [child EXCEPT ![p] = g]
    /\ UNCHANGED <<ledger, git, files, todo, base, round, snap, bounds>>

\* Only now the pid file that reserves the launch.
LaunchPid(p) ==
    /\ pc[p] = "l_pid"
    /\ launch' = [launch EXCEPT ![wid[p]] = child[p]]
    /\ wid' = [wid EXCEPT ![p] = NoWindow]
    /\ child' = [child EXCEPT ![p] = NoPid]
    /\ Goto(p, "l_unlock")
    /\ UNCHANGED <<ledger, git, runPid, chain, slot, live, todo, base, round,
                   snap, bounds>>

LaunchUnlock(p) ==
    /\ pc[p] = "l_unlock"
    /\ runPid' = NoPid
    /\ Gone(p)
    /\ UNCHANGED <<ledger, git, launch, chain, slot, bounds>>

LauncherStep(p) ==
    \/ LaunchRead(p) \/ (\E s \in Specs : LaunchPrune(p, s))
    \/ LaunchProbe(p) \/ LaunchAdmit(p) \/ LaunchCheck(p) \/ LaunchSelect(p)
    \/ (\E w \in Windows : LaunchBatch(p, w)) \/ (\E g \in Pids : LaunchPopen(p, g))
    \/ LaunchPid(p) \/ LaunchUnlock(p)

-----------------------------------------------------------------------------
(* The gate: window_gate.main_, _admitted, _run_attempt and advance *)

\* chain_lock, without waiting: a gate that finds it held writes
\* window-refused and exits; its window stays as it was.
GateStart(p) ==
    /\ pc[p] = "g_start"
    /\ IF ChainFree
       THEN /\ chain' = p
            /\ Goto(p, "g_admit")
            /\ UNCHANGED <<slot, wid, live, todo, base, round, child, snap>>
       ELSE /\ chain' = chain
            /\ slot' = SlotAfterRefusal
            /\ Gone(p)
    /\ UNCHANGED <<ledger, git, runPid, launch, bounds>>

\* _admitted refuses while another window is in flight.
GateAdmit(p) ==
    /\ pc[p] = "g_admit"
    /\ IF InFlight # {} THEN Goto(p, "g_close") ELSE Goto(p, "g_take")
    /\ UNCHANGED <<ledger, git, files, wid, live, todo, base, round, child, snap, bounds>>

\* acquire: create the slot file unless it exists; a living holder refuses, a
\* dead one is stale.  With the slot, run_window reads the branch.
GateTake(p) ==
    /\ pc[p] \in {"g_take", "g_retake"}
    /\ IF slot = NoSlot
       THEN /\ slot' = [pid |-> p, win |-> wid[p]]
            /\ base' = [base EXCEPT ![p] = main]
            /\ Goto(p, "g_select")
       ELSE /\ UNCHANGED <<slot, base>>
            /\ Goto(p, IF Alive(slot.pid) THEN "g_close"
                       ELSE IF pc[p] = "g_take" THEN "g_stale" ELSE "g_stale2")
    /\ UNCHANGED <<ledger, git, runPid, launch, chain, wid, live, todo, round,
                   child, snap, bounds>>

\* It unlinks the stale file, whosever it is by now, and tries twice in all.
GateUnlink(p) ==
    /\ pc[p] \in {"g_stale", "g_stale2"}
    /\ slot' = NoSlot
    /\ Goto(p, IF pc[p] = "g_stale" THEN "g_retake" ELSE "g_close")
    /\ UNCHANGED <<ledger, git, runPid, launch, chain, wid, live, todo, base,
                   round, child, snap, bounds>>

\* An outcome of s in the gate's window; to says what s waits for next.
Outcome(p, s, to) ==
    /\ row' = AfterOutcome(row, s)
    /\ need' = [need EXCEPT ![s] = to]
    /\ live' = [live EXCEPT ![p] = @ \ {s}]

\* A branch refused by window_prewindow.select (window-dropped), or one that
\* does not merge (merge-conflict, which the default leaves alone).
GateDrop(p, s) ==
    /\ pc[p] = "g_select" /\ s \in live[p]
    /\ \/ Outcome(p, s, AfterDrop(need[s])) /\ final' = final
       \/ Outcome(p, s, "rework") /\ final' = final \cup {<<wid[p], s>>}
    /\ UNCHANGED <<red, win, members, answered, shipped, git, files, pc, wid,
                   todo, base, round, child, snap, bounds>>

\* Two or more members requeued by a default are verified each alone first
\* (window_members.recovering, of any default rather than the latest queue-add);
\* one that is red alone is charged (window-dropped, reason member-alone).
Requeued(s) == \E w \in Windows : <<w, s, "add">> \in answered
GateAlone(p, s) ==
    /\ pc[p] = "g_select" /\ round[p] = 1
    /\ s \in live[p] /\ Requeued(s)
    /\ \E t \in members[wid[p]] \ {s} : Requeued(t)
    /\ Outcome(p, s, "blamed")
    /\ final' = final \cup {<<wid[p], s>>}
    /\ UNCHANGED <<red, win, members, answered, shipped, git, files, pc, wid,
                   todo, base, round, child, snap, bounds>>

\* A deferred branch keeps its queue row for a later window.
GateDefer(p, s) ==
    /\ pc[p] = "g_select" /\ s \in live[p]
    /\ live' = [live EXCEPT ![p] = @ \ {s}]
    /\ UNCHANGED <<ledger, git, files, pc, wid, todo, base, round, child, snap, bounds>>

\* window-opened and window-candidate for what is left.
GateOpen(p) ==
    /\ pc[p] = "g_select" /\ live[p] # {}
    /\ win' = [win EXCEPT ![wid[p]] = "candidate"]
    /\ Goto(p, "g_verify")
    /\ UNCHANGED <<row, need, red, members, final, answered, shipped, git,
                   files, wid, live, todo, base, round, child, snap, bounds>>

\* Nothing is left: a quiet end when all went before the merge, an escalation
\* when the merge refused them and whenever a red first run had dropped some.
GateNothing(p) ==
    /\ pc[p] = "g_select" /\ live[p] = {}
    /\ \/ win' = [win EXCEPT ![wid[p]] = "escalated"]
       \/ /\ round[p] = 1
          /\ \A s \in Specs : <<wid[p], s>> \in final => need[s] # "rework"
          /\ win' = win
    /\ Return(p)
    /\ UNCHANGED <<row, need, red, members, final, answered, shipped, git,
                   files, wid, child, snap, bounds>>

\* judge() says green: this tree was verified, now or by an earlier window.
GateGreen(p) ==
    /\ pc[p] = "g_verify"
    /\ green' = green \cup {Candidate(p)}
    /\ Goto(p, "g_advance")
    /\ UNCHANGED <<ledger, main, files, wid, live, todo, base, round, child, snap, bounds>>

\* judge() says red and names whom to drop.  A first red run may name nobody
\* (the failures are the environment's); a second one may still charge guards.
GateRed(p) ==
    /\ pc[p] = "g_verify"
    /\ \E drops \in SUBSET live[p] : todo' = [todo EXCEPT ![p] = drops]
    /\ Goto(p, "g_drop")
    /\ UNCHANGED <<ledger, git, files, wid, live, base, round, child, snap, bounds>>

\* drop_specs: one window-dropped each.  It charges the spec when tests or
\* guards prove it the owner; the newest half goes uncharged when nothing does.
GateCharge(p, s) ==
    /\ pc[p] = "g_drop" /\ s \in todo[p]
    /\ \/ Outcome(p, s, "blamed") /\ final' = final \cup {<<wid[p], s>>}
       \/ Outcome(p, s, AfterDrop(need[s])) /\ final' = final /\ round[p] = 1
    /\ todo' = [todo EXCEPT ![p] = @ \ {s}]
    /\ UNCHANGED <<red, win, members, answered, shipped, git, files, pc, wid,
                   base, round, child, snap, bounds>>

\* After the drops: a second red run escalates, an emptied batch escalates or
\* cancels (which closes nothing), and a remainder is built and judged again.
GateRemainder(p) ==
    /\ pc[p] = "g_drop" /\ todo[p] = {}
    /\ \/ /\ round[p] = 2 \/ live[p] = {}
          /\ win' = [win EXCEPT ![wid[p]] = "escalated"]
          /\ Return(p)
       \/ /\ round[p] = 1 /\ live[p] = {}
          /\ win' = win /\ Return(p)
       \/ /\ round[p] = 1 /\ live[p] # {}
          /\ round' = [round EXCEPT ![p] = SecondRound]
          /\ Goto(p, "g_select")
          /\ UNCHANGED <<win, live, todo, base>>
    /\ UNCHANGED <<row, need, red, members, final, answered, shipped, git,
                   files, wid, child, snap, bounds>>

\* An undetermined verdict, an unsafe migration order among what is left, or a
\* git command that fails: escalate, and drop nobody more.
GateEscalate(p) ==
    /\ pc[p] \in {"g_select", "g_verify", "g_drop", "g_advance"}
    /\ win' = [win EXCEPT ![wid[p]] = "escalated"]
    /\ Return(p)
    /\ UNCHANGED <<row, need, red, members, final, answered, shipped, git,
                   files, wid, child, snap, bounds>>

\* The gate ends without a word: a verification the infrastructure failed, a
\* batch over the cap, an event that cannot be appended, any other exception.
\* The finally clause still cleans up, wherever it stood.
GateQuit(p) ==
    /\ pc[p] \in SlotPC \ {"g_clean"}
    /\ quits < MaxQuits /\ quits' = quits + 1
    /\ Return(p)
    /\ UNCHANGED <<ledger, git, files, wid, child, snap, crashes, external,
                   rebuilds, recycled>>

\* advance: update-ref with the old value asserted; a moved branch escalates.
GateAdvance(p) ==
    /\ pc[p] = "g_advance"
    /\ IF BaseHolds(p)
       THEN /\ main' = Candidate(p)
            /\ todo' = [todo EXCEPT ![p] = Kept(p)]
            /\ Goto(p, "g_ship")
            /\ UNCHANGED <<win, live, base, round>>
       ELSE /\ win' = [win EXCEPT ![wid[p]] = "escalated"]
            /\ Return(p)
            /\ main' = main
    /\ UNCHANGED <<row, need, red, members, final, answered, shipped, green,
                   files, wid, child, snap, bounds>>

\* One shipped event after another, then window-verified.
GateShip(p, s) ==
    /\ pc[p] = "g_ship" /\ s \in todo[p]
    /\ shipped' = shipped \cup {s}
    /\ row' = AfterOutcome(row, s)
    /\ need' = [need EXCEPT ![s] = "none"]
    /\ todo' = [todo EXCEPT ![p] = @ \ {s}]
    /\ UNCHANGED <<red, win, members, final, answered, git, files, pc, wid,
                   live, base, round, child, snap, bounds>>

GateVerified(p) ==
    /\ pc[p] = "g_ship" /\ todo[p] = {}
    /\ win' = [win EXCEPT ![wid[p]] = "verified"]
    /\ Return(p)
    /\ UNCHANGED <<row, need, red, members, final, answered, shipped, git,
                   files, wid, child, snap, bounds>>

\* cleanup, release of the slot (an unconditional unlink), then the chain.
GateRelease(p) ==
    /\ pc[p] = "g_clean"
    /\ slot' = NoSlot
    /\ Goto(p, "g_close")
    /\ UNCHANGED <<ledger, git, runPid, launch, chain, wid, live, todo, base,
                   round, child, snap, bounds>>

\* The chain lock closes with the process.
GateClose(p) ==
    /\ pc[p] = "g_close"
    /\ chain' = NoPid
    /\ Gone(p)
    /\ UNCHANGED <<ledger, git, runPid, launch, slot, bounds>>

Gate(p) ==
    \/ GateStart(p) \/ GateAdmit(p) \/ GateTake(p) \/ GateUnlink(p)
    \/ (\E s \in Specs : GateDrop(p, s) \/ GateAlone(p, s) \/ GateDefer(p, s))
    \/ (\E s \in Specs : GateCharge(p, s) \/ GateShip(p, s))
    \/ GateOpen(p) \/ GateNothing(p) \/ GateGreen(p) \/ GateRed(p)
    \/ GateRemainder(p) \/ GateEscalate(p) \/ GateQuit(p) \/ GateAdvance(p)
    \/ GateVerified(p) \/ GateRelease(p) \/ GateClose(p)

-----------------------------------------------------------------------------
(* The tick: window_policy.apply_default, then merge_queue.enqueue_due *)

\* Members of w that are neither decided nor reserved by another window.
\* An outcome counts when it is w's own, a shipment whoever made it.
Undecided(w) ==
    {s \in members[w] :
        /\ s \notin shipped
        /\ <<w, s>> \notin final
        /\ ~(row[s].in = "queued" /\ row[s].batch \notin {w, NoWindow})}

\* The one read of a pass (its ev).  The tick is one process at a time, by its
\* own flock.  A pass that finds nothing to do is left out.
TickReads(p) ==
    /\ pc[p] = "off" /\ \A q \in Pids : pc[q] \notin TickPC
    /\ prune' = [prune EXCEPT ![p] = Settled(row)]
    /\ due' = [due EXCEPT ![p] = {s \in Specs : need[s] = "clean"}]

\* A pass in which no escalation is due, or the chain is taken.
TickStart(p) ==
    /\ TickReads(p)
    /\ prune' # prune \/ due' # due
    /\ Goto(p, "t_fill")
    /\ UNCHANGED <<ledger, git, files, wid, live, todo, base, round, child, bounds>>

\* A pass that meets an escalation nobody has ruled on for thirty minutes and
\* gets the chain lock; apply_default reads again under it.
DefaultStart(p, w) ==
    /\ TickReads(p)
    /\ win[w] = "escalated" /\ ChainFree
    /\ chain' = p
    /\ wid' = [wid EXCEPT ![p] = w]
    /\ todo' = [todo EXCEPT ![p] = Undecided(w)]
    /\ Goto(p, "d_drop")
    /\ UNCHANGED <<ledger, git, runPid, launch, slot, live, base, round, child,
                   bounds>>

\* window-dropped for the next spec, unless an interrupted default wrote it.
DefaultDrop(p, s) ==
    /\ pc[p] = "d_drop" /\ s \in todo[p]
    /\ IF <<wid[p], s, "drop">> \in answered
       THEN UNCHANGED <<row, need, answered>>
       ELSE /\ row' = AfterOutcome(row, s)
            /\ need' = [need EXCEPT ![s] = IF @ = "clean" THEN "none" ELSE @]
            /\ answered' = answered \cup {<<wid[p], s, "drop">>}
    /\ live' = [live EXCEPT ![p] = {s}]
    /\ Goto(p, "d_add")
    /\ UNCHANGED <<red, win, members, final, shipped, git, files, wid, todo,
                   base, round, child, snap, bounds>>

\* queue-add for the same spec.
DefaultAdd(p, s) ==
    /\ pc[p] = "d_add" /\ s \in live[p]
    /\ IF <<wid[p], s, "add">> \in answered
       THEN UNCHANGED <<row, need, red, answered>>
       ELSE /\ row' = AfterAdd(row, s)
            /\ need' = [need EXCEPT ![s] = AfterQueueAdd(@)]
            /\ red' = red \ {s}
            /\ answered' = answered \cup {<<wid[p], s, "add">>}
    /\ live' = [live EXCEPT ![p] = {}]
    /\ todo' = [todo EXCEPT ![p] = @ \ {s}]
    /\ Goto(p, "d_drop")
    /\ UNCHANGED <<win, members, final, shipped, git, files, wid, base, round,
                   child, snap, bounds>>

\* unblocked and window-cancelled close the escalation.
DefaultClose(p) ==
    /\ pc[p] = "d_drop" /\ todo[p] = {}
    /\ win' = [win EXCEPT ![wid[p]] = "defaulted"]
    /\ Goto(p, "d_close")
    /\ UNCHANGED <<row, need, red, members, final, answered, shipped, git,
                   files, wid, live, todo, base, round, child, snap, bounds>>

\* The chain lock closes, and the pass goes on.
DefaultDone(p) ==
    /\ pc[p] = "d_close"
    /\ chain' = NoPid
    /\ wid' = [wid EXCEPT ![p] = NoWindow]
    /\ Goto(p, "t_fill")
    /\ UNCHANGED <<ledger, git, runPid, launch, slot, live, todo, base, round,
                   child, snap, bounds>>

\* enqueue_due reconciles what the pass read before the default wrote.
TickPrune(p, s) ==
    /\ pc[p] = "t_fill" /\ s \in prune[p]
    /\ row' = AfterRemove(row, s)
    /\ prune' = [prune EXCEPT ![p] = @ \ {s}]
    /\ UNCHANGED <<need, red, win, members, final, answered, shipped, git,
                   files, pc, wid, live, todo, base, round, child, due, bounds>>

\* A queue-add for a spec whose clean gate was newer than its queue-add and
\* outcomes; a spec that is busy or whose Base is not merged is passed over.
TickAdd(p, s) ==
    /\ pc[p] = "t_fill" /\ prune[p] = {} /\ s \in due[p]
    /\ \/ /\ row' = AfterAdd(row, s)
          /\ need' = [need EXCEPT ![s] = AfterQueueAdd(@)]
          /\ red' = red \ {s}
       \/ UNCHANGED <<row, need, red>>
    /\ due' = [due EXCEPT ![p] = @ \ {s}]
    /\ UNCHANGED <<win, members, final, answered, shipped, git, files, pc, wid,
                   live, todo, base, round, child, prune, bounds>>

TickEnd(p) ==
    /\ pc[p] = "t_fill" /\ prune[p] = {} /\ due[p] = {}
    /\ Gone(p)
    /\ UNCHANGED <<ledger, git, files, bounds>>

TickStep(p) ==
    \/ \E s \in Specs : DefaultDrop(p, s) \/ DefaultAdd(p, s)
    \/ DefaultClose(p) \/ DefaultDone(p)
    \/ \E s \in Specs : TickPrune(p, s) \/ TickAdd(p, s)
    \/ TickEnd(p)

-----------------------------------------------------------------------------
(* What surrounds them *)

\* A builder reworked the spec and its merge gate is clean again.
Rebuild(s) ==
    /\ need[s] \in {"rework", "blamed", "dropped"}
    /\ rebuilds < MaxRebuilds /\ rebuilds' = rebuilds + 1
    /\ need' = [need EXCEPT ![s] = "clean"]
    /\ UNCHANGED <<row, red, win, members, final, answered, shipped, git,
                   files, locals, crashes, external, recycled, quits>>

\* Somebody else commits to the branch.
External ==
    /\ external < MaxExternal /\ external' = external + 1
    /\ main' = [main EXCEPT !.ext = @ + 1]
    /\ UNCHANGED <<ledger, green, files, locals, crashes, rebuilds, recycled,
                   quits>>

\* A process dies.  Its flock is released, its pid files are not removed.
Crash(p) ==
    /\ pc[p] \notin {"off", "other"}
    /\ crashes < MaxCrashes /\ crashes' = crashes + 1
    /\ chain' = ChainWithout(p)
    /\ Gone(p)
    /\ UNCHANGED <<ledger, git, runPid, launch, slot, external, rebuilds,
                   recycled, quits>>

\* The system gives the pid a stale file names to an unrelated process.
Recycle(p) ==
    /\ pc[p] = "off" /\ p \in {runPid, slot.pid} \cup {launch[w] : w \in Windows}
    /\ recycled < MaxRecycled /\ recycled' = recycled + 1
    /\ Goto(p, "other")
    /\ UNCHANGED <<ledger, git, files, wid, live, todo, base, round, child, snap,
                   crashes, external, rebuilds, quits>>

OtherExit(p) ==
    /\ pc[p] = "other"
    /\ Goto(p, "off")
    /\ UNCHANGED <<ledger, git, files, wid, live, todo, base, round, child, snap, bounds>>

Environment ==
    \/ \E s \in Specs : Rebuild(s)
    \/ External
    \/ \E p \in Pids : Crash(p) \/ Recycle(p) \/ OtherExit(p)

Next ==
    \/ \E p \in Pids : LaunchStart(p) \/ LauncherStep(p) \/ Gate(p) \/ TickStart(p) \/ TickStep(p)
    \/ \E p \in Pids, w \in Windows : DefaultStart(p, w)
    \/ Environment

\* A started process runs on: the operating system schedules it, and none of
\* its steps waits for another process.  The tick tries the default every
\* minute, and the gates and probes that make a try fail all give the chain
\* back: strong fairness, since a try that meets a probe is only lost for a
\* minute.  Nothing is assumed of launches, verdicts, builders or crashes.
Fairness ==
    /\ \A p \in Pids : WF_vars(LauncherStep(p)) /\ WF_vars(Gate(p)) /\ WF_vars(TickStep(p))
    /\ SF_vars(\E p \in Pids, w \in Windows : DefaultStart(p, w))

Safety == Init /\ [][Next]_vars
Spec   == Safety /\ Fairness

-----------------------------------------------------------------------------
(* What must hold *)

\* The chain lock covers admission through cleanup: no two processes are
\* inside it, whoever crashed before and whatever pids were reused.
OneOwner ==
    \A p, q \in Pids : pc[p] \in ChainPC /\ pc[q] \in ChainPC => p = q

\* acquire and release of the slot check and remove a plain file, so that the
\* file a running gate wrote is still its own is the chain lock's doing.
SlotIsMine ==
    \A p \in Pids : pc[p] \in SlotPC => slot = [pid |-> p, win |-> wid[p]]

\* A launcher still owns the run lock when it removes the file; so there is
\* one launcher, and one writer of queue-batch.
RunLockIsMine ==
    \A p \in Pids : pc[p] \in LauncherPC => runPid = p

\* A shipped event is on file only for a spec the branch contains, also after
\* a gate died between the reference update and the events.
ShippedOnMain == shipped \subseteq main.merged

\* The whole of it is an implementation of Mainline: the branch moves only to
\* a tree verified on exactly the commit it replaces (advance asserts the old
\* value), and what is shipped is on the branch.
Abstract == INSTANCE Mainline WITH Exts <- 0..MaxExternal
ImplementsMainline == Abstract!Spec

\* next_candidate: one outstanding window at most.  It takes the pid file,
\* which a launcher that dies after Popen has not written.
OneOutstanding ==
    crashes = 0 => \A p, q \in Pids : pc[p] \in GatePC /\ pc[q] \in GatePC => p = q

\* A default that has read the ledger writes several events; none of them may
\* put back a spec that has shipped, or that its window has charged, since.
DefaultSparesDecided ==
    [][\A w \in Windows, s \in Specs :
          <<w, s, "add">> \in answered' \ answered =>
              s \notin shipped /\ <<w, s>> \notin final]_vars

\* agents/executor.md: a default gives every undecided spec a fresh queue
\* entry.  So a spec is never left with no row, no outcome that sends it to a
\* builder, no clean gate to enqueue it and no default still to come.
NoLostSpec ==
    \A s \in Specs :
        \/ row[s].in = "queued" \/ need[s] # "none" \/ s \in shipped
        \/ \E w \in Windows : s \in members[w] /\ win[w] = "escalated"

\* agents/executor.md: gate-attributed specs remain dropped, until a builder
\* has reworked them.
ChargedStayOut ==
    [][\A s \in Specs :
          need[s] = "blamed" /\ row'[s].in = "queued" => row[s].in = "queued"]_vars

\* Every gate ends, and gives back what it holds.
GateEnds == \A p \in Pids : pc[p] \in GatePC ~> pc[p] \notin GatePC

\* Every escalation is closed by the default, however often a tick dies in it.
EscalationCloses ==
    \A w \in Windows : win[w] = "escalated" ~> win[w] = "defaulted"
=============================================================================
