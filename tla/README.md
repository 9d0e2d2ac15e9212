# DO-IT v2 in TLA+

DO-IT v2 keeps a project's state in append-only event files and derives every
fact from them.  A wrapper dispatches roles (builder, grader, reviewer, ...),
their work is gated, queued, merged in windows and deployed, and a tick started
by cron keeps everything moving.  This directory models the parts of it where
several processes meet: the merge window, the ledger under concurrent writers,
its cache and its packing, the launchers' run lock, the life of a spawn, the gate
and enqueue lane of the tick, and the retry budget of a build.

## The system

All paths are relative to `src/src/`.  State lives under `~/.do-it/`: event
files `events/*.jsonl` (one per writer; the actor is the file name), lock and
pid files `state/*`, and the project's git repository.

| Component | State it keeps | Operations | Meets others through | What makes it correct |
|---|---|---|---|---|
| Ledger: `fold.py`, `ledger_files.py`, `ledger_compact.py`, `ledger_rollup.py` | event files, append only; derived: ordered events, spec states | `append`, `read_events`, `apply_corrections`, `admits`, `fold` | everybody reads and appends, without a common lock | what was read keeps its order as the files grow; a file's own order is never overridden; a late or same-second append cannot contradict a decision |
| Ledger cache: `ledger_cache.py`, `ledger_gate.py` | an SQLite file, a lock and a gate file | `read_conditional`, `_update`, `_refresh` | readers and refreshers of all processes | a read contains everything appended before it began; a refresh publishes all or nothing |
| Merge queue: `merge_queue.py` | rows derived from `queue-*` events and outcomes; run lock, launch pid files | `queue`, `_reconcile`, `enqueue_due`, `window_run` | appends by ticks, launchers, gates, operators | a row per spec that waits; one launcher; one outstanding window |
| Window gate: `window_gate.py`, `window_members.py`, `window_prewindow.py` | chain lock, slot file, the candidate reference, the branch | `main_`, `acquire`, `_run_attempt`, `advance`, `escalate` | launchers, ticks, anybody who pushes | the branch moves only to a tree verified on what it replaces; announced means merged; every gate ends |
| Escalation default: `window_policy.py` | events that answer an escalation by its `ref` | `pending`, `apply_default` | gates, through the chain lock | decided specs stay decided; undecided ones are queued again; every escalation is closed |
| Tick: `tick.py` | its own flock, one read of the ledger per pass | `_record`, `run_steps`, `launch` | everything it starts | nothing is lost to what happened since the read |
| Next step: `nextstep.py`, `lane_rules.py` | none, derived | `_enqueue`, `_merge`, `_rebuild`, `due`, `ladder` | tick, board | one owner and one next action per spec |
| Dispatch: `dispatch*.py`, `attempts.py`, `autodispatch.py` | attempt events, spawn markers | `dispatch`, `redispatch_dead`, retry ladders | tick, operators | an attempt counts once; a dead one is retried, a finished one is not |
| Spawn registry, relay, panes: `spawns.py`, `relay.py`, `pane*.py` | pid and pane files | start, end, resume | tick, operators | one live owner per spawn, no orphan counted as alive |
| Merge gate: `merge_gate.py`, `spec_preflight.py` | the scan lock, attempts counted in the ledger | one outcome on one branch: clean, rework, tooling hold with a retry time | tick, executors, the ledger | an outcome speaks of the branch and review it saw; retries back off and stop |
| Branch refresh: `branch_refresh.py`, `conflict.py` | a reservation lock per spec, attempts counted in the ledger | rebase or recut, check, adopt, gate again | merge gates, dispatches, the ledger | a rebase is adopted only over the tip it was made of |
| Watchdog: `look.py` | its own event file | `_check_lane_stale` and other alarms | ledger | what is stuck is escalated |
| Base verification: `master_full.py`, `base_red.py`, `quarantine*.py`, `rechain.py` | verdict events | runs and rechecks | the gate asks for a verdict | evidence belongs to the commit it names |
| Deploy, push, proving: `deploy.py`, `push_origin.py`, `proving.py` | deploy events, a lock | one deploy at a time | ledger | what is announced as live is live |
| Owed criteria, sweeps, carry, intake: `owed*.py`, `sweep_*.py`, `carry.py`, `intake.py` | derived lists, inbox files | settle, deliver | ledger | nothing owed is dropped or settled twice |
| Reapers, limits, backup, board, packets, set-up | files, counters | | | see *Not modelled* |

What is hard to test here: several processes append to one derived state with
no lock around read-decide-append; a pass of the tick decides on a read that is
minutes old; any process may die between two appends, or between a reference
update and its events; liveness of an owner is judged by a pid that may be
reused; events have a resolution of one second and several files.
`PROJECT.json` lists these hazards one by one with their lines.

## The merge window

### Modules

| Module | What it is |
|---|---|
| `QueueRow` | A spec's queue row and what each event does to it (`merge_queue.queue`, one event at a time). |
| `MergeWindow` | The component: launcher, gate and tick as processes, with the ledger, the branch and the lock files between them. |
| `Mainline` | The abstract specification: what merging through windows promises about the protected branch. |
| `MCMergeWindow` | Symmetry and the constraints of the TLC runs. |
| `MergeWindowProofs` | The inductive invariant and the theorems. |

### State

* The ledger is kept folded.  `row` is a spec's queue row; `need` what the spec
  waits for by `nextstep._enqueue` and `_rebuild` (a clean gate to enqueue,
  rework, a charge, ...); `red` the precheck-red specs that `window_run` skips;
  `win`, `members` a window's last milestone and its batch; `final` the outcomes
  that `apply_default` respects; `answered` the events it has written with the
  escalation's `ref`; `shipped` the announced specs.
* A commit is the set of specs merged into it and the number of foreign commits
  it contains; `green` the trees with a green verdict.
* `runPid`, `launch`, `slot` are plain files with a pid; `chain` is a kernel
  flock and is free again when its process dies.
* Each process has a program counter and its local variables, by pid.  `prune`
  and `due` are what a tick pass read at its start.

### Actions

* **Launcher** (`window_run`): `LaunchStart` run lock; `LaunchRead` one read;
  `LaunchPrune` one `queue-remove`; `LaunchProbe`, `LaunchAdmit` the chain-lock
  probe, the slots, `_launching` and the head of the queue; `LaunchCheck`
  precheck; `LaunchSelect` the choice; `LaunchBatch` `queue-batch`;
  `LaunchPopen` and, as a step of its own, `LaunchPid`; `LaunchUnlock`.
* **Gate** (`main_`, `_admitted`, `_run_attempt`, `advance`): `GateStart` chain
  lock or refusal; `GateAdmit`; `GateTake`, `GateUnlink` the slot in two tries;
  `GateDrop`, `GateAlone`, `GateDefer`, `GateOpen`, `GateNothing` the batch
  before a verdict; `GateGreen`, `GateRed`, `GateCharge`, `GateRemainder` the
  rounds; `GateEscalate`, `GateQuit` the ways out; `GateAdvance`, `GateShip`,
  `GateVerified` the reference update and one event after the other;
  `GateRelease`, `GateClose`.
* **Tick**: `TickStart` or `DefaultStart` read; `DefaultDrop`, `DefaultAdd`,
  `DefaultClose`, `DefaultDone` the default; `TickPrune`, `TickAdd`, `TickEnd`
  reconcile and enqueue from the first read.
* **Environment**: `Rebuild`, `External`, `Crash`, `Recycle`, `OtherExit`.

### Runs

| Run | Instance | Shows |
|---|---|---|
| `two_specs` | 2 specs, 2 windows, 2 pids, 1 crash; after it at most one batch of two (`OneBatchAfterCrash`) | `TypeOK`, `ShippedOnMain`, `DefaultSparesDecided` |
| `locks` | 1 spec, 2 windows, 3 pids, 1 crash, 1 quitting gate, and a reused pid, a rework or a foreign commit (`OneDisturbance`) | `OneOwner`, `SlotIsMine`, `RunLockIsMine`, `OneOutstanding`, `ImplementsMainline`: every step is one of `Mainline` |
| `liveness` | 1 spec, 2 windows, 2 pids, 1 crash, fairness | `GateEnds`, `EscalationCloses` |
| `requeue_lost` | 1 spec, 3 pids, nothing goes wrong | violates `NoLostSpec`, see *Findings* |
| `charged_requeued` | 1 spec, 3 pids, nothing goes wrong | violates `ChargedStayOut`, see *Findings* |

Deadlock is not checked: window ids are bounded, so the model stops when they
are used up; the code has fresh ids for ever.

**Bounds.**  Three processes are a launcher, its gate and a rival (a second
launcher, a tick, or an unrelated process with a reused pid); the lock
properties speak of two processes and a file, and a third covers whoever left
the file behind.  Two windows are needed for a default of one to meet a gate of
the other, and two specs for a batch from which one is dropped.  One crash at
any step puts every file in every stale state; a second crash meets the same
files again.  One foreign commit moves the branch under a gate.  The bounds on
windows, crashes, foreign commits, reworks, reused pids and quits are constants
in the guards; the theorems hold for all of their values.

**Symmetry** of specs, windows and pids is used in the safety runs; the
liveness run does without.

**Fairness.**  A started process runs on (weak fairness of launcher, gate and
tick steps): the operating system schedules it and none of its steps waits for
another process - the chain lock is tried without waiting.  The default gets
strong fairness: cron starts a tick every few minutes, and the gates and probes
that make a try fail all give the chain back.  Launches, verdicts, builders
and crashes are not fair.  With a bounded number of crashes every escalation
is then closed.

### Findings

* **A fresh queue entry is removed again** (`requeue_lost`).
  `agents/executor.md:436` promises that an undecided member of an escalated
  window gets "a fresh queue entry".  The tick applies the default and then, in
  the same pass, calls `merge_queue.enqueue_due` with the events it read before
  (`tick.py:1231`).  A row that had an outcome in that read - a spec dropped
  without a charge before the escalation, say - gets its `queue-remove` now,
  after the `queue-add` of the default.  The spec is left with no row and
  nothing that would move it.  The same holds for a launcher's reconcile that
  read before the default.
* **A charged spec is put back** (`charged_requeued`).  "Gate-attributed specs
  remain dropped" holds for the charges of the escalated window only:
  `window_policy.py:80-103` does not look at what another window has charged
  since.

### Proofs

`MergeWindowProofs` proves, for any specs, windows, pids and bounds, and from
the two assumptions of `MergeWindow` only (`NullAssumption`: the null values
are no pid and no window; `BoundAssumption`: the bounds are numbers):

* `TypeCorrect`, `OneOwnerHolds`, `SlotIsMineHolds`, `RunLockIsMineHolds`,
  `OneOutstandingHolds`, `ShippedOnMainHolds`: invariants;
* `DefaultSparesDecidedHolds`: the action property;
* `Refinement`: `Safety => ImplementsMainline`.

None of the invariants is inductive by itself.  `IndInv` adds:

* `ChainIsMine`: a process inside the chain lock is its holder.  `OneOwner`
  follows, and with it the slot: check, unlink and create are apart, but no
  second gate comes in between.
* `HasWindow`, `ExtCounted`: a gate or default has a window; foreign commits
  stay within their count.  Needed for types.
* `AnnouncedOnMain`, `AdvanceIsGreen`: what a gate is about to announce is on
  the branch, what it is about to push has a verdict.  They carry
  `ShippedOnMain` and the refinement over the steps between verdict, update
  and events.
* `PendingUndecided`: what a default has still to do is undecided.  Its
  preservation under the gates' steps is where the chain lock is needed.
* `SoleInv`: as long as nobody has crashed (`Sole`), at most one gate is started
  or runs (`OneGate`), and none does while a launcher is between its admission
  and its start (`AdmittedAlone`).  A running gate holds the chain lock, which
  `next_candidate` probes; a gate that has only been started is reserved, by its
  pid file or by its launcher, which has the run lock until it has written that
  file (`StartReserved`); and the run lock admits one launcher, so what one has
  found stands although precheck and choice take minutes.  A launcher that dies
  between `Popen` and the pid file leaves a gate that nothing reserves, so there
  is no such theorem with crashes.

`TypeStep`, `LockStep`, `MainStep`, `PendingStep`, `DefaultsStep` and `SoleStep` go
through `Next` action by action; `SilentStep` and `LoudStep` split it for the
refinement.

Model-checked only: `GateEnds` and `EscalationCloses` (liveness is out of the
prover's reach).

### Abstractions

* The run-lock exchange is one step: the code holds a flock on the directory
  around it.  Its single steps, and the empty file a launcher leaves when it
  dies inside, are in `RunLock`.
* Creating and writing the slot file is one step: to every reader an empty
  file is nobody's.
* The launcher's second read of the ledger happens with its probe.
* Footprints, tiers, caps and conflicts with the branch decide which rows fit
  in a batch; the model takes any nonempty choice of at most `Cap` rows.
* Verdicts are nondeterministic.  Cached verdicts, flakes, quarantined and
  pre-existing failures, and attribution are inside "green" and "whom a red
  run drops".  The policy commit that makes a gate verify again is not there.
* A precheck settles at most one spec.
* The thirty minutes of an escalation are nondeterministic: a default may come
  at any time after it.
* One default per pass; passes that find nothing to do are left out.
* `GateAlone` takes a spec as requeued when any default put it back, the code
  when its latest `queue-add` is a default's.
* The locals of a gate are cleared when its attempt returns.
* Left out: `--after` trains (their predecessor holds the chain lock as long
  as it lives, so they are always refused), `window-redcut` (nothing emits
  it), `--rehearse`, the declared bypass, thinker rulings, operator
  corrections of the queue, killed and closed specs, merge freeze, the
  second reconcile of a synchronous launcher; the gate rule of `enqueue_due` and
  its `autodispatched` bookkeeping are in `GateLane`.

## The ledger

### Order: `LedgerOrder`

`log` are the files, each a sequence of lines with a stamp and a content key;
`stamp` is the time a writer took before it opens a file (`fold.NOW`, or
`dispatch.emit`).  `TakeStamp` and `AppendLine` are the two steps of an append; `Order` is
`fold.finish_events`: the lines of each stamp in turn (`Run`), each run merged by
`MergeSameTs`, the heap of `_merge_same_ts`.  Its state is what has been put out and
which lines are left; the first of these in each file are the `Heads`, and `Pop`
takes the one that `Popped` finds smallest.

* `ReadStable`: two lines that were read never change places, whatever is
  appended, late or to whichever file.  Every decision from a read rests on it.
* `FileOrderKept`: a file's own order among equal stamps is never overridden.

`ContentOrders` (equal stamps of different files are ordered by content, as long
as no two say the same) holds and `NameBlind` (always) does not; see *Findings*.

### Cache: `LedgerLock`, `LedgerCache`

`LedgerLock` is `ledger_cache._locked`: `Request`, then `TakeGate`, `PassGate`
(readers only), `TakeMain`, `Release`; `TimeOut` gives a wait up.  `LedgerCache`
puts the read on top of it: `Inside`, `ScanOne`, `Compare`, `Load` under the shared
lock, `LockExclusive` to `EndRefresh` under the exclusive one, three attempts, while
`WriteFile` (a line, a torn line, its repair, a historical repair that makes the
file grow) and `Damage` go on without a lock.  A file is a sequence of tokens, its
key a version and a size; `FileRow` is the append path with its digest and the full
parse beside it.

* `ReadIsMoment`: what a read returns is, file by file, what the file held at
  some moment since the read began.
* `CacheFaithful`: what the cache publishes for a key is what the file held then.
* `QuietReadSucceeds`: a read nobody disturbs succeeds, whatever it finds.
* `Exclusive`, `NoOvertaking`, `RefresherServed`: nobody reads while the cache is
  rebuilt; while a refresher waits no new reader passes the gate; it gets the lock.

Abstractions: `_refresh`'s second look and `_update`'s scan keep their own keys
but look at files in any order; packed members belong to `LedgerRollup`; a thread
that reads again inside its own read is not modelled; two writes always leave
different times (the kernel's clock), so a key stands for inode, size and times.

### Packing: `LedgerRollup`

An inode holds lines; `live` and `pending` are names of inodes, `slices` what the
indices publish.  Writers `OpenLive`, `WriteLine`, `Close`.  The rollup first
settles what an earlier run left (`CleanScan`, `CleanUnlink`, `CleanLate`,
`CleanBack`), then `CandidateScan`, `Pick`, `PublishScan`, `PublishCheck`,
`Publish`, and for each file `AsideLook`, `AsideRename`, `AsideRecheck`,
`AsideBack`, `AsideRecreate`; it may die before any of them.  `Compose` is
`ledger_files._read_bytes`.

* `LinesKept`: a line that was appended is in a segment or a file some name has.
* `FirstPackNoDouble`: until a file is packed a second time nothing is read twice,
  even after a rename back has replaced a live file.
* `ViewInOrder`: what is composed is in the order of the appends.
* `CheckedReadComplete`: a read that compares keys misses nothing.

## The run lock: `RunLock`, `OneLauncher`

`merge_queue._run_lock` in its own steps: the directory flock (`Lock`), `Look`,
`Unlink`, `Create`, `Write`, `Unlock`, and `RemoveFile` under the flock again.  A
launcher may die at any of them and leave an empty file or its pid, which another
program may get (`Reuse`).  `OneLauncher` is what callers are promised.

* `OneInside`: never two inside.  `ImplementsOneLauncher`: every step is one of
  `OneLauncher`, or none.  `Answered`: whoever asks is let in or refused.

An empty file, left by a death between create and write, keeps every launcher out
until somebody removes it: the code fails closed, and so does the model (a refused
launcher has its answer).

## Spawns: `Spawns`

A dispatch is one process with one spawn: `Read` the ledger, `Acquire` or `Refuse`
(subject flock and conflict table), `Preflight`, `Start`, `Queue`, the polls of
`run_seat` (`SeeResult`, `SeeMarker`, `SeeClaim`, `GiveUp`), `Finish`.  The pane
looks, claims and stamps; `doit cancel` admits on one read, withdraws the packet,
marks, signals and records; a tick reads once, judges each start and records
`vanished` or `stale`.  Any waiter may die anywhere.

* `VanishedIsSilent`: who is recorded vanished is dead and left no end itself.
* `StaleIsOver`: nobody is written off while a claimed pane's cap runs.
* `TogetherOnlyUnseen`: colliding spawns run together only if the later read the
  ledger before the earlier one started, or after its window and cap.
* `EveryStartEnds`: every started spawn gets a real end (run `waits`, `SpawnEnds`).

Abstractions: the seat backend on one host; a signal is handled at once; a waiter
polls many times in a minute (the unit of time); the checks after the gate have
any outcome; texts of a hold are reduced to where it came from.

## The gate and enqueue lane: `GateLane`

The tick reads the ledger once (`TickBegin`), takes a due row with its rung of the
ladder (`Due`, `Ladder`, `Choice`), records the dispatch (`Dispatch`) and then runs
the gate or queues the branch (`RunGate`, `Enqueue`).  The gate is a process of its
own that survives a dead tick, and an executor may start one by hand (`ManualGate`);
without a conflict it ends in one of four ways (`GateClean`, `GateTooling`,
`GateRework`, `GateNothing`), with the stamp of its start.  `Look` escalates a row
whose retry has aged; judges, builders and thinkers write to the same ledger.  The
log is what a fold of it reads: a new event may land before later-stamped ones
(`Inserted`).

The branch is moved by builders (`Build`, a new version in `head`) and by rebases
of a version (`branch_refresh.py`; `rebase` says which one the tip is).  A gate that
meets a conflict (`Conflict`) and a builder's dispatch whose branch is behind
(`Preflight`) take the reservation lock, resolve the tip and put the attempt on
record (`Reserve`), rebase and run the checks, look at the branch once more and set
it to the rebase (`Adopt`).  Then the lock is released and a new process gates the
branch (`Regate`); it may meet the next conflict itself.  The first gate returns the
exit code of its re-gate (`GateRefreshed`) or records the conflict (`GateConflict`);
a recut whose re-gate fails sets the branch back (`TakenBack`).  No judge sees a
rebase: its checks and its gate are all it gets, under the review of the version as
it was built, and `test_branch_refresh.py` has it so.

* `OncePerTrigger`: a due row is dispatched once to act and once to retry, a
  tooling outcome once in all, however ticks and gates die or overlap.
* `QueuedWasReviewed`: the clean that a branch is queued on was recorded for the
  builder's version that its review judged, or for a rebase of that version: no
  builder's delivery is queued under an older or a newer review.
* `BackoffKept`: while the last failure that held the scan lock stands, no gate
  starts before its retry time, after the third, or over a hold.
* `EveryReviewSettles`: a clean review has an outcome, was superseded, or its row
  is escalated by its `Horizon`.  The bound is reached: a gate of an earlier review
  keeps the tick waiting until the row may only just be acted on, the gate of the
  new review runs its whole span, each dead tick costs a period, and only then is
  the retry sent, which has to age as long as the row.  (That takes a limit of 2, a
  span of 3 and a second version after the third period; the run's instance, with
  one version then, stays below the bound.)

Time is in periods of the tick's cron line (five minutes, `crons.toml`).  A tick
starts in every period unless one runs, `look` passes every period, and a gate
ends within `Span` (sixty seconds of set-up, ten minutes for a pass of the scan);
so liveness is stated with a bound, as an invariant.  One spec, so the cap of two
gates per tick never binds.  The rest of a pass lies between its read and its
dispatch, hence the dispatch's stamp is later than what was read (`KeepsRead`).  A
build or a review takes longer than a period.  Whether an enqueue succeeds, finds
another base branch or fails is a choice.  `EveryReviewSettles` is about gate rows
of reviews; what becomes of enqueue rows is not covered.

What the rows of the code do not say: a review's `version` is that of the branch it
judged (a review records no sha), and the `version` and `rebase` of a gate's outcome
stand for its `branch_sha`.  `queue-add` names a branch and no sha
(`merge_queue.py:281`), and the window merges what the branch carries then, so
`QueuedWasReviewed` ends at the clean in the tick's copy: what moves the branch after
that is a hazard without a property, as nothing in the code compares it.

Abstractions of the rebase: refusals and failures are choices, and may come at any
time; that an open builder refuses an adoption is left out, so more is adopted than
in the code; where a work tree holds the branch, the look at it and its `reset
--hard` are one step (`update-ref` has the old value and needs no such step); a
re-gate killed at its ten minutes ends before its parent records the conflict; a
conflict row is recorded or not, as its deduplication goes by facts that are left
out; a rebase leaves the pinned base in the spec's text as it is.  A gate dispatch
that a `spawn-failed` row of role gate refuses would be given back
(`nextstep._gate_refusal`, `merge_queue.py:203` to 208); nothing writes such a row
for a gate, and it is left out.

## First builds: `Retries`

What the tick may do for a written spec it derives from the log alone
(`attempts.history`).  A tick reads once (`TickBegin`, which also records dead and
stale waiters), escalates a spent budget (`Escalate`), or forks a dispatch (`Fork`)
and records its marker (`Mark`); before or after the fork the launch can fail
(`LaunchFails`).  The process starts, is refused or fails (`Start`, `Refuse`,
`Fail`), delivers (`Output`, `Close`), ends without its output (`Empty`), vanishes
or outlives its span (`Vanish`, `Hang`).  `MarkerGroup` is the joining of rows to
attempts: by the pid in the start row, else by the receipt that follows.

* `BudgetKept`: a trigger never starts more than `Limit` attempts by itself.
* `EscalationEarned`: behind an escalation there are as many lost dispatches and
  launches as the budget has, each counted once.
* `NoLongSilence`: until there is an output or an open escalation, some row
  appears within `Patience`, whatever was lost: a marker's cap and the longest
  backoff, or a waiter's span, and then the pass that acts.  The bound is tight.  A
  tick that dies costs more than its pass: the period it ran in is ticked, and the
  next tick reads a period later.

`EscalationEarned` has one exception, `Apart`: a receipt that is not the next row
after its marker (the process was faster than the tick, or a dispatch by hand came
between) counts beside it, even when it is a refusal, which `nextstep.py:304` says
is no attempt.  The spec then escalates one try early.

Abstractions: rows are in the order of their appends and compared by place, not by
stamp; the gate between dispatches is `Other` (its race is in `Spawns`); seats,
load, dependencies and waves always admit; a start-up ends within a period, a
waiter that does not hang within its span, and a pass launches at most `PassSpan`
periods after its read.

## The runs

| Run | Instance | Properties |
|---|---|---|
| `two_specs`, `locks`, `liveness`, `requeue_lost`, `charged_requeued` | see *The merge window* | |
| `cache` | 2 readers, 2 files; one reader with 2 writes, a damaged cache, a death, a timeout, or 2 readers with one of these (`FewFaults`) | `ReadIsMoment`, `CacheFaithful`, `QuietReadSucceeds`, `Exclusive`, `NoOvertaking` |
| `rollup` | one executor file with 2 writers, 4 lines, 3 segments and a death; a second file, or a reader, in shorter histories (`Instances`) | `LinesKept`, `FirstPackNoDouble`, `ViewInOrder`, `CheckedReadComplete` |
| `waits` | 3 launchers, 2 deaths, 1 reused pid; 3 processes at the cache lock; 1 spawn with pane, cancel and tick; 2 spawns at the gate; 3 files with 2 contents in one second | `OneInside`, `ImplementsOneLauncher`, `Answered`, `RefresherServed`, `VanishedIsSilent`, `StaleIsOver`, `TogetherOnlyUnseen`, `SpawnEnds`, `ReadStable`, `FileOrderKept` |
| `spawn_together` | 2 spawns | violates `NeverTogether` |
| `lanes` | 1 spec, 2 versions, 8 periods, limits 1, backoff 1 and 2, to the horizon with a dead tick and one version; in 3 periods two of: a dead tick, a gate by hand, a verdict, a ruling, a conflict row, an escalation, a failed dispatch, a rework, a failed scan (with a rebase a lock-busy one too), a rebase | `OncePerTrigger`, `QueuedWasReviewed`, `BackoffKept`, `EveryReviewSettles` |
| `builds` | 1 spec, 3 dispatches, 2 attempts, backoff 1, marker cap 2, 8 periods; with one fault 3 periods, 5 after a ruling | `BudgetKept`, `EscalationEarned`, `NoLongSilence` |
| `tooling_lost` | as `lanes`, without rebases, and nothing goes wrong | violates `ToolingRetried` |

`waits` runs five small protocols that share no state, one at a time: `part` says
which, the others rest (`MCWaits`).  Where faults multiply, a constraint makes one
instance out of several small ones, each of which can meet every fault.

Bounds: two writes reach an append after a torn line, a repair and a file that
moves between scan and read; a second reader meets a cache another one is
rebuilding.  Four lines and three segments reach a second packing and a late
line in each gap of the first.  Two deaths at the run lock leave a stale file
and take its remover as well.  Eight periods reach the third failure of a cycle
and the escalation of a retry; for builds, the longest silence and what ends it.
One rebase reaches every step of
it, a delivery between the look at the tip and the adoption, and a recut taken back.
Three dispatches are one more than the budget: the third shows it broken, or the
first of a new trigger.

Fairness: as for the merge window, a started process runs on, and none waits for
another except at a flock, which is granted to whoever waits again and again
(strong fairness of `Lock`).  Nothing is assumed of polls of the cache's gate; who
has it goes on.  The clock runs, a live waiter goes on, cron starts ticks; panes,
cancels and deaths are not fair.  `SpawnEnds` is `EveryStartEnds` for one spawn
with a tick; `NoTicks` leaves the tick out when two spawns meet.

Deadlock is not checked where a bound ends the model (cache, rollup, waits); in
`lanes` and `builds` it is: the clock must never be stuck before the horizon.

## Findings

`requeue_lost` and `charged_requeued` are described under *The merge window*.

* **Two dispatches start together** (`spawn_together`).  `spawns.acquire` is
  called "The duplicate-dispatch gate", and `dispatch.py:1273` gives it the events
  read before the lock is taken.  Two dispatches of one subject that both read
  first start one after the other: the lock is free again once the first has
  recorded its start, and the second compares with a ledger that lacks it.
* **A tooling hold is left alone** (`tooling_lost`).  `merge_queue.enqueue_due`
  promises to act once and to retry once (`merge_queue.py:164`).  For a tooling
  hold whose retry time has come, a dispatch on record ends it
  (`merge_queue.py:212`): if that gate died or left no outcome, there is no second
  dispatch, and without a second dispatch the ladder never reaches `inbox`, so
  nothing is escalated either.

TLC shows these as well on small instances; no run checks them:

* `NameBlind`: two equal lines of one second in different files are ordered by
  file name, `fold.py:147` says never.
* `NoDouble`: after a second packing, lines that are in a segment and still live
  are read twice until the file is aside (`ledger_files.py:144`).
* `ReadComplete`: a read that does not compare keys, between publication and
  recreation, can miss lines (`fold.py:273`).
* `NeverReplaced`: a rename back replaces a live file created meanwhile
  (`ledger_rollup.py:252`, `260`).
* `CancelledIsQuiet`: a signal that lands while the loop's exception is handled
  makes the waiter record a hold (`dispatch.py:659`).
* `CancelIsTheEnd`: a waiter that finished between the cancel's check and its
  signal leaves two ends (`cancel.py:10`, `55`).
* `VanishedOnce`: two overlapping passes record one spawn vanished twice
  (`tick.py:122`, `136`).

## Proofs

`tlapm` checks eight modules; those of the merge window are described there.  The
others, for all values of the constants:

* `WaitsProofs`, of the run lock: `RunLockTypeCorrect`, `OneInsideHolds`, `FileIsMineHolds`,
  `RunLockRefines` (`RunSpec => ImplementsOneLauncher`).  The invariant says who is
  under the flock holds it (`MutexIsMine`), an owner's pid is in the file
  (`FileIsMine`), between create and write it is empty (`FreshIsEmpty`), and a
  file about to be unlinked has no owner (`StaleIsNobodys`): what `Look` saw is
  still so at `Unlink`, because a pid that was dead owns nothing until it has
  been through the flock itself.
* `WaitsProofs`, of spawns: `VanishedIsSilentHolds`, `StaleIsOverHolds`,
  `TogetherOnlyUnseenHolds`, `SpawnInvHolds`, from `Sound` (bounds are numbers,
  spawns are neither cancels nor ticks).  `SpawnInv` adds to the types: a copy that is held
  is part of the ledger (`Copies`); a dead waiter's own ends are in it
  (`EndsOver`), so a verdict on the copy stands when it is recorded (`Pending`);
  a claim is seen within the window (`ClaimInWindow`); who runs has passed the
  gate on its copy (`GateKept`).
* `LedgerRollupProofs`: `RollupTypeCorrect`, `LinesKeptHolds`,
  `FirstPackNoDoubleHolds`, `ViewInOrderHolds`, `CheckedReadCompleteHolds`, from
  `RollupAssumption` (bounds are numbers, executors' files are files).
  * `FileInv`: an inode has one name (`OneNameEach`); what a writer has open still
    has a name or was replaced by a rename back (`OpenIsThere`); a pending file
    about to be deleted is open nowhere (`UnlinkedIsClosed`), and as nobody can
    open one, it stays so.
  * `Covered`: every line is packed, live, pending or in a replaced file.  The
    deletion of a pending file needs that the lines compared are still all its
    lines, hence `UnlinkedIsClosed`.  `LinesKept` follows.
  * `Snapshot`: at each of the reader's steps, what was there when it began is
    ahead of it or already read, or the file was renamed.  A checked read sees a
    rename in the key.  `CheckedReadComplete` follows.
  * `LineInv`, `OrderInv`: lines are numbered in the order of their appends and an
    inode has its lines in that order; a live or pending file repeats what is
    packed, shares a line with it, or has later lines only (`FollowInv`); so does
    what is picked, until it is published (`PickedInv`).  Segments without a
    repetition then increase, and a single one is the beginning of an inode
    (`PackedInv`), which `Compose` recognises in the live file.
* `LedgerCacheProofs`: `CacheTypeCorrect`, `CacheFaithfulHolds`, `ReadIsMomentHolds`,
  `QuietReadSucceedsHolds`; of the lock by itself `LockTypeCorrect`,
  `ExclusiveHolds` and `NoOvertakingHolds`, and `CacheExclusiveHolds` and
  `CacheNoOvertakingHolds` once more, now that its holders read, refresh and die
  wherever they are.  From `CacheAssumption` (the bounds are numbers and there is
  an event file) and `LockAssumption`.
  * `LockInv`: who is inside is the holder (`SharedIsMine`, `ExclIsMine`), a waiting
    refresher holds the gate (`GateIsMine`) and only readers are between gate and
    lock (`OnlyReadersPass`); the last two make the set of readers ahead of a
    refresher shrink.
  * `TypeInv`, `CacheInv`: a row says what its file held under its key, and so do the
    rows a refresh is putting together, except the file it has yet to verify
    (`RowsGood`).  That a row may be continued instead of parsed again rests on
    `ParseConcat`: what is parsed in two parts is what is parsed at once.
    `Bounded` adds what the bounds of the types need.
  * `MomentInv`: every key a read has seen, loads or answers is of a version since
    the read began (`ScanMoment`, `LoadMoment`, `DoneMoment`).
  * `QuietInv`: a read nothing has disturbed has looked at what is still so
    (`Steady`), and after its refresh finds a cache that is current, or none, if
    another process has found damage (`Settled`); who rebuilds it meanwhile
    publishes the same contents (`CalmSession`).  So the first attempt may find any
    cache, the second a current one that may be damaged, or none, and the third a
    current and sound one.
* `GateLaneProofs`: `LaneTypeCorrect`, `QueuedWasReviewedHolds`, `BackoffKeptHolds`,
  `OncePerTriggerHolds`, `EveryReviewSettlesHolds`, from `LaneAssumption` (limit and
  backoffs are numbers, a gate may outlast the period it starts in; `lane_rules.py`
  and the constants of the gate give more).  `LaneInv` speaks of the ledger as a set
  of events with stamps, as an append may land before later ones:
  * `World`: whoever has read an older version of the branch has a build after
    that (`Answered`); a gate's version agrees with the reviews before and after
    its start (`Agrees`); a tooling outcome's cycle lies in its past.  So a clean
    outcome that is newer than the last review is about that review's version.
    A rebase keeps the version, since it is adopted only while the branch is the
    tip that was resolved (`Unmoved`).
  * `RebaseInv`: rebases and those that wait for a re-gate have their types, and
    none began in the future.
  * `TickInv`: a tick's copy is part of the ledger, is in order, and the row it has
    chosen is due in it; the copy does not change between the choice and the
    dispatch, whatever others append.
  * `OnceInv`: a copy about to be acted on stands in the ledger in its order, and
    what the ledger has more holds no dispatch (`Moves`), as the tick lock lets
    only this tick write one.  So what the copy says of a row's dispatches is still
    true, and `Choice` has decided on all of them.  `SentOnce` says of each row: two
    dispatches at most; without a tooling outcome of the row's moment, one to act
    and one to retry; without a review of that moment, each after an outcome of its
    own.  Two facts of time close the argument: dispatches of two ticks differ in
    their stamps (`Earlier`), so at most one can stand before the outcome whose
    stamp it shares, and a dispatch comes after all that its copy holds.
  * `SettleInv`: for each review that waits (`Waiting`) and is not escalated, where
    its time has gone.  Before its retry (`RetryAhead`) the pass of this period is
    over with time left for another, or works on a dispatch chosen when the row was
    not overdue, or waits for a gate that began by then; after it (`RetryTimely`)
    the retry was sent by `Late` and has not aged longer than look lets it.  That a
    tick's copy has every review that waits, but those of this period (`PassInv`),
    makes the gate row of that review the only one due (`WaitingDue`), so a pass
    cannot spend its turn on another.  No step but a review starts a wait
    (`WaitingBefore`), and a review of this period has all its time (`Fresh`).
* `RetriesProofs`: `RetryTypeCorrect`, `BudgetKeptHolds`, `EscalationEarnedHolds`,
  `NoLongSilenceHolds`, from `RetryAssumption` (a budget and a marker's cap are at
  least one, spans and backoffs are numbers, and the longest backoff is the last, as
  in `attempts.BACKOFF_MIN`).
  * `RetryInv`: a try has rows only after its fork, its start before all others, a
    refusal or a start and not both, and none before it started or ended
    (`TryFits`); a fork has its tick's period, so no start-up of a tick's is under
    way when the next one reads (`TickFits`).
  * `BudgetInv`: what a trigger has forked and what has started or still can
    (`Charged`) is at most the budget, and less than that while a launch is due.
    A fork adds one, and no other step any.  That the read of a tick counts what is
    charged is `Counted`: the pass launches only if nothing started is without its
    end, so every charged try has failed (`ChargedFailed`); its group begins after
    the trigger although foreign markers may have joined it, as one of those stands
    between the start and the receipt (`GroupOfTry`); and one group makes one
    failure at most (`FailedOnce`).
  * `EndsInv`: the end of a try is the last row of its own, except that a tick may
    record as vanished what is over; what ends a run was preceded by its start; a
    try has one marker, and one in its start-up is of this period.
  * `EarnInv`: a tick about to escalate has enough behind its trigger, and so has
    every escalation.  `EscalationEarned` alone is not inductive: between the pass's
    read and its row other processes write, and a try that is wrong for its lone
    marker would stop to be wrong with its first row.  So it is counted in what
    cannot be taken back (`Sure`): a row of a failure, an end without output, or a
    marker whose try is over.  `CountEarned` sends each failure of the read, one to
    one, to such a try, to a failed launch or to a marker apart: the group of a
    failure is one of these three kinds (`GroupKinds`; an expired marker's try is no
    longer starting), and no two lone markers are of one try.  `BadLasts`,
    `LostLasts` and `ApartLasts` say that no step takes any of them away.
  * `SilentInv`: how long after the last row each place of the tick may be reached
    (`Limited`).  A row starts the count anew, and a death gives one pass and its
    period more.  What needs an argument is a pass that finds nothing to do and
    nothing to record (`IdleSoon`): then a waiter runs that still has time, a marker
    is younger than its cap, or a backoff is under way, which began at most a
    marker's cap after the last row (`FailedBy`); so the next row is due within
    `Pause`.  Two facts are needed of the others: a waiter runs no longer than its
    span and closes after its output (`TryTimes`), and a pass acts in time and
    escalates what was not escalated before, so it does write (`PassFits`).
* `LedgerOrderProofs`: `OrderTypeCorrect`, `FileOrderKeptHolds`, `ReadStableHolds`,
  from `OrderAssumption` (bounds are numbers, there is a second).  The state keeps
  its types;
  the rest is about `Order`, for any finite log.
  * `Popping` is what the merge of a run keeps at each pop: the lines put out and
    those left are the run, no line is in both or out twice, and of one file the
    lines that are out come before those left.  `PoppedIs` gives the pop: one head,
    the least by key and then by file, and no other is as small (`LeastUnique`).
    `MergeIs` follows, the runs are disjoint (`RunsAre`), and what stands before what
    in the whole is what stands so in a run, or is in an earlier run (`Cut`).
    `FileOrderKept` follows.
  * `MergeMore`: a line more, the last of its file, changes no pop until it is
    popped itself, because it hides no head (`MorePopped`), and from then on the lines
    left are the same as without it.  So the old run stands, in its order, in the
    new one (`Within`), every other run is merged as before (`MergeSame`), and
    `ReadStable` follows.
* `SequenceFacts`: what `FlattenSeq` makes of segments, prefixes, order and
  repetition in concatenations.  An induction over the naturals is one over a set
  (`Induction`), from the least number that is not in it; `FlattenSeq` and `Parse`
  are unfolded that way (`FlattenEquation`, `ParseEquation`).

Model-checked only:

* liveness and what rests on fairness: `RefresherServed`, `Answered`, `SpawnEnds`, and
  those of the merge window.  Every invariant the passing runs check is proved.

## Not modelled

* *Board, packets, configuration, backup, most of the watchdog*: they project the
  ledger, assemble text or write a file once; no step of theirs depends on the
  order of anybody else's.
* *Reapers and work trees*: what may be deleted is decided by a walk over files,
  processes and git; a model would only restate its conditions.
* *Base verification, quarantine, rechain*: the merge window sees their verdict,
  which is a choice there.
* *Deploy, push, proving*: see the plan.
* *Owed criteria, sweeps, carry, intake*: derived lists and moved files.  Each
  settles by one event, and the order of events is in `LedgerOrder`.
* *Rate and load limits*: they read the machine and GitHub's answers.
* *Admission of roles and the budgets of graders and reviewers*: dependencies,
  waves, capabilities, seats, bundle readiness.  `Retries` takes a first build
  that everything admits.
* *States of a spec* (`fold.fold`): a fold of some thirty event types with their
  corrections; it is sequential, and its tests go through it type by type.

`PROJECT.json` gives the reason for each component.

## Plan

1. Deploy: the serial lock, a command that outlives its dead wrapper, the proof of
   the live commit.
2. Graders in `Retries`: bundle requests, a refreshed branch, the three requests'
   cap.
3. `spec_state` as a pure operator on short event sequences, against a reference
   definition, and `_enqueue` and `_build` on its result.
4. What becomes of enqueue rows in `GateLane`.
