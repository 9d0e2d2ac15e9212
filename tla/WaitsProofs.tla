---- MODULE WaitsProofs ----
(***************************************************************************)
(* Who runs beside whom: at most one launcher is inside the run lock, for  *)
(* any pids, deaths and reused pids; and what a spawn's record says of it, *)
(* for any spawns, ticks and cancels.                                      *)
(***************************************************************************)
EXTENDS RunLock, Spawns, TLAPS

-----------------------------------------------------------------------------
(* The run lock *)

Holds == {"look", "unlink", "create", "write", "drop", "remove"}

\* The mutex is free or its holder's.
MutexIsMine == \A p \in Pids : rpc[p] \in Holds => mutex = p
\* Whoever is about to write has just created the file.
FreshIsEmpty == \A p \in Pids : rpc[p] = "write" => file = "empty"
\* A file that is being unlinked is no living owner's, and cannot become one:
\* ownership needs the mutex.
StaleIsNobodys == \A p, q \in Pids : rpc[p] = "unlink" => ~Owns(q)

LockInv ==
    /\ RunTypeOK
    /\ MutexIsMine
    /\ FileIsMine
    /\ FreshIsEmpty
    /\ StaleIsNobodys

\* The invariant holds at the start.
LEMMA LockStart == RunInit => LockInv
BY RunLockAssumption DEF RunInit, LockInv, RunTypeOK, RunPC, MutexIsMine, FileIsMine, FreshIsEmpty,
    StaleIsNobodys, Owns, Holds

\* Every step keeps it.
LEMMA LockStep == LockInv /\ [RunNext]_runVars => LockInv'
<1> SUFFICES ASSUME LockInv, [RunNext]_runVars PROVE LockInv'
    OBVIOUS
<1> USE RunLockAssumption DEF LockInv, RunTypeOK, RunPC, MutexIsMine, FileIsMine, FreshIsEmpty,
        StaleIsNobodys, Owns, Holds, Goto, DropMutex
<1>1. ASSUME NEW p \in Pids, Ask(p) PROVE LockInv'
    BY <1>1 DEF Ask
<1>2. ASSUME NEW p \in Pids, Lock(p) PROVE LockInv'
    BY <1>2 DEF Lock, MutexFree
<1>3. ASSUME NEW p \in Pids, LookAt(p) PROVE LockInv'
    <2>1. CASE file = "absent"
        BY <1>3, <2>1 DEF LookAt
    <2>2. CASE file # "absent" /\ Readable(file) /\ ~AnswersKill(file)
        <3>1. \A q \in Pids : ~Owns(q)
            BY <2>2 DEF Readable, AnswersKill, Lives
        <3>2. rpc' = [rpc EXCEPT ![p] = "unlink"] /\ UNCHANGED <<file, mutex, alien, crashes, reuses>>
            BY <1>3, <2>2 DEF LookAt
        <3> QED BY <1>3, <3>1, <3>2 DEF LookAt
    <2>3. CASE file # "absent" /\ ~(Readable(file) /\ ~AnswersKill(file))
        BY <1>3, <2>3 DEF LookAt
    <2> QED BY <2>1, <2>2, <2>3
<1>4. ASSUME NEW p \in Pids, Unlink(p) PROVE LockInv'
    BY <1>4 DEF Unlink
<1>5. ASSUME NEW p \in Pids, Create(p) PROVE LockInv'
    BY <1>5 DEF Create
<1>6. ASSUME NEW p \in Pids, Write(p) PROVE LockInv'
    BY <1>6 DEF Write
<1>7. ASSUME NEW p \in Pids, Unlock(p) PROVE LockInv'
    BY <1>7 DEF Unlock
<1>8. ASSUME NEW p \in Pids, Leave(p) PROVE LockInv'
    BY <1>8 DEF Leave
<1>9. ASSUME NEW p \in Pids, RemoveFile(p) PROVE LockInv'
    BY <1>9 DEF RemoveFile
<1>10. ASSUME NEW p \in Pids, Quit(p) PROVE LockInv'
    BY <1>10 DEF Quit
<1>11. ASSUME NEW p \in Pids, LauncherDies(p) PROVE LockInv'
    BY <1>11 DEF LauncherDies, CrashesLeft
<1>12. ASSUME NEW p \in Pids, Reuse(p) PROVE LockInv'
    BY <1>12 DEF Reuse
<1>13. ASSUME NEW p \in Pids, AlienExit(p) PROVE LockInv'
    BY <1>13 DEF AlienExit
<1>14. CASE UNCHANGED runVars
    BY <1>14 DEF runVars
<1> QED
    BY <1>1, <1>2, <1>3, <1>4, <1>5, <1>6, <1>7, <1>8, <1>9, <1>10, <1>11, <1>12, <1>13,
       <1>14 DEF RunNext, Step

LEMMA Invariance == RunSpec => []LockInv
BY LockStart, LockStep, PTL DEF RunSpec

\* Types of the lock's state.
THEOREM RunLockTypeCorrect == RunSpec => []RunTypeOK
BY Invariance, PTL DEF LockInv

\* Nobody takes the file of a launcher that lives.
THEOREM FileIsMineHolds == RunSpec => []FileIsMine
BY Invariance, PTL DEF LockInv

\* Two launchers are never inside together.
THEOREM OneInsideHolds == RunSpec => []OneInside
<1>1. LockInv => OneInside
    BY DEF LockInv, FileIsMine, OneInside
<1> QED BY Invariance, <1>1, PTL

\* The one owner, whoever is asked for it.
LEMMA OwnerIs == ASSUME LockInv, NEW p \in Pids, Owns(p) PROVE Owner = p
BY DEF Owner, LockInv, FileIsMine

LEMMA NoOwnerIs == ASSUME \A p \in Pids : ~Owns(p) PROVE Owner = NoPid
BY DEF Owner

\* A step takes the lock, gives it back, or changes nothing of OneLauncher.
LEMMA RefinementStep == LockInv /\ LockInv' /\ [RunNext]_runVars => [Abstract!Next]_Owner
<1> SUFFICES ASSUME LockInv, LockInv', [RunNext]_runVars PROVE [Abstract!Next]_Owner
    OBVIOUS
<1> DEFINE Same == \A q \in Pids : Owns(q)' <=> Owns(q)
<1>1. ASSUME Same PROVE Owner' = Owner
    <2>1. CASE \E q \in Pids : Owns(q)
        <3>1. PICK q \in Pids : Owns(q)
            BY <2>1
        <3>2. Owner = q
            BY <3>1, OwnerIs
        <3>3. Owns(q)'
            BY <1>1, <3>1
        <3>4. Owner' = q
            BY <3>3 DEF Owner, LockInv, FileIsMine
        <3> QED BY <3>2, <3>4
    <2>2. CASE \A q \in Pids : ~Owns(q)
        <3>1. \A q \in Pids : ~Owns(q)'
            BY <1>1, <2>2
        <3> QED BY <2>2, <3>1 DEF Owner
    <2> QED BY <2>1, <2>2
<1>2. ASSUME NEW p \in Pids, Write(p) PROVE Abstract!Next
    <2>1. \A q \in Pids : ~Owns(q)
        BY <1>2, RunLockAssumption DEF Write, LockInv, FileIsMine, FreshIsEmpty
    <2>2. Owns(p)'
        BY <1>2 DEF Write, Goto, Owns, LockInv, RunTypeOK
    <2>3. Owner' = p
        BY <2>2 DEF Owner, LockInv, FileIsMine
    <2> QED BY <2>1, <2>3, NoOwnerIs DEF Abstract!Next, Abstract!Enter
<1>3. ASSUME NEW p \in Pids, Owns(p), rpc' = [rpc EXCEPT ![p] = "off"] PROVE Abstract!Next
    <2>1. Owner = p
        BY <1>3, OwnerIs
    <2>2. \A q \in Pids : ~Owns(q)'
        BY <1>3 DEF Owns, LockInv, RunTypeOK, FileIsMine
    <2>3. Owner' = NoPid
        BY <2>2 DEF Owner
    <2> QED BY <2>1, <2>3 DEF Abstract!Next, Abstract!Leave
<1>4. ASSUME NEW p \in Pids, ~Owns(p), ~Write(p),
             Ask(p) \/ Step(p) \/ LauncherDies(p) \/ Reuse(p) \/ AlienExit(p)
      PROVE  Same
    BY <1>4 DEF Ask, Step, Lock, LookAt, Unlink, Create, Unlock, Leave, RemoveFile, Quit,
        LauncherDies, Reuse, AlienExit, Goto, Owns, LockInv, RunTypeOK
<1>5. ASSUME NEW p \in Pids, Owns(p), ~RemoveFile(p), ~LauncherDies(p),
             Ask(p) \/ Step(p) \/ Reuse(p) \/ AlienExit(p)
      PROVE  Same
    BY <1>5 DEF Ask, Step, Lock, LookAt, Unlink, Create, Write, Unlock, Leave, Quit,
        Reuse, AlienExit, Goto, Owns, LockInv, RunTypeOK
<1>6. ASSUME NEW p \in Pids, RemoveFile(p) \/ LauncherDies(p), Owns(p) PROVE Abstract!Next
    BY <1>3, <1>6 DEF RemoveFile, LauncherDies, Goto
<1>7. CASE UNCHANGED runVars
    <2>1. Same
        BY <1>7 DEF runVars, Owns
    <2> QED BY <1>1, <2>1
<1>8. CASE RunNext
    <2> PICK p \in Pids : Ask(p) \/ Step(p) \/ LauncherDies(p) \/ Reuse(p) \/ AlienExit(p)
        BY <1>8 DEF RunNext
    <2> QED BY <1>1, <1>2, <1>4, <1>5, <1>6
<1> QED BY <1>7, <1>8

\* The file, the flock and the pid make one lock of OneLauncher.
THEOREM RunLockRefines == RunSpec => ImplementsOneLauncher
<1>1. RunInit => Owner = NoPid
    BY DEF RunInit, Owner, Owns
<1>2. RunSpec => []LockInv
    BY Invariance
<1> QED BY <1>1, <1>2, RefinementStep, PTL DEF RunSpec, ImplementsOneLauncher, Abstract!Spec, Abstract!Init

-----------------------------------------------------------------------------
(* Spawns *)

\* What the proofs ask of the constants.
Sound ==
    /\ MaxNow \in Nat /\ Window \in Nat /\ Cap \in Nat
    /\ Spawn \cap Canceller = {} /\ Spawn \cap Reconciler = {}

PC == {"idle", "read", "gated", "started", "waiting", "post",
       "gaveup", "armed", "crashing", "said", "dead"}
Why == {"refused", "result", "cancelled", "vanished", "stale", "preflight", "gaveup", "crash"}
CancelAt == {"idle", "admitted", "forced", "marked", "signalled", "over"}
PassAt == {"idle", "read", "vanished", "stale"}
EndEvent == [spawn : Spawn, type : Terminal, why : Why,
             by : Spawn \cup Canceller \cup Reconciler]
Copy == [start : [Spawn -> Nat], ends : SUBSET EndEvent,
         held : SUBSET [spawn : Spawn, why : Why]]
CancelState == [at : CancelAt, spawn : Spawn \cup {None}]
PassState == [at : PassAt, led : Copy, now : Nat, left : SUBSET Spawn,
              spawn : Spawn \cup {None}]

Types ==
    /\ now \in 0..MaxNow
    /\ pc \in [Spawn -> PC]
    /\ Ledger \in Copy
    /\ claimT \in [Spawn -> Nat]
    /\ seen \in [Spawn -> Copy]
    /\ cancel \in [Canceller -> CancelState]
    /\ recon \in [Reconciler -> PassState]

\* The waiter has said its last word, or is about to exit without one.
Over(s) == pc[s] \in {"armed", "crashing", "said", "dead"}
\* The spawn has outlived its window and its cap.
Late(s) == start[s] # Never /\ now > start[s] + Window + Cap

\* A start event is written once, by the waiter, and not in the future.
StartOnce ==
    \A s \in Spawn :
        /\ pc[s] \in {"idle", "read", "gated"} => start[s] = Never
        /\ start[s] # Never => start[s] <= now

\* A copy of the ledger is an earlier ledger.
Past(led) ==
    /\ \A s \in Spawn : led.start[s] # Never => start[s] = led.start[s]
    /\ led.ends \subseteq ends /\ led.held \subseteq held
Copies ==
    /\ \A s \in Spawn : Past(seen[s])
    /\ \A r \in Reconciler : Past(recon[r].led) /\ recon[r].now <= now
    /\ \A r \in Reconciler : \A s \in recon[r].left : recon[r].led.start[s] # Never

\* The spawn's own end, if the waiter has written one.
OwnEnd(s) == \E e \in ends : e.spawn = s /\ e.by = s

\* An end is the waiter's own, or a cancel's or a tick's on a waiter that is
\* over, or says that the spawn is late.  Holds are the waiter's own.
EndsOver ==
    /\ \A e \in ends :
        /\ IF e.why = "stale" THEN Late(e.spawn) ELSE Over(e.spawn)
        /\ e.why = "vanished" => pc[e.spawn] = "dead" /\ ~OwnEnd(e.spawn)
        /\ e.by = e.spawn => e.type \in RealEnd
    /\ \A h \in held : Over(h.spawn)

\* What a cancel or a tick is about to record will be true when it does.
Pending ==
    /\ \A c \in Canceller : cancel[c].at # "idle" =>
        /\ cancel[c].spawn \in Spawn /\ start[cancel[c].spawn] # Never
        /\ cancel[c].at \in {"signalled", "over"} => Over(cancel[c].spawn)
    /\ \A r \in Reconciler :
        /\ recon[r].at = "vanished" =>
            recon[r].spawn \in Spawn /\ pc[recon[r].spawn] = "dead" /\ ~OwnEnd(recon[r].spawn)
        /\ recon[r].at = "stale" => recon[r].spawn \in Spawn /\ Late(recon[r].spawn)

\* The waiter polls within the minute: a claim is seen in the window, or at
\* the first look after it.
ClaimInWindow ==
    \A s \in Spawn :
        /\ pc[s] = "started" => now = start[s]
        /\ pc[s] \in {"started", "waiting"} => start[s] # Never
        /\ pc[s] = "waiting" /\ claimT[s] = Never => now <= start[s] + Window + 1
        /\ claimT[s] # Never => start[s] # Never /\ claimT[s] <= start[s] + Window + 1

\* Past the gate, whoever was seen started and collides is late if it runs.
GateKept ==
    \A s, t \in Spawn :
        /\ s # t /\ (pc[s] = "gated" \/ Running(s))
        /\ Collide(s, t) /\ Started(seen[s], t) /\ Running(t)
        => Late(t)

SpawnInv == Sound /\ Types /\ StartOnce /\ Copies /\ EndsOver /\ Pending /\ ClaimInWindow /\ GateKept

-----------------------------------------------------------------------------
\* The invariant holds at the start.
LEMMA SpawnStart == Sound /\ Init => SpawnInv
  <1> SUFFICES ASSUME Sound, Init PROVE SpawnInv
    OBVIOUS
  <1> USE DEF Sound, Init, Never, None
  <1>1. Types
    <2>1. Ledger \in Copy
      BY DEF Copy, Ledger, EndEvent
    <2> QED BY <2>1 DEF Types, PC, CancelState, PassState, CancelAt, PassAt
  <1>2. StartOnce
    BY DEF StartOnce
  <1>3. Copies
    BY DEF Copies, Past, Ledger
  <1>4. EndsOver
    BY DEF EndsOver
  <1>5. Pending
    BY DEF Pending
  <1>6. ClaimInWindow /\ GateKept
    BY DEF ClaimInWindow, GateKept, Running
  <1> QED BY <1>1, <1>2, <1>3, <1>4, <1>5, <1>6 DEF SpawnInv

\* The steps of a waiter and its pane, of a cancel, and of a pass.
Waiter(s) ==
    \/ Read(s) \/ Acquire(s) \/ Refuse(s) \/ Preflight(s) \/ Start(s) \/ Queue(s)
    \/ SeeResult(s) \/ SeeMarker(s) \/ SeeClaim(s) \/ GiveUp(s) \/ HoldUnknown(s)
    \/ Finish(s) \/ Crash(s) \/ Exit(s) \/ Die(s) \/ Look(s) \/ Claim(s) \/ Stamp(s)

Canceling(c) ==
    \/ \E s \in Spawn, force \in BOOLEAN : Admit(c, s, force)
    \/ Withdraw(c) \/ Signal(c) \/ RecordCancel(c)

Passing(r) == ReadAll(r) \/ (\E s \in Spawn : Judge(r, s)) \/ RecordEnd(r) \/ PassOver(r)

LEMMA Steps ==
    ASSUME Next
    PROVE  \/ \E s \in Spawn : Waiter(s)
           \/ \E c \in Canceller : Canceling(c)
           \/ \E r \in Reconciler : Passing(r)
           \/ Clock
  BY DEF Next, Work, Wait, Pane, Cancel, Pass, Waiter, Canceling, Passing

\* What is written to the ledger has the ledger's type.
LEMMA EndTyped ==
    ASSUME Ledger \in Copy, NEW s \in Spawn, NEW type \in Terminal, NEW why \in Why,
           NEW by \in Spawn \cup Canceller \cup Reconciler,
           ends' = ends \cup {[spawn |-> s, type |-> type, why |-> why, by |-> by]},
           start' = start, held' = held
    PROVE  Ledger' \in Copy
  <1>1. ends \subseteq EndEvent /\ start \in [Spawn -> Nat]
        /\ held \in SUBSET [spawn : Spawn, why : Why]
    BY DEF Ledger, Copy
  <1>2. [spawn |-> s, type |-> type, why |-> why, by |-> by] \in EndEvent
    BY DEF EndEvent
  <1>3. ends' \subseteq EndEvent
    BY <1>1, <1>2
  <1> QED BY <1>1, <1>3 DEF Ledger, Copy

LEMMA HoldTyped ==
    ASSUME Ledger \in Copy, NEW s \in Spawn, NEW why \in Why,
           held' = held \cup {[spawn |-> s, why |-> why]},
           start' = start, ends' = ends
    PROVE  Ledger' \in Copy
  BY DEF Ledger, Copy

\* What a cancel and a tick turn to has their type.
LEMMA AtTyped ==
    ASSUME cancel \in [Canceller -> CancelState], NEW c \in Canceller,
           NEW at \in CancelAt, NEW s \in Spawn,
           cancel' = [cancel EXCEPT ![c] = [at |-> at, spawn |-> s]]
    PROVE  cancel' \in [Canceller -> CancelState]
  BY DEF CancelState

LEMMA GoOnTyped ==
    ASSUME recon \in [Reconciler -> PassState], NEW r \in Reconciler,
           NEW at \in PassAt, NEW left \in SUBSET Spawn, NEW s \in Spawn \cup {None},
           recon' = [recon EXCEPT ![r] = [at |-> at, led |-> recon[r].led,
                        now |-> recon[r].now, left |-> left, spawn |-> s]]
    PROVE  recon' \in [Reconciler -> PassState]
  BY DEF PassState

\* Every step keeps the types.
LEMMA TypesStep ==
    ASSUME SpawnInv, Next PROVE Types'
  <1>t. Types /\ Sound /\ Pending
    BY DEF SpawnInv
  <1>l. Ledger \in Copy /\ now \in Nat
    BY <1>t DEF Types, Sound
  <1>c. cancel \in [Canceller -> CancelState] /\ recon \in [Reconciler -> PassState]
    BY <1>t DEF Types
  <1>0. ASSUME UNCHANGED <<start, ends, held>> PROVE Ledger' = Ledger
    BY <1>0 DEF Ledger
  <1>1. ASSUME NEW s \in Spawn,
               \/ Read(s) \/ Acquire(s) \/ Queue(s)
               \/ SeeResult(s) \/ SeeMarker(s) \/ SeeClaim(s) \/ GiveUp(s)
               \/ Exit(s) \/ Die(s) \/ Look(s) \/ Claim(s) \/ Stamp(s)
        PROVE Types'
    BY <1>t, <1>0, <1>1 DEF Types, PC, Sound, seat, Never, Read, Acquire, Queue, SeeResult,
                SeeMarker, SeeClaim, GiveUp, Exit, Die, Look, Claim, Stamp
  <1>2. ASSUME NEW s \in Spawn, Start(s) PROVE Types'
    <2>1. Ledger' \in Copy
      BY <1>l, <1>2 DEF Start, Ledger, Copy
    <2> QED BY <1>t, <1>2, <2>1 DEF Start, Types, PC, seat
  <1>3. ASSUME NEW s \in Spawn,
               Refuse(s) \/ Preflight(s) \/ HoldUnknown(s) \/ Finish(s) \/ Crash(s)
        PROVE Types'
    <2>1. Ledger' \in Copy
      <3>1. CASE Refuse(s)
        BY <1>l, <3>1, EndTyped DEF Refuse, End, Terminal, Why
      <3>2. CASE Preflight(s)
        BY <1>l, <3>2, EndTyped, HoldTyped DEF Preflight, End, Hold, Terminal, Why
      <3>3. CASE HoldUnknown(s) \/ Crash(s)
        BY <1>l, <3>3, HoldTyped DEF Hold, HoldUnknown, Crash, Why
      <3>4. CASE Finish(s)
        BY <1>l, <3>4, EndTyped, HoldTyped DEF Finish, End, Hold, Terminal, RealEnd, Why
      <3> QED BY <1>3, <3>1, <3>2, <3>3, <3>4
    <2>2. UNCHANGED <<now, seen, cancel, recon, claimT>>
      BY <1>3 DEF Refuse, Preflight, HoldUnknown, Finish, Crash, seat
    <2>3. pc' \in [Spawn -> PC]
      BY <1>t, <1>3 DEF Types, PC, Refuse, Preflight, HoldUnknown, Finish, Crash
    <2> QED BY <1>t, <2>1, <2>2, <2>3 DEF Types
  <1>4. ASSUME NEW c \in Canceller, NEW s \in Spawn, NEW force \in BOOLEAN, Admit(c, s, force)
        PROVE Types'
    <2>1. cancel' \in [Canceller -> CancelState]
      <3>1. PICK at \in CancelAt : cancel' = [cancel EXCEPT ![c] = [at |-> at, spawn |-> s]]
        BY <1>4 DEF Admit, At, CancelAt
      <3> QED BY <1>c, <3>1, AtTyped
    <2> QED BY <1>t, <1>0, <1>4, <2>1 DEF Admit, Types, seat
  <1>5. ASSUME NEW c \in Canceller, Withdraw(c) \/ Signal(c) \/ RecordCancel(c) PROVE Types'
    <2> DEFINE s == cancel[c].spawn
    <2>1. s \in Spawn
      BY <1>t, <1>5 DEF Pending, Withdraw, Signal, RecordCancel
    <2>2. PICK at \in CancelAt : cancel' = [cancel EXCEPT ![c] = [at |-> at, spawn |-> s]]
      BY <1>5 DEF At, Withdraw, Signal, RecordCancel, CancelAt
    <2>3. cancel' \in [Canceller -> CancelState]
      BY <1>c, <2>1, <2>2, AtTyped
    <2>4. Ledger' \in Copy
      <3>1. CASE Withdraw(c) \/ Signal(c)
        BY <1>l, <1>0, <3>1 DEF Withdraw, Signal
      <3>2. CASE RecordCancel(c)
        BY <1>l, <3>2, <2>1, EndTyped DEF End, RecordCancel, Terminal, Why
      <3> QED BY <1>5, <3>1, <3>2
    <2>5. pc' \in [Spawn -> PC]
      BY <1>t, <1>5 DEF Types, PC, Withdraw, Signal, RecordCancel
    <2>6. UNCHANGED <<now, seen, recon, claimT>>
      BY <1>5 DEF Withdraw, Signal, RecordCancel, seat
    <2> QED BY <1>t, <2>3, <2>4, <2>5, <2>6 DEF Types
  <1>6. ASSUME NEW r \in Reconciler, ReadAll(r) \/ PassOver(r) PROVE Types'
    <2>1. recon' \in [Reconciler -> PassState]
      BY <1>l, <1>c, <1>6 DEF ReadAll, PassOver, PassState, PassAt, None
    <2> QED BY <1>t, <1>0, <1>6, <2>1 DEF ReadAll, PassOver, Types, seat
  <1>7. ASSUME NEW r \in Reconciler, NEW s \in Spawn, Judge(r, s) PROVE Types'
    <2>1. Verdict(r, s) = "" \/ Verdict(r, s) \in PassAt
      BY DEF Verdict, PassAt
    <2>2. recon[r].left \ {s} \in SUBSET Spawn
      BY <1>c DEF PassState
    <2>3. recon' \in [Reconciler -> PassState]
      BY <1>c, <1>7, <2>1, <2>2, GoOnTyped DEF Judge, GoOn, PassAt
    <2> QED BY <1>t, <1>0, <1>7, <2>3 DEF Judge, Types, seat
  <1>8. ASSUME NEW r \in Reconciler, RecordEnd(r) PROVE Types'
    <2>1. recon[r].spawn \in Spawn
      BY <1>t, <1>8 DEF RecordEnd, Pending
    <2>2. Ledger' \in Copy
      <3>1. PICK type \in Terminal, why \in Why :
              ends' = ends \cup {[spawn |-> recon[r].spawn, type |-> type, why |-> why, by |-> r]}
        BY <1>8, <1>c DEF RecordEnd, End, Terminal, Why
      <3> QED BY <1>l, <1>8, <2>1, <3>1, EndTyped DEF RecordEnd
    <2>3. recon[r].left \in SUBSET Spawn
      BY <1>c DEF PassState
    <2>4. recon' \in [Reconciler -> PassState]
      BY <1>c, <1>8, <2>3, GoOnTyped DEF RecordEnd, GoOn, PassAt
    <2> QED BY <1>t, <1>8, <2>2, <2>4 DEF RecordEnd, Types, seat
  <1>9. CASE Clock
    BY <1>t, <1>0, <1>9 DEF Clock, Types, Sound, seat
  <1> QED BY Steps, <1>1, <1>2, <1>3, <1>4, <1>5, <1>6, <1>7, <1>8, <1>9
          DEF Waiter, Canceling, Passing

-----------------------------------------------------------------------------
\* What a step may do to the record of a spawn and to the waiter's last word.
Grows ==
    /\ now' >= now
    /\ ends \subseteq ends' /\ held \subseteq held'
    /\ \A s \in Spawn :
        /\ start[s] # Never => start'[s] = start[s]
        /\ Over(s) => Over(s)'
        /\ pc[s] = "dead" => pc'[s] = "dead"

\* The events a step of the waiter s may add.
OwnOnly(s) ==
    /\ \A e \in ends' \ ends : e.spawn = s /\ e.by = s /\ e.type \in RealEnd
                               /\ e.why \in {"refused", "result"}
    /\ \A h \in held' \ held : h.spawn = s

\* A step of a spawn's own leaves the others, and what it writes is its last
\* word.
LEMMA WaiterStep ==
    ASSUME SpawnInv, NEW s \in Spawn, Waiter(s)
    PROVE  /\ Grows /\ OwnOnly(s)
           /\ (ends' # ends \/ held' # held) => pc[s] # "dead" /\ Over(s)'
           /\ \A t \in Spawn \ {s} : pc'[t] = pc[t] /\ start'[t] = start[t]
                                     /\ seen'[t] = seen[t] /\ claimT'[t] = claimT[t]
           /\ pc'[s] \in {"idle", "read", "gated"} =>
                pc[s] \in {"idle", "read", "gated"} /\ start'[s] = start[s]
           /\ start'[s] # start[s] => start'[s] = now
           /\ seen'[s] # seen[s] => seen'[s] = Ledger /\ pc'[s] = "read"
           /\ now' = now /\ cancel' = cancel /\ recon' = recon
  <1>t. /\ pc \in [Spawn -> PC] /\ start \in [Spawn -> Nat]
        /\ seen \in [Spawn -> Copy] /\ claimT \in [Spawn -> Nat] /\ now \in Nat
        /\ pc[s] \in {"idle", "read", "gated"} => start[s] = Never
    BY DEF SpawnInv, Sound, Types, Copy, Ledger, StartOnce
  <1> USE DEF Grows, OwnOnly, Over, seat
  <1>1. CASE Read(s) \/ Acquire(s) \/ Queue(s) \/ SeeResult(s) \/ SeeMarker(s) \/ SeeClaim(s)
    BY <1>t, <1>1 DEF Read, Acquire, Queue, SeeResult, SeeMarker, SeeClaim
  <1>2. CASE GiveUp(s) \/ Exit(s) \/ Die(s) \/ Look(s) \/ Claim(s) \/ Stamp(s)
    BY <1>t, <1>2 DEF GiveUp, Exit, Die, Look, Claim, Stamp, Alive
  <1>3. CASE Start(s)
    BY <1>t, <1>3 DEF Start
  <1>4. CASE Refuse(s)
    BY <1>t, <1>4 DEF Refuse, End, RealEnd
  <1>5. CASE Preflight(s)
    BY <1>t, <1>5 DEF Preflight, End, Hold, RealEnd
  <1>6. CASE HoldUnknown(s) \/ Crash(s)
    BY <1>t, <1>6 DEF HoldUnknown, Crash, Hold
  <1>7. CASE Finish(s)
    BY <1>t, <1>7 DEF Finish, End, Hold, RealEnd
  <1> QED BY <1>1, <1>2, <1>3, <1>4, <1>5, <1>6, <1>7 DEF Waiter

\* A cancel ends a waiter it found in its loop, or sees it crash, and only then
\* records its own word.
LEMMA CancelStep ==
    ASSUME SpawnInv, NEW c \in Canceller, Canceling(c)
    PROVE  /\ Grows
           /\ \A e \in ends' \ ends : e.spawn \in Spawn /\ e.by = c /\ e.why = "cancelled"
                                      /\ Over(e.spawn)
           /\ \A t \in Spawn : pc'[t] = pc[t] \/ pc'[t] \in {"crashing", "dead"}
           /\ cancel'[c].at # "idle" =>
                /\ cancel'[c].spawn \in Spawn /\ start[cancel'[c].spawn] # Never
                /\ cancel'[c].at \in {"signalled", "over"} => Over(cancel[c].spawn)'
           /\ \A d \in Canceller \ {c} : cancel'[d] = cancel[d]
           /\ UNCHANGED <<now, seen, start, held, claimT, recon>>
  <1>t. /\ pc \in [Spawn -> PC] /\ start \in [Spawn -> Nat] /\ now \in Nat
        /\ cancel \in [Canceller -> CancelState]
        /\ cancel[c].at # "idle" =>
             /\ cancel[c].spawn \in Spawn /\ start[cancel[c].spawn] # Never
             /\ cancel[c].at \in {"signalled", "over"} => Over(cancel[c].spawn)
    BY DEF SpawnInv, Sound, Types, Copy, Ledger, Pending
  <1> USE DEF Grows, Over, seat
  <1>1. CASE \E s \in Spawn, force \in BOOLEAN : Admit(c, s, force)
    <2>1. PICK s \in Spawn, force \in BOOLEAN : Admit(c, s, force)
      BY <1>1
    <2>2. /\ cancel' = [cancel EXCEPT ![c] = [at |-> cancel'[c].at, spawn |-> s]]
          /\ cancel'[c].at \in {"forced", "admitted"}
          /\ start[s] # Never
          /\ UNCHANGED <<now, pc, seen, lock, start, ends, held, claimT, recon>>
      BY <1>t, <2>1 DEF Admit, At, Started, Ledger
    <2> QED BY <1>t, <2>2
  <1>2. CASE Withdraw(c)
    BY <1>t, <1>2 DEF Withdraw, At
  <1>3. CASE Signal(c)
    <2>1. PICK s \in Spawn : s = cancel[c].spawn /\ start[s] # Never
      BY <1>t, <1>3 DEF Signal
    <2>2. /\ cancel' = [cancel EXCEPT ![c] = [at |-> "signalled", spawn |-> s]]
          /\ UNCHANGED <<now, seen, start, ends, held, claimT, recon>>
      BY <2>1, <1>3 DEF Signal, At
    <2>3. /\ \/ pc' = pc /\ pc[s] \in {"idle", "dead"}
             \/ pc' = [pc EXCEPT ![s] = "dead"]
             \/ pc' = [pc EXCEPT ![s] = "crashing"] /\ pc[s] # "dead"
      BY <1>t, <2>1, <1>3 DEF Signal, Alive
    <2>4. pc[s] # "idle"
      BY <2>1 DEF SpawnInv, StartOnce
    <2>5. Over(s)'
      BY <1>t, <2>3, <2>4
    <2>6. Grows
      BY <1>t, <2>2, <2>3
    <2> QED BY <1>t, <2>1, <2>2, <2>3, <2>5, <2>6
  <1>4. CASE RecordCancel(c)
    <2>1. PICK s \in Spawn : s = cancel[c].spawn /\ start[s] # Never /\ Over(s)
      BY <1>t, <1>4 DEF RecordCancel
    <2>2. /\ cancel' = [cancel EXCEPT ![c] = [at |-> "over", spawn |-> s]]
          /\ ends' = ends \cup {[spawn |-> s, type |-> "failed", why |-> "cancelled", by |-> c]}
          /\ UNCHANGED <<now, pc, seen, start, held, claimT, recon>>
      BY <2>1, <1>4 DEF RecordCancel, At, End
    <2>3. Grows
      BY <1>t, <2>2
    <2>4. \A e \in ends' \ ends :
            e.spawn \in Spawn /\ e.by = c /\ e.why = "cancelled" /\ Over(e.spawn)
      BY <2>1, <2>2
    <2> QED BY <1>t, <2>1, <2>2, <2>3, <2>4
  <1> QED BY <1>1, <1>2, <1>3, <1>4 DEF Canceling

\* What a pass is about to record is still true when it records it.
TrueOf(r) ==
    /\ recon[r].at = "vanished" =>
        recon[r].spawn \in Spawn /\ pc[recon[r].spawn] = "dead" /\ ~OwnEnd(recon[r].spawn)
    /\ recon[r].at = "stale" => recon[r].spawn \in Spawn /\ Late(recon[r].spawn)

LEMMA PassStep ==
    ASSUME SpawnInv, NEW r \in Reconciler, Passing(r)
    PROVE  /\ Grows
           /\ \A e \in ends' \ ends :
                /\ e.spawn \in Spawn /\ e.by = r
                /\ \/ e.why = "vanished" /\ pc[e.spawn] = "dead" /\ ~OwnEnd(e.spawn)
                   \/ e.why = "stale" /\ Late(e.spawn)
           /\ ends' = ends => TrueOf(r)'
           /\ ends' # ends => recon'[r].at = "read"
           /\ Past(recon'[r].led) /\ recon'[r].now <= now
           /\ \A s \in recon'[r].left : recon'[r].led.start[s] # Never
           /\ \A q \in Reconciler \ {r} : recon'[q] = recon[q]
           /\ UNCHANGED <<now, pc, seen, start, held, claimT, cancel>>
  <1>t. /\ pc \in [Spawn -> PC] /\ start \in [Spawn -> Nat] /\ now \in Nat
        /\ recon \in [Reconciler -> PassState] /\ Sound
        /\ Past(recon[r].led) /\ recon[r].now <= now
        /\ \A s \in recon[r].left : recon[r].led.start[s] # Never
        /\ TrueOf(r)
        /\ \A s \in Spawn : pc[s] \in {"idle", "read", "gated"} => start[s] = Never
        /\ \A e \in ends : e.by \in Spawn /\ e.by = e.spawn => e.type \in RealEnd
    BY DEF SpawnInv, Sound, Types, Copy, Ledger, Pending, Copies, StartOnce, EndsOver, TrueOf
  <1> USE DEF Grows, Over, seat
  <1>1. CASE ReadAll(r)
    BY <1>t, <1>1 DEF ReadAll, Past, Ledger, Started, TrueOf
  <1>2. CASE \E s \in Spawn : Judge(r, s)
    <2>1. PICK s \in Spawn : Judge(r, s)
      BY <1>2
    <2>2. CASE Verdict(r, s) = ""
      <3>1. /\ recon' = [recon EXCEPT ![r] = [at |-> "read", led |-> recon[r].led,
                           now |-> recon[r].now, left |-> recon[r].left \ {s}, spawn |-> None]]
            /\ UNCHANGED <<now, pc, seen, lock, start, ends, held, cancel, claimT>>
        BY <2>1, <2>2 DEF Judge, GoOn
      <3> QED BY <1>t, <3>1 DEF TrueOf, Past
    <2>3. CASE Verdict(r, s) # ""
      <3>1. s \in recon[r].left /\ start[s] = recon[r].led.start[s] /\ start[s] # Never
        BY <1>t, <2>1 DEF Judge, Past
      <3>2. /\ Verdict(r, s) \in {"vanished", "stale"}
            /\ ~EndedSinceRead(s)
            /\ Verdict(r, s) = StartState(recon[r].led, s, recon[r].now)
        BY <2>3 DEF Verdict, StartState
      <3>3. Verdict(r, s) = "vanished" => pc[s] = "dead" /\ ~OwnEnd(s)
        BY <1>t, <3>1, <3>2 DEF StartState, Alive, OwnEnd, EndedSinceRead
      <3>4. Verdict(r, s) = "stale" => Late(s)
        BY <1>t, <3>1, <3>2 DEF StartState, Late, Sound, PassState
      <3>5. /\ recon' = [recon EXCEPT ![r] = [at |-> Verdict(r, s), led |-> recon[r].led,
                           now |-> recon[r].now, left |-> recon[r].left \ {s}, spawn |-> s]]
            /\ UNCHANGED <<now, pc, seen, lock, start, ends, held, cancel, claimT>>
        BY <2>1, <2>3 DEF Judge, GoOn
      <3>6. TrueOf(r)'
        BY <1>t, <3>2, <3>3, <3>4, <3>5 DEF TrueOf, Late, OwnEnd
      <3> QED BY <1>t, <3>5, <3>6 DEF Past
    <2> QED BY <2>2, <2>3
  <1>3. CASE RecordEnd(r)
    BY <1>t, <1>3 DEF RecordEnd, GoOn, End, TrueOf, Past, PassState
  <1>4. CASE PassOver(r)
    BY <1>t, <1>4 DEF PassOver, TrueOf, Past, Ledger
  <1> QED BY <1>1, <1>2, <1>3, <1>4 DEF Passing

-----------------------------------------------------------------------------
\* The clock moves the hour and nothing else.
LEMMA ClockStep ==
    ASSUME Clock
    PROVE  /\ now' = now + 1 /\ \A s \in Spawn : ~PollDue(s)
           /\ UNCHANGED <<pc, seen, start, ends, held, claimT, cancel, recon>>
  BY DEF Clock, seat

LEMMA GrowsStep == ASSUME SpawnInv, Next PROVE Grows
  <1>1. CASE Clock
    BY <1>1, ClockStep DEF Grows, Over, SpawnInv, Types, Sound
  <1> QED BY <1>1, Steps, WaiterStep, CancelStep, PassStep

LEMMA StartOnceStep == ASSUME SpawnInv, Next PROVE StartOnce'
  <1>t. StartOnce /\ start \in [Spawn -> Nat] /\ now \in Nat
    BY DEF SpawnInv, Types, Sound, Ledger, Copy
  <1>1. ASSUME NEW s \in Spawn, Waiter(s) PROVE StartOnce'
    BY <1>t, <1>1, WaiterStep DEF StartOnce, Grows
  <1>2. ASSUME NEW c \in Canceller, Canceling(c) PROVE StartOnce'
    BY <1>t, <1>2, CancelStep DEF StartOnce
  <1>3. ASSUME NEW r \in Reconciler, Passing(r) PROVE StartOnce'
    BY <1>t, <1>3, PassStep DEF StartOnce
  <1>4. CASE Clock
    BY <1>t, <1>4, ClockStep DEF StartOnce
  <1> QED BY <1>1, <1>2, <1>3, <1>4, Steps

LEMMA CopiesStep == ASSUME SpawnInv, Next PROVE Copies'
  <1>t. Copies /\ Grows /\ now \in Nat /\ recon \in [Reconciler -> PassState]
    BY GrowsStep DEF SpawnInv, Types, Sound
  <1> USE DEF Copies, Past, Grows
  <1>1. ASSUME NEW s \in Spawn, Waiter(s) PROVE Copies'
    <2>1. \A t \in Spawn : seen'[t] = seen[t] \/ seen'[t] = Ledger
      BY <1>1, WaiterStep
    <2>2. recon' = recon /\ now' = now
      BY <1>1, WaiterStep
    <2>3. \A t \in Spawn : Past(seen[t])'
      BY <1>t, <2>1 DEF Ledger
    <2> QED BY <1>t, <2>2, <2>3
  <1>2. ASSUME NEW c \in Canceller, Canceling(c) PROVE Copies'
    BY <1>t, <1>2, CancelStep
  <1>3. ASSUME NEW r \in Reconciler, Passing(r) PROVE Copies'
    BY <1>t, <1>3, PassStep
  <1>4. CASE Clock
    BY <1>t, <1>4, ClockStep DEF PassState
  <1> QED BY <1>1, <1>2, <1>3, <1>4, Steps

\* A waiter that is gone writes no end of its own any more.
LEMMA SilenceStep ==
    ASSUME SpawnInv, Next, NEW s \in Spawn, pc[s] = "dead", ~OwnEnd(s)
    PROVE  pc'[s] = "dead" /\ ~OwnEnd(s)'
  <1>0. pc'[s] = "dead" /\ Sound
    BY GrowsStep DEF Grows, SpawnInv
  <1>1. ASSUME NEW t \in Spawn, Waiter(t) PROVE ~OwnEnd(s)'
    BY <1>1, WaiterStep DEF OwnEnd, OwnOnly
  <1>2. ASSUME NEW c \in Canceller, Canceling(c) PROVE ~OwnEnd(s)'
    BY <1>0, <1>2, CancelStep DEF OwnEnd, Sound
  <1>3. ASSUME NEW r \in Reconciler, Passing(r) PROVE ~OwnEnd(s)'
    BY <1>0, <1>3, PassStep DEF OwnEnd, Sound
  <1>4. CASE Clock
    BY <1>4, ClockStep DEF OwnEnd
  <1> QED BY <1>0, <1>1, <1>2, <1>3, <1>4, Steps

LEMMA LateStep ==
    ASSUME SpawnInv, Next, NEW s \in Spawn, Late(s) PROVE Late(s)'
  <1>1. start \in [Spawn -> Nat] /\ now \in Nat /\ now' \in Nat /\ Sound
    BY TypesStep DEF SpawnInv, Types, Sound, Ledger, Copy
  <1> QED BY <1>1, GrowsStep DEF Late, Grows, Sound, Never

LEMMA EndsOverStep == ASSUME SpawnInv, Next PROVE EndsOver'
  <1>t. EndsOver /\ Grows /\ Sound
        /\ ends \subseteq EndEvent /\ held \subseteq [spawn : Spawn, why : Why]
    BY GrowsStep DEF SpawnInv, Types, Ledger, Copy
  <1>1. \A e \in ends :
          /\ IF e.why = "stale" THEN Late(e.spawn)' ELSE Over(e.spawn)'
          /\ e.why = "vanished" => pc'[e.spawn] = "dead" /\ ~OwnEnd(e.spawn)'
          /\ e.by = e.spawn => e.type \in RealEnd
    BY <1>t, SilenceStep, LateStep DEF EndsOver, Grows, EndEvent
  <1>2. \A h \in held : Over(h.spawn)'
    BY <1>t DEF EndsOver, Grows
  <1>3. ASSUME NEW s \in Spawn, Waiter(s) PROVE EndsOver'
    BY <1>1, <1>2, <1>3, WaiterStep DEF EndsOver, OwnOnly
  <1>4. ASSUME NEW c \in Canceller, Canceling(c) PROVE EndsOver'
    <2>1. \A e \in ends' \ ends : /\ e.spawn \in Spawn /\ e.by # e.spawn /\ e.why = "cancelled"
                                  /\ Over(e.spawn)'
      BY <1>t, <1>4, CancelStep DEF Sound, Grows
    <2> QED BY <1>1, <1>2, <1>4, <2>1, CancelStep DEF EndsOver
  <1>5. ASSUME NEW r \in Reconciler, Passing(r) PROVE EndsOver'
    <2>1. \A e \in ends' \ ends :
            /\ e.spawn \in Spawn /\ e.by # e.spawn
            /\ \/ e.why = "vanished" /\ pc'[e.spawn] = "dead" /\ ~OwnEnd(e.spawn)'
               \/ e.why = "stale" /\ Late(e.spawn)'
      BY <1>t, <1>5, PassStep, SilenceStep, LateStep DEF Sound
    <2> QED BY <1>1, <1>2, <1>5, <2>1, PassStep DEF EndsOver, Over
  <1>6. CASE Clock
    BY <1>1, <1>2, <1>6, ClockStep DEF EndsOver
  <1> QED BY <1>3, <1>4, <1>5, <1>6, Steps

LEMMA PendingStep == ASSUME SpawnInv, Next PROVE Pending'
  <1>t. Pending /\ Grows
    BY GrowsStep DEF SpawnInv
  <1> DEFINE CancelOf(c) ==
        cancel[c].at # "idle" =>
            /\ cancel[c].spawn \in Spawn /\ start[cancel[c].spawn] # Never
            /\ cancel[c].at \in {"signalled", "over"} => Over(cancel[c].spawn)
  <1>2. ASSUME NEW c \in Canceller, cancel'[c] = cancel[c] PROVE CancelOf(c)'
    BY <1>t, <1>2 DEF Pending, Grows
  <1>3. ASSUME NEW r \in Reconciler, recon'[r] = recon[r] PROVE TrueOf(r)'
    BY <1>t, <1>3, SilenceStep, LateStep DEF Pending, TrueOf
  <1>4. Pending' <=> (\A c \in Canceller : CancelOf(c)') /\ (\A r \in Reconciler : TrueOf(r)')
    BY DEF Pending, TrueOf
  <1>5. ASSUME NEW s \in Spawn, Waiter(s) PROVE Pending'
    BY <1>2, <1>3, <1>4, <1>5, WaiterStep
  <1>6. ASSUME NEW c \in Canceller, Canceling(c) PROVE Pending'
    <2>1. CancelOf(c)'
      BY <1>t, <1>6, CancelStep DEF Grows
    <2> QED BY <1>2, <1>3, <1>4, <1>6, <2>1, CancelStep
  <1>7. ASSUME NEW r \in Reconciler, Passing(r) PROVE Pending'
    <2>1. TrueOf(r)'
      BY <1>7, PassStep DEF TrueOf
    <2> QED BY <1>2, <1>3, <1>4, <1>7, <2>1, PassStep
  <1>8. CASE Clock
    BY <1>2, <1>3, <1>4, <1>8, ClockStep
  <1> QED BY <1>5, <1>6, <1>7, <1>8, Steps

LEMMA ClaimInWindowStep == ASSUME SpawnInv, Next PROVE ClaimInWindow'
  <1>t. /\ ClaimInWindow /\ StartOnce /\ Sound /\ now \in 0..MaxNow
        /\ pc \in [Spawn -> PC] /\ start \in [Spawn -> Nat] /\ claimT \in [Spawn -> Nat]
    BY DEF SpawnInv, Types, Ledger, Copy
  <1> USE DEF ClaimInWindow
  <1>1. ASSUME NEW s \in Spawn, Waiter(s) PROVE ClaimInWindow'
    <2>0. /\ \A t \in Spawn \ {s} : pc'[t] = pc[t] /\ start'[t] = start[t] /\ claimT'[t] = claimT[t]
          /\ now' = now
      BY <1>1, WaiterStep
    <2> SUFFICES
          /\ pc'[s] = "started" => now = start'[s]
          /\ pc'[s] \in {"started", "waiting"} => start'[s] # Never
          /\ pc'[s] = "waiting" /\ claimT'[s] = Never => now <= start'[s] + Window + 1
          /\ claimT'[s] # Never => start'[s] # Never /\ claimT'[s] <= start'[s] + Window + 1
      BY <1>t, <2>0
    <2> USE DEF seat, Sound, Never
    <2>1. CASE Start(s)
      BY <1>t, <2>1 DEF Start, StartOnce
    <2>2. CASE SeeClaim(s)
      BY <1>t, <2>2 DEF SeeClaim
    <2>3. CASE Queue(s)
      BY <1>t, <2>3 DEF Queue
    <2>4. CASE \/ Read(s) \/ Acquire(s) \/ SeeResult(s) \/ SeeMarker(s)
               \/ Look(s) \/ Claim(s) \/ Stamp(s)
      BY <1>t, <2>4 DEF Read, Acquire, SeeResult, SeeMarker, Look, Claim, Stamp
    <2>5. CASE \/ Refuse(s) \/ Preflight(s) \/ GiveUp(s) \/ HoldUnknown(s)
               \/ Finish(s) \/ Crash(s) \/ Exit(s) \/ Die(s)
      BY <1>t, <2>5 DEF Refuse, Preflight, GiveUp, HoldUnknown, Finish, Crash, Exit, Die
    <2> QED BY <1>1, <2>1, <2>2, <2>3, <2>4, <2>5 DEF Waiter
  <1>2. ASSUME NEW c \in Canceller, Canceling(c) PROVE ClaimInWindow'
    BY <1>t, <1>2, CancelStep
  <1>3. ASSUME NEW r \in Reconciler, Passing(r) PROVE ClaimInWindow'
    BY <1>t, <1>3, PassStep
  <1>4. CASE Clock
    <2>1. ASSUME NEW s \in Spawn, pc[s] = "waiting", claimT[s] = Never
          PROVE  now <= start[s] + Window
      BY <1>t, <1>4, <2>1, ClockStep DEF PollDue, OutOfTime, Sound
    <2>2. \A s \in Spawn : pc[s] # "started"
      BY <1>4, ClockStep DEF PollDue
    <2> QED BY <1>t, <1>4, <2>1, <2>2, ClockStep DEF Sound
  <1> QED BY <1>1, <1>2, <1>3, <1>4, Steps

\* Who is past the gate, or running, after the step was so before it, or came
\* through it or started in it.
LEMMA RunningStep ==
    ASSUME SpawnInv, NEW s \in Spawn, Waiter(s)
    PROVE  /\ pc'[s] = "gated" \/ Running(s)' =>
                Acquire(s) \/ ((pc[s] = "gated" \/ Running(s)) /\ seen'[s] = seen[s])
           /\ Running(s)' => Running(s) \/ pc[s] = "gated"
  <1>t. pc \in [Spawn -> PC] /\ seen \in [Spawn -> Copy]
    BY DEF SpawnInv, Types
  <1> USE DEF Running, seat
  <1>1. CASE \/ Acquire(s) \/ Start(s) \/ Queue(s) \/ SeeResult(s) \/ SeeClaim(s)
             \/ Look(s) \/ Claim(s) \/ Stamp(s)
    BY <1>t, <1>1 DEF Acquire, Start, Queue, SeeResult, SeeClaim, Look, Claim, Stamp
  <1>2. CASE \/ Read(s) \/ Refuse(s) \/ Preflight(s) \/ GiveUp(s) \/ HoldUnknown(s)
             \/ Finish(s) \/ Crash(s) \/ Exit(s) \/ Die(s) \/ SeeMarker(s)
    BY <1>t, <1>2 DEF Read, Refuse, Preflight, GiveUp, HoldUnknown, Finish, Crash, Exit,
                      Die, SeeMarker
  <1> QED BY <1>1, <1>2 DEF Waiter

\* What the gate finds in its copy and lets by has ended, or is late, or its
\* waiter is gone.
LEMMA GateLemma ==
    ASSUME SpawnInv, NEW s \in Spawn, NEW t \in Spawn, Acquire(s),
           Collide(s, t), Started(seen[s], t), Running(t)
    PROVE  Late(t)
  <1>t. /\ EndsOver /\ Past(seen[s]) /\ Sound /\ now \in Nat /\ seen[s] \in Copy
        /\ start \in [Spawn -> Nat]
    BY DEF SpawnInv, Copies, Types, Sound, Ledger, Copy
  <1>1. t \notin Open(seen[s], now)
    BY DEF Acquire, GateView
  <1>2. ASSUME EndedIn(seen[s], t, Terminal) PROVE Late(t)
    <2>1. PICK e \in ends : e.spawn = t
      BY <1>t, <1>2 DEF EndedIn, Past
    <2> QED BY <1>t, <2>1 DEF EndsOver, Over, Running
  <1>3. ASSUME NEW h \in seen[s].held, h.spawn = t PROVE Late(t)
    BY <1>t, <1>3 DEF Past, EndsOver, Over, Running
  <1>4. ASSUME StartState(seen[s], t, now) # "busy" PROVE Late(t)
    BY <1>t, <1>4 DEF StartState, Alive, Running, Late, Past, Started
  <1> QED BY <1>1, <1>2, <1>3, <1>4 DEF Open

LEMMA GateKeptStep == ASSUME SpawnInv, Next PROVE GateKept'
  <1>t. GateKept /\ Copies /\ StartOnce
    BY DEF SpawnInv
  <1> DEFINE Met(s, t) == /\ s # t /\ (pc[s] = "gated" \/ Running(s))
                          /\ Collide(s, t) /\ Started(seen[s], t) /\ Running(t)
  <1>1. \A s, t \in Spawn : Met(s, t) => Late(t)
    BY <1>t DEF GateKept
  <1> SUFFICES ASSUME NEW s \in Spawn, NEW t \in Spawn, Met(s, t)' PROVE Met(s, t) \/ Late(t)
    BY <1>1, LateStep DEF GateKept
  <1>2. Collide(s, t)
    BY DEF Collide
  <1>3. CASE UNCHANGED <<pc, seen>>
    BY <1>3, <1>2 DEF Running, Started
  <1>4. ASSUME NEW c \in Canceller, Canceling(c) PROVE Met(s, t)
    BY <1>2, <1>4, CancelStep DEF Running, Started
  <1>5. ASSUME NEW u \in Spawn, Waiter(u) PROVE Met(s, t) \/ Late(t)
    <2>1. ASSUME u # s, u # t PROVE Met(s, t)
      BY <1>2, <1>5, <2>1, WaiterStep DEF Running, Started
    <2>2. ASSUME u = t PROVE Met(s, t)
      <3>1. pc'[s] = pc[s] /\ seen'[s] = seen[s]
        BY <1>5, <2>2, WaiterStep
      <3>2. start[t] # Never
        BY <1>t, <3>1 DEF Copies, Past, Started
      <3>3. Running(t)
        BY <1>t, <1>5, <2>2, <3>2, RunningStep DEF StartOnce
      <3> QED BY <1>2, <3>1, <3>3 DEF Running, Started
    <2>3. ASSUME u = s PROVE Met(s, t) \/ Late(t)
      <3>1. Running(t)
        BY <1>5, <2>3, WaiterStep DEF Running
      <3>2. CASE Acquire(s)
        <4>1. Started(seen[s], t)
          BY <3>2 DEF Acquire, Started
        <4> QED BY <1>2, <3>1, <3>2, <4>1, GateLemma
      <3>3. CASE (pc[s] = "gated" \/ Running(s)) /\ seen'[s] = seen[s]
        BY <1>2, <3>1, <3>3 DEF Started
      <3> QED BY <1>5, <2>3, <3>2, <3>3, RunningStep
    <2> QED BY <2>1, <2>2, <2>3
  <1> QED BY <1>3, <1>4, <1>5, Steps, PassStep, ClockStep

-----------------------------------------------------------------------------
LEMMA SpawnStep == SpawnInv /\ [Next]_vars => SpawnInv'
  <1>1. ASSUME SpawnInv, Next PROVE SpawnInv'
    <2>1. Sound'
      BY <1>1 DEF SpawnInv, Sound
    <2> QED BY <1>1, <2>1, TypesStep, StartOnceStep, CopiesStep, EndsOverStep, PendingStep,
               ClaimInWindowStep, GateKeptStep DEF SpawnInv
  <1>2. ASSUME SpawnInv, UNCHANGED vars PROVE SpawnInv'
    BY <1>2 DEF vars, SpawnInv, Sound, Types, Ledger, StartOnce, Copies, Past, EndsOver, Over, Late,
                OwnEnd, Pending, ClaimInWindow, GateKept, Running, Collide, Started, seat
  <1> QED BY <1>1, <1>2

THEOREM SpawnInvHolds == Sound /\ Spec => []SpawnInv
  BY SpawnStart, SpawnStep, PTL DEF Spec

\* A tick records a spawn as vanished only when its waiter is gone and wrote
\* no end of its own, however late the pass acts on what it read
\* (tick._spawn_busy, tick._ended_since_read).
THEOREM VanishedIsSilentHolds == Sound /\ Spec => []VanishedIsSilent
  <1>1. SpawnInv => VanishedIsSilent
    BY DEF SpawnInv, EndsOver, OwnEnd, VanishedIsSilent, Alive
  <1> QED BY <1>1, SpawnInvHolds, PTL

\* What is recorded as stale was claimed, if at all, more than its cap ago
\* (spawns.start_state against the clock of the waiter's loop).
THEOREM StaleIsOverHolds == Sound /\ Spec => []StaleIsOver
  <1>1. ASSUME SpawnInv PROVE StaleIsOver
    <2>1. /\ now \in Nat /\ start \in [Spawn -> Nat] /\ claimT \in [Spawn -> Nat] /\ Sound
          /\ ends \subseteq EndEvent /\ EndsOver /\ ClaimInWindow
      BY <1>1 DEF SpawnInv, Types, Sound, Ledger, Copy
    <2> QED BY <2>1 DEF StaleIsOver, EndsOver, Late, ClaimInWindow, EndEvent, Sound, Never
  <1> QED BY <1>1, SpawnInvHolds, PTL

\* A spawn that runs beside one it may not run beside did not see it start, or
\* the other is past its window and cap (spawns.acquire).
THEOREM TogetherOnlyUnseenHolds == Sound /\ Spec => []TogetherOnlyUnseen
  <1>1. SpawnInv => TogetherOnlyUnseen
    BY DEF SpawnInv, GateKept, TogetherOnlyUnseen, Late
  <1> QED BY <1>1, SpawnInvHolds, PTL
====
