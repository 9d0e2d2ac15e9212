------------------------- MODULE MergeWindowProofs -------------------------
(***************************************************************************)
(* Proofs about MergeWindow, for any specs, windows, pids and bounds.      *)
(***************************************************************************)
EXTENDS MergeWindow, TLAPS

-----------------------------------------------------------------------------
(* The inductive invariant *)

\* A process inside the chain lock is the holder of the flock.  OneOwner does
\* not say who holds the lock, and so is not inductive by itself.
ChainIsMine == \A p \in Pids : pc[p] \in ChainPC => chain = p

\* A process that writes about a window has one.
HasWindow ==
    \A p \in Pids :
        pc[p] \in GatePC \cup DefaultPC \cup {"l_popen", "l_pid"} => wid[p] \in Windows

\* The branch has no more external commits than were counted.
ExtCounted == main.ext <= external

\* What a gate is about to announce is on the branch.
AnnouncedOnMain == \A p \in Pids : pc[p] = "g_ship" => todo[p] \subseteq main.merged

\* What a gate is about to push has a green verdict.
AdvanceIsGreen == \A p \in Pids : pc[p] = "g_advance" => Candidate(p) \in green

\* What a default has still to drop and to put back is undecided, now as when
\* it read the ledger: everybody who decides is inside the chain lock.
PendingUndecided ==
    \A p \in Pids : pc[p] \in {"d_drop", "d_add"} =>
        /\ \A s \in todo[p] : s \notin shipped /\ <<wid[p], s>> \notin final
        /\ pc[p] = "d_add" => live[p] \subseteq todo[p]

\* A launcher that has found no window in flight and no launch reserved.
AdmittedPC == {"l_check", "l_reread", "l_prune2", "l_batch", "l_popen"}

\* A default has closed an escalated window or is about to.
DefaultsEscalated ==
    \A p \in Pids : pc[p] \in DefaultPC => win[wid[p]] \in {"escalated", "defaulted"}

\* While a gate runs nobody has been admitted.
AdmittedAlone ==
    \A p, g \in Pids : pc[p] \in AdmittedPC => pc[g] \notin GatePC

BatchedFirst == \A p \in Pids : pc[p] = "l_popen" => win[wid[p]] = "batched"

\* A gate before its chain lock is reserved by the pid file, or its launcher is
\* about to write that: until then the launcher has the run lock.
Reserved(g) ==
    /\ win[wid[g]] = "batched"
    /\ \/ launch[wid[g]] = g /\ \A p \in Pids : pc[p] # "l_pid"
       \/ \E p \in Pids : pc[p] = "l_pid" /\ child[p] = g /\ wid[p] = wid[g]
StartReserved == \A g \in Pids : pc[g] = "g_start" => Reserved(g)

OneGate == \A p, q \in Pids : pc[p] \in GatePC /\ pc[q] \in GatePC => p = q

Sole == OneGate /\ AdmittedAlone /\ BatchedFirst /\ StartReserved

\* A launcher that dies between the start of its gate and the pid file leaves a
\* gate that nobody has reserved.
SoleInv == DefaultsEscalated /\ (crashes = 0 => Sole)

TypeInv == TypeOK /\ HasWindow /\ ExtCounted
LockInv == ChainIsMine /\ SlotIsMine /\ RunLockIsMine
MainInv == AnnouncedOnMain /\ AdvanceIsGreen /\ ShippedOnMain
IndInv  == TypeInv /\ LockInv /\ MainInv /\ PendingUndecided /\ SoleInv

-----------------------------------------------------------------------------
(* Types *)

\* Whatever the ledger says of a spec, every spec keeps a queue row.
LEMMA RowTypes ==
  ASSUME row \in [Specs -> RowType], NEW s \in Specs
  PROVE  /\ AfterAdd(row, s) \in [Specs -> RowType]
         /\ AfterRemove(row, s) \in [Specs -> RowType]
         /\ AfterOutcome(row, s) \in [Specs -> RowType]
  BY DEF AfterAdd, AfterRemove, AfterOutcome, NewRow, NoRow, RowType

LEMMA BatchType ==
  ASSUME row \in [Specs -> RowType], NEW w \in Windows, NEW batch
  PROVE  AfterBatch(row, w, batch) \in [Specs -> RowType]
  BY DEF AfterBatch, RowType

\* What a spec waits for after an outcome or a queue-add.
LEMMA NeedTypes ==
  ASSUME NEW n \in NeedType
  PROVE  AfterDrop(n) \in NeedType /\ AfterQueueAdd(n) \in NeedType
  BY DEF AfterDrop, AfterQueueAdd, NeedType

\* What a gate proposes is a commit, with the external commits of its base.
LEMMA CandidateType ==
  ASSUME LocalTypeOK, NEW p \in Pids
  PROVE  Candidate(p) \in Commit /\ Candidate(p).ext = base[p].ext
  BY DEF LocalTypeOK, Candidate, Commit

\* A gate whose attempt returns keeps its types and its window.
LEMMA ReturnTypes ==
  ASSUME LocalTypeOK, HasWindow, NEW p \in Pids, pc[p] \in GatePC, Return(p),
         UNCHANGED <<wid, child, snap>>
  PROVE  LocalTypeOK' /\ HasWindow'
<1> USE DEF LocalTypeOK, HasWindow, Return, snap
<1>1. pc' = [pc EXCEPT ![p] = "g_clean"] /\ pc' \in [Pids -> PC]
  BY DEF Goto, PC, GatePC, SlotPC
<1>2. live' \in [Pids -> SUBSET Specs] /\ todo' \in [Pids -> SUBSET Specs]
  OBVIOUS
<1>3. base' \in [Pids -> Commit] /\ round' \in [Pids -> {1, 2}]
  <2>1. EmptyCommit \in Commit
    BY BoundAssumption DEF EmptyCommit, Commit
  <2>2. QED
    BY <2>1
<1>4. LocalTypeOK'
  BY <1>1, <1>2, <1>3
<1>5. HasWindow'
  BY <1>1 DEF GatePC, SlotPC, AcquirePC, DefaultPC
<1>6. QED
  BY <1>4, <1>5

\* Every action keeps the types, the windows and the count.
LEMMA TypeStep == TypeInv /\ Next => TypeInv'
<1> SUFFICES ASSUME TypeInv, Next PROVE TypeInv'
  OBVIOUS
<1> USE NullAssumption, BoundAssumption DEF TypeInv, TypeOK, HasWindow, ExtCounted
<1> USE DEF LedgerTypeOK, GitTypeOK, FileTypeOK, LocalTypeOK, BoundTypeOK
<1> USE DEF RowType, NeedType, WinType, Commit, PC, LauncherPC, SlotPC, AcquirePC, GatePC,
            DefaultPC, TickPC, ledger, git, files, locals, snap, bounds
<1>1. ASSUME NEW p \in Pids, LaunchStart(p) PROVE TypeInv'
  BY <1>1 DEF LaunchStart, Goto, RunLockFree
<1>2. ASSUME NEW p \in Pids, LaunchRead(p) PROVE TypeInv'
  <2>1. LedgerTypeOK'
    BY <1>2 DEF LaunchRead, Goto, Settled
  <2>2. GitTypeOK'
    BY <1>2 DEF LaunchRead, Goto, Settled
  <2>3. FileTypeOK'
    BY <1>2 DEF LaunchRead, Goto, Settled
  <2>4. LocalTypeOK'
    <3>1. pc' = [pc EXCEPT ![p] = "l_prune"] \/ pc' = [pc EXCEPT ![p] = "l_prune2"]
      BY <1>2 DEF LaunchRead, Goto
    <3>2. pc' \in [Pids -> PC]
      BY <3>1
    <3>3. UNCHANGED <<wid, live, base, round, child, prune, due>>
      BY <1>2 DEF LaunchRead
    <3>4. todo' \in [Pids -> SUBSET Specs]
      BY <1>2 DEF LaunchRead, Settled
    <3>5. QED
      BY <3>2, <3>3, <3>4
  <2>5. BoundTypeOK'
    BY <1>2 DEF LaunchRead, Goto, Settled
  <2>6. HasWindow'
    BY <1>2 DEF LaunchRead, Goto, Settled
  <2>7. ExtCounted'
    BY <1>2 DEF LaunchRead, Goto, Settled
  <2>8. QED
    BY <2>1, <2>2, <2>3, <2>4, <2>5, <2>6, <2>7
<1>3. ASSUME NEW p \in Pids, NEW s \in Specs, LaunchPrune(p, s) PROVE TypeInv'
  BY <1>3, RowTypes DEF LaunchPrune
<1>4. ASSUME NEW p \in Pids, LaunchProbe(p) PROVE TypeInv'
  <2>1. LedgerTypeOK'
    BY <1>4 DEF LaunchProbe, Goto
  <2>2. GitTypeOK'
    BY <1>4 DEF LaunchProbe, Goto
  <2>3. FileTypeOK'
    BY <1>4 DEF LaunchProbe, Goto
  <2>4. LocalTypeOK'
    <3>1. pc' = [pc EXCEPT ![p] = "l_probe"] \/ pc' = [pc EXCEPT ![p] = "l_unlock"]
      BY <1>4 DEF LaunchProbe, Goto
    <3>2. pc' \in [Pids -> PC]
      BY <3>1
    <3>3. UNCHANGED <<wid, live, todo, base, round, child, prune, due>>
      BY <1>4 DEF LaunchProbe
    <3>4. QED
      BY <3>2, <3>3
  <2>5. BoundTypeOK'
    BY <1>4 DEF LaunchProbe, Goto
  <2>6. HasWindow'
    BY <1>4 DEF LaunchProbe, Goto
  <2>7. ExtCounted'
    BY <1>4 DEF LaunchProbe, Goto
  <2>8. QED
    BY <2>1, <2>2, <2>3, <2>4, <2>5, <2>6, <2>7
<1>5. ASSUME NEW p \in Pids, LaunchAdmit(p) PROVE TypeInv'
  <2>1. LedgerTypeOK'
    BY <1>5 DEF LaunchAdmit, Goto
  <2>2. GitTypeOK'
    BY <1>5 DEF LaunchAdmit, Goto
  <2>3. FileTypeOK'
    BY <1>5 DEF LaunchAdmit, Goto
  <2>4. LocalTypeOK'
    <3>1. pc' = [pc EXCEPT ![p] = "l_unlock"] \/ pc' = [pc EXCEPT ![p] = "l_check"]
      BY <1>5 DEF LaunchAdmit, Goto
    <3>2. pc' \in [Pids -> PC]
      BY <3>1
    <3>3. UNCHANGED <<wid, live, todo, base, round, child, prune, due>>
      BY <1>5 DEF LaunchAdmit
    <3>4. QED
      BY <3>2, <3>3
  <2>5. BoundTypeOK'
    BY <1>5 DEF LaunchAdmit, Goto
  <2>6. HasWindow'
    BY <1>5 DEF LaunchAdmit, Goto
  <2>7. ExtCounted'
    BY <1>5 DEF LaunchAdmit, Goto
  <2>8. QED
    BY <2>1, <2>2, <2>3, <2>4, <2>5, <2>6, <2>7
<1>6. ASSUME NEW p \in Pids, LaunchCheck(p) PROVE TypeInv'
  <2>1. LedgerTypeOK'
    <3>1. CASE UNCHANGED <<row, need, red>>
      BY <3>1, <1>6 DEF LaunchCheck
    <3>2. CASE \E s \in Queued(row) :
                 /\ need' = [need EXCEPT ![s] = "rework"]
                 /\ \/ row' = AfterOutcome(row, s) /\ red' = red
                    \/ row' = row /\ red' = red \cup {s}
      <4>1. PICK s \in Specs :
                 /\ need' = [need EXCEPT ![s] = "rework"]
                 /\ \/ row' = AfterOutcome(row, s) /\ red' = red
                    \/ row' = row /\ red' = red \cup {s}
        BY <3>2 DEF Queued
      <4>2. row' \in [Specs -> RowType]
        BY <4>1, RowTypes
      <4>3. QED
        BY <4>1, <4>2, <1>6 DEF LaunchCheck
    <3>3. QED
      BY <3>1, <3>2, <1>6 DEF LaunchCheck
  <2>2. GitTypeOK'
    BY <1>6 DEF LaunchCheck, Goto
  <2>3. FileTypeOK'
    BY <1>6 DEF LaunchCheck, Goto
  <2>4. LocalTypeOK'
    BY <1>6 DEF LaunchCheck, Goto
  <2>5. BoundTypeOK'
    BY <1>6 DEF LaunchCheck, Goto
  <2>6. HasWindow'
    BY <1>6 DEF LaunchCheck, Goto
  <2>7. ExtCounted'
    BY <1>6 DEF LaunchCheck, Goto
  <2>8. QED
    BY <2>1, <2>2, <2>3, <2>4, <2>5, <2>6, <2>7
<1>7. ASSUME NEW p \in Pids, LaunchSelect(p) PROVE TypeInv'
  <2>1. LedgerTypeOK'
    BY <1>7 DEF LaunchSelect, Goto, Queued
  <2>2. GitTypeOK'
    BY <1>7 DEF LaunchSelect, Goto, Queued
  <2>3. FileTypeOK'
    BY <1>7 DEF LaunchSelect, Goto, Queued
  <2>4. LocalTypeOK'
    <3>1. live' \in [Pids -> SUBSET Specs]
      BY <1>7 DEF LaunchSelect, Queued
    <3>2. pc' = [pc EXCEPT ![p] = "l_unlock"] \/ pc' = [pc EXCEPT ![p] = "l_batch"]
      BY <1>7 DEF LaunchSelect, Goto
    <3>3. pc' \in [Pids -> PC]
      BY <3>2
    <3>4. UNCHANGED <<wid, todo, base, round, child, prune, due>>
      BY <1>7 DEF LaunchSelect
    <3>5. QED
      BY <3>1, <3>3, <3>4
  <2>5. BoundTypeOK'
    BY <1>7 DEF LaunchSelect, Goto, Queued
  <2>6. HasWindow'
    BY <1>7 DEF LaunchSelect, Goto, Queued
  <2>7. ExtCounted'
    BY <1>7 DEF LaunchSelect, Goto, Queued
  <2>8. QED
    BY <2>1, <2>2, <2>3, <2>4, <2>5, <2>6, <2>7
<1>8. ASSUME NEW p \in Pids, NEW w \in Windows, LaunchBatch(p, w) PROVE TypeInv'
  <2>1. LedgerTypeOK'
    <3>1. row' \in [Specs -> RowType]
      BY <1>8, BatchType DEF LaunchBatch
    <3>2. live[p] \in SUBSET Specs /\ members' = [members EXCEPT ![w] = live[p]]
      BY <1>8 DEF LaunchBatch
    <3>3. QED
      BY <3>1, <3>2, <1>8 DEF LaunchBatch
  <2>2. GitTypeOK'
    BY <1>8 DEF LaunchBatch, Goto
  <2>3. FileTypeOK'
    BY <1>8 DEF LaunchBatch, Goto
  <2>4. LocalTypeOK'
    BY <1>8 DEF LaunchBatch, Goto
  <2>5. BoundTypeOK'
    BY <1>8 DEF LaunchBatch, Goto
  <2>6. HasWindow'
    BY <1>8 DEF LaunchBatch, Goto
  <2>7. ExtCounted'
    BY <1>8 DEF LaunchBatch, Goto
  <2>8. QED
    BY <2>1, <2>2, <2>3, <2>4, <2>5, <2>6, <2>7
<1>9. ASSUME NEW p \in Pids, NEW g \in Pids, LaunchPopen(p, g) PROVE TypeInv'
  BY <1>9 DEF LaunchPopen, Free, WindowArgument
<1>10. ASSUME NEW p \in Pids, LaunchPid(p) PROVE TypeInv'
  BY <1>10 DEF LaunchPid, Goto
<1>11. ASSUME NEW p \in Pids, LaunchUnlock(p) PROVE TypeInv'
  BY <1>11 DEF LaunchUnlock, Gone, Goto, EmptyCommit
<1>12. ASSUME NEW p \in Pids, GateStart(p) PROVE TypeInv'
  <2>1. LedgerTypeOK'
    BY <1>12 DEF GateStart, SlotAfterRefusal, Gone, Goto, EmptyCommit
  <2>2. GitTypeOK'
    BY <1>12 DEF GateStart, SlotAfterRefusal, Gone, Goto, EmptyCommit
  <2>3. FileTypeOK'
    BY <1>12 DEF GateStart, SlotAfterRefusal, Gone, Goto, EmptyCommit
  <2>4. LocalTypeOK'
    <3>1. pc' = [pc EXCEPT ![p] = "g_admit"] \/ pc' = [pc EXCEPT ![p] = "off"]
      BY <1>12 DEF GateStart, Gone, Goto
    <3>a. wid' = wid \/ wid' = [wid EXCEPT ![p] = NoWindow]
      BY <1>12 DEF GateStart, Gone
    <3>2. wid' \in [Pids -> Windows \cup {NoWindow}]
      BY <3>a
    <3>3. pc' \in [Pids -> PC]
      BY <3>1
    <3>4. live' = live \/ live' = [live EXCEPT ![p] = {}]
      BY <1>12 DEF GateStart, Gone
    <3>5. live' \in [Pids -> SUBSET Specs]
      BY <3>4
    <3>6. todo' = todo \/ todo' = [todo EXCEPT ![p] = {}]
      BY <1>12 DEF GateStart, Gone
    <3>7. todo' \in [Pids -> SUBSET Specs]
      BY <3>6
    <3>8. base' \in [Pids -> Commit]
      <4>1. base' = base \/ base' = [base EXCEPT ![p] = EmptyCommit]
        BY <1>12 DEF GateStart, Gone
      <4>2. EmptyCommit \in Commit
        BY DEF EmptyCommit
      <4>3. QED
        BY <4>1, <4>2
    <3>9. round' \in [Pids -> {1, 2}]
      BY <1>12 DEF GateStart, Gone
    <3>10. child' \in [Pids -> Pids \cup {NoPid}]
      BY <1>12 DEF GateStart, Gone
    <3>11. prune' \in [Pids -> SUBSET Specs] /\ due' \in [Pids -> SUBSET Specs]
      <4>1. prune' = prune \/ prune' = [prune EXCEPT ![p] = {}]
        BY <1>12 DEF GateStart, Gone
      <4>2. due' = due \/ due' = [due EXCEPT ![p] = {}]
        BY <1>12 DEF GateStart, Gone
      <4>3. prune' \in [Pids -> SUBSET Specs]
        BY <4>1
      <4>4. due' \in [Pids -> SUBSET Specs]
        BY <4>2
      <4>5. QED
        BY <4>3, <4>4
    <3>12. QED
      BY <3>3, <3>2, <3>5, <3>7, <3>8, <3>9, <3>10, <3>11
  <2>5. BoundTypeOK'
    BY <1>12 DEF GateStart, SlotAfterRefusal, Gone, Goto, EmptyCommit
  <2>6. HasWindow'
    BY <1>12 DEF GateStart, SlotAfterRefusal, Gone, Goto, EmptyCommit
  <2>7. ExtCounted'
    BY <1>12 DEF GateStart, SlotAfterRefusal, Gone, Goto, EmptyCommit
  <2>8. QED
    BY <2>1, <2>2, <2>3, <2>4, <2>5, <2>6, <2>7
<1>13. ASSUME NEW p \in Pids, GateAdmit(p) PROVE TypeInv'
  <2>1. LedgerTypeOK'
    BY <1>13 DEF GateAdmit, Goto
  <2>2. GitTypeOK'
    BY <1>13 DEF GateAdmit, Goto
  <2>3. FileTypeOK'
    BY <1>13 DEF GateAdmit, Goto
  <2>4. LocalTypeOK'
    <3>1. pc' = [pc EXCEPT ![p] = "g_close"] \/ pc' = [pc EXCEPT ![p] = "g_take"]
      BY <1>13 DEF GateAdmit, Goto
    <3>2. pc' \in [Pids -> PC]
      BY <3>1
    <3>3. UNCHANGED <<wid, live, todo, base, round, child, prune, due>>
      BY <1>13 DEF GateAdmit
    <3>4. QED
      BY <3>2, <3>3
  <2>5. BoundTypeOK'
    BY <1>13 DEF GateAdmit, Goto
  <2>6. HasWindow'
    BY <1>13 DEF GateAdmit, Goto
  <2>7. ExtCounted'
    BY <1>13 DEF GateAdmit, Goto
  <2>8. QED
    BY <2>1, <2>2, <2>3, <2>4, <2>5, <2>6, <2>7
<1>14. ASSUME NEW p \in Pids, GateTake(p) PROVE TypeInv'
  <2>1. LedgerTypeOK'
    BY <1>14 DEF GateTake, Goto, NoSlot
  <2>2. GitTypeOK'
    BY <1>14 DEF GateTake, Goto, NoSlot
  <2>3. FileTypeOK'
    BY <1>14 DEF GateTake, Goto, NoSlot
  <2>4. LocalTypeOK'
    <3>1. \/ pc' = [pc EXCEPT ![p] = "g_select"]
          \/ pc' = [pc EXCEPT ![p] = "g_close"]
          \/ pc' = [pc EXCEPT ![p] = "g_stale"]
          \/ pc' = [pc EXCEPT ![p] = "g_stale2"]
      BY <1>14 DEF GateTake, Goto
    <3>2. pc' \in [Pids -> PC]
      BY <3>1
    <3>3. UNCHANGED <<wid, live, todo, round, child, prune, due>>
      BY <1>14 DEF GateTake
    <3>a. base' = base \/ base' = [base EXCEPT ![p] = main]
      BY <1>14 DEF GateTake
    <3>4. base' \in [Pids -> Commit]
      BY <3>a
    <3>5. QED
      BY <3>2, <3>3, <3>4
  <2>5. BoundTypeOK'
    BY <1>14 DEF GateTake, Goto, NoSlot
  <2>6. HasWindow'
    BY <1>14 DEF GateTake, Goto, NoSlot
  <2>7. ExtCounted'
    BY <1>14 DEF GateTake, Goto, NoSlot
  <2>8. QED
    BY <2>1, <2>2, <2>3, <2>4, <2>5, <2>6, <2>7
<1>15. ASSUME NEW p \in Pids, GateUnlink(p) PROVE TypeInv'
  BY <1>15 DEF GateUnlink, Goto, NoSlot
<1>16. ASSUME NEW p \in Pids, NEW s \in Specs, GateDrop(p, s) PROVE TypeInv'
  <2>1. LedgerTypeOK'
    <3>1. row' \in [Specs -> RowType]
      BY <1>16, RowTypes DEF GateDrop, Outcome
    <3>2. wid[p] \in Windows
      BY <1>16 DEF GateDrop
    <3>3. final' \subseteq Windows \X Specs
      BY <3>2, <1>16 DEF GateDrop
    <3>4. need' \in [Specs -> NeedType]
      <4>1. AfterDrop(need[s]) \in NeedType
        BY NeedTypes
      <4>2. \/ need' = [need EXCEPT ![s] = AfterDrop(need[s])]
            \/ need' = [need EXCEPT ![s] = "rework"]
        BY <1>16 DEF GateDrop, Outcome
      <4>3. QED
        BY <4>1, <4>2
    <3>5. QED
      BY <3>1, <3>3, <3>4, <1>16 DEF GateDrop
  <2>2. GitTypeOK'
    BY <1>16 DEF GateDrop, Outcome
  <2>3. FileTypeOK'
    BY <1>16 DEF GateDrop, Outcome
  <2>4. LocalTypeOK'
    <3>1. live' = [live EXCEPT ![p] = live[p] \ {s}]
      BY <1>16 DEF GateDrop, Outcome
    <3>2. QED
      BY <3>1, <1>16 DEF GateDrop
  <2>5. BoundTypeOK'
    BY <1>16 DEF GateDrop, Outcome
  <2>6. HasWindow'
    BY <1>16 DEF GateDrop, Outcome
  <2>7. ExtCounted'
    BY <1>16 DEF GateDrop, Outcome
  <2>8. QED
    BY <2>1, <2>2, <2>3, <2>4, <2>5, <2>6, <2>7
<1>17. ASSUME NEW p \in Pids, NEW s \in Specs, GateDefer(p, s) PROVE TypeInv'
  BY <1>17 DEF GateDefer
<1>18. ASSUME NEW p \in Pids, GateOpen(p) PROVE TypeInv'
  BY <1>18 DEF GateOpen, Goto
<1>19. ASSUME NEW p \in Pids, GateNothing(p) PROVE TypeInv'
  <2>1. LedgerTypeOK'
    <3>1. win' = win \/ win' = [win EXCEPT ![wid[p]] = "escalated"]
      BY <1>19 DEF GateNothing
    <3>2. win' \in [Windows -> WinType]
      BY <3>1
    <3>3. UNCHANGED <<row, need, red, members, final, answered, shipped>>
      BY <1>19 DEF GateNothing
    <3>4. QED
      BY <3>2, <3>3
  <2>2. GitTypeOK' /\ FileTypeOK' /\ BoundTypeOK' /\ ExtCounted'
    BY <1>19 DEF GateNothing
  <2>3. pc[p] \in GatePC
    BY <1>19 DEF GateNothing
  <2>4. LocalTypeOK' /\ HasWindow'
    BY <1>19, <2>3, ReturnTypes DEF GateNothing
  <2>5. QED
    BY <2>1, <2>2, <2>4
<1>20. ASSUME NEW p \in Pids, GateGreen(p) PROVE TypeInv'
  <2>1. LedgerTypeOK'
    BY <1>20 DEF GateGreen, Goto
  <2>2. GitTypeOK'
    BY <1>20, CandidateType DEF GateGreen
  <2>3. FileTypeOK'
    BY <1>20 DEF GateGreen, Goto
  <2>4. LocalTypeOK'
    BY <1>20 DEF GateGreen, Goto
  <2>5. BoundTypeOK'
    BY <1>20 DEF GateGreen, Goto
  <2>6. HasWindow'
    BY <1>20 DEF GateGreen, Goto
  <2>7. ExtCounted'
    BY <1>20 DEF GateGreen, Goto
  <2>8. QED
    BY <2>1, <2>2, <2>3, <2>4, <2>5, <2>6, <2>7
<1>21. ASSUME NEW p \in Pids, GateRed(p) PROVE TypeInv'
  BY <1>21 DEF GateRed, Goto
<1>22. ASSUME NEW p \in Pids, NEW s \in Specs, GateCharge(p, s) PROVE TypeInv'
  <2>1. LedgerTypeOK'
    <3>1. row' \in [Specs -> RowType]
      BY <1>22, RowTypes DEF GateCharge, Outcome
    <3>2. wid[p] \in Windows
      BY <1>22 DEF GateCharge
    <3>3. final' \subseteq Windows \X Specs
      BY <3>2, <1>22 DEF GateCharge
    <3>4. need' \in [Specs -> NeedType]
      <4>1. AfterDrop(need[s]) \in NeedType
        BY NeedTypes
      <4>2. \/ need' = [need EXCEPT ![s] = AfterDrop(need[s])]
            \/ need' = [need EXCEPT ![s] = "blamed"]
        BY <1>22 DEF GateCharge, Outcome
      <4>3. QED
        BY <4>1, <4>2
    <3>5. QED
      BY <3>1, <3>3, <3>4, <1>22 DEF GateCharge
  <2>2. GitTypeOK'
    BY <1>22 DEF GateCharge, Outcome
  <2>3. FileTypeOK'
    BY <1>22 DEF GateCharge, Outcome
  <2>4. LocalTypeOK'
    <3>1. live' = [live EXCEPT ![p] = live[p] \ {s}] /\ todo' = [todo EXCEPT ![p] = todo[p] \ {s}]
      BY <1>22 DEF GateCharge, Outcome
    <3>2. QED
      BY <3>1, <1>22 DEF GateCharge
  <2>5. BoundTypeOK'
    BY <1>22 DEF GateCharge, Outcome
  <2>6. HasWindow'
    BY <1>22 DEF GateCharge, Outcome
  <2>7. ExtCounted'
    BY <1>22 DEF GateCharge, Outcome
  <2>8. QED
    BY <2>1, <2>2, <2>3, <2>4, <2>5, <2>6, <2>7
<1>23. ASSUME NEW p \in Pids, GateRemainder(p) PROVE TypeInv'
  <2>1. LedgerTypeOK'
    <3>1. win' = win \/ win' = [win EXCEPT ![wid[p]] = "escalated"]
      BY <1>23 DEF GateRemainder
    <3>2. win' \in [Windows -> WinType]
      BY <3>1
    <3>3. UNCHANGED <<row, need, red, members, final, answered, shipped>>
      BY <1>23 DEF GateRemainder
    <3>4. QED
      BY <3>2, <3>3
  <2>2. GitTypeOK' /\ FileTypeOK' /\ BoundTypeOK' /\ ExtCounted'
    BY <1>23 DEF GateRemainder
  <2>3. LocalTypeOK' /\ HasWindow'
    <3>1. CASE Return(p)
      <4>1. pc[p] \in GatePC /\ UNCHANGED <<wid, child, snap>>
        BY <1>23 DEF GateRemainder
      <4>2. QED
        BY <3>1, <4>1, ReturnTypes
    <3>2. CASE /\ round' = [round EXCEPT ![p] = SecondRound]
               /\ Goto(p, "g_select")
               /\ UNCHANGED <<win, live, todo, base>>
      <4>1. pc' = [pc EXCEPT ![p] = "g_select"] /\ pc[p] = "g_drop"
        BY <3>2, <1>23 DEF GateRemainder, Goto
      <4>2. pc' \in [Pids -> PC] /\ round' \in [Pids -> {1, 2}]
        BY <4>1, <3>2 DEF SecondRound
      <4>3. UNCHANGED <<wid, live, todo, base, child, prune, due>>
        BY <3>2, <1>23 DEF GateRemainder
      <4>4. QED
        BY <4>1, <4>2, <4>3
    <3>3. QED
      BY <3>1, <3>2, <1>23 DEF GateRemainder
  <2>4. QED
    BY <2>1, <2>2, <2>3
<1>24. ASSUME NEW p \in Pids, GateEscalate(p) PROVE TypeInv'
  <2>1. LedgerTypeOK'
    <3>1. win' = win \/ win' = [win EXCEPT ![wid[p]] = "escalated"]
      BY <1>24 DEF GateEscalate
    <3>2. win' \in [Windows -> WinType]
      BY <3>1
    <3>3. UNCHANGED <<row, need, red, members, final, answered, shipped>>
      BY <1>24 DEF GateEscalate
    <3>4. QED
      BY <3>2, <3>3
  <2>2. GitTypeOK' /\ FileTypeOK' /\ BoundTypeOK' /\ ExtCounted'
    BY <1>24 DEF GateEscalate
  <2>3. pc[p] \in GatePC
    BY <1>24 DEF GateEscalate
  <2>4. LocalTypeOK' /\ HasWindow'
    BY <1>24, <2>3, ReturnTypes DEF GateEscalate
  <2>5. QED
    BY <2>1, <2>2, <2>4
<1>25. ASSUME NEW p \in Pids, GateAdvance(p) PROVE TypeInv'
  <2>1. LedgerTypeOK'
    <3>1. win' = win \/ win' = [win EXCEPT ![wid[p]] = "escalated"]
      BY <1>25 DEF GateAdvance
    <3>2. win' \in [Windows -> WinType]
      BY <3>1
    <3>3. UNCHANGED <<row, need, red, members, final, answered, shipped>>
      BY <1>25 DEF GateAdvance
    <3>4. QED
      BY <3>2, <3>3
  <2>2. GitTypeOK'
    <3>1. CASE BaseHolds(p)
      BY <3>1, <1>25, CandidateType DEF GateAdvance
    <3>2. CASE ~BaseHolds(p)
      BY <3>2, <1>25 DEF GateAdvance
    <3>3. QED
      BY <3>1, <3>2
  <2>3. FileTypeOK'
    BY <1>25 DEF GateAdvance, Goto, Kept
  <2>4. LocalTypeOK' /\ HasWindow'
    <3>1. CASE BaseHolds(p)
      <4>1. /\ pc' = [pc EXCEPT ![p] = "g_ship"] /\ pc[p] = "g_advance"
            /\ todo' = [todo EXCEPT ![p] = live[p]]
            /\ UNCHANGED <<wid, live, base, round, child, prune, due>>
        BY <3>1, <1>25 DEF GateAdvance, Goto, Kept
      <4>2. pc' \in [Pids -> PC]
        BY <4>1
      <4>3. todo' \in [Pids -> SUBSET Specs]
        BY <4>1
      <4>4. QED
        BY <4>1, <4>2, <4>3
    <3>2. CASE ~BaseHolds(p)
      <4>1. Return(p) /\ pc[p] \in GatePC /\ UNCHANGED <<wid, child, snap>>
        BY <3>2, <1>25 DEF GateAdvance
      <4>2. QED
        BY <4>1, ReturnTypes
    <3>3. QED
      BY <3>1, <3>2
  <2>5. BoundTypeOK'
    BY <1>25 DEF GateAdvance
  <2>7. ExtCounted'
    <3>1. main'.ext = main.ext
      BY <1>25, CandidateType DEF GateAdvance, BaseHolds
    <3>2. QED
      BY <3>1, <1>25 DEF GateAdvance
  <2>8. QED
    BY <2>1, <2>2, <2>3, <2>4, <2>5, <2>7
<1>26. ASSUME NEW p \in Pids, NEW s \in Specs, GateShip(p, s) PROVE TypeInv'
  <2>1. LedgerTypeOK'
    <3>1. row' \in [Specs -> RowType]
      BY <1>26, RowTypes DEF GateShip
    <3>2. QED
      BY <3>1, <1>26 DEF GateShip
  <2>2. GitTypeOK'
    BY <1>26 DEF GateShip
  <2>3. FileTypeOK'
    BY <1>26 DEF GateShip
  <2>4. LocalTypeOK'
    BY <1>26 DEF GateShip
  <2>5. BoundTypeOK'
    BY <1>26 DEF GateShip
  <2>6. HasWindow'
    BY <1>26 DEF GateShip
  <2>7. ExtCounted'
    BY <1>26 DEF GateShip
  <2>8. QED
    BY <2>1, <2>2, <2>3, <2>4, <2>5, <2>6, <2>7
<1>27. ASSUME NEW p \in Pids, GateVerified(p) PROVE TypeInv'
  <2>1. LedgerTypeOK'
    <3>1. win' = win \/ win' = [win EXCEPT ![wid[p]] = "verified"]
      BY <1>27 DEF GateVerified
    <3>2. win' \in [Windows -> WinType]
      BY <3>1
    <3>3. UNCHANGED <<row, need, red, members, final, answered, shipped>>
      BY <1>27 DEF GateVerified
    <3>4. QED
      BY <3>2, <3>3
  <2>2. GitTypeOK' /\ FileTypeOK' /\ BoundTypeOK' /\ ExtCounted'
    BY <1>27 DEF GateVerified
  <2>3. pc[p] \in GatePC
    BY <1>27 DEF GateVerified
  <2>4. LocalTypeOK' /\ HasWindow'
    BY <1>27, <2>3, ReturnTypes DEF GateVerified
  <2>5. QED
    BY <2>1, <2>2, <2>4
<1>28. ASSUME NEW p \in Pids, GateRelease(p) PROVE TypeInv'
  BY <1>28 DEF GateRelease, Goto, NoSlot
<1>29. ASSUME NEW p \in Pids, GateClose(p) PROVE TypeInv'
  BY <1>29 DEF GateClose, Gone, Goto, EmptyCommit
<1>30. ASSUME NEW p \in Pids, NEW w \in Windows, DefaultStart(p, w) PROVE TypeInv'
  BY <1>30 DEF DefaultStart, TickReads, Settled, Goto, Undecided
<1>31. ASSUME NEW p \in Pids, NEW s \in Specs, DefaultDrop(p, s) PROVE TypeInv'
  <2>1. LedgerTypeOK'
    <3>1. row' \in [Specs -> RowType]
      BY <1>31, RowTypes DEF DefaultDrop
    <3>2. wid[p] \in Windows
      BY <1>31 DEF DefaultDrop
    <3>3. answered' \subseteq Windows \X Specs \X {"drop", "add"}
      BY <3>2, <1>31 DEF DefaultDrop
    <3>4. need' \in [Specs -> NeedType]
      <4>1. CASE need[s] = "clean"
        <5>1. need' = need \/ need' = [need EXCEPT ![s] = "none"]
          BY <4>1, <1>31 DEF DefaultDrop
        <5>2. QED
          BY <5>1
      <4>2. CASE need[s] # "clean"
        <5>1. need' = need
          BY <4>2, <1>31 DEF DefaultDrop
        <5>2. QED
          BY <5>1
      <4>3. QED
        BY <4>1, <4>2
    <3>5. QED
      BY <3>1, <3>3, <3>4, <1>31 DEF DefaultDrop
  <2>2. GitTypeOK'
    BY <1>31 DEF DefaultDrop, Goto
  <2>3. FileTypeOK'
    BY <1>31 DEF DefaultDrop, Goto
  <2>4. LocalTypeOK'
    BY <1>31 DEF DefaultDrop, Goto
  <2>5. BoundTypeOK'
    BY <1>31 DEF DefaultDrop, Goto
  <2>6. HasWindow'
    BY <1>31 DEF DefaultDrop, Goto
  <2>7. ExtCounted'
    BY <1>31 DEF DefaultDrop, Goto
  <2>8. QED
    BY <2>1, <2>2, <2>3, <2>4, <2>5, <2>6, <2>7
<1>32. ASSUME NEW p \in Pids, NEW s \in Specs, DefaultAdd(p, s) PROVE TypeInv'
  <2>1. LedgerTypeOK'
    <3>1. row' \in [Specs -> RowType]
      BY <1>32, RowTypes DEF DefaultAdd
    <3>2. wid[p] \in Windows
      BY <1>32 DEF DefaultAdd
    <3>3. answered' \subseteq Windows \X Specs \X {"drop", "add"}
      BY <3>2, <1>32 DEF DefaultAdd
    <3>4. need' \in [Specs -> NeedType] /\ red' \subseteq Specs
      <4>1. AfterQueueAdd(need[s]) \in NeedType
        BY NeedTypes
      <4>2. need' = need \/ need' = [need EXCEPT ![s] = AfterQueueAdd(need[s])]
        BY <1>32 DEF DefaultAdd
      <4>3. need' \in [Specs -> NeedType]
        BY <4>1, <4>2
      <4>4. red' \subseteq Specs
        BY <1>32 DEF DefaultAdd
      <4>5. QED
        BY <4>3, <4>4
    <3>5. QED
      BY <3>1, <3>3, <3>4, <1>32 DEF DefaultAdd
  <2>2. GitTypeOK'
    BY <1>32 DEF DefaultAdd, Goto
  <2>3. FileTypeOK'
    BY <1>32 DEF DefaultAdd, Goto
  <2>4. LocalTypeOK'
    BY <1>32 DEF DefaultAdd, Goto
  <2>5. BoundTypeOK'
    BY <1>32 DEF DefaultAdd, Goto
  <2>6. HasWindow'
    BY <1>32 DEF DefaultAdd, Goto
  <2>7. ExtCounted'
    BY <1>32 DEF DefaultAdd, Goto
  <2>8. QED
    BY <2>1, <2>2, <2>3, <2>4, <2>5, <2>6, <2>7
<1>33. ASSUME NEW p \in Pids, DefaultClose(p) PROVE TypeInv'
  BY <1>33 DEF DefaultClose, Goto
<1>34. ASSUME NEW p \in Pids, TickStart(p) PROVE TypeInv'
  BY <1>34 DEF TickStart, TickReads, Settled, Goto
<1>35. ASSUME NEW p \in Pids, DefaultDone(p) PROVE TypeInv'
  BY <1>35 DEF DefaultDone, Goto
<1>36. ASSUME NEW p \in Pids, NEW s \in Specs, TickPrune(p, s) PROVE TypeInv'
  BY <1>36, RowTypes DEF TickPrune
<1>37. ASSUME NEW p \in Pids, NEW s \in Specs, TickAdd(p, s) PROVE TypeInv'
  <2>1. LedgerTypeOK'
    <3>1. row' \in [Specs -> RowType]
      BY <1>37, RowTypes DEF TickAdd
    <3>2. AfterQueueAdd(need[s]) \in NeedType
      BY NeedTypes
    <3>3. need' \in [Specs -> NeedType]
      BY <3>2, <1>37 DEF TickAdd
    <3>4. QED
      BY <3>1, <3>3, <1>37 DEF TickAdd
  <2>2. GitTypeOK'
    BY <1>37 DEF TickAdd
  <2>3. FileTypeOK'
    BY <1>37 DEF TickAdd
  <2>4. LocalTypeOK'
    BY <1>37 DEF TickAdd
  <2>5. BoundTypeOK'
    BY <1>37 DEF TickAdd
  <2>6. HasWindow'
    BY <1>37 DEF TickAdd
  <2>7. ExtCounted'
    BY <1>37 DEF TickAdd
  <2>8. QED
    BY <2>1, <2>2, <2>3, <2>4, <2>5, <2>6, <2>7
<1>38. ASSUME NEW p \in Pids, TickEnd(p) PROVE TypeInv'
  BY <1>38 DEF TickEnd, Gone, Goto, EmptyCommit
<1>39. ASSUME NEW s \in Specs, Rebuild(s) PROVE TypeInv'
  BY <1>39 DEF Rebuild
<1>40. ASSUME External PROVE TypeInv'
  <2>1. LedgerTypeOK'
    BY <1>40 DEF External
  <2>2. GitTypeOK'
    <3>1. main' = [main EXCEPT !.ext = main.ext + 1] /\ main.ext + 1 \in 0..MaxExternal
      BY <1>40 DEF External
    <3>2. QED
      BY <3>1, <1>40 DEF External
  <2>3. FileTypeOK'
    BY <1>40 DEF External
  <2>4. LocalTypeOK'
    BY <1>40 DEF External
  <2>5. BoundTypeOK'
    BY <1>40 DEF External
  <2>6. HasWindow'
    BY <1>40 DEF External
  <2>7. ExtCounted'
    BY <1>40 DEF External
  <2>8. QED
    BY <2>1, <2>2, <2>3, <2>4, <2>5, <2>6, <2>7
<1>41. ASSUME NEW p \in Pids, Crash(p) PROVE TypeInv'
  BY <1>41 DEF Crash, Gone, Goto, EmptyCommit, ChainWithout
<1>42. ASSUME NEW p \in Pids, Recycle(p) PROVE TypeInv'
  BY <1>42 DEF Recycle, Goto
<1>43. ASSUME NEW p \in Pids, OtherExit(p) PROVE TypeInv'
  BY <1>43 DEF OtherExit, Goto
<1>44. ASSUME NEW p \in Pids, NEW s \in Specs, GateAlone(p, s) PROVE TypeInv'
  <2>1. LedgerTypeOK'
    <3>1. row' \in [Specs -> RowType]
      BY <1>44, RowTypes DEF GateAlone, Outcome
    <3>2. wid[p] \in Windows
      BY <1>44 DEF GateAlone
    <3>3. final' \subseteq Windows \X Specs
      BY <3>2, <1>44 DEF GateAlone
    <3>4. need' \in [Specs -> NeedType]
      BY <1>44 DEF GateAlone, Outcome
    <3>5. QED
      BY <3>1, <3>3, <3>4, <1>44 DEF GateAlone
  <2>2. GitTypeOK'
    BY <1>44 DEF GateAlone, Outcome
  <2>3. FileTypeOK'
    BY <1>44 DEF GateAlone, Outcome
  <2>4. LocalTypeOK'
    <3>1. live' = [live EXCEPT ![p] = live[p] \ {s}]
      BY <1>44 DEF GateAlone, Outcome
    <3>2. QED
      BY <3>1, <1>44 DEF GateAlone
  <2>5. BoundTypeOK'
    BY <1>44 DEF GateAlone, Outcome
  <2>6. HasWindow'
    BY <1>44 DEF GateAlone, Outcome
  <2>7. ExtCounted'
    BY <1>44 DEF GateAlone, Outcome
  <2>8. QED
    BY <2>1, <2>2, <2>3, <2>4, <2>5, <2>6, <2>7
<1>45. ASSUME NEW p \in Pids, GateQuit(p) PROVE TypeInv'
  <2>1. LedgerTypeOK' /\ GitTypeOK' /\ FileTypeOK' /\ BoundTypeOK' /\ ExtCounted'
    BY <1>45 DEF GateQuit
  <2>2. pc[p] \in GatePC
    BY <1>45 DEF GateQuit
  <2>3. LocalTypeOK' /\ HasWindow'
    BY <1>45, <2>2, ReturnTypes DEF GateQuit
  <2>4. QED
    BY <2>1, <2>3
<1>46. QED
  BY <1>1, <1>2, <1>3, <1>4, <1>5, <1>6, <1>7, <1>8, <1>9, <1>10, <1>11, <1>12, <1>13, <1>14,
     <1>15, <1>16, <1>17, <1>18, <1>19, <1>20, <1>21, <1>22, <1>23, <1>24, <1>25, <1>26, <1>27, <1>28,
     <1>29, <1>30, <1>31, <1>32, <1>33, <1>34, <1>35, <1>36, <1>37, <1>38, <1>39, <1>40, <1>41, <1>42,
     <1>43, <1>44, <1>45
  DEF Next, LauncherStep, Gate, TickStep, Environment

-----------------------------------------------------------------------------
(* The locks *)

\* Every action keeps the three locks with the processes that hold them.
LEMMA LockStep == TypeInv /\ LockInv /\ Next => LockInv'
<1> SUFFICES ASSUME TypeInv, LockInv, Next PROVE LockInv'
  OBVIOUS
<1>0. /\ pc \in [Pids -> PC] /\ wid \in [Pids -> Windows \cup {NoWindow}]
      /\ NoPid \notin Pids
  BY NullAssumption DEF TypeInv, TypeOK, LocalTypeOK
<1> USE <1>0 DEF LockInv, ChainIsMine, SlotIsMine, RunLockIsMine
<1> USE DEF PC, LauncherPC, SlotPC, AcquirePC, GatePC, DefaultPC, TickPC, ChainPC
<1> USE DEF ledger, git, files, locals, snap, bounds
<1>1. ASSUME NEW p \in Pids, LaunchStart(p) PROVE LockInv'
  BY <1>1 DEF LaunchStart, Goto, RunLockFree, Alive
<1>2. ASSUME NEW p \in Pids, LaunchRead(p) PROVE LockInv'
  BY <1>2 DEF LaunchRead, Goto
<1>3. ASSUME NEW p \in Pids, NEW s \in Specs, LaunchPrune(p, s) PROVE LockInv'
  BY <1>3 DEF LaunchPrune, Goto
<1>4. ASSUME NEW p \in Pids, LaunchProbe(p) PROVE LockInv'
  BY <1>4 DEF LaunchProbe, Goto, ChainFree
<1>5. ASSUME NEW p \in Pids, LaunchAdmit(p) PROVE LockInv'
  BY <1>5 DEF LaunchAdmit, Goto
<1>6. ASSUME NEW p \in Pids, LaunchCheck(p) PROVE LockInv'
  BY <1>6 DEF LaunchCheck, Goto
<1>7. ASSUME NEW p \in Pids, LaunchSelect(p) PROVE LockInv'
  BY <1>7 DEF LaunchSelect, Goto
<1>8. ASSUME NEW p \in Pids, NEW w \in Windows, LaunchBatch(p, w) PROVE LockInv'
  BY <1>8 DEF LaunchBatch, Goto
<1>9. ASSUME NEW p \in Pids, NEW g \in Pids, LaunchPopen(p, g) PROVE LockInv'
  BY <1>9 DEF LaunchPopen, Free, WindowArgument
<1>10. ASSUME NEW p \in Pids, LaunchPid(p) PROVE LockInv'
  BY <1>10 DEF LaunchPid, Goto
<1>11. ASSUME NEW p \in Pids, LaunchUnlock(p) PROVE LockInv'
  BY <1>11 DEF LaunchUnlock, Goto, Gone
<1>12. ASSUME NEW p \in Pids, GateStart(p) PROVE LockInv'
  BY <1>12 DEF GateStart, Goto, Gone, ChainFree, SlotAfterRefusal
<1>13. ASSUME NEW p \in Pids, GateAdmit(p) PROVE LockInv'
  BY <1>13 DEF GateAdmit, Goto
<1>14. ASSUME NEW p \in Pids, GateTake(p) PROVE LockInv'
  BY <1>14 DEF GateTake, Goto
<1>15. ASSUME NEW p \in Pids, GateUnlink(p) PROVE LockInv'
  BY <1>15 DEF GateUnlink, Goto
<1>16. ASSUME NEW p \in Pids, NEW s \in Specs, GateDrop(p, s) PROVE LockInv'
  BY <1>16 DEF GateDrop, Outcome
<1>17. ASSUME NEW p \in Pids, NEW s \in Specs, GateDefer(p, s) PROVE LockInv'
  BY <1>17 DEF GateDefer, Goto
<1>18. ASSUME NEW p \in Pids, GateOpen(p) PROVE LockInv'
  BY <1>18 DEF GateOpen, Goto
<1>19. ASSUME NEW p \in Pids, GateNothing(p) PROVE LockInv'
  BY <1>19 DEF GateNothing, Return, Goto
<1>20. ASSUME NEW p \in Pids, GateGreen(p) PROVE LockInv'
  BY <1>20 DEF GateGreen, Goto
<1>21. ASSUME NEW p \in Pids, GateRed(p) PROVE LockInv'
  BY <1>21 DEF GateRed, Goto
<1>22. ASSUME NEW p \in Pids, NEW s \in Specs, GateCharge(p, s) PROVE LockInv'
  BY <1>22 DEF GateCharge, Outcome
<1>23. ASSUME NEW p \in Pids, GateRemainder(p) PROVE LockInv'
  BY <1>23 DEF GateRemainder, Return, Goto
<1>24. ASSUME NEW p \in Pids, GateEscalate(p) PROVE LockInv'
  BY <1>24 DEF GateEscalate, Return, Goto
<1>25. ASSUME NEW p \in Pids, GateAdvance(p) PROVE LockInv'
  BY <1>25 DEF GateAdvance, Return, Goto
<1>26. ASSUME NEW p \in Pids, NEW s \in Specs, GateShip(p, s) PROVE LockInv'
  BY <1>26 DEF GateShip, Goto
<1>27. ASSUME NEW p \in Pids, GateVerified(p) PROVE LockInv'
  BY <1>27 DEF GateVerified, Return, Goto
<1>28. ASSUME NEW p \in Pids, GateRelease(p) PROVE LockInv'
  BY <1>28 DEF GateRelease, Goto, NoSlot
<1>29. ASSUME NEW p \in Pids, GateClose(p) PROVE LockInv'
  BY <1>29 DEF GateClose, Goto, Gone
<1>30. ASSUME NEW p \in Pids, NEW w \in Windows, DefaultStart(p, w) PROVE LockInv'
  BY <1>30 DEF DefaultStart, TickReads, Goto, ChainFree
<1>31. ASSUME NEW p \in Pids, NEW s \in Specs, DefaultDrop(p, s) PROVE LockInv'
  BY <1>31 DEF DefaultDrop, Goto
<1>32. ASSUME NEW p \in Pids, NEW s \in Specs, DefaultAdd(p, s) PROVE LockInv'
  BY <1>32 DEF DefaultAdd, Goto
<1>33. ASSUME NEW p \in Pids, DefaultClose(p) PROVE LockInv'
  BY <1>33 DEF DefaultClose, Goto
<1>34. ASSUME NEW p \in Pids, TickStart(p) PROVE LockInv'
  BY <1>34 DEF TickStart, TickReads, Goto
<1>35. ASSUME NEW p \in Pids, DefaultDone(p) PROVE LockInv'
  BY <1>35 DEF DefaultDone, Goto
<1>36. ASSUME NEW p \in Pids, NEW s \in Specs, TickPrune(p, s) PROVE LockInv'
  BY <1>36 DEF TickPrune
<1>37. ASSUME NEW p \in Pids, NEW s \in Specs, TickAdd(p, s) PROVE LockInv'
  BY <1>37 DEF TickAdd
<1>38. ASSUME NEW p \in Pids, TickEnd(p) PROVE LockInv'
  BY <1>38 DEF TickEnd, Gone, Goto
<1>39. ASSUME NEW s \in Specs, Rebuild(s) PROVE LockInv'
  BY <1>39 DEF Rebuild, Goto
<1>40. ASSUME External PROVE LockInv'
  BY <1>40 DEF External, Goto
<1>41. ASSUME NEW p \in Pids, Crash(p) PROVE LockInv'
  BY <1>41 DEF Crash, Goto, Gone, ChainWithout
<1>42. ASSUME NEW p \in Pids, Recycle(p) PROVE LockInv'
  BY <1>42 DEF Recycle, Goto
<1>43. ASSUME NEW p \in Pids, OtherExit(p) PROVE LockInv'
  BY <1>43 DEF OtherExit, Goto
<1>44. ASSUME NEW p \in Pids, NEW s \in Specs, GateAlone(p, s) PROVE LockInv'
  BY <1>44 DEF GateAlone, Outcome
<1>45. ASSUME NEW p \in Pids, GateQuit(p) PROVE LockInv'
  BY <1>45 DEF GateQuit, Return, Goto
<1>46. QED
  BY <1>1, <1>2, <1>3, <1>4, <1>5, <1>6, <1>7, <1>8, <1>9, <1>10, <1>11, <1>12, <1>13, <1>14,
     <1>15, <1>16, <1>17, <1>18, <1>19, <1>20, <1>21, <1>22, <1>23, <1>24, <1>25, <1>26, <1>27, <1>28,
     <1>29, <1>30, <1>31, <1>32, <1>33, <1>34, <1>35, <1>36, <1>37, <1>38, <1>39, <1>40, <1>41, <1>42,
     <1>43, <1>44, <1>45
  DEF Next, LauncherStep, Gate, TickStep, Environment

-----------------------------------------------------------------------------
(* The branch *)

\* Every action keeps what is announced, and what is pushed, backed by the
\* branch and by a verdict.
LEMMA MainStep == TypeInv /\ MainInv /\ Next => MainInv'
<1> SUFFICES ASSUME TypeInv, MainInv, Next PROVE MainInv'
  OBVIOUS
<1>0. /\ pc \in [Pids -> PC] /\ live \in [Pids -> SUBSET Specs]
      /\ todo \in [Pids -> SUBSET Specs] /\ base \in [Pids -> Commit]
      /\ main \in Commit
  BY DEF TypeInv, TypeOK, LocalTypeOK, GitTypeOK
<1> USE <1>0 DEF MainInv, AnnouncedOnMain, AdvanceIsGreen, ShippedOnMain
<1> USE DEF Candidate, Commit, PC, LauncherPC, SlotPC, AcquirePC, GatePC, DefaultPC, TickPC
<1> USE DEF ledger, git, files, locals, snap, bounds
<1>1. ASSUME NEW p \in Pids, LaunchStart(p) PROVE MainInv'
  BY <1>1 DEF LaunchStart, Goto
<1>2. ASSUME NEW p \in Pids, LaunchRead(p) PROVE MainInv'
  BY <1>2 DEF LaunchRead, Goto
<1>3. ASSUME NEW p \in Pids, NEW s \in Specs, LaunchPrune(p, s) PROVE MainInv'
  BY <1>3 DEF LaunchPrune, Goto
<1>4. ASSUME NEW p \in Pids, LaunchProbe(p) PROVE MainInv'
  BY <1>4 DEF LaunchProbe, Goto
<1>5. ASSUME NEW p \in Pids, LaunchAdmit(p) PROVE MainInv'
  BY <1>5 DEF LaunchAdmit, Goto
<1>6. ASSUME NEW p \in Pids, LaunchCheck(p) PROVE MainInv'
  BY <1>6 DEF LaunchCheck, Goto
<1>7. ASSUME NEW p \in Pids, LaunchSelect(p) PROVE MainInv'
  BY <1>7 DEF LaunchSelect, Goto
<1>8. ASSUME NEW p \in Pids, NEW w \in Windows, LaunchBatch(p, w) PROVE MainInv'
  BY <1>8 DEF LaunchBatch, Goto
<1>9. ASSUME NEW p \in Pids, NEW g \in Pids, LaunchPopen(p, g) PROVE MainInv'
  BY <1>9 DEF LaunchPopen, Free, WindowArgument
<1>10. ASSUME NEW p \in Pids, LaunchPid(p) PROVE MainInv'
  BY <1>10 DEF LaunchPid, Goto
<1>11. ASSUME NEW p \in Pids, LaunchUnlock(p) PROVE MainInv'
  BY <1>11 DEF LaunchUnlock, Goto, Gone
<1>12. ASSUME NEW p \in Pids, GateStart(p) PROVE MainInv'
  BY <1>12 DEF GateStart, Goto, Gone
<1>13. ASSUME NEW p \in Pids, GateAdmit(p) PROVE MainInv'
  BY <1>13 DEF GateAdmit, Goto
<1>14. ASSUME NEW p \in Pids, GateTake(p) PROVE MainInv'
  BY <1>14 DEF GateTake, Goto
<1>15. ASSUME NEW p \in Pids, GateUnlink(p) PROVE MainInv'
  BY <1>15 DEF GateUnlink, Goto
<1>16. ASSUME NEW p \in Pids, NEW s \in Specs, GateDrop(p, s) PROVE MainInv'
  BY <1>16 DEF GateDrop, Outcome
<1>17. ASSUME NEW p \in Pids, NEW s \in Specs, GateDefer(p, s) PROVE MainInv'
  BY <1>17 DEF GateDefer
<1>18. ASSUME NEW p \in Pids, GateOpen(p) PROVE MainInv'
  BY <1>18 DEF GateOpen, Goto
<1>19. ASSUME NEW p \in Pids, GateNothing(p) PROVE MainInv'
  BY <1>19 DEF GateNothing, Return, Goto
<1>20. ASSUME NEW p \in Pids, GateGreen(p) PROVE MainInv'
  BY <1>20 DEF GateGreen, Goto
<1>21. ASSUME NEW p \in Pids, GateRed(p) PROVE MainInv'
  BY <1>21 DEF GateRed, Goto
<1>22. ASSUME NEW p \in Pids, NEW s \in Specs, GateCharge(p, s) PROVE MainInv'
  BY <1>22 DEF GateCharge, Outcome
<1>23. ASSUME NEW p \in Pids, GateRemainder(p) PROVE MainInv'
  BY <1>23 DEF GateRemainder, Return, Goto
<1>24. ASSUME NEW p \in Pids, GateEscalate(p) PROVE MainInv'
  BY <1>24 DEF GateEscalate, Return, Goto
<1>25. ASSUME NEW p \in Pids, GateAdvance(p) PROVE MainInv'
  <2>1. AdvanceIsGreen'
    BY <1>25 DEF GateAdvance, Return, Goto
  <2>2. CASE BaseHolds(p)
    <3>1. main.merged \subseteq main'.merged /\ live[p] \subseteq main'.merged
      BY <2>2, <1>25 DEF GateAdvance, BaseHolds
    <3>2. /\ pc' = [pc EXCEPT ![p] = "g_ship"]
          /\ todo' = [todo EXCEPT ![p] = live[p]] /\ shipped' = shipped
      BY <2>2, <1>25 DEF GateAdvance, Goto, Kept
    <3>3. AnnouncedOnMain' /\ ShippedOnMain'
      BY <3>1, <3>2
    <3>4. QED
      BY <2>1, <3>3
  <2>3. CASE ~BaseHolds(p)
    <3>1. /\ pc' = [pc EXCEPT ![p] = "g_clean"]
          /\ todo' = [todo EXCEPT ![p] = {}]
          /\ shipped' = shipped /\ main' = main
      BY <2>3, <1>25 DEF GateAdvance, Return, Goto
    <3>2. QED
      BY <2>1, <3>1
  <2>4. QED
    BY <2>2, <2>3
<1>26. ASSUME NEW p \in Pids, NEW s \in Specs, GateShip(p, s) PROVE MainInv'
  BY <1>26 DEF GateShip
<1>27. ASSUME NEW p \in Pids, GateVerified(p) PROVE MainInv'
  BY <1>27 DEF GateVerified, Return, Goto
<1>28. ASSUME NEW p \in Pids, GateRelease(p) PROVE MainInv'
  BY <1>28 DEF GateRelease, Goto, NoSlot
<1>29. ASSUME NEW p \in Pids, GateClose(p) PROVE MainInv'
  BY <1>29 DEF GateClose, Goto, Gone
<1>30. ASSUME NEW p \in Pids, NEW w \in Windows, DefaultStart(p, w) PROVE MainInv'
  BY <1>30 DEF DefaultStart, TickReads, Goto
<1>31. ASSUME NEW p \in Pids, NEW s \in Specs, DefaultDrop(p, s) PROVE MainInv'
  BY <1>31 DEF DefaultDrop, Goto
<1>32. ASSUME NEW p \in Pids, NEW s \in Specs, DefaultAdd(p, s) PROVE MainInv'
  BY <1>32 DEF DefaultAdd, Goto
<1>33. ASSUME NEW p \in Pids, DefaultClose(p) PROVE MainInv'
  BY <1>33 DEF DefaultClose, Goto
<1>34. ASSUME NEW p \in Pids, TickStart(p) PROVE MainInv'
  BY <1>34 DEF TickStart, TickReads, Goto
<1>35. ASSUME NEW p \in Pids, DefaultDone(p) PROVE MainInv'
  BY <1>35 DEF DefaultDone, Goto
<1>36. ASSUME NEW p \in Pids, NEW s \in Specs, TickPrune(p, s) PROVE MainInv'
  BY <1>36 DEF TickPrune
<1>37. ASSUME NEW p \in Pids, NEW s \in Specs, TickAdd(p, s) PROVE MainInv'
  BY <1>37 DEF TickAdd
<1>38. ASSUME NEW p \in Pids, TickEnd(p) PROVE MainInv'
  BY <1>38 DEF TickEnd, Gone, Goto
<1>39. ASSUME NEW s \in Specs, Rebuild(s) PROVE MainInv'
  BY <1>39 DEF Rebuild, Goto
<1>40. ASSUME External PROVE MainInv'
  BY <1>40 DEF External, Goto
<1>41. ASSUME NEW p \in Pids, Crash(p) PROVE MainInv'
  BY <1>41 DEF Crash, Goto, Gone
<1>42. ASSUME NEW p \in Pids, Recycle(p) PROVE MainInv'
  BY <1>42 DEF Recycle, Goto
<1>43. ASSUME NEW p \in Pids, OtherExit(p) PROVE MainInv'
  BY <1>43 DEF OtherExit, Goto
<1>44. ASSUME NEW p \in Pids, NEW s \in Specs, GateAlone(p, s) PROVE MainInv'
  BY <1>44 DEF GateAlone, Outcome
<1>45. ASSUME NEW p \in Pids, GateQuit(p) PROVE MainInv'
  BY <1>45 DEF GateQuit, Return, Goto
<1>46. QED
  BY <1>1, <1>2, <1>3, <1>4, <1>5, <1>6, <1>7, <1>8, <1>9, <1>10, <1>11, <1>12, <1>13, <1>14,
     <1>15, <1>16, <1>17, <1>18, <1>19, <1>20, <1>21, <1>22, <1>23, <1>24, <1>25, <1>26, <1>27, <1>28,
     <1>29, <1>30, <1>31, <1>32, <1>33, <1>34, <1>35, <1>36, <1>37, <1>38, <1>39, <1>40, <1>41, <1>42,
     <1>43, <1>44, <1>45
  DEF Next, LauncherStep, Gate, TickStep, Environment

-----------------------------------------------------------------------------
(* The default *)

-----------------------------------------------------------------------------
(* One window at a time *)

\* Only an escalated window is closed by a default, and the chain lock keeps the
\* gates out meanwhile.
LEMMA DefaultsStep ==
    TypeInv /\ LockInv /\ DefaultsEscalated /\ Next => DefaultsEscalated'
<1> SUFFICES ASSUME TypeInv, LockInv, DefaultsEscalated, Next PROVE DefaultsEscalated'
  OBVIOUS
<1>0. /\ pc \in [Pids -> PC] /\ wid \in [Pids -> Windows \cup {NoWindow}]
      /\ win \in [Windows -> WinType] /\ HasWindow /\ ChainIsMine
  BY DEF TypeInv, TypeOK, LocalTypeOK, LedgerTypeOK, LockInv
<1> USE <1>0 DEF DefaultsEscalated, HasWindow, ChainIsMine
<1> USE DEF PC, LauncherPC, SlotPC, AcquirePC, GatePC, DefaultPC, TickPC, ChainPC
<1> USE DEF ledger, git, files, locals, snap, bounds
<1>1. ASSUME NEW p \in Pids, LaunchStart(p) PROVE DefaultsEscalated'
  BY <1>1 DEF LaunchStart, Goto, RunLockFree, Alive
<1>2. ASSUME NEW p \in Pids, LaunchRead(p) PROVE DefaultsEscalated'
  BY <1>2 DEF LaunchRead, Goto
<1>3. ASSUME NEW p \in Pids, NEW s \in Specs, LaunchPrune(p, s) PROVE DefaultsEscalated'
  BY <1>3 DEF LaunchPrune, Goto
<1>4. ASSUME NEW p \in Pids, LaunchProbe(p) PROVE DefaultsEscalated'
  BY <1>4 DEF LaunchProbe, Goto, ChainFree
<1>5. ASSUME NEW p \in Pids, LaunchAdmit(p) PROVE DefaultsEscalated'
  BY <1>5 DEF LaunchAdmit, Goto
<1>6. ASSUME NEW p \in Pids, LaunchCheck(p) PROVE DefaultsEscalated'
  BY <1>6 DEF LaunchCheck, Goto
<1>7. ASSUME NEW p \in Pids, LaunchSelect(p) PROVE DefaultsEscalated'
  BY <1>7 DEF LaunchSelect, Goto
<1>8. ASSUME NEW p \in Pids, NEW w \in Windows, LaunchBatch(p, w) PROVE DefaultsEscalated'
  BY <1>8 DEF LaunchBatch, Goto
<1>9. ASSUME NEW p \in Pids, NEW g \in Pids, LaunchPopen(p, g) PROVE DefaultsEscalated'
  BY <1>9 DEF LaunchPopen, Free, WindowArgument
<1>10. ASSUME NEW p \in Pids, LaunchPid(p) PROVE DefaultsEscalated'
  BY <1>10 DEF LaunchPid, Goto
<1>11. ASSUME NEW p \in Pids, LaunchUnlock(p) PROVE DefaultsEscalated'
  BY <1>11 DEF LaunchUnlock, Goto, Gone
<1>12. ASSUME NEW p \in Pids, GateStart(p) PROVE DefaultsEscalated'
  BY <1>12 DEF GateStart, Goto, Gone, ChainFree, SlotAfterRefusal
<1>13. ASSUME NEW p \in Pids, GateAdmit(p) PROVE DefaultsEscalated'
  BY <1>13 DEF GateAdmit, Goto
<1>14. ASSUME NEW p \in Pids, GateTake(p) PROVE DefaultsEscalated'
  BY <1>14 DEF GateTake, Goto
<1>15. ASSUME NEW p \in Pids, GateUnlink(p) PROVE DefaultsEscalated'
  BY <1>15 DEF GateUnlink, Goto
<1>16. ASSUME NEW p \in Pids, NEW s \in Specs, GateDrop(p, s) PROVE DefaultsEscalated'
  BY <1>16 DEF GateDrop, Outcome
<1>17. ASSUME NEW p \in Pids, NEW s \in Specs, GateDefer(p, s) PROVE DefaultsEscalated'
  BY <1>17 DEF GateDefer, Goto
<1>18. ASSUME NEW p \in Pids, GateOpen(p) PROVE DefaultsEscalated'
  BY <1>18 DEF GateOpen, Goto
<1>19. ASSUME NEW p \in Pids, GateNothing(p) PROVE DefaultsEscalated'
  BY <1>19 DEF GateNothing, Return, Goto
<1>20. ASSUME NEW p \in Pids, GateGreen(p) PROVE DefaultsEscalated'
  BY <1>20 DEF GateGreen, Goto
<1>21. ASSUME NEW p \in Pids, GateRed(p) PROVE DefaultsEscalated'
  BY <1>21 DEF GateRed, Goto
<1>22. ASSUME NEW p \in Pids, NEW s \in Specs, GateCharge(p, s) PROVE DefaultsEscalated'
  BY <1>22 DEF GateCharge, Outcome
<1>23. ASSUME NEW p \in Pids, GateRemainder(p) PROVE DefaultsEscalated'
  BY <1>23 DEF GateRemainder, Return, Goto
<1>24. ASSUME NEW p \in Pids, GateEscalate(p) PROVE DefaultsEscalated'
  BY <1>24 DEF GateEscalate, Return, Goto
<1>25. ASSUME NEW p \in Pids, GateAdvance(p) PROVE DefaultsEscalated'
  BY <1>25 DEF GateAdvance, Return, Goto
<1>26. ASSUME NEW p \in Pids, NEW s \in Specs, GateShip(p, s) PROVE DefaultsEscalated'
  BY <1>26 DEF GateShip, Goto
<1>27. ASSUME NEW p \in Pids, GateVerified(p) PROVE DefaultsEscalated'
  BY <1>27 DEF GateVerified, Return, Goto
<1>28. ASSUME NEW p \in Pids, GateRelease(p) PROVE DefaultsEscalated'
  BY <1>28 DEF GateRelease, Goto, NoSlot
<1>29. ASSUME NEW p \in Pids, GateClose(p) PROVE DefaultsEscalated'
  BY <1>29 DEF GateClose, Goto, Gone
<1>30. ASSUME NEW p \in Pids, NEW w \in Windows, DefaultStart(p, w) PROVE DefaultsEscalated'
  BY <1>30 DEF DefaultStart, TickReads, Goto, ChainFree
<1>31. ASSUME NEW p \in Pids, NEW s \in Specs, DefaultDrop(p, s) PROVE DefaultsEscalated'
  BY <1>31 DEF DefaultDrop, Goto
<1>32. ASSUME NEW p \in Pids, NEW s \in Specs, DefaultAdd(p, s) PROVE DefaultsEscalated'
  BY <1>32 DEF DefaultAdd, Goto
<1>33. ASSUME NEW p \in Pids, DefaultClose(p) PROVE DefaultsEscalated'
  BY <1>33 DEF DefaultClose, Goto
<1>34. ASSUME NEW p \in Pids, TickStart(p) PROVE DefaultsEscalated'
  BY <1>34 DEF TickStart, TickReads, Goto
<1>35. ASSUME NEW p \in Pids, DefaultDone(p) PROVE DefaultsEscalated'
  BY <1>35 DEF DefaultDone, Goto
<1>36. ASSUME NEW p \in Pids, NEW s \in Specs, TickPrune(p, s) PROVE DefaultsEscalated'
  BY <1>36 DEF TickPrune
<1>37. ASSUME NEW p \in Pids, NEW s \in Specs, TickAdd(p, s) PROVE DefaultsEscalated'
  BY <1>37 DEF TickAdd
<1>38. ASSUME NEW p \in Pids, TickEnd(p) PROVE DefaultsEscalated'
  BY <1>38 DEF TickEnd, Gone, Goto
<1>39. ASSUME NEW s \in Specs, Rebuild(s) PROVE DefaultsEscalated'
  BY <1>39 DEF Rebuild, Goto
<1>40. ASSUME External PROVE DefaultsEscalated'
  BY <1>40 DEF External, Goto
<1>41. ASSUME NEW p \in Pids, Crash(p) PROVE DefaultsEscalated'
  BY <1>41 DEF Crash, Goto, Gone, ChainWithout
<1>42. ASSUME NEW p \in Pids, Recycle(p) PROVE DefaultsEscalated'
  BY <1>42 DEF Recycle, Goto
<1>43. ASSUME NEW p \in Pids, OtherExit(p) PROVE DefaultsEscalated'
  BY <1>43 DEF OtherExit, Goto
<1>44. ASSUME NEW p \in Pids, NEW s \in Specs, GateAlone(p, s) PROVE DefaultsEscalated'
  BY <1>44 DEF GateAlone, Outcome
<1>45. ASSUME NEW p \in Pids, GateQuit(p) PROVE DefaultsEscalated'
  BY <1>45 DEF GateQuit, Return, Goto
<1>46. QED
  BY <1>1, <1>2, <1>3, <1>4, <1>5, <1>6, <1>7, <1>8, <1>9, <1>10, <1>11, <1>12, <1>13, <1>14,
     <1>15, <1>16, <1>17, <1>18, <1>19, <1>20, <1>21, <1>22, <1>23, <1>24, <1>25, <1>26, <1>27, <1>28,
     <1>29, <1>30, <1>31, <1>32, <1>33, <1>34, <1>35, <1>36, <1>37, <1>38, <1>39, <1>40, <1>41, <1>42,
     <1>43, <1>44, <1>45
  DEF Next, LauncherStep, Gate, TickStep, Environment




\* Every action leaves what a default has still to do undecided.
LEMMA PendingStep == TypeInv /\ LockInv /\ PendingUndecided /\ Next => PendingUndecided'
<1> SUFFICES ASSUME TypeInv, LockInv, PendingUndecided, Next PROVE PendingUndecided'
  OBVIOUS
<1>0. /\ pc \in [Pids -> PC] /\ live \in [Pids -> SUBSET Specs]
      /\ todo \in [Pids -> SUBSET Specs] /\ wid \in [Pids -> Windows \cup {NoWindow}]
      /\ ChainIsMine
  BY DEF TypeInv, TypeOK, LocalTypeOK, LockInv
<1> USE <1>0 DEF PendingUndecided, ChainIsMine, ChainPC
<1> USE DEF PC, LauncherPC, SlotPC, AcquirePC, GatePC, DefaultPC, TickPC
<1> USE DEF ledger, git, files, locals, snap, bounds
<1>1. ASSUME NEW p \in Pids, LaunchStart(p) PROVE PendingUndecided'
  BY <1>1 DEF LaunchStart, Goto
<1>2. ASSUME NEW p \in Pids, LaunchRead(p) PROVE PendingUndecided'
  BY <1>2 DEF LaunchRead, Goto
<1>3. ASSUME NEW p \in Pids, NEW s \in Specs, LaunchPrune(p, s) PROVE PendingUndecided'
  BY <1>3 DEF LaunchPrune, Goto
<1>4. ASSUME NEW p \in Pids, LaunchProbe(p) PROVE PendingUndecided'
  BY <1>4 DEF LaunchProbe, Goto
<1>5. ASSUME NEW p \in Pids, LaunchAdmit(p) PROVE PendingUndecided'
  BY <1>5 DEF LaunchAdmit, Goto
<1>6. ASSUME NEW p \in Pids, LaunchCheck(p) PROVE PendingUndecided'
  BY <1>6 DEF LaunchCheck, Goto
<1>7. ASSUME NEW p \in Pids, LaunchSelect(p) PROVE PendingUndecided'
  BY <1>7 DEF LaunchSelect, Goto
<1>8. ASSUME NEW p \in Pids, NEW w \in Windows, LaunchBatch(p, w) PROVE PendingUndecided'
  BY <1>8 DEF LaunchBatch, Goto
<1>9. ASSUME NEW p \in Pids, NEW g \in Pids, LaunchPopen(p, g) PROVE PendingUndecided'
  BY <1>9 DEF LaunchPopen, Free, WindowArgument
<1>10. ASSUME NEW p \in Pids, LaunchPid(p) PROVE PendingUndecided'
  BY <1>10 DEF LaunchPid, Goto
<1>11. ASSUME NEW p \in Pids, LaunchUnlock(p) PROVE PendingUndecided'
  BY <1>11 DEF LaunchUnlock, Goto, Gone
<1>12. ASSUME NEW p \in Pids, GateStart(p) PROVE PendingUndecided'
  BY <1>12 DEF GateStart, Goto, Gone
<1>13. ASSUME NEW p \in Pids, GateAdmit(p) PROVE PendingUndecided'
  BY <1>13 DEF GateAdmit, Goto
<1>14. ASSUME NEW p \in Pids, GateTake(p) PROVE PendingUndecided'
  BY <1>14 DEF GateTake, Goto
<1>15. ASSUME NEW p \in Pids, GateUnlink(p) PROVE PendingUndecided'
  BY <1>15 DEF GateUnlink, Goto
<1>16. ASSUME NEW p \in Pids, NEW s \in Specs, GateDrop(p, s) PROVE PendingUndecided'
  BY <1>16 DEF GateDrop, Outcome
<1>17. ASSUME NEW p \in Pids, NEW s \in Specs, GateDefer(p, s) PROVE PendingUndecided'
  BY <1>17 DEF GateDefer
<1>18. ASSUME NEW p \in Pids, GateOpen(p) PROVE PendingUndecided'
  BY <1>18 DEF GateOpen, Goto
<1>19. ASSUME NEW p \in Pids, GateNothing(p) PROVE PendingUndecided'
  BY <1>19 DEF GateNothing, Return, Goto
<1>20. ASSUME NEW p \in Pids, GateGreen(p) PROVE PendingUndecided'
  BY <1>20 DEF GateGreen, Goto
<1>21. ASSUME NEW p \in Pids, GateRed(p) PROVE PendingUndecided'
  BY <1>21 DEF GateRed, Goto
<1>22. ASSUME NEW p \in Pids, NEW s \in Specs, GateCharge(p, s) PROVE PendingUndecided'
  BY <1>22 DEF GateCharge, Outcome
<1>23. ASSUME NEW p \in Pids, GateRemainder(p) PROVE PendingUndecided'
  BY <1>23 DEF GateRemainder, Return, Goto
<1>24. ASSUME NEW p \in Pids, GateEscalate(p) PROVE PendingUndecided'
  BY <1>24 DEF GateEscalate, Return, Goto
<1>25. ASSUME NEW p \in Pids, GateAdvance(p) PROVE PendingUndecided'
  BY <1>25 DEF GateAdvance, Return, Goto
<1>26. ASSUME NEW p \in Pids, NEW s \in Specs, GateShip(p, s) PROVE PendingUndecided'
  BY <1>26 DEF GateShip
<1>27. ASSUME NEW p \in Pids, GateVerified(p) PROVE PendingUndecided'
  BY <1>27 DEF GateVerified, Return, Goto
<1>28. ASSUME NEW p \in Pids, GateRelease(p) PROVE PendingUndecided'
  BY <1>28 DEF GateRelease, Goto, NoSlot
<1>29. ASSUME NEW p \in Pids, GateClose(p) PROVE PendingUndecided'
  BY <1>29 DEF GateClose, Goto, Gone
<1>30. ASSUME NEW p \in Pids, NEW w \in Windows, DefaultStart(p, w) PROVE PendingUndecided'
  BY <1>30 DEF DefaultStart, TickReads, Undecided, Goto
<1>31. ASSUME NEW p \in Pids, NEW s \in Specs, DefaultDrop(p, s) PROVE PendingUndecided'
  BY <1>31 DEF DefaultDrop, Goto
<1>32. ASSUME NEW p \in Pids, NEW s \in Specs, DefaultAdd(p, s) PROVE PendingUndecided'
  BY <1>32 DEF DefaultAdd, Goto
<1>33. ASSUME NEW p \in Pids, DefaultClose(p) PROVE PendingUndecided'
  BY <1>33 DEF DefaultClose, Goto
<1>34. ASSUME NEW p \in Pids, TickStart(p) PROVE PendingUndecided'
  BY <1>34 DEF TickStart, TickReads, Goto
<1>35. ASSUME NEW p \in Pids, DefaultDone(p) PROVE PendingUndecided'
  BY <1>35 DEF DefaultDone, Goto
<1>36. ASSUME NEW p \in Pids, NEW s \in Specs, TickPrune(p, s) PROVE PendingUndecided'
  BY <1>36 DEF TickPrune
<1>37. ASSUME NEW p \in Pids, NEW s \in Specs, TickAdd(p, s) PROVE PendingUndecided'
  BY <1>37 DEF TickAdd
<1>38. ASSUME NEW p \in Pids, TickEnd(p) PROVE PendingUndecided'
  BY <1>38 DEF TickEnd, Gone, Goto
<1>39. ASSUME NEW s \in Specs, Rebuild(s) PROVE PendingUndecided'
  BY <1>39 DEF Rebuild, Goto
<1>40. ASSUME External PROVE PendingUndecided'
  BY <1>40 DEF External, Goto
<1>41. ASSUME NEW p \in Pids, Crash(p) PROVE PendingUndecided'
  BY <1>41 DEF Crash, Goto, Gone
<1>42. ASSUME NEW p \in Pids, Recycle(p) PROVE PendingUndecided'
  BY <1>42 DEF Recycle, Goto
<1>43. ASSUME NEW p \in Pids, OtherExit(p) PROVE PendingUndecided'
  BY <1>43 DEF OtherExit, Goto
<1>44. ASSUME NEW p \in Pids, NEW s \in Specs, GateAlone(p, s) PROVE PendingUndecided'
  BY <1>44 DEF GateAlone, Outcome
<1>45. ASSUME NEW p \in Pids, GateQuit(p) PROVE PendingUndecided'
  BY <1>45 DEF GateQuit, Return, Goto
<1>46. QED
  BY <1>1, <1>2, <1>3, <1>4, <1>5, <1>6, <1>7, <1>8, <1>9, <1>10, <1>11, <1>12, <1>13, <1>14,
     <1>15, <1>16, <1>17, <1>18, <1>19, <1>20, <1>21, <1>22, <1>23, <1>24, <1>25, <1>26, <1>27, <1>28,
     <1>29, <1>30, <1>31, <1>32, <1>33, <1>34, <1>35, <1>36, <1>37, <1>38, <1>39, <1>40, <1>41, <1>42,
     <1>43, <1>44, <1>45
  DEF Next, LauncherStep, Gate, TickStep, Environment

LEMMA SoleStep ==
    TypeInv /\ LockInv /\ SoleInv /\ Next => SoleInv'
<1> SUFFICES ASSUME TypeInv, LockInv, SoleInv, Next PROVE SoleInv'
  OBVIOUS
<1>0. /\ pc \in [Pids -> PC] /\ wid \in [Pids -> Windows \cup {NoWindow}]
      /\ win \in [Windows -> WinType] /\ launch \in [Windows -> Pids \cup {NoPid}]
      /\ child \in [Pids -> Pids \cup {NoPid}] /\ crashes \in Nat
      /\ HasWindow /\ ChainIsMine /\ RunLockIsMine /\ NoPid \notin Pids
  BY NullAssumption, BoundAssumption
     DEF TypeInv, TypeOK, LocalTypeOK, LedgerTypeOK, FileTypeOK, BoundTypeOK, LockInv
<1>a. crashes = 0 => Sole
  BY DEF SoleInv
<1>b. DefaultsEscalated /\ DefaultsEscalated'
  BY DefaultsStep DEF SoleInv
<1> SUFFICES ASSUME crashes' = 0 PROVE Sole'
  BY <1>b DEF SoleInv
<1> USE <1>0, <1>a, <1>b DEF HasWindow, ChainIsMine, RunLockIsMine, Sole, DefaultsEscalated
<1> USE DEF OneGate, AdmittedAlone, BatchedFirst, StartReserved, Reserved, AdmittedPC
<1> USE DEF PC, LauncherPC, SlotPC, AcquirePC, GatePC, DefaultPC, TickPC, ChainPC
<1> USE DEF ledger, git, files, locals, snap, bounds
<1>1. ASSUME NEW p \in Pids, LaunchStart(p) PROVE Sole'
  BY <1>1 DEF LaunchStart, Goto, RunLockFree, Alive
<1>2. ASSUME NEW p \in Pids, LaunchRead(p) PROVE Sole'
  BY <1>2 DEF LaunchRead, Goto
<1>3. ASSUME NEW p \in Pids, NEW s \in Specs, LaunchPrune(p, s) PROVE Sole'
  BY <1>3 DEF LaunchPrune, Goto
<1>4. ASSUME NEW p \in Pids, LaunchProbe(p) PROVE Sole'
  BY <1>4 DEF LaunchProbe, Goto, ChainFree
<1>5. ASSUME NEW p \in Pids, LaunchAdmit(p) PROVE Sole'
  <2>a. /\ pc[p] = "l_probe" /\ bounds' = bounds
        /\ runPid' = runPid /\ win' = win /\ wid' = wid /\ child' = child
    BY <1>5 DEF LaunchAdmit
  <2>b. Sole
    BY <2>a
  <2>c. \A w \in Windows : Alive(launch[w]) => launch'[w] = launch[w]
    BY <1>5 DEF LaunchAdmit
  <2>d. \/ pc' = [pc EXCEPT ![p] = "l_unlock"]
        \/ pc' = [pc EXCEPT ![p] = "l_check"] /\ Launching = {}
    BY <1>5 DEF LaunchAdmit, Goto
  <2>1. /\ pc[p] = "l_probe" /\ Sole
        /\ runPid' = runPid /\ win' = win /\ wid' = wid /\ child' = child
        /\ \A w \in Windows : Alive(launch[w]) => launch'[w] = launch[w]
    BY <2>a, <2>b, <2>c
  <2>2. \A q \in Pids : pc[q] # "l_pid"
    BY <2>1
  <2>3. ASSUME NEW g \in Pids, pc[g] = "g_start"
        PROVE  /\ wid[g] \in Windows /\ win[wid[g]] = "batched"
               /\ launch[wid[g]] = g /\ Alive(launch[wid[g]])
    BY <2>1, <2>2, <2>3 DEF Alive
  <2>4. CASE pc' = [pc EXCEPT ![p] = "l_unlock"]
    BY <2>1, <2>2, <2>3, <2>4
  <2>5. CASE pc' = [pc EXCEPT ![p] = "l_check"] /\ Launching = {}
    <3>1. \A g \in Pids : pc[g] # "g_start"
      BY <2>3, <2>5 DEF Launching
    <3>2. \A g \in Pids : pc[g] \notin GatePC
      BY <2>1, <3>1
    <3>3. QED
      BY <2>1, <2>5, <3>2
  <2>6. QED
    BY <2>d, <2>4, <2>5
<1>6. ASSUME NEW p \in Pids, LaunchCheck(p) PROVE Sole'
  BY <1>6 DEF LaunchCheck, Goto
<1>7. ASSUME NEW p \in Pids, LaunchSelect(p) PROVE Sole'
  BY <1>7 DEF LaunchSelect, Goto
<1>8. ASSUME NEW p \in Pids, NEW w \in Windows, LaunchBatch(p, w) PROVE Sole'
  BY <1>8 DEF LaunchBatch, Goto
<1>9. ASSUME NEW p \in Pids, NEW g \in Pids, LaunchPopen(p, g) PROVE Sole'
  BY <1>9 DEF LaunchPopen, Free, WindowArgument
<1>10. ASSUME NEW p \in Pids, LaunchPid(p) PROVE Sole'
  BY <1>10 DEF LaunchPid, Goto
<1>11. ASSUME NEW p \in Pids, LaunchUnlock(p) PROVE Sole'
  BY <1>11 DEF LaunchUnlock, Goto, Gone
<1>12. ASSUME NEW p \in Pids, GateStart(p) PROVE Sole'
  BY <1>12 DEF GateStart, Goto, Gone, ChainFree, SlotAfterRefusal
<1>13. ASSUME NEW p \in Pids, GateAdmit(p) PROVE Sole'
  BY <1>13 DEF GateAdmit, Goto
<1>14. ASSUME NEW p \in Pids, GateTake(p) PROVE Sole'
  BY <1>14 DEF GateTake, Goto
<1>15. ASSUME NEW p \in Pids, GateUnlink(p) PROVE Sole'
  BY <1>15 DEF GateUnlink, Goto
<1>16. ASSUME NEW p \in Pids, NEW s \in Specs, GateDrop(p, s) PROVE Sole'
  BY <1>16 DEF GateDrop, Outcome
<1>17. ASSUME NEW p \in Pids, NEW s \in Specs, GateDefer(p, s) PROVE Sole'
  BY <1>17 DEF GateDefer, Goto
<1>18. ASSUME NEW p \in Pids, GateOpen(p) PROVE Sole'
  BY <1>18 DEF GateOpen, Goto
<1>19. ASSUME NEW p \in Pids, GateNothing(p) PROVE Sole'
  BY <1>19 DEF GateNothing, Return, Goto
<1>20. ASSUME NEW p \in Pids, GateGreen(p) PROVE Sole'
  BY <1>20 DEF GateGreen, Goto
<1>21. ASSUME NEW p \in Pids, GateRed(p) PROVE Sole'
  BY <1>21 DEF GateRed, Goto
<1>22. ASSUME NEW p \in Pids, NEW s \in Specs, GateCharge(p, s) PROVE Sole'
  BY <1>22 DEF GateCharge, Outcome
<1>23. ASSUME NEW p \in Pids, GateRemainder(p) PROVE Sole'
  BY <1>23 DEF GateRemainder, Return, Goto
<1>24. ASSUME NEW p \in Pids, GateEscalate(p) PROVE Sole'
  BY <1>24 DEF GateEscalate, Return, Goto
<1>25. ASSUME NEW p \in Pids, GateAdvance(p) PROVE Sole'
  BY <1>25 DEF GateAdvance, Return, Goto
<1>26. ASSUME NEW p \in Pids, NEW s \in Specs, GateShip(p, s) PROVE Sole'
  BY <1>26 DEF GateShip, Goto
<1>27. ASSUME NEW p \in Pids, GateVerified(p) PROVE Sole'
  BY <1>27 DEF GateVerified, Return, Goto
<1>28. ASSUME NEW p \in Pids, GateRelease(p) PROVE Sole'
  BY <1>28 DEF GateRelease, Goto, NoSlot
<1>29. ASSUME NEW p \in Pids, GateClose(p) PROVE Sole'
  BY <1>29 DEF GateClose, Goto, Gone
<1>30. ASSUME NEW p \in Pids, NEW w \in Windows, DefaultStart(p, w) PROVE Sole'
  BY <1>30 DEF DefaultStart, TickReads, Goto, ChainFree
<1>31. ASSUME NEW p \in Pids, NEW s \in Specs, DefaultDrop(p, s) PROVE Sole'
  BY <1>31 DEF DefaultDrop, Goto
<1>32. ASSUME NEW p \in Pids, NEW s \in Specs, DefaultAdd(p, s) PROVE Sole'
  BY <1>32 DEF DefaultAdd, Goto
<1>33. ASSUME NEW p \in Pids, DefaultClose(p) PROVE Sole'
  BY <1>33 DEF DefaultClose, Goto
<1>34. ASSUME NEW p \in Pids, TickStart(p) PROVE Sole'
  BY <1>34 DEF TickStart, TickReads, Goto
<1>35. ASSUME NEW p \in Pids, DefaultDone(p) PROVE Sole'
  BY <1>35 DEF DefaultDone, Goto
<1>36. ASSUME NEW p \in Pids, NEW s \in Specs, TickPrune(p, s) PROVE Sole'
  BY <1>36 DEF TickPrune
<1>37. ASSUME NEW p \in Pids, NEW s \in Specs, TickAdd(p, s) PROVE Sole'
  BY <1>37 DEF TickAdd
<1>38. ASSUME NEW p \in Pids, TickEnd(p) PROVE Sole'
  BY <1>38 DEF TickEnd, Gone, Goto
<1>39. ASSUME NEW s \in Specs, Rebuild(s) PROVE Sole'
  BY <1>39 DEF Rebuild, Goto
<1>40. ASSUME External PROVE Sole'
  BY <1>40 DEF External, Goto
<1>41. ASSUME NEW p \in Pids, Crash(p) PROVE Sole'
  BY <1>41 DEF Crash, Goto, Gone, ChainWithout
<1>42. ASSUME NEW p \in Pids, Recycle(p) PROVE Sole'
  BY <1>42 DEF Recycle, Goto
<1>43. ASSUME NEW p \in Pids, OtherExit(p) PROVE Sole'
  BY <1>43 DEF OtherExit, Goto
<1>44. ASSUME NEW p \in Pids, NEW s \in Specs, GateAlone(p, s) PROVE Sole'
  BY <1>44 DEF GateAlone, Outcome
<1>45. ASSUME NEW p \in Pids, GateQuit(p) PROVE Sole'
  BY <1>45 DEF GateQuit, Return, Goto
<1>46. QED
  BY <1>1, <1>2, <1>3, <1>4, <1>5, <1>6, <1>7, <1>8, <1>9, <1>10, <1>11, <1>12, <1>13, <1>14,
     <1>15, <1>16, <1>17, <1>18, <1>19, <1>20, <1>21, <1>22, <1>23, <1>24, <1>25, <1>26, <1>27, <1>28,
     <1>29, <1>30, <1>31, <1>32, <1>33, <1>34, <1>35, <1>36, <1>37, <1>38, <1>39, <1>40, <1>41, <1>42,
     <1>43, <1>44, <1>45
  DEF Next, LauncherStep, Gate, TickStep, Environment

-----------------------------------------------------------------------------
(* The theorems *)

LEMMA InitInv == Init => IndInv
<1> SUFFICES ASSUME Init PROVE IndInv
  OBVIOUS
<1> USE BoundAssumption DEF Init, EmptyCommit, NoSlot, NoRow
<1>1. TypeOK
  BY DEF TypeOK, LedgerTypeOK, GitTypeOK, FileTypeOK, LocalTypeOK, BoundTypeOK,
         RowType, NeedType, WinType, Commit, PC
<1>2. HasWindow /\ ExtCounted
  BY DEF HasWindow, ExtCounted, GatePC, AcquirePC, SlotPC, DefaultPC
<1>3. LockInv
  BY DEF LockInv, ChainIsMine, SlotIsMine, RunLockIsMine, ChainPC, AcquirePC, SlotPC,
         DefaultPC, LauncherPC
<1>4. MainInv
  BY DEF MainInv, AnnouncedOnMain, AdvanceIsGreen, ShippedOnMain
<1>5. PendingUndecided
  BY DEF PendingUndecided
<1>6. SoleInv
  BY DEF SoleInv, Sole, DefaultsEscalated, OneGate, AdmittedAlone, BatchedFirst,
         StartReserved, DefaultPC, GatePC, AcquirePC, SlotPC, AdmittedPC
<1>7. QED
  BY <1>1, <1>2, <1>3, <1>4, <1>5, <1>6 DEF IndInv, TypeInv

LEMMA StepInv == IndInv /\ [Next]_vars => IndInv'
<1> SUFFICES ASSUME IndInv, [Next]_vars PROVE IndInv'
  OBVIOUS
<1>1. CASE Next
  BY <1>1, TypeStep, LockStep, MainStep, PendingStep, SoleStep DEF IndInv
<1>2. CASE UNCHANGED vars
  <2> USE <1>2 DEF vars, ledger, git, files, locals, snap, bounds
  <2>1. TypeInv'
    BY DEF IndInv, TypeInv, TypeOK, HasWindow, ExtCounted, LedgerTypeOK,
           GitTypeOK, FileTypeOK, LocalTypeOK, BoundTypeOK
  <2>2. LockInv'
    BY DEF IndInv, LockInv, ChainIsMine, SlotIsMine, RunLockIsMine
  <2>3. MainInv'
    BY DEF IndInv, MainInv, AnnouncedOnMain, AdvanceIsGreen, ShippedOnMain,
           Candidate
  <2>4. PendingUndecided'
    BY DEF IndInv, PendingUndecided
  <2>5. SoleInv'
    BY DEF IndInv, SoleInv, Sole, DefaultsEscalated, OneGate, AdmittedAlone,
           BatchedFirst, StartReserved, Reserved
  <2>6. QED
    BY <2>1, <2>2, <2>3, <2>4, <2>5 DEF IndInv
<1>3. QED
  BY <1>1, <1>2

\* Whatever is proved of a state with IndInv holds of every reachable state.
THEOREM Inductive == Safety => []IndInv
  BY InitInv, StepInv, PTL DEF Safety

\* Every variable keeps its type, for any number of specs, windows and
\* processes and any bounds.
THEOREM TypeCorrect == Safety => []TypeOK
<1>1. IndInv => TypeOK
  BY DEF IndInv, TypeInv
<1>2. QED
  BY <1>1, Inductive, PTL

\* No two processes are ever inside the chain lock: from a gate's admission
\* through its cleanup nobody else admits, advances, probes or answers an
\* escalation, whatever crashed before and whatever pids were reused.
THEOREM OneOwnerHolds == Safety => []OneOwner
<1>1. IndInv => OneOwner
  BY DEF IndInv, LockInv, ChainIsMine, OneOwner
<1>2. QED
  BY <1>1, Inductive, PTL

\* The slot file names the gate that is between its admission and its release,
\* although acquire and release are check-then-act on a plain file.
THEOREM SlotIsMineHolds == Safety => []SlotIsMine
<1>1. IndInv => SlotIsMine
  BY DEF IndInv, LockInv
<1>2. QED
  BY <1>1, Inductive, PTL

\* The run lock names its launcher until the launcher removes it, although
\* the lock of a dead launcher is taken over and pids are reused.
THEOREM RunLockIsMineHolds == Safety => []RunLockIsMine
<1>1. IndInv => RunLockIsMine
  BY DEF IndInv, LockInv
<1>2. QED
  BY <1>1, Inductive, PTL

\* Unless a process died, one window at most is outstanding, from the start of
\* its gate on: what next_candidate decides minutes before it starts a gate
\* stands, since the run lock admits one launcher, its probe of the chain lock
\* meets every gate that runs, and the pid file every gate that has only started.
THEOREM OneOutstandingHolds == Safety => []OneOutstanding
<1>1. IndInv => OneOutstanding
  BY DEF IndInv, SoleInv, Sole, OneGate, OneOutstanding
<1>2. QED
  BY <1>1, Inductive, PTL

\* No spec is ever announced as shipped that the branch does not contain.
THEOREM ShippedOnMainHolds == Safety => []ShippedOnMain
<1>1. IndInv => ShippedOnMain
  BY DEF IndInv, MainInv
<1>2. QED
  BY <1>1, Inductive, PTL

\* A default never puts back a spec that has shipped, or that its window has
\* charged, since it read the ledger: it decides and writes under the chain
\* lock, as do the gates that ship and charge.
THEOREM DefaultSparesDecidedHolds == Safety => DefaultSparesDecided
<1> DEFINE Spares ==
      \A w \in Windows, s \in Specs :
          <<w, s, "add">> \in answered' \ answered =>
              s \notin shipped /\ <<w, s>> \notin final
<1>1. ASSUME IndInv, NEW p \in Pids, NEW s \in Specs, DefaultAdd(p, s) PROVE Spares
  <2>1. s \notin shipped /\ <<wid[p], s>> \notin final
    BY <1>1 DEF DefaultAdd, IndInv, PendingUndecided
  <2>2. answered' = answered \/ answered' = answered \cup {<<wid[p], s, "add">>}
    BY <1>1 DEF DefaultAdd
  <2>3. QED
    BY <2>1, <2>2
<1>2. ASSUME NEW p \in Pids, NEW s \in Specs, DefaultDrop(p, s) PROVE Spares
  <2>1. answered' = answered \/ answered' = answered \cup {<<wid[p], s, "drop">>}
    BY <1>2 DEF DefaultDrop
  <2>2. QED
    BY <2>1
<1>3. ASSUME [Next]_vars, answered' # answered
      PROVE  \E p \in Pids, s \in Specs : DefaultAdd(p, s) \/ DefaultDrop(p, s)
  <2> USE DEF ledger
  <2>1. ASSUME NEW p \in Pids, LaunchStart(p) \/ LauncherStep(p)
        PROVE  answered' = answered
    BY <2>1 DEF LaunchStart, LauncherStep, LaunchRead, LaunchPrune, LaunchProbe,
                LaunchAdmit, LaunchCheck, LaunchSelect, LaunchBatch, LaunchPopen,
                LaunchPid, LaunchUnlock
  <2>2. ASSUME NEW p \in Pids, NEW s \in Specs,
               \/ GateDrop(p, s) \/ GateAlone(p, s) \/ GateDefer(p, s)
               \/ GateCharge(p, s) \/ GateShip(p, s)
        PROVE  answered' = answered
    BY <2>2 DEF GateDrop, GateAlone, GateDefer, GateCharge, GateShip
  <2>3. ASSUME NEW p \in Pids,
               \/ GateStart(p) \/ GateAdmit(p) \/ GateTake(p) \/ GateUnlink(p)
               \/ GateOpen(p) \/ GateNothing(p) \/ GateGreen(p) \/ GateRed(p)
               \/ GateRemainder(p) \/ GateEscalate(p) \/ GateQuit(p) \/ GateAdvance(p)
               \/ GateVerified(p) \/ GateRelease(p) \/ GateClose(p)
        PROVE  answered' = answered
    BY <2>3 DEF GateStart, GateAdmit, GateTake, GateUnlink, GateOpen, GateNothing,
                GateGreen, GateRed, GateRemainder, GateEscalate, GateQuit, GateAdvance,
                GateVerified, GateRelease, GateClose
  <2>4. ASSUME NEW p \in Pids, NEW s \in Specs,
               TickPrune(p, s) \/ TickAdd(p, s)
        PROVE  answered' = answered
    BY <2>4 DEF TickPrune, TickAdd
  <2>5. ASSUME Environment PROVE answered' = answered
    BY <2>5 DEF Environment, Rebuild, External, Crash, Recycle, OtherExit
  <2>6. ASSUME NEW p \in Pids, Gate(p) PROVE answered' = answered
    BY <2>2, <2>3, <2>6 DEF Gate
  <2>7. ASSUME NEW p \in Pids,
               \/ TickStart(p) \/ (\E w \in Windows : DefaultStart(p, w))
               \/ DefaultClose(p) \/ DefaultDone(p) \/ TickEnd(p)
        PROVE  answered' = answered
    BY <2>7 DEF TickStart, TickReads, DefaultStart, DefaultClose, DefaultDone, TickEnd
  <2>8. CASE Next
    BY <2>8, <2>1, <2>4, <2>5, <2>6, <2>7, <1>3 DEF Next, TickStep
  <2>9. CASE UNCHANGED vars
    BY <2>9, <1>3 DEF vars
  <2>10. QED
    BY <2>8, <2>9, <1>3
<1>4. IndInv /\ [Next]_vars => [Spares]_vars
  <2> SUFFICES ASSUME IndInv, [Next]_vars PROVE Spares
    OBVIOUS
  <2>1. CASE answered' = answered
    BY <2>1
  <2>2. CASE answered' # answered
    BY <2>2, <1>1, <1>2, <1>3
  <2>3. QED
    BY <2>1, <2>2
<1>5. QED
  BY <1>4, Inductive, PTL DEF Safety, DefaultSparesDecided

-----------------------------------------------------------------------------
(* The refinement *)

\* The steps that leave the branch, the verdicts and the announcements alone.
Silent ==
    \/ \E p \in Pids : LaunchStart(p) \/ LauncherStep(p) \/ TickStart(p) \/ TickStep(p)
    \/ \E p \in Pids : GateStart(p) \/ GateAdmit(p) \/ GateTake(p)
                      \/ GateUnlink(p) \/ GateOpen(p)
                      \/ GateNothing(p) \/ GateRed(p) \/ GateRemainder(p)
                      \/ GateQuit(p)
                      \/ GateEscalate(p) \/ GateVerified(p) \/ GateRelease(p)
                      \/ GateClose(p) \/ Crash(p) \/ Recycle(p) \/ OtherExit(p)
    \/ \E p \in Pids, s \in Specs : GateDrop(p, s) \/ GateAlone(p, s) \/ GateDefer(p, s)
                                      \/ GateCharge(p, s)
    \/ \E p \in Pids, w \in Windows : DefaultStart(p, w)
    \/ \E s \in Specs : Rebuild(s)

\* Silence is stuttering of the abstract specification.
LEMMA SilentStep == Silent => UNCHANGED <<main, green, shipped>>
<1> USE DEF ledger, git
<1>1. ASSUME NEW p \in Pids, LaunchStart(p) \/ LauncherStep(p)
      PROVE  UNCHANGED <<main, green, shipped>>
  BY <1>1 DEF LaunchStart, LauncherStep, LaunchRead, LaunchPrune, LaunchProbe,
              LaunchAdmit, LaunchCheck, LaunchSelect, LaunchBatch, LaunchPopen,
              LaunchPid, LaunchUnlock
<1>2. ASSUME NEW p \in Pids, NEW s \in Specs,
             GateDrop(p, s) \/ GateAlone(p, s) \/ GateDefer(p, s) \/ GateCharge(p, s)
      PROVE  UNCHANGED <<main, green, shipped>>
  BY <1>2 DEF GateDrop, GateAlone, GateDefer, GateCharge
<1>3. ASSUME NEW p \in Pids,
             \/ GateStart(p) \/ GateAdmit(p) \/ GateTake(p) \/ GateUnlink(p)
             \/ GateOpen(p) \/ GateNothing(p) \/ GateQuit(p)
             \/ GateRed(p) \/ GateRemainder(p) \/ GateEscalate(p)
             \/ GateVerified(p) \/ GateRelease(p) \/ GateClose(p)
      PROVE  UNCHANGED <<main, green, shipped>>
  BY <1>3 DEF GateStart, GateAdmit, GateTake, GateUnlink, GateOpen, GateNothing, GateRed,
              GateRemainder, GateEscalate, GateQuit, GateVerified, GateRelease,
              GateClose
<1>4. ASSUME NEW p \in Pids,
             TickStart(p) \/ TickStep(p) \/ \E w \in Windows : DefaultStart(p, w)
      PROVE  UNCHANGED <<main, green, shipped>>
  BY <1>4 DEF TickStart, TickReads, TickStep, DefaultStart, DefaultDrop, DefaultAdd,
              DefaultClose, DefaultDone, TickPrune, TickAdd, TickEnd, Gone
<1>5. ASSUME NEW s \in Specs, Rebuild(s)
      PROVE  UNCHANGED <<main, green, shipped>>
  BY <1>5 DEF Rebuild
<1>6. ASSUME NEW p \in Pids, Crash(p) \/ Recycle(p) \/ OtherExit(p)
      PROVE  UNCHANGED <<main, green, shipped>>
  BY <1>6 DEF Crash, Recycle, OtherExit
<1>7. QED
  BY <1>1, <1>2, <1>3, <1>4, <1>5, <1>6 DEF Silent

\* Every other step is one of Mainline's.
LEMMA LoudStep ==
  ASSUME IndInv, NEW p \in Pids
  PROVE  /\ GateGreen(p) => Abstract!Next
         /\ GateAdvance(p) => Abstract!Next \/ UNCHANGED <<main, green, shipped>>
         /\ \A s \in Specs : GateShip(p, s) => Abstract!Next
<1>1. Candidate(p) \in Commit /\ Candidate(p).ext = base[p].ext
  BY CandidateType DEF IndInv, TypeInv, TypeOK
<1>2. GateGreen(p) => Abstract!Next
  <2>1. GateGreen(p) => Abstract!Verify(Candidate(p))
    BY DEF GateGreen, Abstract!Verify, ledger
  <2>2. QED
    BY <1>1, <2>1 DEF Abstract!Next, Abstract!Commit, Commit
<1>3. GateAdvance(p) => Abstract!Next \/ UNCHANGED <<main, green, shipped>>
  <2>1. ASSUME GateAdvance(p), BaseHolds(p) PROVE Abstract!Land(Candidate(p))
    <3>1. base[p] = main /\ Candidate(p) \in green
      BY <2>1 DEF GateAdvance, BaseHolds, IndInv, MainInv, AdvanceIsGreen
    <3>2. main \in Commit /\ base \in [Pids -> Commit]
      BY DEF IndInv, TypeInv, TypeOK, GitTypeOK, LocalTypeOK
    <3>3. main.merged \subseteq Candidate(p).merged
      BY <3>1, <3>2 DEF Candidate, Commit
    <3>4. QED
      BY <1>1, <2>1, <3>1, <3>3 DEF GateAdvance, Abstract!Land
  <2>2. ASSUME GateAdvance(p), ~BaseHolds(p) PROVE UNCHANGED <<main, green, shipped>>
    BY <2>2 DEF GateAdvance
  <2>3. QED
    BY <1>1, <2>1, <2>2 DEF Abstract!Next, Abstract!Commit, Commit
<1>4. ASSUME NEW s \in Specs, GateShip(p, s) PROVE Abstract!Next
  <2>1. s \in main.merged
    BY <1>4 DEF GateShip, IndInv, MainInv, AnnouncedOnMain
  <2>2. Abstract!Announce(s)
    BY <1>4, <2>1 DEF GateShip, Abstract!Announce, git
  <2>3. QED
    BY <2>2 DEF Abstract!Next
<1>5. QED
  BY <1>2, <1>3, <1>4

\* The whole of locks, files, processes and crashes implements Mainline: the
\* branch only ever moves to a tree judged green on exactly the commit it
\* replaces, and a spec is announced only once the branch contains it.
THEOREM Refinement == Safety => ImplementsMainline
<1>1. Init => Abstract!Init
  BY DEF Init, Abstract!Init, EmptyCommit
<1>2. IndInv /\ [Next]_vars => [Abstract!Next]_<<main, green, shipped>>
  <2> SUFFICES ASSUME IndInv, [Next]_vars
               PROVE  Abstract!Next \/ UNCHANGED <<main, green, shipped>>
    OBVIOUS
  <2>1. CASE Silent
    BY <2>1, SilentStep
  <2>2. CASE External
    BY <2>2 DEF External, Abstract!Next, Abstract!External, ledger
  <2>3. ASSUME NEW p \in Pids,
               GateGreen(p) \/ GateAdvance(p) \/ \E s \in Specs : GateShip(p, s)
        PROVE  Abstract!Next \/ UNCHANGED <<main, green, shipped>>
    BY <2>3, LoudStep
  <2>4. CASE UNCHANGED vars
    BY <2>4 DEF vars, ledger, git
  <2>5. QED
    BY <2>1, <2>2, <2>3, <2>4 DEF Next, Gate, Environment, Silent
<1>3. QED
  BY <1>1, <1>2, Inductive, PTL DEF Safety, ImplementsMainline, Abstract!Spec
=============================================================================
