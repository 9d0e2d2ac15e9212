----------------------------- MODULE LedgerLock -----------------------------
(***************************************************************************)
(* The lock of the ledger cache (ledger_cache._locked).                    *)
(*                                                                         *)
(* Two files are flocked: the lock itself, shared by readers and exclusive *)
(* to whoever refreshes the cache, and a gate in front of it.  Everybody   *)
(* takes the gate.  A reader gives it back before it asks for the lock; a  *)
(* refresher keeps it until it has the lock, so that readers who come      *)
(* later wait behind it.  A wait that is too long is given up.             *)
(***************************************************************************)
EXTENDS Naturals, FiniteSets

CONSTANTS
    Procs,      \* processes (or threads, each with its own open files)
    Nobody,     \* no process
    MaxTimeouts \* bound: waits that are given up

ASSUME LockAssumption == Nobody \notin Procs /\ MaxTimeouts \in Nat

VARIABLES
    lpc,        \* [Procs -> where it is in _locked]
    mode,       \* [Procs -> what it asks for: "SH" or "EX"]
    gate,       \* who holds the gate
    shared,     \* who holds the lock shared
    excl,       \* who holds it exclusively
    timeouts

lockVars == <<lpc, mode, gate, shared, excl, timeouts>>

LockPC == {"out",   \* outside
           "gate",  \* polls the gate
           "pass",  \* a reader that has the gate
           "main",  \* polls the lock
           "in"}    \* inside the with block
Modes == {"SH", "EX"}

LockTypeOK ==
    /\ lpc \in [Procs -> LockPC]
    /\ mode \in [Procs -> Modes]
    /\ gate \in Procs \cup {Nobody}
    /\ shared \subseteq Procs
    /\ excl \in Procs \cup {Nobody}
    /\ timeouts \in 0..MaxTimeouts

LockInit ==
    /\ lpc = [p \in Procs |-> "out"]
    /\ mode = [p \in Procs |-> "SH"]
    /\ gate = Nobody /\ shared = {} /\ excl = Nobody
    /\ timeouts = 0

-----------------------------------------------------------------------------

Goto(p, to) == lpc' = [lpc EXCEPT ![p] = to]

\* flock(gate, LOCK_UN) on one's own open file.
LeaveGate(p) == gate' = IF gate = p THEN Nobody ELSE gate

Request(p, m) ==
    /\ lpc[p] = "out"
    /\ Goto(p, "gate") /\ mode' = [mode EXCEPT ![p] = m]
    /\ UNCHANGED <<gate, shared, excl, timeouts>>

NoGateForReaders(p) == gate = Nobody \/ mode[p] = "SH"  \* mutant
GateIsFree(p) == gate = Nobody

TakeGate(p) ==
    /\ lpc[p] = "gate" /\ GateIsFree(p)
    /\ gate' = IF gate = Nobody THEN p ELSE gate
    /\ Goto(p, IF mode[p] = "SH" THEN "pass" ELSE "main")
    /\ UNCHANGED <<mode, shared, excl, timeouts>>

PassGate(p) ==
    /\ lpc[p] = "pass" /\ Goto(p, "main") /\ LeaveGate(p)
    /\ UNCHANGED <<mode, shared, excl, timeouts>>

\* mutant: flock would convert, or readers are not looked at
IgnoresReaders(p) == excl = Nobody
CompatibleMode(p) == excl = Nobody /\ (mode[p] = "EX" => shared = {})

\* The lock is taken and the gate, if kept, is given back.
TakeMain(p) ==
    /\ lpc[p] = "main" /\ CompatibleMode(p)
    /\ IF mode[p] = "SH" THEN shared' = shared \cup {p} /\ UNCHANGED excl
                         ELSE excl' = p /\ UNCHANGED shared
    /\ LeaveGate(p) /\ Goto(p, "in")
    /\ UNCHANGED <<mode, timeouts>>

\* The kernel does the same when the process dies.
Release(p) ==
    /\ lpc[p] = "in" /\ Goto(p, "out")
    /\ shared' = shared \ {p}
    /\ excl' = IF excl = p THEN Nobody ELSE excl
    /\ UNCHANGED <<mode, gate, timeouts>>

\* Only the bound of the model; DOIT_LEDGER_LOCK_WAIT_S has no say in it.
WaitsForEver == TRUE                    \* mutant
WaitEnds == timeouts < MaxTimeouts

\* LockTimeout: the gate, if held, is given back.
TimeOut(p) ==
    /\ lpc[p] \in {"gate", "main"} /\ WaitEnds
    /\ timeouts' = timeouts + 1
    /\ LeaveGate(p) /\ Goto(p, "out")
    /\ UNCHANGED <<mode, shared, excl>>

LockNext ==
    \E p \in Procs :
        \/ \E m \in Modes : Request(p, m)
        \/ TakeGate(p) \/ PassGate(p) \/ TakeMain(p) \/ Release(p) \/ TimeOut(p)

LockSpec == LockInit /\ [][LockNext]_lockVars

\* A process that has the gate or the lock runs on; a body ends.  A poll of a
\* free gate need not be in time: nothing is assumed of TakeGate.
LockFairness ==
    \A p \in Procs : WF_lockVars(PassGate(p)) /\ WF_lockVars(TakeMain(p)) /\ WF_lockVars(Release(p))

FairLockSpec == LockSpec /\ LockFairness

-----------------------------------------------------------------------------
(* Properties *)

\* A refresher is alone: it may unlink and rebuild the cache that readers
\* would be looking at (_locked, LOCK_EX in read_conditional).
Exclusive == excl # Nobody => shared = {}

Waiting(q) == lpc[q] = "main" /\ mode[q] = "EX"
Ahead == {p \in Procs : mode[p] = "SH" /\ lpc[p] \in {"pass", "main", "in"}}

\* While a refresher waits for the lock no reader gets past the gate: those
\* ahead of it only become fewer ("a writer holds back new readers").
NoOvertaking ==
    [][\A q \in Procs : Waiting(q) /\ Waiting(q)' => Ahead' \subseteq Ahead]_lockVars

\* A refresher that has the gate gets the lock, whatever readers arrive.
RefresherServed == \A q \in Procs : Waiting(q) ~> excl = q
=============================================================================
