------------------------------ MODULE RunLock ------------------------------
(***************************************************************************)
(* The run lock of a project's launchers: merge_queue._run_lock.           *)
(*                                                                         *)
(* A file that holds the owner's pid.  Looking at it, unlinking a stale    *)
(* one, creating it and writing the pid are steps of their own, under a    *)
(* flock on the state directory, which the kernel frees when its holder    *)
(* dies.  The file stays.  MergeWindow has all this as one step.           *)
(***************************************************************************)
EXTENDS Naturals, FiniteSets

CONSTANTS
    Pids,           \* process ids
    NoPid,          \* nobody
    MaxCrashes,     \* bound: launchers that die
    MaxReuse        \* bound: pids the kernel gives to other programs

ASSUME RunLockAssumption ==
    /\ NoPid \notin Pids /\ "absent" \notin Pids /\ "empty" \notin Pids
    /\ MaxCrashes \in Nat /\ MaxReuse \in Nat

VARIABLES
    file,       \* the lock file: "absent", "empty" or a pid
    mutex,      \* who holds the flock on the directory
    rpc,         \* [Pids -> where it is]
    alien,      \* pids of living programs that are no launchers
    crashes, reuses

runVars == <<file, mutex, rpc, alien, crashes, reuses>>

RunPC == {"off", "wait", "look", "unlink", "create", "write", "drop", "inside",
       "relock", "remove", "refused"}

Readable(text) == text \in Pids

Lives(p) == rpc[p] # "off" \/ p \in alien
NoneAlive(p) == FALSE                   \* mutant: nobody answers kill 0
AnswersKill(p) == Lives(p)

RunTypeOK ==
    /\ file \in Pids \cup {"absent", "empty"}
    /\ mutex \in Pids \cup {NoPid}
    /\ rpc \in [Pids -> RunPC]
    /\ alien \subseteq Pids
    /\ crashes \in 0..MaxCrashes /\ reuses \in 0..MaxReuse

RunInit ==
    /\ file = "absent" /\ mutex = NoPid
    /\ rpc = [p \in Pids |-> "off"]
    /\ alien = {} /\ crashes = 0 /\ reuses = 0

Goto(p, to) == rpc' = [rpc EXCEPT ![p] = to]

KeepMutex(p) == mutex                   \* mutant: not unlocked
DropMutex(p) == IF mutex = p THEN NoPid ELSE mutex

Ask(p) ==
    /\ rpc[p] = "off" /\ p \notin alien /\ Goto(p, "wait")
    /\ UNCHANGED <<file, mutex, alien, crashes, reuses>>

MutexIgnored == TRUE                    \* mutant: no flock
MutexFree == mutex = NoPid

\* flock(directory, LOCK_EX), to take the lock or to give it back.
Lock(p) ==
    /\ rpc[p] \in {"wait", "relock"} /\ MutexFree
    /\ mutex' = p
    /\ Goto(p, IF rpc[p] = "wait" THEN "look" ELSE "remove")
    /\ UNCHANGED <<file, alien, crashes, reuses>>

\* An unreadable owner, or one that lives, keeps the lock.
LookAt(p) ==
    /\ rpc[p] = "look"
    /\ Goto(p, IF file = "absent" THEN "create"
               ELSE IF Readable(file) /\ ~AnswersKill(file) THEN "unlink"
               ELSE "refused")
    /\ mutex' = IF rpc'[p] = "refused" THEN DropMutex(p) ELSE mutex
    /\ UNCHANGED <<file, alien, crashes, reuses>>

Unlink(p) ==
    /\ rpc[p] = "unlink" /\ Goto(p, "create") /\ file' = "absent"
    /\ UNCHANGED <<mutex, alien, crashes, reuses>>

\* O_EXCL: a file that exists is an error; the launcher ends.
Create(p) ==
    /\ rpc[p] = "create"
    /\ IF file = "absent" THEN file' = "empty" /\ Goto(p, "write") /\ UNCHANGED mutex
       ELSE /\ Goto(p, "refused") /\ UNCHANGED file
            /\ mutex' = DropMutex(p)
    /\ UNCHANGED <<alien, crashes, reuses>>

Write(p) ==
    /\ rpc[p] = "write" /\ Goto(p, "drop") /\ file' = p
    /\ UNCHANGED <<mutex, alien, crashes, reuses>>

Unlock(p) ==
    /\ rpc[p] = "drop" /\ Goto(p, "inside")
    /\ mutex' = DropMutex(p)
    /\ UNCHANGED <<file, alien, crashes, reuses>>

\* The launcher's body ends.
Leave(p) ==
    /\ rpc[p] = "inside" /\ Goto(p, "relock")
    /\ UNCHANGED <<file, mutex, alien, crashes, reuses>>

RemoveFile(p) ==
    /\ rpc[p] = "remove" /\ Goto(p, "off") /\ file' = "absent"
    /\ mutex' = DropMutex(p)
    /\ UNCHANGED <<alien, crashes, reuses>>

\* A refused launcher says so and ends.
Quit(p) ==
    /\ rpc[p] = "refused" /\ Goto(p, "off")
    /\ UNCHANGED <<file, mutex, alien, crashes, reuses>>

CrashesUnbounded == TRUE                \* mutant
CrashesLeft == crashes < MaxCrashes

LauncherDies(p) ==
    /\ rpc[p] # "off" /\ CrashesLeft /\ crashes' = crashes + 1
    /\ Goto(p, "off")
    /\ mutex' = IF mutex = p THEN NoPid ELSE mutex
    /\ UNCHANGED <<file, alien, reuses>>

\* The kernel gives the pid of a dead launcher to another program.
Reuse(p) ==
    /\ rpc[p] = "off" /\ p \notin alien /\ reuses < MaxReuse
    /\ alien' = alien \cup {p} /\ reuses' = reuses + 1
    /\ UNCHANGED <<file, mutex, rpc, crashes>>

AlienExit(p) ==
    /\ p \in alien /\ alien' = alien \ {p}
    /\ UNCHANGED <<file, mutex, rpc, crashes, reuses>>

Step(p) ==
    \/ Lock(p) \/ LookAt(p) \/ Unlink(p) \/ Create(p) \/ Write(p) \/ Unlock(p)
    \/ Leave(p) \/ RemoveFile(p) \/ Quit(p)

RunNext == \E p \in Pids : Ask(p) \/ Step(p) \/ LauncherDies(p) \/ Reuse(p) \/ AlienExit(p)

\* A started launcher runs on and its body ends; flock is granted to whoever
\* waits for it again and again.
RunFairness == \A p \in Pids : WF_runVars(Step(p)) /\ SF_runVars(Lock(p)) /\ WF_runVars(AlienExit(p))

RunSpec == RunInit /\ [][RunNext]_runVars
FairRunSpec == RunSpec /\ RunFairness

-----------------------------------------------------------------------------
(* Properties *)

\* From the moment its pid can be in the file, a launcher owns the lock.
Owns(p) == rpc[p] \in {"drop", "inside", "relock", "remove"}

\* Two launchers are never inside together, whoever died, and wherever.
OneInside == \A p, q \in Pids : Owns(p) /\ Owns(q) => p = q

\* Nobody takes the file of a launcher that lives: it has the owner's pid.
FileIsMine == \A p \in Pids : Owns(p) => file = p

\* The launchers see the lock of OneLauncher.
Owner == IF \E p \in Pids : Owns(p) THEN CHOOSE p \in Pids : Owns(p) ELSE NoPid
Abstract == INSTANCE OneLauncher WITH inside <- Owner
ImplementsOneLauncher == Abstract!Spec

\* A launcher that asks gets an answer.
Answered == \A p \in Pids : rpc[p] = "wait" ~> rpc[p] \in {"off", "refused", "inside"}
=============================================================================
