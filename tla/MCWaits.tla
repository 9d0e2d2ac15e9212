---- MODULE MCWaits ----
(***************************************************************************)
(* The small protocols of the processes that wait for each other: the run  *)
(* lock of the launchers, spawns with their waiters, panes, cancels and    *)
(* ticks, the gate of the cache lock, and the order of the ledger's lines. *)
(* They share no state.  TLC explores them one by one: `part` says which   *)
(* one runs, and the others rest in their initial states.                  *)
(***************************************************************************)
EXTENDS RunLock, Spawns, LedgerOrder

CONSTANT Readers                \* processes at the cache lock

VARIABLES part,
          lpc, mode, gate, shared, excl, timeouts

C == INSTANCE LedgerLock WITH Procs <- Readers, Nobody <- NoPid, MaxTimeouts <- 0

cacheVars == <<lpc, mode, gate, shared, excl, timeouts>>
all == <<part, runVars, vars, cacheVars, orderVars>>

\* A builder and a grader of one subject, and one work tree.
Roles      == [s \in Spawn |-> IF s = "s2" THEN "grader" ELSE "builder"]
OneSubject == [s \in Spawn |-> "spec"]
OneTree    == [s \in Spawn |-> "tree"]

\* "spawn" is one spawn with everything that can befall it, "spawns" are two
\* that meet at the gate, without ticks and cancels.
Parts == {"run lock", "cache lock", "spawn", "spawns", "order"}

AllInit == RunInit /\ Init /\ C!LockInit /\ OrderInit /\ part \in Parts

OneSpawn == part = "spawn" => \A s \in Spawn \ {"s1"} : pc'[s] = "idle"
NoTicks  == part = "spawns" => recon' = recon /\ cancel' = cancel

RunPart   == part = "run lock" /\ RunNext
SpawnPart == part \in {"spawn", "spawns"} /\ Next /\ OneSpawn /\ NoTicks
CachePart == part = "cache lock" /\ C!LockNext
OrderPart == part = "order" /\ OrderNext

AllNext ==
    /\ UNCHANGED part
    /\ \/ RunPart   /\ UNCHANGED <<vars, cacheVars, orderVars>>
       \/ SpawnPart /\ UNCHANGED <<runVars, cacheVars, orderVars>>
       \/ CachePart /\ UNCHANGED <<runVars, vars, orderVars>>
       \/ OrderPart /\ UNCHANGED <<runVars, vars, cacheVars>>

\* The fairness each module states, for the part that runs.
AllFairness ==
    /\ \A p \in Pids :
        /\ WF_runVars(part = "run lock" /\ Step(p)) /\ SF_runVars(part = "run lock" /\ Lock(p))
        /\ WF_runVars(part = "run lock" /\ AlienExit(p))
    /\ \A p \in Readers :
        /\ WF_cacheVars(part = "cache lock" /\ C!PassGate(p))
        /\ WF_cacheVars(part = "cache lock" /\ C!TakeMain(p))
        /\ WF_cacheVars(part = "cache lock" /\ C!Release(p))
    /\ WF_vars(part = "spawn" /\ Clock)
    /\ WF_vars(part = "spawn" /\ Work("s1"))
    /\ \A r \in Reconciler : WF_vars(part = "spawn" /\ Pass(r))

AllSpec == AllInit /\ [][AllNext]_all /\ AllFairness

-----------------------------------------------------------------------------
\* Of the part that is an instance; stated and explained in its module.
RefresherServed == C!RefresherServed

\* Of the spawn that is alone with a tick: when two meet no tick runs.
SpawnEnds == part = "spawn" => EveryStartEnds
====
