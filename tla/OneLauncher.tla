---------------------------- MODULE OneLauncher ----------------------------
(***************************************************************************)
(* What merge_queue._run_lock promises its callers: at most one launcher   *)
(* of a project is inside, and it is inside until it leaves or dies.       *)
(***************************************************************************)
EXTENDS Naturals

CONSTANTS Pids, NoPid

VARIABLE inside     \* the launcher that owns the run lock

Init == inside = NoPid
Enter(p) == inside = NoPid /\ inside' = p
Leave(p) == inside = p /\ inside' = NoPid
Next == \E p \in Pids : Enter(p) \/ Leave(p)
Spec == Init /\ [][Next]_inside
=============================================================================
