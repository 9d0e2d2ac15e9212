--------------------------- MODULE MCMergeWindow ---------------------------
(* MergeWindow on small instances. *)
EXTENDS MergeWindow, TLC

Symmetry == Permutations(Specs) \cup Permutations(Windows) \cup Permutations(Pids)

\* A behaviour has a commit from outside, a rework or a reused pid.
OneDisturbance == external + rebuilds + recycled <= 1

\* After a crash at most one window has a batch of two.
OneBatchAfterCrash == crashes = 0 \/ \E w \in Windows : Cardinality(members[w]) <= 1
=============================================================================
