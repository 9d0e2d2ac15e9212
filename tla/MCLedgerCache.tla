---- MODULE MCLedgerCache ----
(***************************************************************************)
(* LedgerCache with two readers and two files, where faults are few: what  *)
(* a reader meets by itself, and what two readers do to each other.        *)
(***************************************************************************)
EXTENDS LedgerCache, TLC

Symmetric == Permutations(Procs) \cup Permutations(Files)

Asleep(p) == rd[p].pc = "idle"

\* One reader with every fault, or several and one write or damaged cache.
FewFaults ==
    \/ \E p \in Procs : \A q \in Procs \ {p} : Asleep(q)
    \/ crashes + timeouts + writes + damage <= 1
====
