---- MODULE MCLedgerRollup ----
(***************************************************************************)
(* LedgerRollup for TLC: long histories of one file, shorter ones of two   *)
(* files or with a reader, all from the same constants.                    *)
(***************************************************************************)
EXTENDS LedgerRollup, TLC

Symmetric == Permutations(Writers)

Short == crashes = 0 /\ inodes <= 3 /\ segments <= 2 /\ Cardinality(Lines) <= 3
OneWriter == \E w \in Writers : \A v \in Writers \ {w} : fd[v] = Closed
OneFile   == \A m \in Names \ Executors : hist[m] = <<>> /\ live[m] = NoInode

Instances ==
    \/ OneFile /\ reader.pc = "off"
    \/ Short /\ OneWriter /\ reader.pc = "off"
    \/ Short /\ OneWriter /\ OneFile
====
