------------------------------ MODULE QueueRow ------------------------------
(***************************************************************************)
(* A spec's row in the merge queue, and what each ledger event does to it: *)
(* the loop of merge_queue.queue, one event at a time.                     *)
(***************************************************************************)

CONSTANTS
    Specs,    \* the specs of one project
    Windows,  \* window identifiers
    NoWindow  \* no window: an unreserved row

\* out: no row.  queued: queue() returns it.  settled: an outcome popped it
\* from queue(), but no queue-remove has followed yet (_reconcile's rows).
RowType == [in : {"out", "queued", "settled"}, batch : Windows \cup {NoWindow}]

NoRow  == [in |-> "out", batch |-> NoWindow]
NewRow == [in |-> "queued", batch |-> NoWindow]

\* queue-add with a branch: any older row goes, the new one is unreserved.
AfterAdd(rows, s) == [rows EXCEPT ![s] = NewRow]

\* queue-remove.
AfterRemove(rows, s) == [rows EXCEPT ![s] = NoRow]

\* shipped, window-dropped, merge-conflict, spec-killed, spec-closed.
AfterOutcome(rows, s) ==
    IF rows[s].in = "queued" THEN [rows EXCEPT ![s].in = "settled"] ELSE rows

\* queue-batch: w reserves the rows it names.
AfterBatch(rows, w, batch) ==
    [s \in Specs |-> IF s \in batch /\ rows[s].in # "out"
                     THEN [rows[s] EXCEPT !.batch = w] ELSE rows[s]]

Queued(rows)  == {s \in Specs : rows[s].in = "queued"}
Settled(rows) == {s \in Specs : rows[s].in = "settled"}
=============================================================================
