---- MODULE MCGateLane ----
\* Instances of GateLane: a row is overdue after two periods, the second failure
\* waits as long as a row may, and the clock runs until every escalation is due.
EXTENDS GateLane

CONSTANT Short  \* bound: periods of a short behaviour

OnePeriod == [gate |-> 1, enqueue |-> 1]
OneThenTwo == <<1, 2>>

\* Behaviours with two of the dead ticks, hand-started gates, rejections, rulings,
\* conflicts, rebases, escalations, reworks, failed scans and failed dispatches are
\* short, and a lock-busy refusal counts once there is a rebase; those that reach the
\* horizon have only dead ticks, and one version.
Turns == deaths + manual + rebases + Count("verdict") + Count("unblocked") + Count("conflict")
Scans == {i \in Index(log, {"tooling"}) : log[i].attempt \/ rebases > 0}
Others == Count("lane-stale") + Count("failed") + Count("rework") + Cardinality(Scans)
Instances == \/ Turns + Others <= 2 /\ now <= Short
             \/ Turns = deaths /\ head = 1
====
