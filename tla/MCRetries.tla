---- MODULE MCRetries ----
\* Instances of Retries: two attempts, a backoff of one period, and a clock that
\* runs until the longest silence is over.
EXTENDS Retries

CONSTANT Short  \* bound: periods of a behaviour with a fault

OneThenTwo == <<1, 2>>

\* A behaviour has one fault (a dead tick, a lost answer or marker, a dispatch by
\* hand, a hung waiter, another trigger), and is short with it; a released one has
\* two periods more.
Unmarked ==
    {a \in Tries : forked[a] # 0 /\ tick.fork # a /\ Of(log, a, {"marker"}) = {}}
Faults == Max({Cardinality(Unmarked), deaths}) + Cardinality(ByHand)
        + Cardinality(Hung) + Cardinality(Triggers) - 1
Instances ==
    \/ Faults = 0
    \/ Faults = 1 /\ now <= IF Rows(log, {"release"}) = {} THEN Short ELSE Short + 2
====
