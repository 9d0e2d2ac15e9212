\* Under fairness; no symmetry, it is unsound for liveness.
SPECIFICATION Spec
CONSTANTS
    Specs = {s1}
    Windows = {w1, w2}
    Pids = {p1, p2}
    NoPid = NoPid
    NoWindow = NoWindow
    Cap = 2
    MaxCrashes = 1
    MaxExternal = 0
    MaxRebuilds = 0
    MaxQuits = 0
    MaxRecycled = 0
\* The launcher stops for good once every window id is used.
CHECK_DEADLOCK FALSE
PROPERTIES
    GateEnds
    EscalationCloses
