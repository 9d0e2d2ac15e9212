\* One spec, three processes: a crash, a gate that quits, and a reused pid,
\* a rework or a foreign commit.
SPECIFICATION Safety
CONSTANTS
    Specs = {s1}
    Windows = {w1, w2}
    Pids = {p1, p2, p3}
    NoPid = NoPid
    NoWindow = NoWindow
    Cap = 2
    MaxCrashes = 1
    MaxExternal = 1
    MaxRebuilds = 1
    MaxQuits = 1
    MaxRecycled = 1
SYMMETRY Symmetry
CONSTRAINT OneDisturbance
\* The launcher stops for good once every window id is used.
CHECK_DEADLOCK FALSE
INVARIANTS
    OneOwner
    SlotIsMine
    RunLockIsMine
    OneOutstanding
PROPERTIES
    ImplementsMainline
