SPECIFICATION AllSpec
CONSTANTS
    Pids = {p1, p2, p3}
    NoPid = nobody
    MaxCrashes = 2
    MaxReuse = 1
    Readers = {q1, q2, q3}
    Spawn = {"s1", "s2"}
    Reconciler = {"r1"}
    Canceller = {"c1"}
    Role <- Roles
    Subject <- OneSubject
    Tree <- OneTree
    Window = 1
    Cap = 1
    LastStart = 0
    MaxNow = 4
    NumFiles = 3
    NumKeys = 2
    Seconds = 1
    MaxLines = 4
    Writers = {"w"}
INVARIANTS
    OneInside
    VanishedIsSilent
    StaleIsOver
    TogetherOnlyUnseen
    FileOrderKept
PROPERTIES
    ImplementsOneLauncher
    ReadStable
    Answered
    RefresherServed
    SpawnEnds
CHECK_DEADLOCK FALSE
