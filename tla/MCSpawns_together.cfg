CONSTANTS
    Spawn = {"s1", "s2"}
    Reconciler = {}
    Canceller = {}
    Role <- Builders
    Subject <- OneSubject
    Tree <- OneTree
    Window = 1
    Cap = 1
    LastStart = 0
    MaxNow = 3
SPECIFICATION Spec
CHECK_DEADLOCK FALSE
INVARIANT NeverTogether
