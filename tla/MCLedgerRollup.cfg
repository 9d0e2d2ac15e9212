SPECIFICATION Spec
CONSTANTS
    Names = {"exec", "spawn"}
    Executors = {"exec"}
    Writers = {w1, w2}
    Reads = {TRUE}
    MaxLines = 4
    MaxInodes = 4
    MaxSegments = 3
    MaxCrashes = 1
CONSTRAINT Instances
SYMMETRY Symmetric
INVARIANTS
    LinesKept
    FirstPackNoDouble
    ViewInOrder
    CheckedReadComplete
CHECK_DEADLOCK FALSE
