SPECIFICATION Spec
CONSTANTS
    Procs = {p1, p2}
    Nobody = nobody
    Idle = idle
    Files = {f1, f2}
    MaxWrites = 2
    MaxDamage = 1
    MaxCrashes = 1
    MaxTimeouts = 1
CONSTRAINT FewFaults
SYMMETRY Symmetric
INVARIANTS
    ReadIsMoment
    CacheFaithful
    QuietReadSucceeds
    Exclusive
PROPERTY NoOvertaking
CHECK_DEADLOCK FALSE
