CONSTANTS
    Channels = {c1, c2}
    Jobs = {j1, j2}
    None = None
    WatchLife = 2
    RenewBefore = 1
    MaxVersion = 2
    MaxClock = 3
    MaxRenewal = 2
    MaxAge = 0
    MaxFaults = 0
SYMMETRY Symmetry
SPECIFICATION Spec
INVARIANTS NothingUnheard NoOrphan ActiveIsLive
PROPERTIES NoGap
CHECK_DEADLOCK FALSE
