CONSTANTS
    Sources = {s1}
    Runs = {r1, r2}
    LeaseTime = 0
    JitterTime = 1
    MaxPages = 2
    MaxClock = 2
    MaxAge = 0
    MaxPending = 2
    MaxVersion = 2
    MaxFaults = 1
    QuietAfter = 0
SYMMETRY Symmetry
SPECIFICATION Spec
INVARIANTS TokenMatchesEvents PendingIsVersion SyncInv
CHECK_DEADLOCK FALSE
