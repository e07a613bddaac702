CONSTANTS
    Sources = {s1}
    Runs = {r1, r2}
    LeaseTime = 0
    JitterTime = 1
    MaxPages = 1
    MaxClock = 2
    MaxAge = 1
    MaxPending = 3
    MaxVersion = 2
    MaxFaults = 0
    QuietAfter = 0
SYMMETRY Symmetry
SPECIFICATION Spec
INVARIANTS NoLostNotification FullListingHonoured
PROPERTIES KeepsMirrorPromise MirrorMovesForward
CHECK_DEADLOCK FALSE
