CONSTANTS
    Sources = {s1}
    Runs = {r1, r2}
    LeaseTime = 1
    JitterTime = 1
    MaxPages = 1
    MaxClock = 6
    MaxAge = 0
    MaxPending = 2
    MaxVersion = 2
    MaxFaults = 1
    QuietAfter = 1
SPECIFICATION LiveSpec
PROPERTY ChangesReachMirror
CHECK_DEADLOCK FALSE
