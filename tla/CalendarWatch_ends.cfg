CONSTANTS
    Channels = {c1}
    Jobs = {j1, j2}
    None = None
    WatchLife = 2
    RenewBefore = 1
    MaxVersion = 0
    MaxClock = 4
    MaxRenewal = 2
    MaxAge = 1
    MaxFaults = 1
SPECIFICATION FairSpec
INVARIANTS TypeOK
PROPERTIES DisconnectCompletes
CHECK_DEADLOCK FALSE
