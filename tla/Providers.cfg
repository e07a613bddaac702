CONSTANTS
    Off = Off
    a1 = a1
    r1 = r1
    r2 = r2
    k1 = k1
    n1 = n1
    e1 = e1
    v1 = v1
    v2 = v2
    OpenRadius = 1
    AwayRadius = 2
    OpenDuration = 2
    AwayDuration = 1
    FollowingWindow = 3
    Payloads <- DayOut
    Requests = {q1, q2}
    Cutoffs = {5}
    MayFail = TRUE
    MaxWritten = 2
SPECIFICATION SceneSpec
SYMMETRY Symmetry
INVARIANTS TypesOK OpenVisitsKeepSamples MatchesSource OnceOnly NothingUntold
PROPERTIES LastSeenNeverBack HistoryStands StepsAreCurrent
CHECK_DEADLOCK FALSE
