CONSTANTS
    OpenRadius = 1
    AwayRadius = 2
    OpenDuration = 2
    AwayDuration = 1
    FollowingWindow = 3
    Payloads <- OneStay
    Requests = {q1}
    Cutoffs = {}
    MayFail = FALSE
    MaxWritten = 1
SPECIFICATION OrderedSpec
INVARIANTS StaysAreVisits
CHECK_DEADLOCK FALSE
