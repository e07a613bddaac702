CONSTANTS
    Reminders = {r1, r2, r3}
    Checks = {c1}
    CheckEvery = 2
    MarkEvery = 4
    Interval = 2
    MaxDelay = 1
    MaxSchedule = 2
    MaxClock = 5
SPECIFICATION Spec
SYMMETRY Symmetry
INVARIANTS OverdueIsForDisplay
CHECK_DEADLOCK FALSE
