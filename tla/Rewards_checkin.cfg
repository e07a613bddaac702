CONSTANTS
    Interactions = {i1, i2}
    Quests = {q1}
    LogKeys = {l1, l2}
    QuestKeys = {k1}
    Calls = {c1, c2}
    None = None
    RecordTTL = 1
    MaxAttempts = 2
    InteractionXp = 1
    FirstXp = 2
    QuestXp = 3
    CheckInXp = 1
    StreakBonus = 1
    StreakXp = 1
    StreakTarget = 2
    MaxClock = 2
SPECIFICATION Spec
SYMMETRY Symmetry
INVARIANTS CheckInRules
CHECK_DEADLOCK FALSE
