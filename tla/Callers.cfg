CONSTANTS
    Off = Off
    w1 = w1
    w2 = w2
    nobody = nobody
    a1 = a1
    a2 = a2
    k1 = k1
    k2 = k2
    None = None
    Proposals = {p1, p2}
    Payloads = {x, y}
    Executable = {x}
    Clients = {a1, a2}
    ProposeKeys = {kp}
    ExecuteKeys = {k1, k2}
    ClientOf <- MCClientOf
    Calls = {c1, c2}
    ProposalTTL = 2
    ApprovalTTL = 2
    RecordTTL = 2
    MaxClock = 3
    MaxAge = 1
SYMMETRY Symmetry
SPECIFICATION SceneSpec
INVARIANTS ExecutedWithConsent ApprovalUsedOnce ActionsInv OnceOnly StandsAsTold
PROPERTIES DecisionsStay KeepsOncePerKey StepsAreSound
CHECK_DEADLOCK FALSE
