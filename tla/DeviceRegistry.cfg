SPECIFICATION Spec
CONSTANTS
    d1 = d1
    d2 = d2
    d3 = d3
    q1 = q1
    q2 = q2
    Devices = {d1, d2, d3}
    MaxLetters = 3
    Requests = {q1, q2}
    MaxInvites = 2
    MaxTime = 2
    Skew = 1
    ReplayTtl = 2
    InviteTtl = 2
    Latency = 0
    MaxBootstraps = 1
INVARIANTS TypeOK InviteApprovesOne AccountHasDevice AcceptedOnce
PROPERTIES RevokedForGood
SYMMETRY Symmetry
CHECK_DEADLOCK FALSE
