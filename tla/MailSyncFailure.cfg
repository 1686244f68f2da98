SPECIFICATION Spec
CONSTANTS
    m1 = m1
    m2 = m2
    s1 = s1
    s2 = s2
    Messages = {m1, m2}
    Inbox = {m1}
    Attached = {m1}
    Syncs = {s1}
    BootstrapLimit = 2
    RecentLimit = 2
    MaxLog = 3
    MaxCrashes = 0
    MaxFaults = 1
    Rehydrates = FALSE
INVARIANTS DeletesReachStore
CHECK_DEADLOCK FALSE
