SPECIFICATION Spec
CONSTANTS
    m1 = m1
    m2 = m2
    s1 = s1
    s2 = s2
    Messages = {m1}
    Inbox = {m1}
    Attached = {m1}
    Syncs = {s1, s2}
    BootstrapLimit = 1
    RecentLimit = 1
    MaxLog = 2
    MaxCrashes = 0
    MaxFaults = 0
    Rehydrates = FALSE
INVARIANTS DurableComplete
