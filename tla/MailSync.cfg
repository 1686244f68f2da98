\* Gmail: two messages, listings of one, three changes, a restart, a failure;
\* Microsoft: two messages in two folders, pages of one, three changes, an error.
SPECIFICATION MailSpec
CONSTANTS
    m1 = m1
    m2 = m2
    s1 = s1
    Messages = {m1, m2}
    Inbox = {m1, m2}
    Attached = {m1}
    Syncs = {s1}
    BootstrapLimit = 1
    RecentLimit = 1
    MaxLog = 3
    MaxCrashes = 1
    MaxFaults = 1
    Rehydrates = FALSE
    MaxMessage = 2
    MaxFolder = 2
    PageSize = 1
    MaxChanges = 3
    MaxErrors = 1
INVARIANTS MailTypeOK StoreTracksProvider ScreenTracksProvider AtRestAsStored LinksLead
PROPERTIES CursorForward
