SPECIFICATION Spec
CONSTANTS
    N = 3
    Kind <- DraftsAndSend
    HeldRows = {3}
    f1 = f1
    f2 = f2
    Flushers = {f1}
    Slots <- MCSlots
    MaxEdits = 2
    MaxDrafts = 2
    MaxCrashes = 0
    MaxFaults = 1
    Rehydrates = FALSE
    MaxPending = 1
INVARIANTS NewestDraftKept
PROPERTIES HeldRowsWait NoDuplicateSend
CHECK_DEADLOCK FALSE
