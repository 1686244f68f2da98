SPECIFICATION Spec
CONSTANTS
    N = 1
    Kind <- OneSend
    HeldRows = {}
    f1 = f1
    f2 = f2
    Flushers = {f1, f2}
    Slots <- MCSlots
    MaxEdits = 0
    MaxDrafts = 0
    MaxCrashes = 0
    MaxFaults = 0
    Rehydrates = FALSE
    MaxPending = 2
PROPERTIES NoDuplicateSend
SYMMETRY Symmetry
CHECK_DEADLOCK FALSE
