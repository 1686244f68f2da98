SPECIFICATION Spec
CONSTANTS
    N = 2
    Kind <- TwoMutations
    HeldRows = {}
    f1 = f1
    f2 = f2
    Flushers = {f1, f2}
    Slots <- MCSlots
    MaxEdits = 0
    MaxDrafts = 0
    MaxCrashes = 1
    MaxFaults = 0
    Rehydrates = FALSE
    MaxPending = 1
INVARIANTS TypeOK UndoneNeverSent
PROPERTIES FailedWaitsForUser MutationsInOrder Contract
SYMMETRY Symmetry
CHECK_DEADLOCK FALSE
