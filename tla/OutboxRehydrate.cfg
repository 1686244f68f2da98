SPECIFICATION LiveSpec
CONSTANTS
    N = 1
    Kind <- OneSend
    HeldRows = {1}
    f1 = f1
    f2 = f2
    Flushers = {f1}
    Slots <- MCSlots
    MaxEdits = 0
    MaxDrafts = 0
    MaxCrashes = 1
    MaxFaults = 1
    Rehydrates = TRUE
    MaxPending = 2
INVARIANTS DoneMeansDelivered
PROPERTIES RecordBeforeEffect StoredRowsSettle
CHECK_DEADLOCK FALSE
