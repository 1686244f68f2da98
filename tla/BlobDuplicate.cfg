SPECIFICATION Spec
CONSTANTS
    q1 = q1
    q2 = q2
    q3 = q3
    b1 = b1
    b2 = b2
    Requests = {q1, q2, q3}
    Bodies = {b1}
    MaxRevision = 2
    MaxCalls = 3
    MaxFaults = 0
    Reuse = TRUE
SYMMETRY Symmetry
CHECK_DEADLOCK FALSE
INVARIANTS RowHasObject
