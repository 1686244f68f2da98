SPECIFICATION Spec
CONSTANTS
    q1 = q1
    q2 = q2
    q3 = q3
    b1 = b1
    b2 = b2
    Requests = {q1, q2, q3}
    Bodies = {b1, b2}
    MaxRevision = 3
    MaxCalls = 5
    MaxFaults = 1
    Reuse = FALSE
INVARIANTS TypeOK RowHasObject ServedMatches
PROPERTIES IsRegister
SYMMETRY Symmetry
CHECK_DEADLOCK FALSE
