SPECIFICATION Spec
CONSTANTS
    r1 = r1
    r2 = r2
    o1 = o1
    o2 = o2
    Rules = {r1}
    Severities = 2
    CLEAR = CLEAR
    Operators = {o1, o2}
    MaxEdits = 3
    MaxFaults = 1
CHECK_DEADLOCK TRUE
INVARIANTS
    TypeOK
    ClosedStaysClosed
PROPERTIES
    RecoveryCloses
    RecoveryLifts
