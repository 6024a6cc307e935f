SPECIFICATION Spec
CONSTANTS
    NULL = NULL
    Initial = Initial
    Banner = Banner
    n1 = n1
    n2 = n2
    n3 = n3
    k1 = k1
    k2 = k2
    Conns = {n1, n2, n3}
    Commands = {k1, k2}
CHECK_DEADLOCK TRUE
INVARIANTS
    TypeOK
    ReadyHasStream
    WrittenIsActive
    ClosedPlansNothing
PROPERTIES
    CommandsEnd
    FailureIsRetried
