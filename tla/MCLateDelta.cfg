SPECIFICATION Spec
CONSTANTS
    Max32 = 7
    Max64 = 63
    Starts <- MCStarts
    NONE = NONE
    MaxEvents = 3
    MaxEdits = 1
    MaxFaults = 1
CHECK_DEADLOCK TRUE
INVARIANT
    EndedTakesNoDelta
