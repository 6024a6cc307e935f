SPECIFICATION Spec
CONSTANTS
    NULL = NULL
    p1 = p1
    p2 = p2
    Profiles = {p1}
    Trigger = 2
    MaxSamples = 3
    MaxEdits = 2
    MaxFaults = 1
    MaxRestarts = 1
CHECK_DEADLOCK TRUE
INVARIANTS
    TypeOK
    EarnedTrigger
    OneWritePerTrigger
PROPERTY TriggerActs
