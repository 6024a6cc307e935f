SPECIFICATION Spec
CONSTANTS
    NULL = NULL
    p1 = p1
    p2 = p2
    c1 = c1
    c2 = c2
    r1 = r1
    r2 = r2
    s1 = s1
    s2 = s2
    pol1 = pol1
    NodeIds <- MCNodeIds6
    MaxCandidate = 5
    Profiles = {p1}
    Policies = {pol1}
    PolicyOf <- MCPolicyOf
    InitialPolicy <- MCActivePolicy
    Calls = {c1, c2}
    RequestIds = {r1, r2}
    Scans = {s1}
    Edits <- MCEdits
    MaxEdits = 1
    MaxFaults = 2
    MaxToggles = 2
    MaxRestarts = 1
    MaxHappenings = 2
CHECK_DEADLOCK FALSE
SYMMETRY MCSymmetry
INVARIANTS
    TypeOK
    OnlyClearedNodesWritten
    ExcludedNotActivated
    VerifiedIsOnTheDevice
    PlanFits
    ActivationNeedsSnapshot
    PairsStayWhole
    RemoveFindsThePair
PROPERTY KeepsContract
