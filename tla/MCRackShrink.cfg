SPECIFICATION Spec
CONSTANTS
    NULL = NULL
    sw = sw
    panel = panel
    card = card
    cage = cage
    disc = disc
    log = log
    bp = bp
    front = front
    rear = rear
    front2 = front2
    rear2 = rear2
    man = man
    eth = eth
    lane = lane
    gig = gig
    vlan = vlan
    Assets = {sw, panel}
    Modules = {card}
    Cables = {c1, c2}
    Interfaces = {eth, lane, gig, vlan}
    Callers = {k1, k2, k3}
    PortsOf <- MCPortsOf
    Origin <- MCOrigin
    Side <- MCSide
    SlotOf <- MCSlotOf
    Home <- MCHome
    Class <- MCClass
    Connector <- MCConnector
    IfIndex <- MCIfIndex
    LogicalName = {log}
    Vendor = {}
    MaxUnits = 2
    MaxRequests = 3
    Starts <- MCStarts
SYMMETRY Symmetry
CHECK_DEADLOCK FALSE
INVARIANT
    RackHoldsItsEquipment
