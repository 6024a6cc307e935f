-------------------------- MODULE PhysicalInventory --------------------------
(***************************************************************************)
(* The physical inventory: one rack, its equipment, boards, ports and      *)
(* cables (apps/api/src/infrastructure/physical), on PostgreSQL with the   *)
(* constraints and triggers of its migrations.                             *)
(*                                                                         *)
(* A request looks (PhysicalService reads the inventory and validates) and *)
(* writes later (PrismaPhysicalRepository); anything may happen between.   *)
(* A request that the look refuses changes nothing and is no step here,    *)
(* and neither is the second look some writes begin with: it can refuse    *)
(* only what the write itself refuses.                                     *)
(*                                                                         *)
(* Transactions are READ COMMITTED. One that writes ports, cables or       *)
(* boards holds the locks of the rows it tests until it commits, so it is  *)
(* one step. A placement or a resize is not: its trigger tests rows it     *)
(* does not lock, and the commit is a step of its own ("held").            *)
(*                                                                         *)
(* What never changes in a row is a function of its identity. A row that   *)
(* was deleted comes back as a new one only when nobody in flight means    *)
(* the old one.                                                            *)
(***************************************************************************)
EXTENDS Naturals, FiniteSetsExt

CONSTANTS
    Assets, Modules, Cables, Interfaces, Callers,
    PortsOf,        \* [Assets -> set of ports]
    Origin,         \* port -> "template", "discovered", "manual" or its board
    Side,           \* port -> "DEVICE", "FRONT" or "REAR"
    SlotOf,         \* board -> the equipment with the slot it goes to
    Home,           \* interface -> the equipment its device is linked to
    Class,          \* interface -> what classifyPhysicalInterface says of its name
    Connector,      \* interface -> the port whose name matches, or NULL
    IfIndex,        \* interface -> its ifIndex
    LogicalName,    \* ports whose own name is that of a logical interface
    Vendor,         \* equipment with the template of a manufacturer
    Starts,         \* what earlier requests may have left: [place, port, boards]
    MaxUnits,       \* a rack has 1..MaxUnits units
    MaxRequests,    \* bound: as many requests in all
    NULL

Ports == UNION {PortsOf[x] : x \in Assets}
AssetOf(p) == CHOOSE x \in Assets : p \in PortsOf[x]
Created(o) == {p \in Ports : Origin[p] = o}
DeviceInterfaces(x) == {i \in Interfaces : Home[i] = x}

Place == [start : 1..MaxUnits, height : 1..MaxUnits]
Top(r) == r.start + r.height - 1
Overlap(r, s) == r.start <= Top(s) /\ s.start <= Top(r)

Rows == [cable : Cables \cup {NULL}, pair : Ports \cup {NULL}, iface : Interfaces \cup {NULL}]

ASSUME InventoryAssumption ==
    /\ NULL \notin Assets \cup Modules \cup Cables \cup Interfaces \cup Ports \cup Place \cup Rows
    /\ IsFiniteSet(Ports)
    /\ \A x, y \in Assets : x # y => PortsOf[x] \cap PortsOf[y] = {}
    /\ Origin \in [Ports -> {"template", "discovered", "manual"} \cup Modules]
    /\ Side \in [Ports -> {"DEVICE", "FRONT", "REAR"}]
    /\ SlotOf \in [Modules -> Assets]
    /\ \A p \in Ports : Origin[p] \in Modules => p \in PortsOf[SlotOf[Origin[p]]]
    /\ Home \in [Interfaces -> Assets]
    /\ Class \in [Interfaces -> {"PHYSICAL", "LANE", "LOGICAL", "UNKNOWN"}]
    /\ Connector \in [Interfaces -> {p \in Ports : Side[p] = "DEVICE"} \cup {NULL}]
    /\ IfIndex \in [Interfaces -> Nat]
    /\ \A i, j \in Interfaces : i # j /\ Home[i] = Home[j] => IfIndex[i] # IfIndex[j]
    /\ LogicalName \subseteq Ports /\ Vendor \subseteq Assets
    /\ MaxUnits \in Nat \ {0} /\ MaxRequests \in Nat
    /\ Starts \subseteq [place : [Assets -> Place \cup {NULL}],
                       port : [Ports -> Rows \cup {NULL}], boards : SUBSET Modules]
    /\ \A s \in Starts :
        /\ \A x \in Assets : s.place[x] # NULL => Top(s.place[x]) <= MaxUnits
        /\ \A x, y \in Assets :
            x # y /\ NULL \notin {s.place[x], s.place[y]} => ~Overlap(s.place[x], s.place[y])
        /\ \A n \in s.boards : s.place[SlotOf[n]] # NULL
        /\ \A p \in Ports :
            /\ s.place[AssetOf(p)] = NULL => s.port[p] = NULL
            /\ Origin[p] \in Modules => (s.port[p] # NULL <=> Origin[p] \in s.boards)
            /\ Origin[p] = "template" /\ s.place[AssetOf(p)] # NULL => s.port[p] # NULL
        /\ \A p, q \in Ports : p # q /\ NULL \notin {s.port[p], s.port[q]} =>
            /\ s.port[p].iface = NULL \/ s.port[p].iface # s.port[q].iface
            /\ s.port[p].pair = q <=> s.port[q].pair = p
        /\ \A p \in Ports : s.port[p] # NULL /\ s.port[p].pair # NULL =>
            s.port[p].pair # p /\ s.port[s.port[p].pair] # NULL
        /\ \A q \in Ports : s.port[q] # NULL /\ s.port[q].cable # NULL =>
            Cardinality({p \in Ports : s.port[p] # NULL
                                      /\ s.port[p].cable = s.port[q].cable}) = 2

VARIABLES
    units,      \* of the rack
    place,      \* where each asset is mounted, NULL when there is no such row
    port,       \* the rows of the ports
    cables,     \* the rows of PhysicalConnection
    boards,     \* the rows of PhysicalModule
    at,         \* how far the request of each caller is
    asked,      \* how many requests there were (bound)
    job,        \* what it asks
    since,      \* history: ports plugged or mapped since it looked
    raced       \* history: a resize and a placement tested at the same time

rack == <<units, place>>
wiring == <<port, cables, boards>>
vars == <<rack, wiring, at, asked, job, since, raced>>

NoJob == [op |-> "none", on |-> NULL, ports |-> {}]
Free == [cable |-> NULL, pair |-> NULL, iface |-> NULL]

TypeOK ==
    /\ units \in 1..MaxUnits
    /\ place \in [Assets -> Place \cup {NULL}]
    /\ port \in [Ports -> Rows \cup {NULL}]
    /\ cables \subseteq Cables
    /\ boards \subseteq Modules
    /\ at \in [Callers -> {"idle", "write", "held"}]
    /\ asked \in 0..MaxRequests
    /\ \A k \in Callers : job[k].ports \subseteq Ports
    /\ since \in [Callers -> SUBSET Ports]
    /\ raced \in BOOLEAN

Mounted(x) == place[x] # NULL
Live == {p \in Ports : port[p] # NULL}
Holders(i) == {p \in Live : port[p].iface = i}
InFlight(k) == at[k] \in {"write", "held"}

\* A new row may take this identity.
Unmeant(r) == \A k \in Callers : InFlight(k) => r # job[k].on /\ r \notin job[k].ports

-----------------------------------------------------------------------------
(* Requests                                                                 *)

Ask(k, j) ==
    /\ asked' = asked + 1
    /\ at' = [at EXCEPT ![k] = "write"]
    /\ job' = [job EXCEPT ![k] = j]
    /\ UNCHANGED <<rack, wiring, since, raced>>

Writes(k, op) == at[k] = "write" /\ job[k].op = op

End(k) ==
    /\ at' = [at EXCEPT ![k] = "idle"]
    /\ job' = [job EXCEPT ![k] = NoJob]
    /\ UNCHANGED <<asked, raced>>

\* What those in flight have looked at, to remove it or to map it, is no longer so.
Touch(ps) == since' = [k \in Callers |->
    IF at'[k] = "write" /\ job[k].op \in {"reconcile", "remove", "deleteAsset", "sync"}
    THEN since[k] \cup ps ELSE {}]

\* The database refuses, a deadlock is broken or the process dies: nothing of
\* the transaction under way stays.
Fail(k) == InFlight(k) /\ End(k) /\ Touch({}) /\ UNCHANGED <<rack, wiring>>

\* A write that matches no row, or that a constraint refuses, changes nothing.
WriteIf(k, ok, effect) ==
    /\ End(k) /\ UNCHANGED rack
    /\ IF ok THEN effect ELSE Touch({}) /\ UNCHANGED wiring

-----------------------------------------------------------------------------
(* Cables                                                                   *)

\* createConnection and confirmLldpSuggestion: two different free ports.
AskConnection(k) == \E e \in kSubset(2, Live) :
    /\ \A p \in e : port[p].cable = NULL
    /\ Ask(k, [op |-> "plug", on |-> NULL, ports |-> e])

Plug(c, e) ==
    /\ cables' = cables \cup {c}
    /\ port' = [p \in Ports |-> IF p \in e THEN [port[p] EXCEPT !.cable = c] ELSE port[p]]
    /\ Touch(e)
    /\ UNCHANGED boards

\* Mutant: the updates do not ask whether the port is still free.
StillThere(e) == e \subseteq Live

StillFree(e) == e \subseteq Live /\ \A p \in e : port[p].cable = NULL

CreateConnection(k) ==
    /\ Writes(k, "plug")
    /\ \E c \in Cables \ cables :
        /\ Unmeant(c)
        /\ WriteIf(k, StillFree(job[k].ports), Plug(c, job[k].ports))

AskDisconnection(k) == \E c \in cables :
    Ask(k, [op |-> "unplug", on |-> c, ports |-> {}])

\* The cable goes, and the trigger frees whatever it was plugged into.
Unplugged(c) == [p \in Ports |->
    IF p \in Live /\ port[p].cable = c THEN [port[p] EXCEPT !.cable = NULL] ELSE port[p]]

DeleteConnection(k) ==
    /\ Writes(k, "unplug")
    /\ WriteIf(k, job[k].on \in cables,
        /\ cables' = cables \ {job[k].on}
        /\ port' = Unplugged(job[k].on)
        /\ Touch({}) /\ UNCHANGED boards)

\* Mutant: the trigger on the cable is missing.
ForgetRows(gone) ==
    port' = [p \in Ports |-> IF p \in gone THEN NULL ELSE port[p]] /\ UNCHANGED cables

\* Rows of ports go: their cables go with them, and the other end is free again;
\* a pairing to a row that went is no pairing.
DeletePorts(gone) ==
    LET cut == {port[p].cable : p \in gone} IN
    /\ cables' = cables \ cut
    /\ port' = [p \in Ports |->
        IF p \in gone \/ port[p] = NULL THEN NULL
        ELSE [port[p] EXCEPT !.cable = IF @ \in cut THEN NULL ELSE @,
                             !.pair = IF @ \in gone THEN NULL ELSE @]]

-----------------------------------------------------------------------------
(* Ports                                                                    *)

\* createPort: operator input, at most mapped to an interface of the same device.
AskPort(k) ==
    \E x \in Assets : \E p \in Created("manual") \cap PortsOf[x] :
    \E i \in DeviceInterfaces(x) \cup {NULL}, q \in Live \cup {NULL} :
    /\ Mounted(x)
    /\ Ask(k, [op |-> "addPort", on |-> NULL, ports |-> {q} \ {NULL},
               new |-> p, row |-> [Free EXCEPT !.iface = i, !.pair = q]])

CreatePort(k) ==
    LET p == job[k].new  row == job[k].row IN
    /\ Writes(k, "addPort")
    /\ port[p] = NULL => Unmeant(p)
    /\ WriteIf(k,
        /\ port[p] = NULL /\ Mounted(AssetOf(p))
        /\ row.iface # NULL => Holders(row.iface) = {}
        /\ row.pair # NULL =>
            row.pair \in Live /\ \A q \in Live : port[q].pair # row.pair,
        /\ port' = [port EXCEPT ![p] = row]
        /\ Touch({p})
        /\ UNCHANGED <<cables, boards>>)

\* pairPorts: the FRONT and the REAR of one passage, neither paired yet.
AskPair(k) == \E a, b \in Live :
    /\ Side[a] = "FRONT" /\ Side[b] = "REAR" /\ AssetOf(a) = AssetOf(b)
    /\ port[a].pair = NULL /\ port[b].pair = NULL
    /\ Ask(k, [op |-> "pair", on |-> NULL, ports |-> {a, b}, front |-> a, rear |-> b])

\* Mutant: only the port that was asked for learns of the other.
PairedOneWay(a, b) == [port EXCEPT ![a].pair = b]

Paired(a, b) == [port EXCEPT ![a].pair = b, ![b].pair = a]

PairPorts(k) ==
    LET a == job[k].front  b == job[k].rear IN
    /\ Writes(k, "pair")
    /\ WriteIf(k,
        /\ {a, b} \subseteq Live /\ port[a].pair = NULL /\ port[b].pair = NULL
        /\ \A q \in Live : port[q].pair \notin {a, b},
        port' = Paired(a, b) /\ Touch({}) /\ UNCHANGED <<cables, boards>>)

MapTo(p, i) ==
    /\ port' = [port EXCEPT ![p].iface = i]
    /\ UNCHANGED <<cables, boards>>

CanMap(p, i) == p \in Live /\ (i = NULL \/ Holders(i) \subseteq {p})

\* updatePort, as far as the mapping goes.
AskMapping(k) ==
    \E x \in Assets : \E p \in PortsOf[x] \cap Live, i \in DeviceInterfaces(x) \cup {NULL} :
    /\ Ask(k, [op |-> "map", on |-> NULL, ports |-> {p}, port |-> p, iface |-> i])

UpdatePort(k) ==
    /\ Writes(k, "map")
    /\ WriteIf(k, CanMap(job[k].port, job[k].iface),
        MapTo(job[k].port, job[k].iface) /\ Touch({job[k].port}))

\* Mutant: the cable is not looked at.
ReconcilableCabled(p) ==
    LET i == port[p].iface IN
    /\ Origin[p] = "discovered"
    /\ port[p].pair = NULL
    /\ IF i = NULL THEN p \in LogicalName
       ELSE Class[i] = "LOGICAL" \/ (Class[i] = "LANE" /\ Connector[i] # p)

\* findReconcilablePorts: connectors made for a logical interface, untouched since.
Reconcilable(p) ==
    LET i == port[p].iface IN
    /\ Origin[p] = "discovered"
    /\ port[p].cable = NULL /\ port[p].pair = NULL
    /\ IF i = NULL THEN p \in LogicalName
       ELSE Class[i] = "LOGICAL" \/ (Class[i] = "LANE" /\ Connector[i] # p)

AskReconcile(k) == \E x \in Assets :
    LET bad == {p \in PortsOf[x] \cap Live : Reconcilable(p)} IN
    bad # {} /\ Ask(k, [op |-> "reconcile", on |-> NULL, ports |-> bad])

ReconcilePorts(k) ==
    /\ Writes(k, "reconcile")
    /\ WriteIf(k, TRUE, DeletePorts(job[k].ports \cap Live) /\ Touch({}) /\ UNCHANGED boards)

-----------------------------------------------------------------------------
(* The interface sync                                                       *)

\* The interfaces of the device that are planned before this one, for want of a port.
Earlier(i) ==
    {j \in DeviceInterfaces(Home[i]) : IfIndex[j] < IfIndex[i] /\ Holders(j) = {}}

Claimed(i) == \E j \in Earlier(i) : Connector[j] = Connector[i]

\* Mutant: a connector that has an interface is as good as one that has none.
FreeConnectorAny(i) ==
    Connector[i] \in Live /\ (Class[i] = "LANE" \/ ~Claimed(i))

\* A connector of that name without an interface; the first that asks claims it. A
\* lane takes its cage also when an earlier interface has claimed it.
FreeConnector(i) ==
    /\ Connector[i] \in Live /\ port[Connector[i]].iface = NULL
    /\ Class[i] = "LANE" \/ ~Claimed(i)

MayCreate(i) ==
    /\ Connector[i] # NULL /\ Home[i] \notin Vendor /\ ~FreeConnector(i)
    /\ Class[i] = "PHYSICAL" \/ (Class[i] = "LANE" /\ Connector[i] \notin Live)

\* One connector is created once in a plan.
Creates(i) ==
    /\ MayCreate(i)
    /\ \A j \in Earlier(i) : Connector[j] = Connector[i] => ~MayCreate(j)

Entry == [port : Ports, iface : Interfaces, new : BOOLEAN]

\* MAP or CREATE; what is skipped is no entry.
Planned(e) ==
    \/ e.port \in Holders(e.iface) /\ ~e.new
    \/ /\ Holders(e.iface) = {} /\ e.port = Connector[e.iface]
       /\ IF e.new THEN Creates(e.iface) ELSE FreeConnector(e.iface)

PlanInterfaceSync(x) == {e \in Entry : Home[e.iface] = x /\ Planned(e)}

AskSync(k) == \E x \in Assets :
    LET plan == PlanInterfaceSync(x) IN
    /\ Mounted(x) /\ plan # {}
    /\ Ask(k, [op |-> "sync", on |-> x, todo |-> plan,
               ports |-> {e.port : e \in {f \in plan : ~f.new}}])

\* The next entry of the plan, a statement of its own; the first that is refused
\* ends the sync and leaves what it has done.
SyncStep(k) ==
    /\ Writes(k, "sync")
    /\ \E e \in job[k].todo :
        LET rest == job[k].todo \ {e}
            ok == IF e.new THEN /\ e.port \notin Live /\ Mounted(AssetOf(e.port))
                                /\ Holders(e.iface) = {}
                  ELSE CanMap(e.port, e.iface)
        IN
        /\ \A f \in rest : IfIndex[e.iface] <= IfIndex[f.iface]
        /\ e.new /\ e.port \notin Live => Unmeant(e.port)
        /\ IF ok /\ rest # {}
           THEN /\ job' = [job EXCEPT ![k].todo = rest]
                /\ UNCHANGED <<at, asked, raced>>
           ELSE End(k)
        /\ IF ok
           THEN /\ port' = [port EXCEPT ![e.port] =
                    IF e.new THEN [Free EXCEPT !.iface = e.iface]
                    ELSE [@ EXCEPT !.iface = e.iface]]
                /\ Touch({e.port})
           ELSE Touch({}) /\ UNCHANGED port
    /\ UNCHANGED <<rack, cables, boards>>

-----------------------------------------------------------------------------
(* Boards                                                                   *)

SlotFree(x) == \A n \in boards : SlotOf[n] # x

AskInstall(k) == \E m \in Modules :
    /\ Mounted(SlotOf[m]) /\ SlotFree(SlotOf[m])
    /\ Ask(k, [op |-> "install", on |-> NULL, ports |-> {}, board |-> m])

\* The board is created with its ports.
InstallModule(k) ==
    LET m == job[k].board IN
    /\ Writes(k, "install")
    /\ m \notin boards => \A r \in Created(m) \cup {m} : Unmeant(r)
    /\ WriteIf(k, Mounted(SlotOf[m]) /\ SlotFree(SlotOf[m]) /\ Created(m) \cap Live = {},
        /\ boards' = boards \cup {m}
        /\ port' = [p \in Ports |-> IF Origin[p] = m THEN Free ELSE port[p]]
        /\ Touch({}) /\ UNCHANGED cables)

ModuleIsRemovable(m) == \A p \in Created(m) \cap Live :
    port[p].cable = NULL /\ port[p].iface = NULL

AskRemove(k) == \E m \in boards :
    /\ ModuleIsRemovable(m)
    /\ Ask(k, [op |-> "remove", on |-> m, ports |-> {}])

RemoveModule(k) ==
    LET m == job[k].on IN
    /\ Writes(k, "remove")
    /\ WriteIf(k, m \in boards,
        /\ DeletePorts(Created(m) \cap Live)
        /\ boards' = boards \ {m}
        /\ Touch({}))

-----------------------------------------------------------------------------
(* The rack                                                                 *)

\* assertRackPlacement, and the test of the placement trigger.
Fits(x, r) ==
    /\ Top(r) <= units
    /\ \A y \in Assets \ {x} : Mounted(y) => ~Overlap(r, place[y])

PlacementHeld == \E k \in Callers : at[k] = "held" /\ job[k].op \in {"addAsset", "move"}
ResizeHeld == \E k \in Callers : at[k] = "held" /\ job[k].op = "resize"
RowHeld(x) == \E k \in Callers : at[k] = "held" /\ job[k].op = "move" /\ job[k].on = x

AskAsset(k) == \E x \in Assets, r \in Place :
    /\ ~Mounted(x) /\ Fits(x, r)
    /\ Ask(k, [op |-> "addAsset", on |-> NULL, ports |-> {}, new |-> x,
               start |-> r.start, height |-> r.height])

\* updateAsset: the position, the height or both.
Moved(r, j) == [start |-> IF j.start = NULL THEN r.start ELSE j.start,
                height |-> IF j.height = NULL THEN r.height ELSE j.height]

AskMove(k) == \E x \in Assets, s, h \in 1..MaxUnits \cup {NULL} :
    LET j == [op |-> "move", on |-> x, ports |-> {}, new |-> x, start |-> s, height |-> h] IN
    /\ Mounted(x) /\ <<s, h>> # <<NULL, NULL>>
    /\ Fits(x, Moved(place[x], j))
    /\ Ask(k, j)

\* The row as it will be.
NewPlace(k) ==
    IF job[k].op = "move" THEN Moved(place[job[k].new], job[k])
    ELSE [start |-> job[k].start, height |-> job[k].height]

\* Mutant: the trigger takes no advisory lock.
LockUnused(k) == TRUE

\* The advisory lock is the rack's; an update also locks the row.
LockFree(k) == ~PlacementHeld

\* The trigger of an insert or update; the row is not committed yet.
TestPlacement(k) ==
    LET x == job[k].new
        there == (job[k].op = "move") = Mounted(x)
    IN
    /\ at[k] = "write" /\ job[k].op \in {"addAsset", "move"}
    /\ LockFree(k)
    /\ job[k].op = "addAsset" /\ there => \A r \in PortsOf[x] \cup {x} : Unmeant(r)
    /\ IF there /\ Fits(x, NewPlace(k))
       THEN /\ at' = [at EXCEPT ![k] = "held"]
            /\ raced' = (raced \/ ResizeHeld)
            /\ UNCHANGED <<job, asked>>
       ELSE End(k)
    /\ Touch({}) /\ UNCHANGED <<rack, wiring>>

\* An asset is created with the ports of its template.
CommitPlacement(k) ==
    LET x == job[k].new IN
    /\ at[k] = "held" /\ job[k].op \in {"addAsset", "move"}
    /\ place' = [place EXCEPT ![x] = NewPlace(k)]
    /\ port' = [p \in Ports |->
        IF job[k].op = "addAsset" /\ p \in PortsOf[x] /\ Origin[p] = "template"
        THEN Free ELSE port[p]]
    /\ End(k) /\ Touch({}) /\ UNCHANGED <<units, cables, boards>>

\* Mutant: nobody looks for equipment that would stick out.
AnySize(u) == TRUE

\* updateRack, and the test of the resize trigger.
Spares(u) == \A x \in Assets : Mounted(x) => Top(place[x]) <= u

\* Mutant: a rack of no units.
AskAnyResize(k) == \E u \in 0..MaxUnits :
    /\ u # units /\ Spares(u)
    /\ Ask(k, [op |-> "resize", on |-> NULL, ports |-> {}, units |-> u])

AskResize(k) == \E u \in 1..MaxUnits :
    /\ u # units /\ Spares(u)
    /\ Ask(k, [op |-> "resize", on |-> NULL, ports |-> {}, units |-> u])

\* The trigger takes no lock but that of the row of the rack.
TestResize(k) ==
    /\ Writes(k, "resize") /\ ~ResizeHeld
    /\ IF Spares(job[k].units)
       THEN /\ at' = [at EXCEPT ![k] = "held"]
            /\ raced' = (raced \/ PlacementHeld)
            /\ UNCHANGED <<job, asked>>
       ELSE End(k)
    /\ Touch({}) /\ UNCHANGED <<rack, wiring>>

CommitResize(k) ==
    /\ at[k] = "held" /\ job[k].op = "resize"
    /\ units' = job[k].units
    /\ End(k) /\ Touch({}) /\ UNCHANGED <<place, wiring>>

AskRemoval(k) == \E x \in Assets :
    /\ Mounted(x)
    /\ \A p \in PortsOf[x] \cap Live : port[p].cable = NULL
    /\ Ask(k, [op |-> "deleteAsset", on |-> x, ports |-> {}])

\* Ports and boards go with the equipment.
DeleteAsset(k) ==
    LET x == job[k].on IN
    /\ Writes(k, "deleteAsset") /\ ~RowHeld(x)
    /\ DeletePorts(PortsOf[x] \cap Live)
    /\ boards' = {m \in boards : SlotOf[m] # x}
    /\ place' = [place EXCEPT ![x] = NULL]
    /\ End(k) /\ Touch({}) /\ UNCHANGED units

-----------------------------------------------------------------------------
(* Behaviours                                                               *)

Init ==
    /\ units = MaxUnits
    /\ \E s \in Starts : place = s.place /\ port = s.port /\ boards = s.boards
    /\ cables = {port[p].cable : p \in Live} \ {NULL}
    /\ at = [k \in Callers |-> "idle"]
    /\ asked = 0
    /\ job = [k \in Callers |-> NoJob]
    /\ since = [k \in Callers |-> {}]
    /\ raced = FALSE

Request(k) ==
    /\ at[k] = "idle" /\ asked < MaxRequests
    /\ \/ AskConnection(k) \/ AskDisconnection(k) \/ AskPort(k) \/ AskPair(k)
       \/ AskMapping(k) \/ AskReconcile(k) \/ AskSync(k) \/ AskInstall(k) \/ AskRemove(k)
       \/ AskAsset(k) \/ AskMove(k) \/ AskResize(k) \/ AskRemoval(k)

Write(k) ==
    \/ CreateConnection(k) \/ DeleteConnection(k) \/ CreatePort(k) \/ PairPorts(k)
    \/ UpdatePort(k) \/ ReconcilePorts(k) \/ SyncStep(k)
    \/ InstallModule(k) \/ RemoveModule(k) \/ DeleteAsset(k)
    \/ TestPlacement(k) \/ CommitPlacement(k) \/ TestResize(k) \/ CommitResize(k)

Next == \E k \in Callers : Request(k) \/ Write(k) \/ Fail(k)

Spec == Init /\ [][Next]_vars

-----------------------------------------------------------------------------
(* Properties                                                               *)

\* createConnection, the deletions and the triggers: whatever requests cross, a
\* cable has two ends, both plugged into ports that exist, and a plugged port has
\* its cable.
CablesJoinTwoPorts ==
    /\ \A p \in Live : port[p].cable \in cables \cup {NULL}
    /\ \A c \in cables : Cardinality({p \in Live : port[p].cable = c}) = 2

\* A passage is known to both its ports, unless an operator created one of them
\* already paired (createPort writes that side only); no port is in two, and none
\* leads back to itself (the table's PhysicalPort_not_self_paired).
PassagesAreMutual == \A p \in Live : port[p].pair # NULL =>
    /\ port[p].pair \in Live \ {p}
    /\ port[port[p].pair].pair = p \/ Origin[p] = "manual"
    /\ \A q \in Live \ {p} : port[q].pair # port[p].pair

\* The placement trigger under its advisory lock: no two assets share a unit, though
\* the service tests an inventory that may be old and nothing else is locked.
PlacementsDisjoint == \A x, y \in Assets :
    x # y /\ Mounted(x) /\ Mounted(y) => ~Overlap(place[x], place[y])

\* What the database is said to protect: no rack ends below its equipment. It does,
\* when a resize and a placement test each other's old value.
RackHoldsItsEquipment == \A x \in Assets : Mounted(x) => Top(place[x]) <= units

\* The two triggers of the rack: nothing but that race breaks it.
SticksOutOnlyByRace == ~RackHoldsItsEquipment => raced

\* moduleIsRemovable, deleteAsset, findReconcilablePorts: a request that removes ports
\* takes no cable, and a removed board no mapping, that was there when it looked.
RemovalsSpareTheSeen ==
    [][\A p \in Ports : port[p] # NULL /\ port'[p] = NULL =>
        \E k \in Callers :
            /\ at[k] = "write" /\ at'[k] = "idle"
            /\ \/ p \in since[k]
               \/ port[p].cable = NULL /\ (job[k].op = "remove" => port[p].iface = NULL)]_vars

\* planInterfaceSync, carried out later: a sync steals no mapping it has seen. What
\* it does take was mapped since it looked, by another request or by itself: each lane
\* of a free cage takes it from the lane before, and the documented claim that the
\* first lane keeps it does not hold.
SyncSparesMappings ==
    [][\A k \in Callers, p \in Live :
        Writes(k, "sync") /\ job'[k] # job[k] /\ port'[p] # port[p] =>
            port[p].iface = NULL \/ p \in since[k]]_vars
=============================================================================
