----------------------- MODULE PhysicalInventoryProofs -----------------------
(* Proofs about PhysicalInventory and PhysicalTrace, for every value of their *)
(* constants.                                                                *)
EXTENDS PhysicalTrace, NaturalSets, TLAPS

-----------------------------------------------------------------------------
(* The inductive invariant                                                   *)

SyncJob == [op : {"sync"}, on : Assets, todo : (SUBSET Entry) \ {{}}, ports : SUBSET Ports]

\* A request under way is one of those somebody may ask for.
JobOK(j) ==
    /\ j.op = "plug" => Cardinality(j.ports) = 2
    /\ j.op = "addPort" =>
        /\ j.new \in Ports /\ Origin[j.new] = "manual"
        /\ j.row \in Rows /\ j.row.cable = NULL
    /\ j.op = "pair" => j.front \in Ports /\ j.rear \in Ports /\ j.front # j.rear
    /\ j.op = "map" => j.iface \in Interfaces \cup {NULL}
    /\ j.op = "sync" => j \in SyncJob
    /\ j.op = "install" => j.board \in Modules
    /\ j.op = "remove" => j.on \in Modules
    /\ j.op = "addAsset" => j.new \in Assets /\ [start |-> j.start, height |-> j.height] \in Place
    /\ j.op = "move" =>
        /\ j.new \in Assets /\ j.on = j.new
        /\ j.start \in 1..MaxUnits \cup {NULL} /\ j.height \in 1..MaxUnits \cup {NULL}
    /\ j.op = "resize" => j.units \in 1..MaxUnits
    /\ j.op = "deleteAsset" => j.on \in Assets

JobsOK ==
    /\ DOMAIN job = Callers
    /\ \A k \in Callers : InFlight(k) => JobOK(job[k])
    /\ \A k \in Callers : at[k] = "held" => job[k].op \in {"addAsset", "move", "resize"}

\* No two ports have the same interface, and a port has its equipment.
HeldOnce ==
    \A p, q \in Live : p # q /\ port[p].iface # NULL => port[p].iface # port[q].iface

RowsOK == HeldOnce /\ \A p \in Live : Mounted(AssetOf(p))

Placing(k) == at[k] = "held" /\ job[k].op \in {"addAsset", "move"}

\* A placement that has passed its trigger still passes it, whatever else commits.
PlacementsOK ==
    /\ \A k, d \in Callers : Placing(k) /\ Placing(d) => k = d
    /\ \A k \in Callers : Placing(k) =>
        /\ (job[k].op = "move") = Mounted(job[k].new)
        /\ \A y \in Assets \ {job[k].new} : Mounted(y) => ~Overlap(NewPlace(k), place[y])

Resizing(k) == at[k] = "held" /\ job[k].op = "resize"

RaceOK == ~raced =>
    /\ \A x \in Assets : Mounted(x) => Top(place[x]) <= units
    /\ \A k \in Callers : Placing(k) => Top(NewPlace(k)) <= units
    /\ \A k \in Callers : Resizing(k) => Spares(job[k].units)
    /\ \A k, d \in Callers : ~(Placing(k) /\ Resizing(d))

\* What a request has looked at, and was not touched since (s), is as it was.
SeenBy(j, s) ==
    /\ j.op = "reconcile" => \A p \in j.ports \cap Live : p \in s \/ port[p].cable = NULL
    /\ j.op = "remove" => \A p \in Created(j.on) \cap Live :
        p \in s \/ (port[p].cable = NULL /\ port[p].iface = NULL)
    /\ j.op = "deleteAsset" => \A p \in PortsOf[j.on] \cap Live :
        p \in s \/ port[p].cable = NULL

\* The plan of a sync has one entry for an interface.
PlanOK(j) == j.op = "sync" => \A e \in j.todo :
    /\ ~e.new => e.port \in j.ports
    /\ \A f \in j.todo : f.iface = e.iface => f = e

\* It maps a port that had no interface, unless the port was touched since.
MapsFree(j, s) == j.op = "sync" => \A e \in j.todo :
    ~e.new /\ e.port \in Live /\ e.port \notin s =>
        port[e.port].iface \in {NULL, e.iface}

LooksOK == \A k \in Callers : at[k] = "write" =>
    SeenBy(job[k], since[k]) /\ PlanOK(job[k]) /\ MapsFree(job[k], since[k])

PhysInv ==
    /\ TypeOK /\ JobsOK
    /\ RowsOK /\ CablesJoinTwoPorts /\ PassagesAreMutual
    /\ PlacementsOK /\ PlacementsDisjoint /\ RaceOK
    /\ LooksOK

-----------------------------------------------------------------------------
(* The constants                                                             *)

\* A port belongs to one asset, and NULL is none of the rows.
LEMMA Constants ==
    /\ MaxUnits \in Nat /\ MaxRequests \in Nat
    /\ NULL \notin Assets \cup Modules \cup Cables \cup Interfaces \cup Ports
    /\ NULL \notin Place /\ NULL \notin Rows
    /\ SlotOf \in [Modules -> Assets]
    /\ \A p \in Ports :
        /\ AssetOf(p) \in Assets /\ p \in PortsOf[AssetOf(p)]
        /\ \A x \in Assets : p \in PortsOf[x] => x = AssetOf(p)
        /\ Origin[p] \in Modules => AssetOf(p) = SlotOf[Origin[p]]
<1>1. /\ MaxUnits \in Nat /\ MaxRequests \in Nat
      /\ NULL \notin Assets \cup Modules \cup Cables \cup Interfaces \cup Ports \cup Place \cup Rows
      /\ SlotOf \in [Modules -> Assets]
    BY InventoryAssumption
<1>2. ASSUME NEW p \in Ports
      PROVE  /\ AssetOf(p) \in Assets /\ p \in PortsOf[AssetOf(p)]
             /\ \A x \in Assets : p \in PortsOf[x] => x = AssetOf(p)
    <2>1. \E x \in Assets : p \in PortsOf[x]
        BY DEF Ports
    <2>2. AssetOf(p) \in Assets /\ p \in PortsOf[AssetOf(p)]
        BY <2>1 DEF AssetOf
    <2>. QED BY <2>2, InventoryAssumption
<1>3. \A p \in Ports : Origin[p] \in Modules => p \in PortsOf[SlotOf[Origin[p]]]
    BY InventoryAssumption
<1>. QED BY <1>1, <1>2, <1>3

-----------------------------------------------------------------------------
(* What may be asked                                                         *)

\* A request is well formed, and all that it has looked at is so.
LEMMA Asked ==
    ASSUME TypeOK, RowsOK, NEW k \in Callers, Request(k)
    PROVE  \E j : /\ Ask(k, j) /\ asked < MaxRequests
                  /\ JobOK(j) /\ j.ports \subseteq Ports /\ PlanOK(j)
                  /\ \A s : SeenBy(j, s) /\ MapsFree(j, s)
<1> DEFINE Good(j) == /\ Ask(k, j) /\ JobOK(j) /\ j.ports \subseteq Ports /\ PlanOK(j)
                      /\ \A s : SeenBy(j, s) /\ MapsFree(j, s)
<1> HIDE DEF Good
<1> SUFFICES \E j : Good(j)
    BY DEF Good, Request
<1>0. Live \subseteq Ports /\ port \in [Ports -> Rows \cup {NULL}]
      /\ cables \subseteq Cables /\ boards \subseteq Modules
    BY DEF TypeOK, Live
<1>1. CASE AskConnection(k)
    <2>1. PICK e \in kSubset(2, Live) :
            Ask(k, [op |-> "plug", on |-> NULL, ports |-> e])
        BY <1>1 DEF AskConnection
    <2>2. e \subseteq Live /\ Cardinality(e) = 2
        BY DEF kSubset
    <2>3. Good([op |-> "plug", on |-> NULL, ports |-> e])
        BY <1>0, <2>1, <2>2 DEF Good, JobOK, PlanOK, SeenBy, MapsFree
    <2>. QED BY <2>3
<1>2. CASE AskDisconnection(k)
    <2>1. PICK c \in cables : Ask(k, [op |-> "unplug", on |-> c, ports |-> {}])
        BY <1>2 DEF AskDisconnection
    <2>2. Good([op |-> "unplug", on |-> c, ports |-> {}])
        BY <2>1 DEF Good, JobOK, PlanOK, SeenBy, MapsFree
    <2>. QED BY <2>2
<1>3. CASE AskPort(k)
    <2>1. PICK p \in Created("manual"), i \in Interfaces \cup {NULL}, q \in Live \cup {NULL} :
            Ask(k, [op |-> "addPort", on |-> NULL, ports |-> {q} \ {NULL},
                    new |-> p, row |-> [Free EXCEPT !.iface = i, !.pair = q]])
        BY <1>3 DEF AskPort, DeviceInterfaces
    <2>2. [Free EXCEPT !.iface = i, !.pair = q] \in Rows
          /\ [Free EXCEPT !.iface = i, !.pair = q].cable = NULL
        BY <1>0 DEF Free, Rows
    <2>3. p \in Ports /\ Origin[p] = "manual"
        BY DEF Created
    <2>4. Good([op |-> "addPort", on |-> NULL, ports |-> {q} \ {NULL},
                new |-> p, row |-> [Free EXCEPT !.iface = i, !.pair = q]])
        BY <1>0, <2>1, <2>2, <2>3 DEF Good, JobOK, PlanOK, SeenBy, MapsFree
    <2>. QED BY <2>4
<1>4. CASE AskPair(k)
    <2>1. PICK a \in Live, b \in Live :
            /\ Side[a] = "FRONT" /\ Side[b] = "REAR"
            /\ Ask(k, [op |-> "pair", on |-> NULL, ports |-> {a, b}, front |-> a, rear |-> b])
        BY <1>4 DEF AskPair
    <2>2. Good([op |-> "pair", on |-> NULL, ports |-> {a, b}, front |-> a, rear |-> b])
        BY <1>0, <2>1 DEF Good, JobOK, PlanOK, SeenBy, MapsFree
    <2>. QED BY <2>2
<1>5. CASE AskMapping(k)
    <2>1. PICK p \in Live, i \in Interfaces \cup {NULL} :
            Ask(k, [op |-> "map", on |-> NULL, ports |-> {p}, port |-> p, iface |-> i])
        BY <1>5 DEF AskMapping, DeviceInterfaces
    <2>2. Good([op |-> "map", on |-> NULL, ports |-> {p}, port |-> p, iface |-> i])
        BY <1>0, <2>1 DEF Good, JobOK, PlanOK, SeenBy, MapsFree
    <2>. QED BY <2>2
<1>6. CASE AskReconcile(k)
    <2>1. PICK bad \in SUBSET Live :
            /\ \A p \in bad : Reconcilable(p)
            /\ Ask(k, [op |-> "reconcile", on |-> NULL, ports |-> bad])
        BY <1>6 DEF AskReconcile
    <2>2. Good([op |-> "reconcile", on |-> NULL, ports |-> bad])
        BY <1>0, <2>1 DEF Good, JobOK, PlanOK, SeenBy, MapsFree, Reconcilable
    <2>. QED BY <2>2
<1>7. CASE AskSync(k)
    <2>1. PICK x \in Assets :
            /\ PlanInterfaceSync(x) # {}
            /\ Ask(k, [op |-> "sync", on |-> x, todo |-> PlanInterfaceSync(x),
                       ports |-> {e.port : e \in {f \in PlanInterfaceSync(x) : ~f.new}}])
        BY <1>7 DEF AskSync
    <2> DEFINE plan == PlanInterfaceSync(x)
               j == [op |-> "sync", on |-> x, todo |-> plan,
                     ports |-> {e.port : e \in {f \in plan : ~f.new}}]
    <2>2. plan \subseteq Entry /\ \A e \in plan : Home[e.iface] = x /\ Planned(e)
        BY DEF PlanInterfaceSync
    <2>3. \A e \in plan : /\ e.port \in Ports /\ e.iface \in Interfaces /\ e.new \in BOOLEAN
                          /\ e = [port |-> e.port, iface |-> e.iface, new |-> e.new]
        BY <2>2 DEF Entry
    <2>4. j.ports \subseteq Ports /\ \A e \in plan : ~e.new => e.port \in j.ports
        BY <2>3
    <2>5. j \in SyncJob
        BY <2>1, <2>2, <2>4 DEF SyncJob
    <2>6. ASSUME NEW e \in plan, NEW f \in plan, f.iface = e.iface
          PROVE  f = e
        <3>1. f.port = e.port
            BY <2>2, <2>3, <2>6, Constants DEF Planned, Holders, RowsOK, HeldOnce
        <3>2. f.new = e.new
            BY <2>2, <2>3, <2>6 DEF Planned, Creates, MayCreate
        <3>. QED BY <2>3, <2>6, <3>1, <3>2
    <2>8. ASSUME NEW e \in plan, ~e.new
          PROVE  port[e.port].iface \in {NULL, e.iface}
        BY <2>2, <2>3, <2>8 DEF Planned, Holders, FreeConnector
    <2> HIDE DEF plan
    <2>9. JobOK(j)
        BY <2>5 DEF JobOK
    <2>10. PlanOK(j) /\ \A s : SeenBy(j, s) /\ MapsFree(j, s)
        BY <2>2, <2>4, <2>6, <2>8 DEF PlanOK, SeenBy, MapsFree, plan
    <2>11. Good(j)
        BY <2>1, <2>4, <2>9, <2>10 DEF Good, plan
    <2>. QED BY <2>11
<1>8. CASE AskInstall(k)
    <2>1. PICK m \in Modules :
            Ask(k, [op |-> "install", on |-> NULL, ports |-> {}, board |-> m])
        BY <1>8 DEF AskInstall
    <2>2. Good([op |-> "install", on |-> NULL, ports |-> {}, board |-> m])
        BY <2>1 DEF Good, JobOK, PlanOK, SeenBy, MapsFree
    <2>. QED BY <2>2
<1>9. CASE AskRemove(k)
    <2>1. PICK m \in boards :
            ModuleIsRemovable(m) /\ Ask(k, [op |-> "remove", on |-> m, ports |-> {}])
        BY <1>9 DEF AskRemove
    <2>2. Good([op |-> "remove", on |-> m, ports |-> {}])
        BY <1>0, <2>1 DEF Good, JobOK, PlanOK, SeenBy, MapsFree, ModuleIsRemovable
    <2>. QED BY <2>2
<1>10. CASE AskAsset(k)
    <2>1. PICK x \in Assets, r \in Place :
            Ask(k, [op |-> "addAsset", on |-> NULL, ports |-> {}, new |-> x,
                    start |-> r.start, height |-> r.height])
        BY <1>10 DEF AskAsset
    <2>2. Good([op |-> "addAsset", on |-> NULL, ports |-> {}, new |-> x,
                start |-> r.start, height |-> r.height])
        BY <2>1 DEF Good, JobOK, PlanOK, SeenBy, MapsFree, Place
    <2>. QED BY <2>2
<1>11. CASE AskMove(k)
    <2>1. PICK x \in Assets, s \in 1..MaxUnits \cup {NULL}, h \in 1..MaxUnits \cup {NULL} :
            Ask(k, [op |-> "move", on |-> x, ports |-> {}, new |-> x,
                    start |-> s, height |-> h])
        BY <1>11 DEF AskMove
    <2>2. Good([op |-> "move", on |-> x, ports |-> {}, new |-> x,
                start |-> s, height |-> h])
        BY <2>1 DEF Good, JobOK, PlanOK, SeenBy, MapsFree
    <2>. QED BY <2>2
<1>12. CASE AskResize(k)
    <2>1. PICK u \in 1..MaxUnits :
            Ask(k, [op |-> "resize", on |-> NULL, ports |-> {}, units |-> u])
        BY <1>12 DEF AskResize
    <2>2. Good([op |-> "resize", on |-> NULL, ports |-> {}, units |-> u])
        BY <2>1 DEF Good, JobOK, PlanOK, SeenBy, MapsFree
    <2>. QED BY <2>2
<1>13. CASE AskRemoval(k)
    <2>1. PICK x \in Assets :
            /\ \A p \in PortsOf[x] \cap Live : port[p].cable = NULL
            /\ Ask(k, [op |-> "deleteAsset", on |-> x, ports |-> {}])
        BY <1>13 DEF AskRemoval
    <2>2. Good([op |-> "deleteAsset", on |-> x, ports |-> {}])
        BY <2>1 DEF Good, JobOK, PlanOK, SeenBy, MapsFree
    <2>. QED BY <2>2
<1>. QED BY <1>1, <1>2, <1>3, <1>4, <1>5, <1>6, <1>7, <1>8, <1>9, <1>10, <1>11, <1>12, <1>13
         DEF Request

-----------------------------------------------------------------------------
(* What a step does to the rows of ports and cables                          *)

Plugs(c, e) ==
    /\ c \in Cables \ cables /\ StillFree(e) /\ Cardinality(e) = 2
    /\ cables' = cables \cup {c}
    /\ port' = [p \in Ports |-> IF p \in e THEN [port[p] EXCEPT !.cable = c] ELSE port[p]]
    /\ Touch(e)

Unplugs(c) == cables' = cables \ {c} /\ port' = Unplugged(c) /\ Touch({})

Adds(new) ==
    /\ new \subseteq Ports \ Live
    /\ port' = [p \in Ports |-> IF p \in new THEN Free ELSE port[p]]
    /\ Touch({}) /\ UNCHANGED cables

AddsOne(p, row) ==
    /\ p \in Ports \ Live
    /\ row \in Rows /\ row.cable = NULL
    /\ row.iface # NULL => Holders(row.iface) = {}
    /\ row.pair # NULL =>
        Origin[p] = "manual" /\ row.pair \in Live /\ \A q \in Live : port[q].pair # row.pair
    /\ port' = [port EXCEPT ![p] = row]
    /\ Touch({p}) /\ UNCHANGED cables

Pairs(a, b) ==
    /\ a \in Live /\ b \in Live /\ a # b
    /\ port[a].pair = NULL /\ port[b].pair = NULL
    /\ \A q \in Live : port[q].pair \notin {a, b}
    /\ port' = Paired(a, b)
    /\ Touch({}) /\ UNCHANGED cables

Maps(p, i) ==
    /\ CanMap(p, i) /\ i \in Interfaces \cup {NULL}
    /\ port' = [port EXCEPT ![p].iface = i]
    /\ Touch({p}) /\ UNCHANGED cables

\* The ports a request removes.
Doomed(j) ==
    CASE j.op = "reconcile" -> j.ports
      [] j.op = "remove" -> Created(j.on)
      [] j.op = "deleteAsset" -> PortsOf[j.on]

Drops(k, gone) ==
    /\ at[k] = "write" /\ job[k].op \in {"reconcile", "remove", "deleteAsset"} /\ End(k)
    /\ gone = Doomed(job[k]) \cap Live
    /\ DeletePorts(gone) /\ Touch({})

Wired(k) ==
    \/ UNCHANGED <<port, cables>> /\ Touch({})
    \/ \E c, e : Plugs(c, e)
    \/ \E c : Unplugs(c)
    \/ \E new : Adds(new)
    \/ \E p, row : AddsOne(p, row)
    \/ \E a, b : Pairs(a, b)
    \/ \E p, i : Maps(p, i)
    \/ \E gone : Drops(k, gone)

\* A step of a request wires in one of these ways, and no port is left without its
\* equipment.
LEMMA Wiring ==
    ASSUME PhysInv, NEW k \in Callers, Write(k) \/ Fail(k)
    PROVE  Wired(k) /\ \A p \in Live' : Mounted(AssetOf(p))'
<1>0. /\ Live \subseteq Ports /\ port \in [Ports -> Rows \cup {NULL}]
      /\ place \in [Assets -> Place \cup {NULL}]
      /\ cables \subseteq Cables /\ boards \subseteq Modules
      /\ at \in [Callers -> {"idle", "write", "held"}] /\ DOMAIN job = Callers
      /\ job[k].ports \subseteq Ports
      /\ \A p \in Live : Mounted(AssetOf(p))
      /\ \A p \in Live : port[p] \in Rows
      /\ InFlight(k) => JobOK(job[k])
    BY DEF PhysInv, TypeOK, JobsOK, RowsOK, Live
<1>same. ASSUME UNCHANGED <<port, cables, place>>, Touch({})
         PROVE  Wired(k) /\ \A p \in Live' : Mounted(AssetOf(p))'
    BY <1>0, <1>same DEF Wired, Live, Mounted
<1>1. CASE Fail(k)
    BY <1>1, <1>same DEF Fail, rack, wiring
<1>2. CASE CreateConnection(k)
    <2>1. PICK c \in Cables \ cables :
            WriteIf(k, StillFree(job[k].ports), Plug(c, job[k].ports))
        BY <1>2 DEF CreateConnection
    <2>2. CASE ~StillFree(job[k].ports)
        BY <2>1, <2>2, <1>same DEF WriteIf, rack, wiring
    <2>3. CASE StillFree(job[k].ports)
        <3>1. Plugs(c, job[k].ports) /\ UNCHANGED place
            BY <1>0, <1>2, <2>1, <2>3 DEF CreateConnection, Writes, InFlight, JobOK, WriteIf,
                Plug, Plugs, rack
        <3>2. \A p \in Live' : p \in Live
            BY <1>0, <3>1 DEF Plugs, StillFree, Live
        <3>. QED BY <1>0, <3>1, <3>2 DEF Wired, Mounted
    <2>. QED BY <2>2, <2>3
<1>3. CASE DeleteConnection(k)
    <2>2. CASE job[k].on \notin cables
        BY <1>3, <2>2, <1>same DEF DeleteConnection, WriteIf, rack, wiring
    <2>3. CASE job[k].on \in cables
        <3>1. Unplugs(job[k].on) /\ UNCHANGED place
            BY <1>0, <1>3, <2>3 DEF DeleteConnection, WriteIf, Unplugs, rack
        <3>2. \A p \in Live' : p \in Live
            BY <1>0, <3>1 DEF Unplugs, Unplugged, Live
        <3>. QED BY <1>0, <3>1, <3>2 DEF Wired, Mounted
    <2>. QED BY <2>2, <2>3
<1>4. CASE CreatePort(k)
    <2> DEFINE p == job[k].new  row == job[k].row
               ok == /\ port[p] = NULL /\ Mounted(AssetOf(p))
                     /\ row.iface # NULL => Holders(row.iface) = {}
                     /\ row.pair # NULL =>
                         row.pair \in Live /\ \A q \in Live : port[q].pair # row.pair
    <2>1. /\ UNCHANGED place
          /\ ~ok => UNCHANGED <<port, cables>> /\ Touch({})
          /\ ok => port' = [port EXCEPT ![p] = row] /\ Touch({p}) /\ UNCHANGED cables
        BY <1>4 DEF CreatePort, WriteIf, rack, wiring
    <2>2. p \in Ports /\ Origin[p] = "manual" /\ row \in Rows /\ row.cable = NULL
        BY <1>0, <1>4 DEF CreatePort, Writes, InFlight, JobOK
    <2>3. CASE ~ok
        BY <2>1, <2>3, <1>same
    <2>4. CASE ok
        <3>1. AddsOne(p, row)
            BY <2>1, <2>2, <2>4 DEF AddsOne, Live
        <3>2. \A q \in Live' : q \in Live \/ q = p
            BY <1>0, <2>1, <2>2, <2>4 DEF Live
        <3>3. Mounted(AssetOf(p))
            BY <2>4
        <3> HIDE DEF p, row
        <3>. QED BY <1>0, <2>1, <3>1, <3>2, <3>3 DEF Wired, Mounted
    <2>. QED BY <2>3, <2>4
<1>5. CASE PairPorts(k)
    <2> DEFINE a == job[k].front  b == job[k].rear
               ok == /\ {a, b} \subseteq Live /\ port[a].pair = NULL /\ port[b].pair = NULL
                     /\ \A q \in Live : port[q].pair \notin {a, b}
    <2>1. /\ UNCHANGED place
          /\ ~ok => UNCHANGED <<port, cables>> /\ Touch({})
          /\ ok => port' = Paired(a, b) /\ Touch({}) /\ UNCHANGED cables
        BY <1>5 DEF PairPorts, WriteIf, rack, wiring
    <2>2. a # b
        BY <1>0, <1>5 DEF PairPorts, Writes, InFlight, JobOK
    <2>3. CASE ~ok
        BY <2>1, <2>3, <1>same
    <2>4. CASE ok
        <3>1. Pairs(a, b)
            BY <2>1, <2>2, <2>4 DEF Pairs
        <3>2. \A q \in Live' : q \in Live
            BY <1>0, <2>1, <2>4 DEF Paired, Live
        <3>. QED BY <1>0, <2>1, <3>1, <3>2 DEF Wired, Mounted
    <2>. QED BY <2>3, <2>4
<1>6. CASE UpdatePort(k)
    <2> DEFINE p == job[k].port  i == job[k].iface
    <2>1. /\ UNCHANGED place
          /\ ~CanMap(p, i) => UNCHANGED <<port, cables>> /\ Touch({})
          /\ CanMap(p, i) =>
                port' = [port EXCEPT ![p].iface = i] /\ Touch({p}) /\ UNCHANGED cables
        BY <1>6 DEF UpdatePort, WriteIf, MapTo, rack, wiring
    <2>2. i \in Interfaces \cup {NULL}
        BY <1>0, <1>6 DEF UpdatePort, Writes, InFlight, JobOK
    <2>3. CASE ~CanMap(p, i)
        BY <2>1, <2>3, <1>same
    <2>4. CASE CanMap(p, i)
        <3>1. Maps(p, i)
            BY <2>1, <2>2, <2>4 DEF Maps
        <3>2. \A q \in Live' : q \in Live
            BY <1>0, <2>1, <2>4 DEF CanMap, Live
        <3>. QED BY <1>0, <2>1, <3>1, <3>2 DEF Wired, Mounted
    <2>. QED BY <2>3, <2>4
<1>7. CASE ReconcilePorts(k)
    <2>1. Drops(k, job[k].ports \cap Live) /\ UNCHANGED place
        BY <1>7 DEF ReconcilePorts, Writes, WriteIf, Drops, Doomed, rack
    <2>2. \A q \in Live' : q \in Live
        BY <1>0, <2>1 DEF Drops, DeletePorts, Live
    <2>. QED BY <1>0, <2>1, <2>2 DEF Wired, Mounted
<1>8. CASE SyncStep(k)
    <2>1. /\ job[k] \in SyncJob
          /\ UNCHANGED <<place, cables>>
        BY <1>0, <1>8 DEF SyncStep, Writes, InFlight, JobOK, rack
    <2>2. PICK e \in job[k].todo :
            LET ok == IF e.new THEN /\ e.port \notin Live /\ Mounted(AssetOf(e.port))
                                    /\ Holders(e.iface) = {}
                      ELSE CanMap(e.port, e.iface)
            IN IF ok
               THEN /\ port' = [port EXCEPT ![e.port] =
                        IF e.new THEN [Free EXCEPT !.iface = e.iface]
                        ELSE [@ EXCEPT !.iface = e.iface]]
                    /\ Touch({e.port})
               ELSE Touch({}) /\ UNCHANGED port
        BY <1>8 DEF SyncStep
    <2>3. e.port \in Ports /\ e.iface \in Interfaces
        BY <2>1 DEF SyncJob, Entry
    <2>4. CASE UNCHANGED port /\ Touch({})
        BY <2>1, <2>4, <1>same
    <2>5. CASE /\ e.new /\ e.port \notin Live /\ Mounted(AssetOf(e.port))
               /\ Holders(e.iface) = {}
               /\ port' = [port EXCEPT ![e.port] = [Free EXCEPT !.iface = e.iface]]
               /\ Touch({e.port})
        <3>1. AddsOne(e.port, [Free EXCEPT !.iface = e.iface])
            BY <2>1, <2>3, <2>5 DEF AddsOne, Rows, Free
        <3>2. \A q \in Live' : q \in Live \/ q = e.port
            BY <1>0, <2>3, <2>5 DEF Live
        <3>. QED BY <1>0, <2>1, <2>5, <3>1, <3>2 DEF Wired, Mounted
    <2>6. CASE /\ ~e.new /\ CanMap(e.port, e.iface)
               /\ port' = [port EXCEPT ![e.port].iface = e.iface]
               /\ Touch({e.port})
        <3>1. Maps(e.port, e.iface)
            BY <2>1, <2>3, <2>6 DEF Maps
        <3>2. \A q \in Live' : q \in Live
            BY <1>0, <2>6 DEF CanMap, Live
        <3>. QED BY <1>0, <2>1, <3>1, <3>2 DEF Wired, Mounted
    <2>. QED BY <2>2, <2>4, <2>5, <2>6
<1>9. CASE InstallModule(k)
    <2> DEFINE m == job[k].board
               ok == Mounted(SlotOf[m]) /\ SlotFree(SlotOf[m]) /\ Created(m) \cap Live = {}
    <2>1. /\ UNCHANGED <<place, cables>>
          /\ Touch({})
          /\ ~ok => UNCHANGED port
          /\ ok => port' = [p \in Ports |-> IF Origin[p] = m THEN Free ELSE port[p]]
        BY <1>9 DEF InstallModule, WriteIf, rack, wiring
    <2>2. m \in Modules
        BY <1>0, <1>9 DEF InstallModule, Writes, InFlight, JobOK
    <2>3. CASE ~ok
        BY <2>1, <2>3, <1>same
    <2>4. CASE ok
        <3>1. Adds(Created(m))
            BY <2>1, <2>4 DEF Adds, Created
        <3>2. \A q \in Live' : q \in Live \/ AssetOf(q) = SlotOf[m]
            BY <1>0, <2>1, <2>2, <2>4, Constants DEF Live
        <3>. QED BY <1>0, <2>1, <2>4, <3>1, <3>2 DEF Wired, Mounted
    <2>. QED BY <2>3, <2>4
<1>10. CASE RemoveModule(k)
    <2>2. CASE job[k].on \notin boards
        BY <1>10, <2>2, <1>same DEF RemoveModule, WriteIf, rack, wiring
    <2>3. CASE job[k].on \in boards
        <3>1. Drops(k, Created(job[k].on) \cap Live) /\ UNCHANGED place
            BY <1>10, <2>3 DEF RemoveModule, Writes, WriteIf, Drops, Doomed, rack
        <3>2. \A q \in Live' : q \in Live
            BY <1>0, <3>1 DEF Drops, DeletePorts, Live
        <3>. QED BY <1>0, <3>1, <3>2 DEF Wired, Mounted
    <2>. QED BY <2>2, <2>3
<1>11. CASE DeleteAsset(k)
    <2>1. /\ Drops(k, PortsOf[job[k].on] \cap Live)
          /\ place' = [place EXCEPT ![job[k].on] = NULL]
        BY <1>11 DEF DeleteAsset, Writes, Drops, Doomed
    <2>2. \A q \in Live' : q \in Live /\ q \notin PortsOf[job[k].on]
        BY <1>0, <2>1 DEF Drops, DeletePorts, Live
    <2>3. \A q \in Live' : AssetOf(q) # job[k].on
        BY <2>2, <1>0, Constants
    <2>. QED BY <1>0, <2>1, <2>2, <2>3, Constants DEF Wired, Mounted
<1>12. CASE CommitPlacement(k)
    <2> DEFINE x == job[k].new
               new == {p \in PortsOf[x] : job[k].op = "addAsset" /\ Origin[p] = "template"}
    <2>1. /\ place' = [place EXCEPT ![x] = NewPlace(k)]
          /\ port' = [p \in Ports |->
                IF job[k].op = "addAsset" /\ p \in PortsOf[x] /\ Origin[p] = "template"
                THEN Free ELSE port[p]]
          /\ Touch({}) /\ UNCHANGED cables
        BY <1>12 DEF CommitPlacement
    <2>2. /\ x \in Assets /\ NewPlace(k) \in Place
          /\ job[k].op = "addAsset" => ~Mounted(x)
        <3>1. /\ Placing(k) /\ JobOK(job[k])
            BY <1>0, <1>12 DEF CommitPlacement, Placing, InFlight
        <3>2. /\ x \in Assets
              /\ job[k].op = "addAsset" => ~Mounted(x)
              /\ job[k].op = "move" => Mounted(x)
            BY <3>1 DEF Placing, JobOK, PhysInv, PlacementsOK
        <3>3. NewPlace(k) \in Place
            BY <1>0, <3>1, <3>2, Constants DEF Placing, JobOK, NewPlace, Moved, Place, Mounted
        <3>. QED BY <3>2, <3>3
    <2>3. Adds(new)
        <3>1. new \subseteq Ports
            BY <2>2 DEF Ports
        <3>2. new \cap Live = {}
            BY <1>0, <2>2, Constants
        <3>. QED BY <2>1, <3>1, <3>2 DEF Adds
    <2>4. \A q \in Live' : q \in Live \/ AssetOf(q) = x
        BY <1>0, <2>1, <2>2, Constants DEF Live
    <2>. QED BY <1>0, <2>1, <2>2, <2>3, <2>4, Constants DEF Wired, Mounted
<1>13. CASE TestPlacement(k)
    BY <1>13, <1>same DEF TestPlacement, rack, wiring
<1>14. CASE TestResize(k)
    BY <1>14, <1>same DEF TestResize, rack, wiring
<1>15. CASE CommitResize(k)
    BY <1>15, <1>same DEF CommitResize, rack, wiring
<1>. QED BY <1>1, <1>2, <1>3, <1>4, <1>5, <1>6, <1>7, <1>8, <1>9, <1>10, <1>11, <1>12,
            <1>13, <1>14, <1>15 DEF Write

-----------------------------------------------------------------------------
(* The invariant is inductive                                                *)

\* A sync goes on to the next entry of its plan.
Syncs(k, e) ==
    /\ at[k] = "write" /\ job[k].op = "sync"
    /\ e \in job[k].todo /\ job[k].todo \ {e} # {}
    /\ job' = [job EXCEPT ![k].todo = job[k].todo \ {e}]
    /\ UNCHANGED <<at, asked, raced>>
    /\ \A f \in job[k].todo \ {e} : IfIndex[e.iface] <= IfIndex[f.iface]
    /\ e.new => Unmeant(e.port)
    /\ port' = [port EXCEPT ![e.port] =
            IF e.new THEN [Free EXCEPT !.iface = e.iface] ELSE [@ EXCEPT !.iface = e.iface]]
    /\ Touch({e.port})

\* The invariant holds at the start and over every step.
LEMMA InventoryHolds == Spec => []PhysInv
\* Each of them keeps the rows of ports and cables in order.
<1>WiringKept. ASSUME PhysInv, NEW k, Wired(k)
      PROVE  /\ port' \in [Ports -> Rows \cup {NULL}] /\ cables' \subseteq Cables
             /\ HeldOnce' /\ CablesJoinTwoPorts' /\ PassagesAreMutual'
    <2> USE <1>WiringKept
    <2>0. /\ Live \subseteq Ports /\ port \in [Ports -> Rows \cup {NULL}] /\ cables \subseteq Cables
          /\ \A p \in Live : /\ port[p] \in Rows
                             /\ port[p].cable \in cables \cup {NULL}
                             /\ port[p].iface \in Interfaces \cup {NULL}
                             /\ port[p].pair \in Live \cup {NULL}
          /\ \A p \in Ports \ Live : port[p] = NULL
          /\ NULL \notin Rows /\ NULL \notin Cables /\ NULL \notin Ports /\ NULL \notin Interfaces
          /\ HeldOnce /\ CablesJoinTwoPorts /\ PassagesAreMutual
        BY Constants DEF PhysInv, TypeOK, RowsOK, Live, Rows, CablesJoinTwoPorts, PassagesAreMutual
    <2>free. Free \in Rows /\ Free.cable = NULL /\ Free.pair = NULL /\ Free.iface = NULL
        BY DEF Free, Rows
    <2>1. CASE UNCHANGED <<port, cables>>
        BY <2>0, <2>1 DEF HeldOnce, CablesJoinTwoPorts, PassagesAreMutual, Live
    <2>2. CASE \E c, e : Plugs(c, e)
        <3>1. PICK c, e : Plugs(c, e)
            BY <2>2
        <3>2. /\ c \in Cables /\ c \notin cables /\ c # NULL /\ e \subseteq Live
              /\ \A p \in e : port[p].cable = NULL
              /\ Cardinality(e) = 2 /\ cables' = cables \cup {c}
              /\ port' = [p \in Ports |-> IF p \in e THEN [port[p] EXCEPT !.cable = c] ELSE port[p]]
            BY <2>0, <3>1 DEF Plugs, StillFree
        <3>3. \A p \in Live : /\ port'[p] \in Rows
                              /\ port'[p].cable = IF p \in e THEN c ELSE port[p].cable
                              /\ port'[p].pair = port[p].pair /\ port'[p].iface = port[p].iface
            BY <2>0, <3>2 DEF Rows
        <3>4. Live' = Live
            BY <2>0, <3>2, <3>3 DEF Live
        <3>5. port' \in [Ports -> Rows \cup {NULL}] /\ cables' \subseteq Cables
            BY <2>0, <3>2, <3>3
        <3>6. HeldOnce' /\ PassagesAreMutual'
            BY <2>0, <3>3, <3>4 DEF HeldOnce, PassagesAreMutual
        <3>7. {p \in Live' : port'[p].cable = c} = e
            BY <2>0, <3>2, <3>3, <3>4
        <3>8. \A d \in cables : {p \in Live' : port'[p].cable = d} = {p \in Live : port[p].cable = d}
            BY <2>0, <3>2, <3>3, <3>4
        <3>9. ASSUME NEW d \in cables'
              PROVE  Cardinality({p \in Live' : port'[p].cable = d}) = 2
            <4>1. CASE d = c
                BY <3>2, <3>7, <4>1
            <4>2. CASE d \in cables
                BY <2>0, <3>8, <4>2 DEF CablesJoinTwoPorts
            <4>. QED BY <3>2, <4>1, <4>2
        <3>10. \A p \in Live' : port'[p].cable \in cables' \cup {NULL}
            BY <2>0, <3>2, <3>3, <3>4
        <3>11. CablesJoinTwoPorts'
            BY <3>9, <3>10 DEF CablesJoinTwoPorts
        <3>. QED BY <3>5, <3>6, <3>11
    <2>3. CASE \E c : Unplugs(c)
        <3>1. PICK c : Unplugs(c)
            BY <2>3
        <3>2. cables' = cables \ {c} /\ port' = Unplugged(c)
            BY <3>1 DEF Unplugs
        <3>3. \A p \in Live : /\ port'[p] \in Rows
                              /\ port'[p].cable = IF port[p].cable = c THEN NULL ELSE port[p].cable
                              /\ port'[p].pair = port[p].pair /\ port'[p].iface = port[p].iface
            BY <2>0, <3>2 DEF Rows, Unplugged
        <3>4. Live' = Live
            BY <2>0, <3>2, <3>3 DEF Live, Unplugged
        <3>5. port' \in [Ports -> Rows \cup {NULL}] /\ cables' \subseteq Cables
            BY <2>0, <3>2, <3>3 DEF Unplugged
        <3>6. HeldOnce' /\ PassagesAreMutual'
            BY <2>0, <3>3, <3>4 DEF HeldOnce, PassagesAreMutual
        <3>8. \A d \in cables' :
                {p \in Live : port'[p].cable = d} = {p \in Live : port[p].cable = d}
            BY <2>0, <3>2, <3>3
        <3>9. CablesJoinTwoPorts'
            BY <2>0, <3>2, <3>3, <3>4, <3>8 DEF CablesJoinTwoPorts
        <3>. QED BY <3>5, <3>6, <3>9
    <2>4. CASE \E new : Adds(new)
        <3>1. PICK new : Adds(new)
            BY <2>4
        <3>2. /\ new \subseteq Ports /\ new \cap Live = {} /\ cables' = cables
              /\ port' = [p \in Ports |-> IF p \in new THEN Free ELSE port[p]]
            BY <3>1 DEF Adds
        <3>3. /\ \A p \in Live : port'[p] = port[p]
              /\ \A p \in new : port'[p] = Free
            BY <2>0, <3>2
        <3>4. Live' = Live \cup new
            BY <2>0, <2>free, <3>2, <3>3 DEF Live
        <3>5. port' \in [Ports -> Rows \cup {NULL}] /\ cables' \subseteq Cables
            BY <2>0, <2>free, <3>2
        <3>6. HeldOnce' /\ PassagesAreMutual'
            BY <2>0, <2>free, <3>2, <3>3, <3>4 DEF HeldOnce, PassagesAreMutual
        <3>8. \A d \in cables : {p \in Live' : port'[p].cable = d} = {p \in Live : port[p].cable = d}
            BY <2>0, <2>free, <3>3, <3>4
        <3>9. CablesJoinTwoPorts'
            BY <2>0, <2>free, <3>2, <3>3, <3>4, <3>8 DEF CablesJoinTwoPorts
        <3>. QED BY <3>5, <3>6, <3>9
    <2>5. CASE \E p, row : AddsOne(p, row)
        <3>1. PICK n, row : AddsOne(n, row)
            BY <2>5
        <3>2. /\ n \in Ports /\ n \notin Live /\ cables' = cables
              /\ row \in Rows /\ row.cable = NULL
              /\ row.iface # NULL => Holders(row.iface) = {}
              /\ row.pair # NULL =>
                    Origin[n] = "manual" /\ row.pair \in Live /\ \A q \in Live : port[q].pair # row.pair
              /\ port' = [port EXCEPT ![n] = row]
            BY <3>1 DEF AddsOne
        <3>3. /\ \A p \in Live : port'[p] = port[p]
              /\ port'[n] = row
            BY <2>0, <3>2
        <3>4. Live' = Live \cup {n}
            BY <2>0, <3>2, <3>3 DEF Live
        <3>5. port' \in [Ports -> Rows \cup {NULL}] /\ cables' \subseteq Cables
            BY <2>0, <3>2
        <3>6. HeldOnce'
            BY <2>0, <3>2, <3>3, <3>4 DEF HeldOnce, Holders
        <3>7. PassagesAreMutual'
            BY <2>0, <3>2, <3>3, <3>4 DEF PassagesAreMutual
        <3>8. \A d \in cables : {p \in Live' : port'[p].cable = d} = {p \in Live : port[p].cable = d}
            BY <2>0, <3>2, <3>3, <3>4
        <3>9. CablesJoinTwoPorts'
            BY <2>0, <3>2, <3>3, <3>4, <3>8 DEF CablesJoinTwoPorts
        <3>. QED BY <3>5, <3>6, <3>7, <3>9
    <2>6. CASE \E a, b : Pairs(a, b)
        <3>1. PICK a, b : Pairs(a, b)
            BY <2>6
        <3>2. /\ a \in Live /\ b \in Live /\ a # b /\ cables' = cables
              /\ port[a].pair = NULL /\ port[b].pair = NULL
              /\ \A q \in Live : port[q].pair \notin {a, b}
              /\ port' = Paired(a, b)
            BY <3>1 DEF Pairs
        <3>3. /\ \A p \in Live : /\ port'[p] \in Rows
                                 /\ port'[p].cable = port[p].cable /\ port'[p].iface = port[p].iface
                                 /\ p \notin {a, b} => port'[p].pair = port[p].pair
              /\ port'[a].pair = b /\ port'[b].pair = a
            BY <2>0, <3>2 DEF Rows, Paired
        <3>4. Live' = Live
            BY <2>0, <3>2, <3>3 DEF Live, Paired
        <3>5. port' \in [Ports -> Rows \cup {NULL}] /\ cables' \subseteq Cables
            BY <2>0, <3>2, <3>3 DEF Paired
        <3>6. HeldOnce'
            BY <2>0, <3>3, <3>4 DEF HeldOnce
        <3>7. PassagesAreMutual'
            BY <2>0, <3>2, <3>3, <3>4 DEF PassagesAreMutual
        <3>8. \A d \in cables : {p \in Live : port'[p].cable = d} = {p \in Live : port[p].cable = d}
            BY <2>0, <3>3
        <3>9. CablesJoinTwoPorts'
            BY <2>0, <3>2, <3>3, <3>4, <3>8 DEF CablesJoinTwoPorts
        <3>. QED BY <3>5, <3>6, <3>7, <3>9
    <2>7. CASE \E p, i : Maps(p, i)
        <3>1. PICK m, i : Maps(m, i)
            BY <2>7
        <3>2. /\ m \in Live /\ (i = NULL \/ Holders(i) \subseteq {m})
              /\ i \in Interfaces \cup {NULL} /\ cables' = cables
              /\ port' = [port EXCEPT ![m].iface = i]
            BY <3>1 DEF Maps, CanMap
        <3>3. /\ \A p \in Live : /\ port'[p] \in Rows
                                 /\ port'[p].cable = port[p].cable /\ port'[p].pair = port[p].pair
                                 /\ p # m => port'[p].iface = port[p].iface
              /\ port'[m].iface = i
            BY <2>0, <3>2 DEF Rows
        <3>4. Live' = Live
            BY <2>0, <3>2, <3>3 DEF Live
        <3>5. port' \in [Ports -> Rows \cup {NULL}] /\ cables' \subseteq Cables
            BY <2>0, <3>2, <3>3
        <3>6. HeldOnce'
            BY <2>0, <3>2, <3>3, <3>4 DEF HeldOnce, Holders
        <3>7. PassagesAreMutual'
            BY <2>0, <3>3, <3>4 DEF PassagesAreMutual
        <3>8. \A d \in cables : {p \in Live : port'[p].cable = d} = {p \in Live : port[p].cable = d}
            BY <2>0, <3>3
        <3>9. CablesJoinTwoPorts'
            BY <2>0, <3>2, <3>3, <3>4, <3>8 DEF CablesJoinTwoPorts
        <3>. QED BY <3>5, <3>6, <3>7, <3>9
    <2>8. CASE \E gone : Drops(k, gone)
        <3>1. PICK gone : gone \subseteq Live /\ DeletePorts(gone)
            BY <2>8 DEF Drops
        <3> DEFINE cut == {port[p].cable : p \in gone}
        <3>2. /\ cables' = cables \ cut
              /\ port' = [p \in Ports |->
                    IF p \in gone \/ port[p] = NULL THEN NULL
                    ELSE [port[p] EXCEPT !.cable = IF @ \in cut THEN NULL ELSE @,
                                         !.pair = IF @ \in gone THEN NULL ELSE @]]
            BY <3>1 DEF DeletePorts
        <3>3. \A p \in gone : port[p].cable \in cut
            OBVIOUS
        <3> HIDE DEF cut
        <3>4. \A p \in Live \ gone :
                /\ port'[p] \in Rows
                /\ port'[p].cable = IF port[p].cable \in cut THEN NULL ELSE port[p].cable
                /\ port'[p].pair = IF port[p].pair \in gone THEN NULL ELSE port[p].pair
                /\ port'[p].iface = port[p].iface
            BY <2>0, <3>2 DEF Rows
        <3>gone. \A p \in Ports : p \in gone \/ p \notin Live => port'[p] = NULL
            BY <2>0, <3>2
        <3>5. Live' = Live \ gone
            <4>1. \A p \in Live \ gone : port'[p] # NULL
                BY <2>0, <3>4
            <4>. QED BY <2>0, <3>1, <3>gone, <4>1 DEF Live
        <3>6. port' \in [Ports -> Rows \cup {NULL}] /\ cables' \subseteq Cables
            BY <2>0, <3>2, <3>4
        <3>7. HeldOnce'
            BY <2>0, <3>4, <3>5 DEF HeldOnce
        <3>8. PassagesAreMutual'
            BY <2>0, <3>1, <3>4, <3>5 DEF PassagesAreMutual
        <3>9. ASSUME NEW d \in cables'
              PROVE  {p \in Live' : port'[p].cable = d} = {p \in Live : port[p].cable = d}
            <4>1. d \in cables /\ d \notin cut /\ d # NULL
                BY <2>0, <3>2, <3>9
            <4>2. \A p \in Live \ gone : port'[p].cable = d <=> port[p].cable = d
                BY <3>4, <4>1
            <4>3. \A p \in gone : port[p].cable # d
                BY <3>3, <4>1
            <4>. QED BY <3>5, <4>2, <4>3
        <3>10. \A d \in cables' : Cardinality({p \in Live' : port'[p].cable = d}) = 2
            BY <2>0, <3>2, <3>9 DEF CablesJoinTwoPorts
        <3>11. ASSUME NEW p \in Live'
               PROVE  port'[p].cable \in cables' \cup {NULL}
            <4>1. /\ port'[p].cable = IF port[p].cable \in cut THEN NULL ELSE port[p].cable
                  /\ port[p].cable \in cables \cup {NULL}
                BY <2>0, <3>4, <3>5
            <4>2. cables' = cables \ cut
                BY <3>2
            <4>. QED BY <4>1, <4>2
        <3>12. CablesJoinTwoPorts'
            BY <3>10, <3>11 DEF CablesJoinTwoPorts
        <3>. QED BY <3>6, <3>7, <3>8, <3>12
    <2>. QED BY <2>1, <2>2, <2>3, <2>4, <2>5, <2>6, <2>7, <2>8 DEF Wired
\* Each of them leaves what the others have looked at as it was, or is recorded.
<1>LooksKept. ASSUME PhysInv, NEW k \in Callers, Wired(k),
             NEW d \in Callers, at[d] = "write", at'[d] = at[d], job'[d] = job[d]
      PROVE  SeenBy(job[d], since[d])' /\ MapsFree(job[d], since[d])'
    <2> USE <1>LooksKept
    <2> DEFINE Row(p, q) == p.iface = q.iface /\ p.cable \in {q.cable, NULL}
    <2>0. /\ Live \subseteq Ports /\ port \in [Ports -> Rows \cup {NULL}] /\ \A p \in Live : port[p] \in Rows
          /\ \A p \in Ports \ Live : port[p] = NULL
          /\ SeenBy(job[d], since[d]) /\ MapsFree(job[d], since[d])
          /\ NULL \notin Rows
        BY Constants DEF PhysInv, TypeOK, Live, LooksOK
    <2>1. CASE job[d].op \notin {"reconcile", "remove", "deleteAsset", "sync"}
        BY <2>1 DEF SeenBy, MapsFree
    <2>2. CASE job[d].op \in {"reconcile", "remove", "deleteAsset", "sync"}
        <3>0. \A ps : Touch(ps) => since'[d] = since[d] \cup ps
            BY <2>2 DEF Touch
        <3>1. ASSUME NEW p \in Live', p \notin since'[d]
              PROVE  /\ p \in Live => p \notin since[d] /\ Row(port'[p], port[p])
                     /\ p \notin Live => port'[p].cable = NULL /\ port'[p].iface = NULL
            <4>0. p \in Ports
                BY <3>1 DEF Live
            <4>1. CASE UNCHANGED <<port, cables>> /\ Touch({})
                BY <2>0, <3>0, <3>1, <4>1 DEF Live
            <4>2. CASE \E c, e : Plugs(c, e)
                BY <2>0, <3>0, <3>1, <4>0, <4>2 DEF Plugs, StillFree, Live
            <4>3. CASE \E c : Unplugs(c)
                BY <2>0, <3>0, <3>1, <4>0, <4>3 DEF Unplugs, Unplugged, Live, Rows
            <4>4. CASE \E new : Adds(new)
                BY <2>0, <3>0, <3>1, <4>0, <4>4 DEF Adds, Live, Free
            <4>5. CASE \E n, row : AddsOne(n, row)
                BY <2>0, <3>0, <3>1, <4>0, <4>5 DEF AddsOne, Live
            <4>6. CASE \E a, b : Pairs(a, b)
                <5>1. PICK a, b : a \in Live /\ b \in Live /\ port' = Paired(a, b) /\ Touch({})
                    BY <4>6 DEF Pairs
                <5>2. p \in Live
                    BY <2>0, <3>1, <4>0, <5>1 DEF Paired, Live
                <5>3. port'[p].cable = port[p].cable /\ port'[p].iface = port[p].iface
                    BY <2>0, <5>1, <5>2 DEF Paired, Rows
                <5>. QED BY <3>0, <3>1, <5>1, <5>2, <5>3
            <4>7. CASE \E m, i : Maps(m, i)
                BY <2>0, <3>0, <3>1, <4>0, <4>7 DEF Maps, CanMap, Live
            <4>8. CASE \E gone : Drops(k, gone)
                <5>1. PICK gone : DeletePorts(gone) /\ Touch({})
                    BY <4>8 DEF Drops
                <5>2. p \in Live /\ p \notin gone
                    BY <3>1, <4>0, <5>1 DEF DeletePorts, Live
                <5>3. port'[p].cable \in {port[p].cable, NULL} /\ port'[p].iface = port[p].iface
                    BY <2>0, <4>0, <5>1, <5>2 DEF DeletePorts, Rows
                <5>. QED BY <3>0, <3>1, <5>1, <5>2, <5>3
            <4>. QED BY <4>1, <4>2, <4>3, <4>4, <4>5, <4>6, <4>7, <4>8 DEF Wired
        <3>2. SeenBy(job[d], since[d])'
            BY <2>0, <3>1 DEF SeenBy
        <3>3. MapsFree(job[d], since[d])'
            BY <2>0, <3>1 DEF MapsFree
        <3>. QED BY <3>2, <3>3
    <2>. QED BY <2>1, <2>2
\* The triggers, the locks and the commits keep the placements in order.
<1>RackKept. ASSUME PhysInv, NEW k \in Callers, Request(k) \/ Write(k) \/ Fail(k)
      PROVE  /\ units' \in 1..MaxUnits /\ place' \in [Assets -> Place \cup {NULL}]
             /\ PlacementsOK' /\ PlacementsDisjoint' /\ RaceOK'
    <2> USE <1>RackKept
    <2>0. /\ units \in 1..MaxUnits /\ place \in [Assets -> Place \cup {NULL}]
          /\ at \in [Callers -> {"idle", "write", "held"}] /\ DOMAIN job = Callers
          /\ raced \in BOOLEAN
          /\ \A d \in Callers : InFlight(d) => JobOK(job[d])
          /\ PlacementsOK /\ PlacementsDisjoint /\ RaceOK
          /\ NULL \notin Place /\ MaxUnits \in Nat
        BY Constants DEF PhysInv, TypeOK, JobsOK
    <2>old. ASSUME UNCHANGED <<rack, raced>>,
                   \A d \in Callers : at'[d] = "held" => at[d] = "held" /\ job'[d] = job[d]
            PROVE  /\ units' \in 1..MaxUnits /\ place' \in [Assets -> Place \cup {NULL}]
                   /\ PlacementsOK' /\ PlacementsDisjoint' /\ RaceOK'
        <3>1. /\ UNCHANGED <<units, place, raced>>
              /\ \A d \in Callers : /\ Placing(d)' => Placing(d) /\ NewPlace(d)' = NewPlace(d)
                                                      /\ job'[d] = job[d]
                                    /\ Resizing(d)' => Resizing(d) /\ job'[d] = job[d]
            BY <2>old DEF rack, Placing, Resizing, NewPlace
        <3>2. PlacementsOK' /\ PlacementsDisjoint'
            BY <2>0, <3>1 DEF PlacementsOK, PlacementsDisjoint, Mounted, Overlap, Top
        <3>3. RaceOK'
            BY <2>0, <3>1 DEF RaceOK, Mounted, Spares, Top
        <3>. QED BY <2>0, <3>1, <3>2, <3>3
    <2>end. ASSUME End(k), UNCHANGED rack
            PROVE  \A d \in Callers : at'[d] = "held" => at[d] = "held" /\ job'[d] = job[d]
        BY <2>0, <2>end DEF End
    <2>1. CASE Request(k)
        <3>1. PICK j : Ask(k, j)
            BY <2>1, Asked DEF PhysInv
        <3>2. /\ UNCHANGED <<rack, raced>>
              /\ \A d \in Callers : at'[d] = "held" => at[d] = "held" /\ job'[d] = job[d]
            BY <2>0, <3>1 DEF Ask
        <3>. QED BY <2>old, <3>2
    <2>2. CASE UNCHANGED rack /\ End(k)
        BY <2>2, <2>old, <2>end DEF End
    <2>3. CASE SyncStep(k)
        <3>1. UNCHANGED <<rack, raced>>
            BY <2>3 DEF SyncStep, End
        <3>2. CASE End(k)
            BY <3>1, <3>2, <2>old, <2>end
        <3>3. CASE ~End(k)
            <4>1. \E rest : /\ job' = [job EXCEPT ![k].todo = rest] /\ UNCHANGED at
                BY <2>3, <3>3 DEF SyncStep
            <4>2. at[k] = "write"
                BY <2>3 DEF SyncStep, Writes
            <4>3. \A d \in Callers : at'[d] = "held" => at[d] = "held" /\ job'[d] = job[d]
                BY <2>0, <4>1, <4>2
            <4>. QED BY <2>old, <3>1, <4>3
        <3>. QED BY <3>2, <3>3
    <2>4. CASE /\ TestPlacement(k) /\ ~End(k)
        <3> DEFINE x == job[k].new
        <3>1. /\ at[k] = "write" /\ job[k].op \in {"addAsset", "move"} /\ ~PlacementHeld
              /\ (job[k].op = "move") = Mounted(x) /\ Fits(x, NewPlace(k))
              /\ at' = [at EXCEPT ![k] = "held"]
              /\ raced' = (raced \/ ResizeHeld)
              /\ UNCHANGED <<units, place, job>>
            BY <2>4 DEF TestPlacement, LockFree, rack
        <3>2. JobOK(job[k])
            BY <2>0, <3>1 DEF InFlight
        <3>3. /\ \A d \in Callers : /\ Placing(d)' => d = k
                                    /\ Resizing(d)' => Resizing(d)
              /\ NewPlace(k)' = NewPlace(k)
            BY <2>0, <3>1 DEF Placing, Resizing, PlacementHeld, NewPlace
        <3>4. PlacementsOK'
            BY <3>1, <3>3 DEF PlacementsOK, Fits, Mounted, Overlap, Top
        <3>5. PlacementsDisjoint'
            BY <2>0, <3>1 DEF PlacementsDisjoint, Mounted, Overlap, Top
        <3>6. RaceOK'
            BY <2>0, <3>1, <3>3 DEF RaceOK, Mounted, Spares, Fits, Top, Resizing, ResizeHeld
        <3>. QED BY <2>0, <3>1, <3>4, <3>5, <3>6
    <2>5. CASE CommitPlacement(k)
        <3> DEFINE x == job[k].new  r == NewPlace(k)
        <3>1. /\ Placing(k)
              /\ place' = [place EXCEPT ![x] = r]
              /\ at' = [at EXCEPT ![k] = "idle"] /\ job' = [job EXCEPT ![k] = NoJob]
              /\ UNCHANGED <<raced, units>>
            BY <2>5 DEF CommitPlacement, Placing, End
        <3>2. JobOK(job[k])
            BY <2>0, <3>1 DEF InFlight, Placing
        <3>3. x \in Assets /\ (job[k].op = "move" => Mounted(x))
            BY <2>0, <3>1, <3>2 DEF JobOK, Placing, PlacementsOK
        <3>4. r \in Place
            BY <2>0, <3>1, <3>2, <3>3 DEF JobOK, Placing, NewPlace, Moved, Place, Mounted
        <3>5. /\ \A d \in Callers : ~Placing(d)'
              /\ \A d \in Callers : Resizing(d)' => Resizing(d) /\ job'[d] = job[d]
            BY <2>0, <3>1 DEF Placing, Resizing, PlacementsOK
        <3>6. \A y \in Assets \ {x} : Mounted(y) => ~Overlap(r, place[y])
            BY <2>0, <3>1 DEF PlacementsOK
        <3>7. /\ place'[x] = r /\ x \in Assets
              /\ \A y \in Assets \ {x} : place'[y] = place[y]
            BY <2>0, <3>1, <3>3
        <3> HIDE DEF x, r
        <3>8. PlacementsOK'
            BY <3>5 DEF PlacementsOK
        <3>9. PlacementsDisjoint'
            BY <2>0, <3>6, <3>7 DEF PlacementsDisjoint, Mounted, Overlap
        <3>10. RaceOK'
            <4>1. \A d \in Callers : ~raced => ~Resizing(d) /\ Top(r) <= units
                BY <2>0, <3>1 DEF RaceOK, r
            <4>. QED BY <2>0, <3>1, <3>5, <3>7, <4>1 DEF RaceOK, Mounted, Top
        <3>. QED BY <2>0, <3>1, <3>4, <3>8, <3>9, <3>10
    <2>6. CASE TestResize(k) /\ ~End(k)
        <3>1. /\ at[k] = "write" /\ job[k].op = "resize" /\ Spares(job[k].units)
              /\ at' = [at EXCEPT ![k] = "held"]
              /\ raced' = (raced \/ PlacementHeld)
              /\ UNCHANGED <<units, place, job>>
            BY <2>6 DEF TestResize, Writes, rack
        <3>2. \A d \in Callers : /\ Placing(d)' => Placing(d) /\ NewPlace(d)' = NewPlace(d)
                                 /\ Resizing(d)' => Resizing(d) \/ d = k
            BY <2>0, <3>1 DEF Placing, Resizing, NewPlace
        <3>3. PlacementsOK' /\ PlacementsDisjoint'
            BY <2>0, <3>1, <3>2 DEF PlacementsOK, PlacementsDisjoint, Mounted, Overlap, Top
        <3>4. RaceOK'
            BY <2>0, <3>1, <3>2 DEF RaceOK, Mounted, Spares, Top, Placing, PlacementHeld
        <3>. QED BY <2>0, <3>1, <3>3, <3>4
    <2>7. CASE CommitResize(k)
        <3>1. /\ Resizing(k) /\ units' = job[k].units
              /\ at' = [at EXCEPT ![k] = "idle"] /\ job' = [job EXCEPT ![k] = NoJob]
              /\ UNCHANGED <<raced, place>>
            BY <2>7 DEF CommitResize, Resizing, End
        <3>2. JobOK(job[k])
            BY <2>0, <3>1 DEF InFlight, Resizing
        <3>3. units' \in 1..MaxUnits
            BY <3>1, <3>2 DEF JobOK, Resizing
        <3>4. \A d \in Callers : /\ Placing(d)' => Placing(d) /\ NewPlace(d)' = NewPlace(d)
                                                   /\ job'[d] = job[d]
                                 /\ Resizing(d)' => Resizing(d) /\ job'[d] = job[d]
            BY <2>0, <3>1 DEF Placing, Resizing, NewPlace
        <3>5. PlacementsOK' /\ PlacementsDisjoint'
            BY <2>0, <3>1, <3>4 DEF PlacementsOK, PlacementsDisjoint, Mounted, Overlap, Top
        <3>6. RaceOK'
            BY <2>0, <3>1, <3>4 DEF RaceOK, Mounted, Spares, Top
        <3>. QED BY <2>0, <3>1, <3>3, <3>5, <3>6
    <2>8. CASE DeleteAsset(k)
        <3> DEFINE x == job[k].on
        <3>1. /\ at[k] = "write" /\ job[k].op = "deleteAsset" /\ ~RowHeld(x)
              /\ place' = [place EXCEPT ![x] = NULL]
              /\ at' = [at EXCEPT ![k] = "idle"] /\ job' = [job EXCEPT ![k] = NoJob]
              /\ UNCHANGED <<raced, units>>
            BY <2>8 DEF DeleteAsset, Writes, End
        <3>2. x \in Assets
            BY <2>0, <3>1 DEF InFlight, JobOK
        <3>3. \A d \in Callers : /\ Placing(d)' => Placing(d) /\ job'[d] = job[d]
                                 /\ Resizing(d)' => Resizing(d) /\ job'[d] = job[d]
            BY <2>0, <3>1 DEF Placing, Resizing
        <3>4. /\ place'[x] = NULL
              /\ \A y \in Assets \ {x} : place'[y] = place[y]
            BY <2>0, <3>1, <3>2
        <3>5. ASSUME NEW d \in Callers, Placing(d)
              PROVE  /\ job[d].new \in Assets
                     /\ job[d].op = "move" => job[d].new # x
                     /\ NewPlace(d) \in Place
            <4>1. JobOK(job[d])
                BY <2>0, <3>5 DEF Placing, InFlight
            <4>2. /\ job[d].new \in Assets
                  /\ job[d].op = "move" => Mounted(job[d].new)
                BY <2>0, <3>5, <4>1 DEF Placing, JobOK, PlacementsOK
            <4>3. job[d].op = "move" => job[d].new # x
                BY <3>1, <3>5, <4>1 DEF Placing, JobOK, RowHeld
            <4>4. NewPlace(d) \in Place
                BY <2>0, <3>5, <4>1, <4>2 DEF JobOK, Placing, NewPlace, Moved, Place, Mounted
            <4>. QED BY <4>2, <4>3, <4>4
        <3>6. \A d \in Callers : Placing(d)' => NewPlace(d)' = NewPlace(d)
            BY <3>3, <3>4, <3>5 DEF NewPlace
        <3> HIDE DEF x
        <3>7. PlacementsOK'
            BY <2>0, <3>2, <3>3, <3>4, <3>5, <3>6 DEF PlacementsOK, Placing, Mounted, Overlap
        <3>8. PlacementsDisjoint'
            BY <2>0, <3>4 DEF PlacementsDisjoint, Mounted, Overlap
        <3>9. RaceOK'
            BY <2>0, <3>1, <3>3, <3>4, <3>6 DEF RaceOK, Mounted, Spares, Top
        <3>10. place' \in [Assets -> Place \cup {NULL}]
            BY <2>0, <3>1
        <3>. QED BY <2>0, <3>1, <3>7, <3>8, <3>9, <3>10
    <2>. QED
        <3> USE DEF rack
        <3>1. CASE Write(k)
            BY <3>1, <2>2, <2>3, <2>4, <2>5, <2>6, <2>7, <2>8
            DEF Write, CreateConnection, DeleteConnection, CreatePort, PairPorts, UpdatePort,
                ReconcilePorts, InstallModule, RemoveModule, TestPlacement, TestResize, WriteIf
        <3>2. CASE Fail(k)
            BY <3>2, <2>2 DEF Fail
        <3>. QED BY <2>1, <3>1, <3>2
<1>1. Init => PhysInv
    <2> SUFFICES ASSUME Init PROVE PhysInv
        OBVIOUS
    <2>1. PICK s \in Starts : place = s.place /\ port = s.port /\ boards = s.boards
        BY DEF Init
    <2>2. /\ units = MaxUnits /\ raced = FALSE /\ asked = 0
          /\ at = [k \in Callers |-> "idle"] /\ job = [k \in Callers |-> NoJob]
          /\ since = [k \in Callers |-> {}]
          /\ cables = {port[p].cable : p \in Live} \ {NULL}
        BY DEF Init
    <2>3. /\ place \in [Assets -> Place \cup {NULL}] /\ port \in [Ports -> Rows \cup {NULL}]
          /\ boards \subseteq Modules /\ MaxUnits \in Nat \ {0} /\ MaxRequests \in Nat
          /\ \A x \in Assets : Mounted(x) => Top(place[x]) <= MaxUnits
          /\ \A x, y \in Assets :
                x # y /\ Mounted(x) /\ Mounted(y) => ~Overlap(place[x], place[y])
          /\ \A p \in Ports : ~Mounted(AssetOf(p)) => port[p] = NULL
          /\ \A p, q \in Live : p # q =>
                /\ port[p].iface = NULL \/ port[p].iface # port[q].iface
                /\ port[p].pair = q <=> port[q].pair = p
          /\ \A p \in Live : port[p].pair # NULL =>
                port[p].pair # p /\ port[port[p].pair] # NULL
        BY <2>1, InventoryAssumption DEF Live, Mounted
    <2>4. \A q \in Live : port[q].cable # NULL =>
            Cardinality({p \in Live : port[p].cable = port[q].cable}) = 2
        <3>1. ASSUME NEW q \in Live, port[q].cable # NULL
              PROVE  Cardinality({p \in Live : port[p].cable = port[q].cable}) = 2
            <4>1. {p \in Ports : port[p] # NULL /\ port[p].cable = port[q].cable}
                    = {p \in Live : port[p].cable = port[q].cable}
                BY DEF Live
            <4>2. q \in Ports /\ s.port[q] # NULL /\ s.port[q].cable # NULL
                BY <2>1, <3>1 DEF Live
            <4>3. Cardinality({p \in Ports : s.port[p] # NULL
                                            /\ s.port[p].cable = s.port[q].cable}) = 2
                BY <4>2, InventoryAssumption
            <4>. QED BY <2>1, <4>1, <4>3
        <3>. QED BY <3>1
    <2>5. \A p \in Live : /\ p \in Ports /\ port[p] \in Rows
                          /\ port[p].cable \in Cables \cup {NULL}
                          /\ port[p].pair \in Ports \cup {NULL}
        BY <2>3 DEF Live, Rows
    <2>6. cables \subseteq Cables
        BY <2>2, <2>5
    <2>7. TypeOK
        <3>1. units \in 1..MaxUnits /\ asked \in 0..MaxRequests /\ raced \in BOOLEAN
            <4>1. units \in 1..MaxUnits /\ asked \in 0..MaxRequests
                BY <2>2, <2>3
            <4>. QED BY <2>2, <4>1
        <3>2. at \in [Callers -> {"idle", "write", "held"}] /\ since \in [Callers -> SUBSET Ports]
            BY <2>2
        <3>3. \A k \in Callers : job[k].ports \subseteq Ports
            BY <2>2 DEF NoJob
        <3>. QED BY <2>3, <2>6, <3>1, <3>2, <3>3 DEF TypeOK
    <2>8. JobsOK /\ LooksOK
        BY <2>2 DEF JobsOK, LooksOK, InFlight
    <2>9. RowsOK
        BY <2>3, <2>5 DEF RowsOK, HeldOnce, Live
    <2>10. CablesJoinTwoPorts
        <3>1. ASSUME NEW c \in cables
              PROVE  Cardinality({p \in Live : port[p].cable = c}) = 2
            <4>1. PICK q \in Live : port[q].cable = c /\ c # NULL
                BY <2>2
            <4>. QED BY <2>4, <4>1
        <3>. QED BY <2>2, <2>5, <3>1 DEF CablesJoinTwoPorts
    <2>11. PassagesAreMutual
        <3>1. \A p \in Live : port[p].pair # NULL => port[p].pair \in Live
            BY <2>3, <2>5 DEF Live
        <3>2. ASSUME NEW p \in Live, port[p].pair # NULL
              PROVE  /\ port[port[p].pair].pair = p
                     /\ \A q \in Live \ {p} : port[q].pair # port[p].pair
            <4>1. port[p].pair # p
                BY <2>3, <3>2
            <4>. QED BY <2>3, <3>1, <3>2, <4>1
        <3>. QED BY <2>3, <3>1, <3>2 DEF PassagesAreMutual
    <2>12. PlacementsOK /\ PlacementsDisjoint
        BY <2>2, <2>3 DEF PlacementsOK, PlacementsDisjoint, Placing
    <2>13. RaceOK
        BY <2>2, <2>3 DEF RaceOK, Placing, Resizing
    <2>. QED BY <2>7, <2>8, <2>9, <2>10, <2>11, <2>12, <2>13 DEF PhysInv
<1>2. ASSUME PhysInv, NEW k \in Callers, Request(k)
      PROVE  PhysInv'
    <2>1. PICK j : /\ Ask(k, j) /\ asked < MaxRequests /\ JobOK(j) /\ j.ports \subseteq Ports
                   /\ PlanOK(j) /\ \A s : SeenBy(j, s) /\ MapsFree(j, s)
        BY <1>2, Asked DEF PhysInv
    <2>2. /\ asked' = asked + 1 /\ at' = [at EXCEPT ![k] = "write"]
          /\ job' = [job EXCEPT ![k] = j]
          /\ UNCHANGED <<units, place, port, cables, boards, since, raced>>
        BY <2>1 DEF Ask, rack, wiring
    <2>3. TypeOK /\ JobsOK /\ LooksOK
        BY <1>2 DEF PhysInv
    <2>4. /\ at'[k] = "write" /\ job'[k] = j
          /\ \A d \in Callers \ {k} : at'[d] = at[d] /\ job'[d] = job[d]
        BY <2>2, <2>3 DEF TypeOK, JobsOK
    <2>5. TypeOK'
        BY <2>1, <2>2, <2>3, <2>4, Constants DEF TypeOK
    <2>6. JobsOK'
        BY <2>1, <2>2, <2>3, <2>4 DEF JobsOK, InFlight, JobOK
    <2>7. RowsOK' /\ CablesJoinTwoPorts' /\ PassagesAreMutual'
        BY <1>2, <2>2
        DEF PhysInv, RowsOK, HeldOnce, CablesJoinTwoPorts, PassagesAreMutual, Live, Mounted
    <2>8. LooksOK'
        <3>1. ASSUME NEW d \in Callers, at'[d] = "write"
              PROVE  SeenBy(job[d], since[d])' /\ PlanOK(job[d])' /\ MapsFree(job[d], since[d])'
            <4>1. SeenBy(job'[d], since[d]) /\ PlanOK(job'[d]) /\ MapsFree(job'[d], since[d])
                BY <2>1, <2>3, <2>4, <3>1 DEF LooksOK
            <4>. QED BY <2>2, <4>1 DEF SeenBy, MapsFree, PlanOK, Live
        <3>. QED BY <3>1 DEF LooksOK
    <2>9. PlacementsOK' /\ PlacementsDisjoint' /\ RaceOK'
        BY <1>2, <1>RackKept
    <2>. QED BY <2>5, <2>6, <2>7, <2>8, <2>9 DEF PhysInv
<1>3. ASSUME PhysInv, NEW k \in Callers, Write(k) \/ Fail(k)
      PROVE  PhysInv'
    <2> DEFINE Tests == /\ at' = [at EXCEPT ![k] = "held"] /\ UNCHANGED <<job, asked>>
                        /\ at[k] = "write" /\ job[k].op \in {"addAsset", "move", "resize"}
                        /\ raced' \in BOOLEAN
    <2>0. TypeOK /\ JobsOK /\ LooksOK
        BY <1>3 DEF PhysInv
    <2>1. Wired(k) /\ \A p \in Live' : Mounted(AssetOf(p))'
        BY <1>3, Wiring
    <2>2. /\ port' \in [Ports -> Rows \cup {NULL}] /\ cables' \subseteq Cables
          /\ HeldOnce' /\ CablesJoinTwoPorts' /\ PassagesAreMutual'
        BY <1>3, <2>1, <1>WiringKept
    <2>3. /\ units' \in 1..MaxUnits /\ place' \in [Assets -> Place \cup {NULL}]
          /\ PlacementsOK' /\ PlacementsDisjoint' /\ RaceOK'
        BY <1>3, <1>RackKept
    <2>4. boards' \subseteq Modules
        <3>1. Write(k) \/ Fail(k)
            BY <1>3
        <3>2. InFlight(k) => JobOK(job[k])
            BY <2>0 DEF JobsOK
        <3>3. CASE InstallModule(k)
            BY <2>0, <3>2, <3>3
            DEF InstallModule, Writes, InFlight, JobOK, WriteIf, TypeOK, wiring
        <3>4. CASE ~InstallModule(k)
            BY <2>0, <3>1, <3>4
            DEF TypeOK, Write, Fail, WriteIf, CreateConnection, DeleteConnection, CreatePort,
                PairPorts, UpdatePort, ReconcilePorts, SyncStep, RemoveModule, DeleteAsset,
                TestPlacement, CommitPlacement, TestResize, CommitResize, Plug, MapTo, wiring
        <3>. QED BY <3>3, <3>4
    <2>turn. End(k) \/ Tests \/ \E e : Syncs(k, e)
        <3>1. CASE SyncStep(k)
            BY <3>1 DEF SyncStep, Syncs, End, Writes
        <3>2. CASE ~SyncStep(k)
            BY <1>3, <2>0, <3>2
            DEF TypeOK, Write, Fail, WriteIf, CreateConnection, DeleteConnection, CreatePort,
                PairPorts, UpdatePort, ReconcilePorts, InstallModule, RemoveModule, DeleteAsset,
                TestPlacement, CommitPlacement, TestResize, CommitResize, Writes
        <3>. QED BY <3>1, <3>2
    <2>others. /\ \A d \in Callers \ {k} : at'[d] = at[d] /\ job'[d] = job[d]
               /\ DOMAIN job' = Callers
        <3>1. CASE \E e : Syncs(k, e)
            BY <2>0, <3>1 DEF TypeOK, JobsOK, Syncs
        <3>. QED BY <2>0, <2>turn, <3>1 DEF TypeOK, JobsOK, End
    <2>self. \/ at'[k] = "idle" /\ job'[k] = NoJob
             \/ at'[k] = "held" /\ job'[k] = job[k] /\ Tests
             \/ at'[k] = "write" /\ \E e : Syncs(k, e)
        <3>1. CASE \E e : Syncs(k, e)
            BY <2>0, <3>1 DEF TypeOK, JobsOK, Syncs
        <3>. QED BY <2>0, <2>turn, <3>1 DEF TypeOK, JobsOK, End
    <2>5. since' \in [Callers -> SUBSET Ports]
        <3>1. \E ps \in SUBSET Ports : Touch(ps)
            BY <2>0, <2>1 DEF Wired, Plugs, StillFree, Unplugs, Adds, AddsOne, Pairs, Maps, CanMap,
                Drops, Live
        <3>. QED BY <2>0, <3>1 DEF Touch, TypeOK
    <2>6. at' \in [Callers -> {"idle", "write", "held"}] /\ asked' \in 0..MaxRequests
          /\ raced' \in BOOLEAN
        <3>1. CASE \E e : Syncs(k, e)
            BY <2>0, <3>1 DEF TypeOK, Syncs
        <3>. QED BY <2>0, <2>turn, <3>1 DEF TypeOK, End
    <2>7. ASSUME NEW e, Syncs(k, e)
          PROVE  /\ job[k] \in SyncJob /\ e \in Entry
                 /\ job'[k] \in SyncJob /\ job'[k] = [job[k] EXCEPT !.todo = @ \ {e}]
                 /\ SeenBy(job[k], since[k]) /\ PlanOK(job[k]) /\ MapsFree(job[k], since[k])
                 /\ since'[k] = since[k] \cup {e.port}
        <3>1. job[k] \in SyncJob
            BY <2>0, <2>7 DEF JobsOK, Syncs, InFlight, JobOK
        <3>2. job'[k] = [job[k] EXCEPT !.todo = job[k].todo \ {e}]
            BY <2>0, <2>7 DEF JobsOK, Syncs
        <3>3. /\ job'[k] \in SyncJob /\ job'[k] # job[k] /\ e \in Entry
              /\ job'[k] = [job[k] EXCEPT !.todo = @ \ {e}]
            BY <2>7, <3>1, <3>2 DEF SyncJob, Syncs
        <3>4. since'[k] = since[k] \cup {e.port}
            BY <2>0, <2>7, <3>3 DEF Syncs, Touch, TypeOK
        <3>. QED BY <2>0, <2>7, <3>1, <3>3, <3>4 DEF LooksOK, Syncs
    <2>8. \A d \in Callers : job'[d].ports \subseteq Ports
        BY <2>0, <2>others, <2>self, <2>7 DEF TypeOK, NoJob, SyncJob
    <2>9. JobsOK'
        <3>1. ASSUME NEW d \in Callers, InFlight(d)'
              PROVE  JobOK(job'[d]) /\ (at'[d] = "held" => job'[d].op \in {"addAsset", "move", "resize"})
            <4>1. CASE d # k
                BY <2>0, <2>others, <3>1, <4>1 DEF JobsOK, InFlight
            <4>2. CASE d = k /\ Tests
                BY <2>0, <2>self, <4>2 DEF JobsOK, InFlight
            <4>3. CASE d = k /\ \E e : Syncs(k, e)
                BY <2>7, <4>3, <2>self DEF JobOK, SyncJob, Syncs
            <4>. QED BY <2>self, <3>1, <4>1, <4>2, <4>3 DEF InFlight
        <3>. QED BY <2>others, <3>1 DEF JobsOK, InFlight, JobOK
    <2>10. LooksOK'
        <3>1. ASSUME NEW d \in Callers, at'[d] = "write"
              PROVE  SeenBy(job[d], since[d])' /\ PlanOK(job[d])' /\ MapsFree(job[d], since[d])'
            <4>1. CASE d # k
                <5>1. at[d] = "write" /\ at'[d] = at[d] /\ job'[d] = job[d]
                    BY <2>others, <3>1, <4>1
                <5>2. SeenBy(job[d], since[d])' /\ MapsFree(job[d], since[d])'
                    BY <1>3, <2>1, <5>1, <1>LooksKept
                <5>. QED BY <2>0, <5>1, <5>2 DEF LooksOK, PlanOK
            <4>2. CASE d = k
                <5>1. PICK e : Syncs(k, e)
                    BY <2>self, <3>1, <4>2
                <5>2. /\ job[k] \in SyncJob /\ e \in Entry /\ e \in job[k].todo
                      /\ job'[k] = [job[k] EXCEPT !.todo = @ \ {e}] /\ job'[k] \in SyncJob
                      /\ PlanOK(job[k]) /\ MapsFree(job[k], since[k])
                      /\ since'[k] = since[k] \cup {e.port}
                    BY <2>7, <5>1 DEF Syncs
                <5>3. /\ job'[k].op = "sync" /\ job'[k].on = job[k].on
                      /\ job'[k].ports = job[k].ports
                      /\ job'[k].todo = job[k].todo \ {e}
                    BY <5>2 DEF SyncJob
                <5>4. SeenBy(job[k], since[k])'
                    BY <5>3 DEF SeenBy
                <5>5. PlanOK(job[k])'
                    BY <5>2, <5>3 DEF PlanOK, SyncJob
                <5>6. ASSUME NEW f \in job[k].todo \ {e}, ~f.new, f.port \in Live', f.port \notin since'[k]
                      PROVE  port'[f.port].iface \in {NULL, f.iface}
                    <6>1. /\ f.port # e.port /\ f.port \notin since[k]
                          /\ f \in Entry /\ job[k].op = "sync"
                        BY <5>2, <5>6 DEF SyncJob
                    <6>2. port'[f.port] = port[f.port]
                        BY <2>0, <5>1, <5>2, <6>1 DEF Syncs, TypeOK, Entry
                    <6>3. f.port \in Live
                        BY <5>6, <6>2 DEF Live
                    <6>. QED BY <5>2, <5>6, <6>1, <6>2, <6>3 DEF MapsFree
                <5>7. MapsFree(job[k], since[k])'
                    BY <5>2, <5>3, <5>6 DEF MapsFree
                <5>. QED BY <4>2, <5>4, <5>5, <5>7
            <4>. QED BY <4>1, <4>2
        <3>. QED BY <3>1 DEF LooksOK
    <2>11. TypeOK'
        BY <2>2, <2>3, <2>4, <2>5, <2>6, <2>8 DEF TypeOK
    <2>12. RowsOK'
        BY <2>1, <2>2 DEF RowsOK
    <2>. QED BY <2>2, <2>3, <2>9, <2>10, <2>11, <2>12 DEF PhysInv
<1>4. PhysInv /\ [Next]_vars => PhysInv'
    <2>1. CASE UNCHANGED vars
        <3> USE <2>1 DEF vars, rack, wiring
        <3>1. (TypeOK /\ JobsOK => TypeOK' /\ JobsOK')
            BY DEF TypeOK, JobsOK, InFlight, JobOK
        <3>2. RowsOK /\ CablesJoinTwoPorts /\ PassagesAreMutual
                => RowsOK' /\ CablesJoinTwoPorts' /\ PassagesAreMutual'
            BY DEF RowsOK, HeldOnce, CablesJoinTwoPorts, PassagesAreMutual, Live, Mounted
        <3>3. PlacementsOK /\ PlacementsDisjoint /\ RaceOK
                => PlacementsOK' /\ PlacementsDisjoint' /\ RaceOK'
            BY DEF PlacementsOK, PlacementsDisjoint, RaceOK, Placing, Resizing, NewPlace,
                Mounted, Spares
        <3>4. LooksOK => LooksOK'
            BY DEF LooksOK, SeenBy, PlanOK, MapsFree, Live
        <3>. QED BY <3>1, <3>2, <3>3, <3>4 DEF PhysInv
    <2>. QED BY <1>2, <1>3, <2>1 DEF Next
<1>. QED BY <1>1, <1>4, PTL DEF Spec
-----------------------------------------------------------------------------
(* Theorems                                                                  *)

\* Every variable keeps its type, whatever requests cross.
THEOREM InventoryTypesHold == Spec => []TypeOK
BY InventoryHolds, PTL DEF PhysInv

\* A cable has two plugged ports and a plugged port its cable, although a look and
\* its write are apart and rows come and go between them.
THEOREM CablesHold == Spec => []CablesJoinTwoPorts
BY InventoryHolds, PTL DEF PhysInv

\* A passage is known to both its ports, but for one that began at a port an
\* operator created already paired; no port is in two, none leads back to itself.
THEOREM PassagesHold == Spec => []PassagesAreMutual
BY InventoryHolds, PTL DEF PhysInv

\* The trigger under the advisory lock keeps two assets off the same unit.
THEOREM UnitsAreShared == Spec => []PlacementsDisjoint
BY InventoryHolds, PTL DEF PhysInv

\* Nothing sticks out of a rack unless a resize and a placement were tested at once.
THEOREM OnlyARaceSticksOut == Spec => []SticksOutOnlyByRace
<1>1. PhysInv => SticksOutOnlyByRace
    BY DEF PhysInv, RaceOK, SticksOutOnlyByRace, RackHoldsItsEquipment
<1>. QED BY <1>1, InventoryHolds, PTL

\* A removal takes no cable, and a board's removal no mapping, that its look saw.
THEOREM RemovalsSpare == Spec => RemovalsSpareTheSeen
<1>1. ASSUME PhysInv, [Next]_vars, NEW p \in Ports, port[p] # NULL, port'[p] = NULL
      PROVE  \E k \in Callers :
                /\ at[k] = "write" /\ at'[k] = "idle"
                /\ \/ p \in since[k]
                   \/ port[p].cable = NULL /\ (job[k].op = "remove" => port[p].iface = NULL)
    <2>1. p \in Live /\ p \notin Live' /\ port # port'
        BY <1>1 DEF Live
    <2>2. PICK k \in Callers : Write(k) \/ Fail(k)
        <3>1. ASSUME NEW k \in Callers, Request(k)
              PROVE  FALSE
            BY <1>1, <2>1, <3>1, Asked DEF PhysInv, Ask, wiring
        <3>. QED BY <1>1, <2>1, <3>1 DEF Next, vars, wiring
    <2>3. Wired(k) /\ PhysInv
        BY <1>1, <2>2, Wiring
    <2>4. TypeOK /\ NULL \notin Rows /\ Free # NULL /\ port[p] \in Rows
        BY <1>1, Constants DEF PhysInv, TypeOK, Free, Rows
    <2>5. PICK gone : Drops(k, gone)
        <3>1. CASE \E c, e : Plugs(c, e)
            <4>1. port'[p] \in Rows
                BY <1>1, <2>4, <3>1 DEF Plugs, Rows
            <4>. QED BY <1>1, <2>4, <4>1
        <3>2. CASE \E c : Unplugs(c)
            <4>1. port'[p] \in Rows
                BY <1>1, <2>4, <3>2 DEF Unplugs, Unplugged, Rows
            <4>. QED BY <1>1, <2>4, <4>1
        <3>3. CASE \E new : Adds(new)
            BY <1>1, <2>4, <3>3 DEF Adds
        <3>4. CASE \E n, row : AddsOne(n, row)
            BY <1>1, <2>1, <2>4, <3>4 DEF AddsOne, TypeOK
        <3>5. CASE \E a, b : Pairs(a, b)
            <4>1. PICK a, b : a \in Live /\ b \in Live /\ port' = Paired(a, b)
                BY <3>5 DEF Pairs
            <4>2. port'[p] \in Rows
                BY <1>1, <2>4, <4>1 DEF Paired, TypeOK, Rows, Live
            <4>. QED BY <1>1, <2>4, <4>2
        <3>6. CASE \E m, i : Maps(m, i)
            <4>1. port'[p] \in Rows
                BY <1>1, <2>4, <3>6 DEF Maps, TypeOK, Rows
            <4>. QED BY <1>1, <2>4, <4>1
        <3>. QED BY <2>1, <2>3, <3>1, <3>2, <3>3, <3>4, <3>5, <3>6 DEF Wired
    <2>6. p \in gone
        <3> DEFINE cut == {port[g].cable : g \in gone}
        <3>1. port'[p] = IF p \in gone \/ port[p] = NULL THEN NULL
                         ELSE [port[p] EXCEPT !.cable = IF @ \in cut THEN NULL ELSE @,
                                              !.pair = IF @ \in gone THEN NULL ELSE @]
            BY <1>1, <2>5 DEF Drops, DeletePorts
        <3> HIDE DEF cut
        <3>2. p \notin gone => port'[p] \in Rows
            BY <1>1, <2>4, <3>1 DEF Rows
        <3>. QED BY <1>1, <2>4, <3>2
    <2>7. /\ at[k] = "write" /\ at'[k] = "idle" /\ SeenBy(job[k], since[k])
          /\ job[k].op \in {"reconcile", "remove", "deleteAsset"}
          /\ p \in Doomed(job[k]) \cap Live
        BY <1>1, <2>4, <2>5, <2>6 DEF Drops, End, PhysInv, LooksOK, TypeOK
    <2>. QED BY <2>7 DEF SeenBy, Doomed
<1>2. PhysInv /\ [Next]_vars => [\A p \in Ports : port[p] # NULL /\ port'[p] = NULL =>
        \E k \in Callers :
            /\ at[k] = "write" /\ at'[k] = "idle"
            /\ \/ p \in since[k]
               \/ port[p].cable = NULL /\ (job[k].op = "remove" => port[p].iface = NULL)]_vars
    BY <1>1
<1>. QED BY <1>2, InventoryHolds, PTL DEF Spec, RemovalsSpareTheSeen

\* A sync takes a port from its interface only if it was mapped after the look.
THEOREM SyncSpares == Spec => SyncSparesMappings
<1>1. ASSUME PhysInv, [Next]_vars, NEW k \in Callers, NEW p \in Live,
             Writes(k, "sync"), job'[k] # job[k], port'[p] # port[p],
             p \notin since[k]
      PROVE  port[p].iface = NULL
    <2>0. /\ port \in [Ports -> Rows \cup {NULL}] /\ p \in Ports /\ port[p] \in Rows
          /\ at[k] = "write" /\ job[k].op = "sync" /\ job[k] \in SyncJob
          /\ MapsFree(job[k], since[k]) /\ DOMAIN job = Callers /\ TypeOK
        BY <1>1 DEF PhysInv, TypeOK, JobsOK, JobOK, LooksOK, Writes, InFlight, Live
    <2>1. SyncStep(k)
        <3>1. UNCHANGED vars => FALSE
            BY <1>1 DEF vars
        <3>2. PICK d \in Callers : Request(d) \/ Write(d) \/ Fail(d)
            BY <1>1, <3>1 DEF Next
        <3>3. ~Request(d) /\ ~Fail(d)
            BY <1>1, <3>2, Asked DEF PhysInv, Ask, wiring, Fail
        <3>4. job' = job \/ (\E v : job' = [job EXCEPT ![d] = v])
                \/ (\E v : job' = [job EXCEPT ![d].todo = v])
            BY <3>2, <3>3
            DEF Write, CreateConnection, DeleteConnection, CreatePort, PairPorts, UpdatePort,
                ReconcilePorts, SyncStep, InstallModule, RemoveModule, DeleteAsset,
                TestPlacement, CommitPlacement, TestResize, CommitResize, WriteIf, End
        <3>5. d = k
            BY <1>1, <2>0, <3>4
        <3>. QED BY <2>0, <3>2, <3>3, <3>5
            DEF Write, CreateConnection, DeleteConnection, CreatePort, PairPorts, UpdatePort,
                ReconcilePorts, InstallModule, RemoveModule, DeleteAsset,
                TestPlacement, CommitPlacement, TestResize, CommitResize, Writes
    <2>2. PICK e \in job[k].todo :
            LET ok == IF e.new THEN /\ e.port \notin Live /\ Mounted(AssetOf(e.port))
                                    /\ Holders(e.iface) = {}
                      ELSE CanMap(e.port, e.iface)
            IN IF ok
               THEN port' = [port EXCEPT ![e.port] =
                        IF e.new THEN [Free EXCEPT !.iface = e.iface]
                        ELSE [@ EXCEPT !.iface = e.iface]]
               ELSE UNCHANGED port
        BY <2>1 DEF SyncStep
    <2>3. e \in Entry /\ e.port \in Ports /\ e.iface \in Interfaces
        BY <2>0 DEF SyncJob, Entry
    <2>4. /\ ~e.new /\ e.port = p
          /\ port' = [port EXCEPT ![p] = [@ EXCEPT !.iface = e.iface]]
        BY <1>1, <2>0, <2>2, <2>3
    <2>5. port[p].iface # e.iface
        BY <1>1, <2>0, <2>4 DEF Rows
    <2>. QED BY <1>1, <2>0, <2>4, <2>5 DEF MapsFree
<1>2. PhysInv /\ [Next]_vars =>
        [\A k \in Callers, p \in Live :
        Writes(k, "sync") /\ job'[k] # job[k] /\ port'[p] # port[p] =>
            port[p].iface = NULL \/ p \in since[k]]_vars
    BY <1>1
<1>. QED BY <1>2, InventoryHolds, PTL DEF Spec, SyncSparesMappings

-----------------------------------------------------------------------------
(* The trace of a path                                                       *)

\* The cabling of a state: cables join two ports, and a passage leads to a port
\* that is there, and another one.
Cabled ==
    /\ port \in [Ports -> Rows \cup {NULL}] /\ CablesJoinTwoPorts
    /\ \A p \in Live : port[p].pair # NULL => port[p].pair \in Live \ {p}

Followed == [end : Live, seen : SUBSET Live, loop : BOOLEAN, over : BOOLEAN]

\* What is behind a walk that came from s: cables to both sides of the ports
\* between, and passages between the cables.
Behind(w, s) ==
    /\ {s, w.end} \subseteq w.seen
    /\ w.end = s => w.seen = {s}
    /\ \A q \in w.seen \ {w.end} : OtherEnd(q) \in w.seen \ {w.end}
    /\ \A q \in w.seen \ {s, w.end} : port[q].cable # NULL
    /\ \A q \in w.seen \ {s} : port[q].pair \in w.seen
    /\ w.end # s /\ port[s].cable = NULL => port[s].pair \in w.seen

\* The path between the ends s and w.end, or a ring.
Path(w, s) ==
    /\ {s, w.end} \subseteq w.seen
    /\ \A q \in w.seen : OtherEnd(q) \in w.seen
    /\ \A q \in w.seen \ {s} : port[q].pair \in w.seen \cup {NULL}
    /\ \A q \in w.seen \ {s, w.end} : port[q].cable # NULL /\ port[q].pair # NULL
    /\ w.loop <=> port[w.end].pair # NULL
    /\ w.loop => port[w.end].cable = NULL \/ (Ring(w.seen) /\ port[w.end].pair = s)
    /\ ~w.loop /\ w.end # s => port[w.end].cable # NULL
    /\ w.end = s => ~w.loop /\ port[s].cable = NULL

\* Who starts in a set of ports and stays clear of t does not leave it, when only
\* the passage of t leads out.
Within(w, s) ==
    \A T \in SUBSET Live, t \in Live :
        s \in T /\ (\A q \in T : OtherEnd(q) \in T)
        /\ (\A q \in T \ {t} : port[q].pair \in T \cup {NULL})
            => t \in w.seen \/ w.seen \subseteq T

\* From the other end of a cable one comes back.
LEMMA BothEnds ==
    ASSUME Cabled, NEW p \in Live
    PROVE  /\ OtherEnd(p) \in Live /\ OtherEnd(OtherEnd(p)) = p
           /\ OtherEnd(p) = p <=> port[p].cable = NULL
           /\ port[OtherEnd(p)].cable = port[p].cable
<1>1. CASE port[p].cable = NULL
    BY <1>1 DEF OtherEnd
<1>2. CASE port[p].cable # NULL
    <2> DEFINE ends == {q \in Live : port[q].cable = port[p].cable}
    <2>1. Cardinality(ends) = 2 /\ IsFiniteSet(ends)
        <3>1. Cardinality(ends) = 2
            BY <1>2 DEF Cabled, CablesJoinTwoPorts
        <3>2. ends \in SUBSET Ports /\ IsFiniteSet(Ports)
            BY InventoryAssumption DEF Live
        <3> HIDE DEF ends
        <3>. QED BY <3>1, <3>2, FS_Subset
    <2>2. p \in ends /\ ends \subseteq Live
        OBVIOUS
    <2>3. PICK q : ends \ {p} = {q}
        <3> HIDE DEF ends
        <3>1. IsFiniteSet(ends \ {p}) /\ Cardinality(ends \ {p}) = 1
            BY <2>1, <2>2, FS_RemoveElement
        <3>. QED BY <3>1, FS_Singleton
    <2>4. q \in Live \ {p} /\ ends = {p, q}
        <3> HIDE DEF ends
        <3>. QED BY <2>2, <2>3
    <2>5. /\ \A r \in Live \ {p} : port[r].cable = port[p].cable <=> r = q
          /\ \A r \in Live \ {q} : port[r].cable = port[p].cable <=> r = p
          /\ port[q].cable = port[p].cable
        BY <2>4
    <2>6. OtherEnd(p) = q
        <3>1. OtherEnd(p) = CHOOSE r \in Live \ {p} : port[r].cable = port[p].cable
            BY <1>2 DEF OtherEnd
        <3>. QED BY <2>4, <2>5, <3>1
    <2>7. OtherEnd(q) = p
        <3>1. OtherEnd(q) = CHOOSE r \in Live \ {q} : port[r].cable = port[p].cable
            BY <1>2, <2>5 DEF OtherEnd
        <3>. QED BY <2>4, <2>5, <3>1
    <2>. QED BY <1>2, <2>4, <2>5, <2>6, <2>7
<1>. QED BY <1>1, <1>2

\* A trace is what a sequence of rounds comes to, and it is over: each round that
\* does not end it comes to a port it had not seen.
LEMMA Rounds ==
    ASSUME Cabled, NEW p \in Live
    PROVE  \E run \in [Nat -> Followed] :
            /\ run[0] = Begin(p) /\ \A n \in Nat : run[n + 1] = Step(run[n])
            /\ \E n \in Nat : Trace(p) = run[n]
            /\ Trace(p).over
<1>1. ASSUME NEW w \in Followed
      PROVE  /\ Step(w) \in Followed
             /\ ~Step(w).over => w.seen \subseteq Step(w).seen \ {Step(w).end}
                                 /\ Step(w).end \in Step(w).seen
    <2> DEFINE far == OtherEnd(w.end)
               next == port[far].pair
               now == w.seen \cup {far}
    <2>1. /\ w.end \in Live /\ w.seen \subseteq Live /\ far \in Live
          /\ next # NULL => next \in Live
        BY BothEnds DEF Followed, Cabled
    <2>2. \/ w.over /\ Step(w) = w
          \/ \E q \in {w.end, far}, loop \in BOOLEAN :
                Step(w) = [end |-> q, seen |-> now, loop |-> loop, over |-> TRUE]
          \/ /\ next # NULL /\ next \notin now
             /\ Step(w) = [w EXCEPT !.end = next, !.seen = now \cup {next}]
        BY DEF Step
    <2> HIDE DEF far, next
    <2>3. CASE w.over /\ Step(w) = w
        BY <2>3
    <2>4. CASE \E q \in {w.end, far}, loop \in BOOLEAN :
                Step(w) = [end |-> q, seen |-> now, loop |-> loop, over |-> TRUE]
        BY <2>1, <2>4 DEF Followed
    <2>5. CASE /\ next # NULL /\ next \notin now
               /\ Step(w) = [w EXCEPT !.end = next, !.seen = now \cup {next}]
        <3>1. Step(w).end = next /\ Step(w).seen = now \cup {next}
            BY <2>5 DEF Followed
        <3>. QED BY <2>1, <2>5, <3>1 DEF Followed
    <2>. QED BY <2>2, <2>3, <2>4, <2>5
<1> DEFINE round == [w \in Followed |-> Step(w)]
<1>2. Begin(p) \in Followed /\ Begin(p).seen = {p}
    BY DEF Begin, Followed
<1> DEFINE Repeats(D, a, step) ==
               \E f \in [Nat -> D] : f[0] = a /\ \A n \in Nat : f[n + 1] = step[f[n]]
<1>3. PICK run \in [Nat -> Followed] :
        run[0] = Begin(p) /\ \A n \in Nat : run[n + 1] = round[run[n]]
    <2>1. round \in [Followed -> Followed]
        BY <1>1
    <2>2. \A D : \A a \in D, step \in [D -> D] : Repeats(D, a, step)
        BY Recursion, Zenon
    <2>3. Repeats(Followed, Begin(p), round)
        <3> HIDE DEF Repeats, round
        <3>. QED BY <1>2, <2>1, <2>2
    <2> HIDE DEF round
    <2>. QED BY <2>3
<1>4. \A n \in Nat : run[n + 1] = Step(run[n])
    BY <1>3
<1> DEFINE Is(f) == f = [n \in Nat |-> IF n = 0 THEN Begin(p) ELSE Step(f[n - 1])]
           after == CHOOSE f : Is(f)
<1>5. Is(run)
    <2>1. \A n \in Nat : run[n] = IF n = 0 THEN Begin(p) ELSE Step(run[n - 1])
        <3> SUFFICES ASSUME NEW n \in Nat, n # 0 PROVE run[n] = Step(run[n - 1])
            BY <1>3
        <3>1. n - 1 \in Nat /\ (n - 1) + 1 = n
            OBVIOUS
        <3>. QED BY <1>4, <3>1
    <2>. QED BY <1>3, <2>1
<1>6. Is(after)
    <2> HIDE DEF Is
    <2>. QED BY <1>5
<1>7. \A n \in Nat : after[n] = run[n]
    <2> DEFINE same == {n \in Nat : after[n] = run[n]}
    <2>1. 0 \in same
        BY <1>3, <1>6
    <2>2. ASSUME NEW n \in Nat, n \in same PROVE n + 1 \in same
        <3>1. after[n + 1] = Step(after[n])
            <4>1. n + 1 \in Nat /\ n + 1 # 0 /\ (n + 1) - 1 = n
                OBVIOUS
            <4>. QED BY <1>6, <4>1
        <3>. QED BY <1>4, <2>2, <3>1
    <2> HIDE DEF same
    <2>3. Nat \subseteq same
        BY <2>1, <2>2, SetInduction
    <2>. QED BY <2>3 DEF same
<1>8. IsFiniteSet(Ports) /\ Cardinality(Ports) \in Nat
    BY InventoryAssumption, FS_CardinalityType
<1>9. Trace(p) = run[Cardinality(Ports)]
    <2>1. Trace(p) = after[Cardinality(Ports)]
        BY DEF Trace
    <2>. QED BY <1>7, <1>8, <2>1
<1>10. \A n \in Nat : IsFiniteSet(run[n].seen) /\ Cardinality(run[n].seen) <= Cardinality(Ports)
    <2>1. \A n \in Nat : run[n].seen \in SUBSET Ports
        BY DEF Followed, Live
    <2>. QED BY <1>8, <2>1, FS_Subset
<1>11. \A n \in Nat : run[n].over \/ Cardinality(run[n].seen) >= n + 1
    <2> DEFINE goes == {n \in Nat : run[n].over \/ Cardinality(run[n].seen) >= n + 1}
    <2>1. 0 \in goes
        <3>1. Cardinality(run[0].seen) = 1
            BY <1>2, <1>3, FS_Singleton
        <3>. QED BY <3>1
    <2>2. ASSUME NEW n \in Nat, n \in goes PROVE n + 1 \in goes
        <3>1. CASE run[n].over
            <4>1. run[n + 1] = run[n]
                BY <1>4, <3>1 DEF Step
            <4>. QED BY <3>1, <4>1
        <3>2. CASE ~run[n].over
            <4> SUFFICES ASSUME ~run[n + 1].over
                         PROVE  Cardinality(run[n + 1].seen) >= (n + 1) + 1
                OBVIOUS
            <4> DEFINE s == run[n].seen
                       t == run[n + 1].seen
                       e == run[n + 1].end
            <4>1. s \in SUBSET (t \ {e}) /\ e \in t
                BY <1>1, <1>4
            <4>2. IsFiniteSet(s) /\ IsFiniteSet(t) /\ Cardinality(s) >= n + 1
                BY <1>10, <2>2, <3>2
            <4> HIDE DEF s, t, e
            <4>3. IsFiniteSet(t \ {e}) /\ Cardinality(t \ {e}) = Cardinality(t) - 1
                BY <4>1, <4>2, FS_RemoveElement
            <4>4. Cardinality(s) <= Cardinality(t) - 1
                BY <4>1, <4>3, FS_Subset
            <4>5. Cardinality(s) \in Nat /\ Cardinality(t) \in Nat
                BY <4>2, FS_CardinalityType
            <4>. QED BY <4>2, <4>4, <4>5 DEF t
        <3>. QED BY <3>1, <3>2
    <2> HIDE DEF goes
    <2>3. Nat \subseteq goes
        BY <2>1, <2>2, SetInduction
    <2>. QED BY <2>3 DEF goes
<1>12. Trace(p).over
    <2> DEFINE n == Cardinality(Ports)
    <2>1. n \in Nat /\ Cardinality(run[n].seen) <= n /\ Cardinality(run[n].seen) \in Nat
        BY <1>8, <1>10, FS_CardinalityType
    <2>2. run[n].over \/ Cardinality(run[n].seen) >= n + 1
        BY <1>8, <1>11
    <2> HIDE DEF n
    <2>3. run[n].over
        BY <2>1, <2>2
    <2>. QED BY <1>9, <2>3 DEF n
<1>. QED BY <1>3, <1>4, <1>8, <1>9, <1>12

\* What a trace has seen is the path it is on.
LEMMA Traced ==
    ASSUME Cabled, Mutual, NEW s \in Live
    PROVE  Path(Trace(s), s) /\ Within(Trace(s), s) /\ Trace(s) \in Followed
<1> DEFINE Good(w) == IF w.over THEN Path(w, s) ELSE Behind(w, s)
<1>1. Good(Begin(s)) /\ Within(Begin(s), s)
    BY DEF Begin, Behind, Within
<1>2. ASSUME NEW w \in Followed, Good(w), Within(w, s)
      PROVE  Good(Step(w)) /\ Within(Step(w), s)
    <2>0. CASE w.over
        BY <1>2, <2>0 DEF Step
    <2>1. CASE ~w.over
        <3> DEFINE p == w.end
                   far == OtherEnd(p)
                   next == port[far].pair
                   now == w.seen \cup {far}
        <3>1. Behind(w, s) /\ p \in Live /\ w.seen \subseteq Live
            BY <1>2, <2>1 DEF Followed
        <3>2. /\ far \in Live /\ OtherEnd(p) = far /\ OtherEnd(far) = p
              /\ far = p <=> port[p].cable = NULL
              /\ port[far].cable = port[p].cable
            BY <3>1, BothEnds
        <3>3. next # NULL => next \in Live \ {far} /\ port[next].pair = far
            BY <3>2 DEF Cabled, Mutual
        <3>4. NULL \notin Live
            BY Constants DEF Live
        <3> HIDE DEF p, far, next
        \* The loop along a cable never happens.
        <3>5. far # p => far \notin w.seen
            <4>. SUFFICES ASSUME far # p, far \in w.seen PROVE FALSE
                OBVIOUS
            <4>1. OtherEnd(far) \in w.seen \ {p}
                BY <3>1 DEF Behind, p
            <4>. QED BY <3>2, <4>1
        <3>6. Within([w EXCEPT !.seen = now], s)
            <4> SUFFICES ASSUME NEW T \in SUBSET Live, NEW t \in Live, s \in T,
                                \A q \in T : OtherEnd(q) \in T,
                                \A q \in T \ {t} : port[q].pair \in T \cup {NULL},
                                t \notin w.seen
                         PROVE  now \subseteq T
                BY DEF Within, Followed
            <4>1. w.seen \subseteq T /\ p \in w.seen
                BY <1>2, <3>1 DEF Within, Behind, p
            <4>. QED BY <4>1 DEF far
        <3>b. /\ {s, p} \subseteq w.seen
              /\ p = s => w.seen = {s}
              /\ \A q \in w.seen \ {p} : OtherEnd(q) \in w.seen \ {p}
              /\ \A q \in w.seen \ {s, p} : port[q].cable # NULL
              /\ \A q \in w.seen \ {s} : port[q].pair \in w.seen
              /\ p # s /\ port[s].cable = NULL => port[s].pair \in w.seen
            BY <3>1 DEF Behind, p
        <3>d. next = port[far].pair
            BY DEF next
        <3>e. \A q \in now : OtherEnd(q) \in now
            BY <3>2, <3>b
        <3>f. /\ \A q \in now \ {s, far} : port[q].cable # NULL /\ port[q].pair # NULL
              /\ \A q \in now \ {s, far} : port[q].pair \in now
            BY <3>1, <3>2, <3>4, <3>b
        <3>g. far = s => p = s /\ port[s].cable = NULL
            BY <3>2, <3>5, <3>b
        <3>7. CASE next = NULL
            <4> DEFINE v == [end |-> far, seen |-> now, loop |-> FALSE, over |-> TRUE]
            <4>1. Step(w) = v
                BY <2>1, <3>5, <3>7 DEF Step, p, far, next
            <4>2. Path(v, s)
                <5>1. far # s => port[far].cable # NULL
                    BY <3>1, <3>2, <3>4, <3>7, <3>b, <3>d
                <5>. QED BY <3>7, <3>b, <3>d, <3>e, <3>f, <3>g, <5>1 DEF Path
            <4>3. Within(v, s)
                BY <3>6 DEF Within, Followed
            <4>. QED BY <4>1, <4>2, <4>3
        <3>8. CASE next # NULL /\ next \in now
            <4> DEFINE v == [end |-> far, seen |-> now, loop |-> TRUE, over |-> TRUE]
            <4>1. Step(w) = v
                BY <2>1, <3>5, <3>8 DEF Step, p, far, next
            <4>2. Path(v, s)
                <5>1. next \in w.seen /\ next # far
                    BY <3>3, <3>8
                <5>2. far # s /\ \A q \in now \ {s} : port[q].pair \in now
                    BY <3>8, <3>b, <3>d, <3>f, <3>g, <5>1
                <5>v. v.end = far /\ v.seen = now /\ v.loop = TRUE
                    OBVIOUS
                <5> HIDE DEF v
                <5>3. CASE port[far].cable # NULL
                    <6>1. far # p /\ port[p].cable # NULL /\ far \notin w.seen
                        BY <3>2, <3>5, <5>3
                    <6>2. next = s
                        BY <3>3, <3>8, <3>b, <5>1, <6>1
                    <6>3. port[s].cable # NULL /\ port[s].pair = far
                        BY <3>3, <3>8, <3>b, <6>1, <6>2
                    <6>4. Ring(now)
                        BY <3>b, <3>d, <3>e, <3>f, <5>3, <6>2, <6>3 DEF Ring
                    <6>. QED BY <3>8, <3>b, <3>d, <3>e, <3>f, <5>2, <5>v, <6>2, <6>4 DEF Path
                <5>4. CASE port[far].cable = NULL
                    <6>1. /\ port[v.end].cable = NULL /\ port[v.end].pair # NULL
                          /\ v.loop /\ v.end # s
                        BY <3>8, <3>d, <5>2, <5>4, <5>v
                    <6>2. /\ {s, v.end} \subseteq v.seen
                          /\ \A q \in v.seen : OtherEnd(q) \in v.seen
                          /\ \A q \in v.seen \ {s} : port[q].pair \in v.seen \cup {NULL}
                          /\ \A q \in v.seen \ {s, v.end} :
                                port[q].cable # NULL /\ port[q].pair # NULL
                        BY <3>b, <3>e, <3>f, <5>2, <5>v
                    <6>. QED BY <5>v, <6>1, <6>2 DEF Path
                <5>. QED BY <5>3, <5>4
            <4>3. Within(v, s)
                BY <3>6 DEF Within, Followed
            <4>. QED BY <4>1, <4>2, <4>3
        <3>9. CASE next # NULL /\ next \notin now
            <4> DEFINE v == [w EXCEPT !.end = next, !.seen = now \cup {next}]
            <4>1. Step(w) = v
                BY <2>1, <3>5, <3>9 DEF Step, p, far, next
            <4>2. v.end = next /\ v.seen = now \cup {next} /\ ~v.over
                BY <2>1 DEF Followed
            <4> HIDE DEF v
            <4>3. Behind(v, s)
                <5>1. next \notin now /\ next # s /\ port[next].pair = far
                    BY <3>3, <3>9, <3>b
                <5>2. p # s => port[p].cable # NULL /\ far # p
                    BY <3>2, <3>9, <3>b, <3>d
                <5>3. \A q \in now \ {s} : port[q].cable # NULL
                    BY <3>2, <3>b, <3>g, <5>2
                <5>4. \A q \in v.seen \ {s} : port[q].pair \in v.seen
                    BY <3>b, <3>d, <4>2, <5>1
                <5>5. port[s].cable = NULL => port[s].pair \in v.seen
                    BY <3>2, <3>b, <3>d, <4>2
                <5>. QED BY <3>b, <3>e, <4>2, <5>1, <5>3, <5>4, <5>5 DEF Behind
            <4>4. Within(v, s)
                <5> SUFFICES ASSUME NEW T \in SUBSET Live, NEW t \in Live, s \in T,
                                    \A q \in T : OtherEnd(q) \in T,
                                    \A q \in T \ {t} : port[q].pair \in T \cup {NULL},
                                    t \notin v.seen
                             PROVE  v.seen \subseteq T
                    BY DEF Within
                <5>1. now \subseteq T
                    BY <3>6, <4>2 DEF Within, Followed
                <5>2. far \in T \ {t} /\ next \in T
                    BY <3>9, <4>2, <5>1 DEF next
                <5>. QED BY <4>2, <5>1, <5>2
            <4>. QED BY <4>1, <4>2, <4>3, <4>4
        <3>. QED BY <3>7, <3>8, <3>9
    <2>. QED BY <2>0, <2>1
<1>3. PICK run \in [Nat -> Followed] :
        /\ run[0] = Begin(s) /\ \A n \in Nat : run[n + 1] = Step(run[n])
        /\ \E n \in Nat : Trace(s) = run[n]
        /\ Trace(s).over
    BY Rounds
<1> DEFINE fine == {n \in Nat : Good(run[n]) /\ Within(run[n], s)}
<1>4. Nat \subseteq fine
    <2> HIDE DEF Good
    <2>1. 0 \in fine
        BY <1>1, <1>3
    <2>2. ASSUME NEW n \in Nat, n \in fine PROVE n + 1 \in fine
        BY <1>2, <1>3, <2>2
    <2> HIDE DEF fine
    <2>. QED BY <2>1, <2>2, SetInduction
<1>. QED BY <1>3, <1>4

\* However the cabling and the passages came about, a trace comes to its end.
THEOREM TracesEnd == Spec => []TraceEnds
<1>1. PhysInv => Cabled
    BY DEF PhysInv, TypeOK, PassagesAreMutual, Cabled
<1>2. PhysInv => TraceEnds
    BY <1>1, Rounds DEF TraceEnds
<1>. QED BY <1>2, InventoryHolds, PTL

\* With mutual passages, a loop that is reported is a ring of cables and passages, or
\* the path ends at a passage without a cable behind it.
THEOREM LoopsReal == Spec => []LoopsAreReal
<1>1. PhysInv => Cabled
    BY DEF PhysInv, TypeOK, PassagesAreMutual, Cabled
<1>2. PhysInv => LoopsAreReal
    BY <1>1, Traced DEF LoopsAreReal, Path
<1>. QED BY <1>2, InventoryHolds, PTL

\* With mutual passages, a path is the same from both ends.
THEOREM TracesComeBack == Spec => []TraceComesBack
<1>1. ASSUME Cabled, Mutual, NEW s \in Live, s \notin Trace(Trace(s).end).seen PROVE FALSE
    <2> DEFINE w == Trace(s)
               e == w.end
               v == Trace(e)
    <2>1. Path(w, s) /\ w \in Followed /\ e \in Live
        BY <1>1, Traced DEF Followed
    <2>2. Path(v, e) /\ Within(v, e) /\ v \in Followed
        BY <1>1, <2>1, Traced
    <2> HIDE DEF w, v
    \* Traced back, it stays on the path.
    <2>0. NULL \notin v.seen
        BY <2>2, Constants DEF Followed, Live
    <2>3. v.seen \subseteq w.seen /\ s \notin v.seen
        BY <1>1, <2>1, <2>2 DEF Path, Within, Followed, w, v
    <2>4. v.end \in w.seen \ {s} /\ e \in v.seen /\ e # s
        BY <2>2, <2>3 DEF Path
    <2>5. CASE ~v.loop
        <3>1. v.end = e /\ port[e].pair = NULL
            BY <2>1, <2>2, <2>4, <2>5 DEF Path
        <3>. QED BY <2>1, <2>2, <2>4, <3>1 DEF Path
    <2>6. CASE v.loop
        <3>1. CASE Ring(v.seen)
            <4>1. port[e].cable # NULL /\ port[e].pair \in v.seen
                BY <2>4, <3>1 DEF Ring
            <4>. QED BY <2>0, <2>1, <2>3, <4>1 DEF Path
        <3>2. CASE port[v.end].cable = NULL
            <4>1. v.end = e
                BY <2>1, <2>4, <3>2 DEF Path
            <4>. QED BY <2>2, <2>6, <4>1 DEF Path
        <3>. QED BY <2>2, <2>6, <3>1, <3>2 DEF Path
    <2>. QED BY <2>5, <2>6
<1>2. PhysInv => Cabled
    BY DEF PhysInv, TypeOK, PassagesAreMutual, Cabled
<1>3. PhysInv => TraceComesBack
    BY <1>1, <1>2 DEF TraceComesBack
<1>. QED BY <1>3, InventoryHolds, PTL
=============================================================================
