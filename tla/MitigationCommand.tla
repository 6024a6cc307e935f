-------------------------- MODULE MitigationCommand --------------------------
(***************************************************************************)
(* The canonical path of a DDoS mitigation: MitigationCommandService with  *)
(* the executor it drives (Huawei over SSH, or the MOCK one), the runtime  *)
(* rows it records, the discovery that plans node pairs and takes the      *)
(* snapshot the preflight compares, and the things that happen around a    *)
(* command: other commands on the same route-policy, discoveries in        *)
(* flight, administrative exclusions, CLI edits on the router, a restart   *)
(* of the API.                                                             *)
(*                                                                         *)
(* A command and a discovery are asynchronous handlers: every stretch of   *)
(* code between two awaits is an action, so that anything may happen in    *)
(* between. Nothing in the code serialises commands on a policy.           *)
(***************************************************************************)
EXTENDS MitigationPlanner, FiniteSets

CONSTANTS
    Profiles,      \* mitigation profiles (targets), all on one device
    Policies,      \* route-policies of that device
    PolicyOf,      \* the inbound policy of each profile
    InitialPolicy, \* what the operator configured in each policy
    Calls,         \* mutating execute() calls: each is made at most once
    RequestIds,    \* the ids callers use; several calls may share one
    Scans,         \* discoveries of the device: each runs at most once
    Edits,         \* the changes the router's operator may make by hand
    MaxEdits,      \* bound: how many of them
    MaxFaults,     \* bound: reads and writes that fail, reads that are cut
    MaxToggles,    \* bound: changes of an exclusion
    MaxRestarts,   \* bound: restarts of the API process
    MaxHappenings  \* bound: all of these together, with the discoveries

ASSUME CommandAssumption ==
    /\ PolicyOf \in [Profiles -> Policies]
    /\ InitialPolicy \in [Policies -> RoutePolicy]
    /\ Edits \subseteq [policy : Policies, node : NodeIds,
                        kind : {"free"} \cup ForeignKind]
    /\ \A nodes \in SUBSET NodeIds : NULL # nodes
    /\ NULL \notin Calls
    /\ MaxEdits \in Nat
    /\ MaxFaults \in Nat
    /\ MaxToggles \in Nat
    /\ MaxRestarts \in Nat
    /\ MaxHappenings \in Nat

-----------------------------------------------------------------------------
(* What NetVision finds on the router                                       *)

\* The nodes a plan may ever use in a policy nobody edits.
Room(pol) ==
    LET policy == InitialPolicy[pol] IN
    FreeBeforeNormal(NormalNodes(policy), {n \in NodeIds : policy[n] \in ForeignKind})

\* The room taken two by two from its first node on: the pairs there can be.
Places(pol) ==
    {pr \in Pair :
        /\ NodesOf(pr) \subseteq Room(pol)
        /\ pr.bogon < pr.mitigation
        /\ \A n \in Room(pol) : n <= pr.bogon \/ n >= pr.mitigation
        /\ Cardinality({n \in Room(pol) : n <= pr.bogon}) % 2 = 1}

\* NetVision's nodes are whole pairs, each in its place, and the operator's are
\* those of the initial configuration.
InPlace(pol, policy) ==
    /\ \A n \in BogonNodes(policy) \cup MitigationNodes(policy) :
            \E pr \in Places(pol) : n \in NodesOf(pr) /\ PairPresent(policy, pr)
    /\ \A n \in NodeIds : {policy[n], InitialPolicy[pol][n]} \cap ForeignKind # {} =>
            policy[n] = InitialPolicy[pol][n]

\* The pairs an earlier run of the API left active are where it put them. Only
\* PairsStayWhole depends on it.
ASSUME InheritedAssumption == \A pol \in Policies : InPlace(pol, InitialPolicy[pol])

-----------------------------------------------------------------------------
VARIABLES
    device,      \* Huawei: the route-policies
    mock,        \* MockMitigationExecutor.policies (process memory)
    runtime,     \* BgpMitigationRuntime rows (database)
    excluded,    \* profile.mitigationExcluded (database)
    peerExcluded,\* some peer of the profile has an exclusion row (database)
    snapshot,    \* MitigationService.discoveryCache: existingNodes (memory)
    processed,   \* MitigationCommandService.processed: ids answered ok (memory)
    calls,       \* the frames of the execute() calls
    scans,       \* the frames of the discoveries
    edits,       \* CLI edits made so far
    toggles,     \* exclusions changed so far
    restarts,    \* restarts so far
    faults,      \* reads and writes that failed, or were cut, so far
    torn,        \* history: a failed write left part of its commands behind
    seen         \* history, see WitnessOf

db == <<runtime, excluded, peerExcluded>>
memory == <<mock, snapshot, processed>>
bounds == <<edits, toggles, restarts>>
vars == <<device, db, memory, calls, scans, bounds, faults, torn, seen>>

-----------------------------------------------------------------------------
(* The frames                                                               *)

RuntimeState ==
    {"NONE", "NORMAL", "MITIGATED", "RECONCILIATION_REQUIRED", "DISABLED"}

Runtime == [state : RuntimeState, pair : Pair \cup {NULL}]

Actions == {"ACTIVATE", "REMOVE"}

CallPc == {"new", "profile", "context", "resolve", "gate", "preflight",
           "write", "readback", "record", "reply", "done"}

Status == {"none", "VERIFIED", "REVALIDATION_FAILED", "MITIGATION_EXCLUDED",
           "CACHED", "REJECTED"}

Call == [pc : CallPc, action : Actions, req : RequestIds \cup {NULL},
         prof : Profiles \cup {NULL}, excl : BOOLEAN, live : BOOLEAN,
         pair : Pair \cup {NULL}, status : Status]

\* A call that has not been made, or is over.
NoCall(pc) ==
    [pc |-> pc, action |-> "REMOVE", req |-> NULL, prof |-> NULL,
     excl |-> FALSE, live |-> FALSE, pair |-> NULL, status |-> "none"]

ScanPc == {"new", "persist", "upsert", "reconcile", "cache", "done"}
Scope == {"in", "exceeded", "out"}

Scan == [pc : ScanPc, conf : [Policies -> RoutePolicy] \cup {NULL},
         scope : [Profiles -> Scope], todo : SUBSET Profiles,
         kept : SUBSET Profiles, at : Profiles \cup {NULL},
         state : RuntimeState]

NoScan(pc) ==
    [pc |-> pc, conf |-> NULL, scope |-> [p \in Profiles |-> "out"],
     todo |-> {}, kept |-> {}, at |-> NULL, state |-> "NONE"]

\* History of a call: what held all the time since it began ("excluded",
\* "peer", "DISABLED"), whether nobody else changed its policy since it began,
\* which nodes its preflight or its read-back was not shown or others changed
\* since that preflight, and whether a read or a write of its own failed or was
\* cut.
Barrier == {"excluded", "peer", "DISABLED"}
Witness == [shut : SUBSET Barrier, calm : BOOLEAN, unseen : SUBSET NodeIds,
            fault : BOOLEAN]
NoWitness == [shut |-> {}, calm |-> FALSE, unseen |-> {}, fault |-> FALSE]

Running(c) == calls[c].pc \notin {"new", "done"}
PolicyOfCall(c) == PolicyOf[calls[c].prof]
Target(c) == device[PolicyOfCall(c)]

TypeOK ==
    /\ device \in [Policies -> RoutePolicy]
    /\ mock \in [Policies -> RoutePolicy]
    /\ runtime \in [Profiles -> Runtime]
    /\ excluded \in [Profiles -> BOOLEAN]
    /\ peerExcluded \in [Profiles -> BOOLEAN]
    /\ snapshot \in [Profiles -> (SUBSET NodeIds) \cup {NULL}]
    /\ processed \subseteq RequestIds
    /\ calls \in [Calls -> Call]
    /\ scans \in [Scans -> Scan]
    /\ edits \in 0 .. MaxEdits
    /\ toggles \in 0 .. MaxToggles
    /\ restarts \in 0 .. MaxRestarts
    /\ faults \in 0 .. MaxFaults
    /\ torn \in BOOLEAN
    /\ seen \in [Calls -> Witness]

Init ==
    /\ device = InitialPolicy
    /\ mock = [pol \in Policies |-> [n \in NodeIds |-> "free"]]
    /\ runtime = [p \in Profiles |-> [state |-> "NONE", pair |-> NULL]]
    /\ excluded = [p \in Profiles |-> FALSE]
    /\ peerExcluded = [p \in Profiles |-> FALSE]
    /\ snapshot = [p \in Profiles |-> NULL]
    /\ processed = {}
    /\ calls = [c \in Calls |-> NoCall("new")]
    /\ scans = [s \in Scans |-> NoScan("new")]
    /\ edits = 0
    /\ toggles = 0
    /\ restarts = 0
    /\ faults = 0
    /\ torn = FALSE
    /\ seen = [c \in Calls |-> NoWitness]

-----------------------------------------------------------------------------
(* What the history notes                                                   *)

\* The barriers that stand for a target now.
Standing(p) ==
    {b \in Barrier :
        \/ b = "excluded" /\ excluded[p]
        \/ b = "peer" /\ peerExcluded[p]
        \/ b = "DISABLED" /\ runtime[p].state = "DISABLED"}

\* A barrier of target p was lifted.
Lifted(p, b) ==
    [c \in Calls |->
        IF calls[c].prof = p THEN [seen[c] EXCEPT !.shut = @ \ {b}] ELSE seen[c]]

\* Somebody other than c changed these nodes of a policy.
Disturbed(pol, nodes, c) ==
    [d \in Calls |->
        IF d # c /\ nodes # {} /\ Running(d) /\ PolicyOfCall(d) = pol
        THEN [seen[d] EXCEPT
                !.calm = FALSE,
                !.unseen = IF calls[d].pc = "write" THEN @ \cup nodes ELSE {}]
        ELSE seen[d]]

\* Something more may happen around the commands.
MayHappen ==
    edits + toggles + restarts + faults + Cardinality({s \in Scans : scans[s].pc # "new"})
        < MaxHappenings

\* A read or a write has just failed, or was cut, iff e.
Fails(e) ==
    /\ e => faults < MaxFaults /\ MayHappen
    /\ faults' = IF e THEN faults + 1 ELSE faults

\* And it was call c's, whose history is otherwise that of w.
Meets(c, w, e) ==
    /\ Fails(e)
    /\ seen' = [w EXCEPT ![c].fault = @ \/ e, ![c].unseen = {}]

ChangedNodes(before, after) == {n \in NodeIds : before[n] # after[n]}

\* The router has given call c this answer.
Reads(c, answer) ==
    LET hidden == ChangedNodes(Target(c), answer) IN
    /\ Fails(hidden # {})
    /\ seen' = [seen EXCEPT ![c].fault = @ \/ hidden # {}, ![c].unseen = hidden]

-----------------------------------------------------------------------------
(* execute() and executeAction()                                            *)

\* Call c goes on at pc, with the frame f.
Resume(c, f, pc) == calls' = [calls EXCEPT ![c] = [f EXCEPT !.pc = pc]]

\* Call c is about to return, not verified; its locals no longer matter.
Return(c, f, status) ==
    calls' = [calls EXCEPT ![c] = [f EXCEPT !.pc = "reply", !.status = status,
                                            !.excl = FALSE, !.pair = NULL]]

\* execute up to getProfile: an id already answered ok is answered from memory.
Begin(c, a, r, p) ==
    /\ calls[c].pc = "new"
    /\ LET f == [NoCall("new") EXCEPT !.action = a, !.req = r, !.prof = p] IN
       IF r \in processed THEN Return(c, f, "CACHED") ELSE Resume(c, f, "profile")
    /\ seen' = [seen EXCEPT ![c] = [shut |-> IF a = "ACTIVATE" THEN Standing(p) ELSE {},
                               calm |-> TRUE, unseen |-> {}, fault |-> FALSE]]
    /\ UNCHANGED <<device, db, memory, scans, bounds, faults, torn>>

\* getProfile: its failure, or an unknown profile, ends the call.
LoadProfile(c) ==
    /\ calls[c].pc = "profile"
    /\ \/ /\ Resume(c, [calls[c] EXCEPT !.excl = excluded[calls[c].prof]], "context")
          /\ Meets(c, seen, FALSE)
       \/ /\ Return(c, calls[c], "REJECTED")
          /\ Meets(c, seen, TRUE)
    /\ UNCHANGED <<device, db, memory, scans, bounds, torn>>

\* The reads of runtime and host fall back to null when they fail; without a
\* host the live executor is not used and the MOCK one takes the command.
LoadContext(c) ==
    /\ calls[c].pc = "context"
    /\ \E planRead, hostRead \in BOOLEAN :
        LET f == [calls[c] EXCEPT
                    !.pair = IF planRead THEN runtime[calls[c].prof].pair ELSE NULL,
                    !.live = hostRead] IN
        /\ Resume(c, f, CASE f.action = "ACTIVATE" -> "gate"
                          [] f.action = "REMOVE" /\ f.live -> "resolve"
                          [] OTHER -> "preflight")
        /\ Meets(c, seen, ~planRead \/ ~hostRead)
    /\ UNCHANGED <<device, db, memory, scans, bounds, torn>>

\* Mutant: the planned pair is taken without asking the device.
ResolveFromPlan(c) ==
    /\ calls[c].pc = "resolve"
    /\ Resume(c, calls[c], "preflight")
    /\ Meets(c, seen, FALSE)
    /\ UNCHANGED <<device, db, memory, scans, bounds, torn>>

\* A live REMOVE asks the device which pair is active; otherwise, or when the
\* read fails, the planned pair stays. A cut answer that shows the same pair is
\* as good as the whole one.
Resolve(c) ==
    LET active == {ResolveActivePair(answer) : answer \in Answers(Target(c))} IN
    /\ calls[c].pc = "resolve"
    /\ \E pr \in active \cup {NULL} :
        /\ Resume(c, [calls[c] EXCEPT !.pair = IF pr = NULL THEN @ ELSE pr], "preflight")
        /\ Meets(c, seen, pr # ResolveActivePair(Target(c)))
    /\ UNCHANGED <<device, db, memory, scans, bounds, torn>>

\* Mutant: the profile's own exclusion is forgotten.
GatePeersOnly(c) ==
    /\ calls[c].pc = "gate"
    /\ \E read \in BOOLEAN :
        /\ IF peerExcluded[calls[c].prof] /\ read
           THEN Return(c, calls[c], "MITIGATION_EXCLUDED")
           ELSE Resume(c, [calls[c] EXCEPT !.excl = FALSE], "preflight")
        /\ Meets(c, seen, ~read)
    /\ UNCHANGED <<device, db, memory, scans, bounds, torn>>

\* The exclusion gates of an ACTIVATE. A failed read of the peers or of their
\* exclusions counts as "none".
Gate(c) ==
    /\ calls[c].pc = "gate"
    /\ \E read \in BOOLEAN :
        /\ IF calls[c].excl \/ (peerExcluded[calls[c].prof] /\ read)
           THEN Return(c, calls[c], "MITIGATION_EXCLUDED")
           ELSE Resume(c, [calls[c] EXCEPT !.excl = FALSE], "preflight")
        /\ Meets(c, seen, ~read)
    /\ UNCHANGED <<device, db, memory, scans, bounds, torn>>

\* Mutants: a REMOVE that does not look at the nodes it deletes; a missing
\* snapshot that is taken for a matching one.
PreflightBlind(c, policy) ==
    LET expected == snapshot[calls[c].prof] IN
    /\ ExistingNodes(policy) # {}
    /\ calls[c].action = "ACTIVATE" =>
        /\ NodesOf(calls[c].pair) \cap ExistingNodes(policy) = {}
        /\ expected # NULL
        /\ expected = ExistingNodes(policy)

PreflightUnlessSnapshot(c, policy) ==
    LET pr == calls[c].pair
        expected == snapshot[calls[c].prof] IN
    /\ ExistingNodes(policy) # {}
    /\ IF calls[c].action = "ACTIVATE"
       THEN /\ NodesOf(pr) \cap ExistingNodes(policy) = {}
            /\ expected # NULL => expected = ExistingNodes(policy)
       ELSE PairPresent(policy, pr)

\* HuaweiMitigationExecutor.preflight on the policy as it reads it.
PreflightOk(c, policy) ==
    LET pr == calls[c].pair
        expected == snapshot[calls[c].prof] IN
    /\ ExistingNodes(policy) # {}
    /\ IF calls[c].action = "ACTIVATE"
       THEN /\ NodesOf(pr) \cap ExistingNodes(policy) = {}
            /\ expected # NULL
            /\ expected = ExistingNodes(policy)
       ELSE PairPresent(policy, pr)

\* Without a pair nothing is done; a live command needs its preflight to pass.
Preflight(c) ==
    LET f == calls[c] IN
    /\ f.pc = "preflight"
    /\ \/ /\ f.pair = NULL \/ ~f.live
          /\ IF f.pair = NULL THEN Return(c, f, "REVALIDATION_FAILED")
                              ELSE Resume(c, f, "write")
          /\ Meets(c, seen, FALSE)
       \/ /\ f.pair # NULL /\ f.live
          /\ \E answer \in Answers(Target(c)) :
                /\ IF PreflightOk(c, answer) THEN Resume(c, f, "write")
                                             ELSE Return(c, f, "REVALIDATION_FAILED")
                /\ Reads(c, answer)
       \/ /\ f.pair # NULL /\ f.live
          /\ Return(c, f, "REVALIDATION_FAILED")
          /\ Meets(c, seen, TRUE)
    /\ UNCHANGED <<device, db, memory, scans, bounds, torn>>

-----------------------------------------------------------------------------
(* The write                                                                *)

\* Mutant: the removal leaves the BOGONS node.
CommittedHalfRemoval(policy, action, pr) ==
    IF action = "ACTIVATE"
    THEN [policy EXCEPT ![pr.bogon] = "bogon", ![pr.mitigation] = "mitigation"]
    ELSE [policy EXCEPT ![pr.mitigation] = "free"]

\* The pair of commands, committed as a whole.
Committed(policy, action, pr) ==
    IF action = "ACTIVATE"
    THEN [policy EXCEPT ![pr.bogon] = "bogon", ![pr.mitigation] = "mitigation"]
    ELSE [policy EXCEPT ![pr.bogon] = "free", ![pr.mitigation] = "free"]

\* The shell goes on to the commit after a rejected command: any part of the
\* list may have been applied, a node may lack its if-match or its apply.
PartlyCommitted(policy, action, pr) ==
    LET left(n, part, whole) ==
            {policy[n]} \cup (IF action = "ACTIVATE" THEN {part, whole} ELSE {"free"}) IN
    {[policy EXCEPT ![pr.bogon] = x, ![pr.mitigation] = y] :
        x \in left(pr.bogon, "deny", "bogon"),
        y \in left(pr.mitigation, "permit", "mitigation")}

\* assertSafeNode: the write guard takes no node above the ceiling.
SafePair(pr) == \A n \in NodesOf(pr) : n <= MaxCandidate

\* The SSH session of a live write: the commands are accepted, or the channel
\* closes early without an error and nothing is applied, or the write is
\* reported as failed, whatever part of it the device kept.
WriteLive(c) ==
    LET f == calls[c]
        pol == PolicyOfCall(c)
        whole == Committed(device[pol], f.action, f.pair)
        store(policy, answered) ==
            /\ device' = [device EXCEPT ![pol] = policy]
            /\ torn' = (torn \/ policy \notin {device[pol], whole})
            /\ Meets(c, Disturbed(pol, ChangedNodes(device[pol], policy), c),
                     policy # whole \/ ~answered) IN
    /\ f.pc = "write"
    /\ f.live
    /\ \/ /\ SafePair(f.pair)
          /\ \E policy \in {device[pol], whole} : store(policy, TRUE)
          /\ Resume(c, f, "readback")
       \/ /\ SafePair(f.pair)
          /\ \E policy \in PartlyCommitted(device[pol], f.action, f.pair) :
                store(policy, FALSE)
          /\ Return(c, f, "REVALIDATION_FAILED")
       \/ /\ ~SafePair(f.pair)
          /\ store(device[pol], FALSE)
          /\ Return(c, f, "REVALIDATION_FAILED")
    /\ UNCHANGED <<db, memory, scans, bounds>>

\* The MOCK executor only changes its own memory.
WriteMock(c) ==
    LET pol == PolicyOfCall(c) IN
    /\ calls[c].pc = "write"
    /\ ~calls[c].live
    /\ mock' = [mock EXCEPT ![pol] = Committed(@, calls[c].action, calls[c].pair)]
    /\ Resume(c, calls[c], "readback")
    /\ Meets(c, seen, FALSE)
    /\ UNCHANGED <<device, db, snapshot, processed, scans, bounds, torn>>

\* Mutant: a commit without error is taken as proof.
ReadBackTrusting(c) ==
    /\ calls[c].pc = "readback"
    /\ Resume(c, [calls[c] EXCEPT !.status = "VERIFIED"], "record")
    /\ Meets(c, seen, FALSE)
    /\ UNCHANGED <<device, db, memory, scans, bounds, torn>>

\* The mandatory read-back decides by the answer it gets, whole or cut; if it
\* fails nothing is recorded.
ReadBack(c) ==
    LET f == calls[c]
        judged(policy) ==
            Resume(c, [f EXCEPT !.status = IF Done(policy, f.action, f.pair)
                                           THEN "VERIFIED" ELSE "REVALIDATION_FAILED"],
                   "record") IN
    /\ f.pc = "readback"
    /\ \/ /\ f.live
          /\ \E answer \in Answers(Target(c)) : judged(answer) /\ Reads(c, answer)
       \/ /\ ~f.live
          /\ judged(mock[PolicyOfCall(c)])
          /\ Meets(c, seen, FALSE)
       \/ /\ f.live
          /\ Return(c, f, "REVALIDATION_FAILED")
          /\ Meets(c, seen, TRUE)
    /\ UNCHANGED <<device, db, memory, scans, bounds, torn>>

\* record(): the runtime takes the state the action aims at, verified or not; a
\* database error is swallowed.
Record(c) ==
    LET p == calls[c].prof
        state == IF calls[c].action = "ACTIVATE" THEN "MITIGATED" ELSE "NORMAL" IN
    /\ calls[c].pc = "record"
    /\ \/ /\ runtime' = [runtime EXCEPT ![p].state = state]
          /\ seen' = Lifted(p, "DISABLED")
          /\ Fails(FALSE)
       \/ /\ Fails(TRUE)
          /\ UNCHANGED <<runtime, seen>>
    /\ Resume(c, calls[c], "reply")
    /\ UNCHANGED <<device, excluded, peerExcluded, memory, scans, bounds, torn>>

\* Mutant: any answer is kept for its id.
ReplyForAll(c) ==
    /\ calls[c].pc = "reply"
    /\ processed' = processed \cup {calls[c].req}
    /\ calls' = [calls EXCEPT ![c] = NoCall("done")]
    /\ seen' = [seen EXCEPT ![c] = NoWitness]
    /\ UNCHANGED <<device, db, mock, snapshot, scans, bounds, faults, torn>>

\* After the notification the call returns; an ok result is kept for its id.
Reply(c) ==
    /\ calls[c].pc = "reply"
    /\ processed' = processed \cup
            (IF calls[c].status = "VERIFIED" THEN {calls[c].req} ELSE {})
    /\ calls' = [calls EXCEPT ![c] = NoCall("done")]
    /\ seen' = [seen EXCEPT ![c] = NoWitness]
    /\ UNCHANGED <<device, db, mock, snapshot, scans, bounds, faults, torn>>

CallStep(c) ==
    \/ \E a \in Actions, r \in RequestIds, p \in Profiles : Begin(c, a, r, p)
    \/ LoadProfile(c)
    \/ LoadContext(c)
    \/ Resolve(c)
    \/ Gate(c)
    \/ Preflight(c)
    \/ WriteLive(c)
    \/ WriteMock(c)
    \/ ReadBack(c)
    \/ Record(c)
    \/ Reply(c)

-----------------------------------------------------------------------------
(* discoverFromBgpOutcome and the cache of discover                         *)

\* One read of the configuration; a failed one leaves the node map null, one
\* that was cut is taken for the configuration. The scope of each profile comes
\* from the peers and their interfaces.
ScanRead(s) ==
    /\ scans[s].pc = "new"
    /\ MayHappen
    /\ \E conf \in Dumps(device) \cup {NULL}, scope \in [Profiles -> Scope] :
        LET todo == {p \in Profiles : scope[p] # "out"} IN
        /\ Fails(conf # device)
        /\ scans' = [scans EXCEPT ![s] =
            [NoScan("persist") EXCEPT !.conf = conf, !.scope = scope, !.todo = todo]]
    /\ UNCHANGED <<device, db, memory, calls, bounds, seen, torn>>

\* upsertProfile, replaceProfilePeers and getRuntime of the next target. An
\* error leaves the row without a profile id, hence out of the cache; if it
\* came from upsertProfile the profile is not "touched" either.
ScanTarget(s, p) ==
    LET f == scans[s] IN
    /\ f.pc = "persist"
    /\ p \in f.todo
    /\ \/ /\ scans' = [scans EXCEPT ![s] =
                [f EXCEPT !.pc = "upsert", !.at = p, !.state = runtime[p].state]]
          /\ Fails(FALSE)
       \/ /\ \E scope \in {f.scope[p], "out"} :
                scans' = [scans EXCEPT ![s] =
                    [f EXCEPT !.todo = @ \ {p}, !.scope[p] = scope]]
          /\ Fails(TRUE)
    /\ UNCHANGED <<device, db, memory, calls, bounds, seen, torn>>

PlanOf(conf, p) == IF conf = NULL THEN NULL ELSE PlanFor(conf[PolicyOf[p]])

\* upsertRuntime: the plan is always rewritten; the state follows the row read
\* before, not the row as it is now.
ScanUpsert(s) ==
    LET f == scans[s]
        p == f.at
        plan == PlanOf(f.conf, p)
        state == IF plan = NULL \/ f.scope[p] = "exceeded" THEN "RECONCILIATION_REQUIRED"
                 ELSE IF f.state \in {"NONE", "DISABLED", "RECONCILIATION_REQUIRED"}
                 THEN "NORMAL"
                 ELSE runtime[p].state IN
    /\ f.pc = "upsert"
    /\ \/ /\ runtime' = [runtime EXCEPT ![p] = [state |-> state, pair |-> plan]]
          /\ seen' = IF state = "DISABLED" THEN seen ELSE Lifted(p, "DISABLED")
          /\ scans' = [scans EXCEPT ![s] = [f EXCEPT !.pc = "persist", !.at = NULL,
                            !.state = "NONE", !.todo = @ \ {p}, !.kept = @ \cup {p}]]
          /\ Fails(FALSE)
       \/ /\ scans' = [scans EXCEPT ![s] = [f EXCEPT !.pc = "persist", !.at = NULL,
                            !.state = "NONE", !.todo = @ \ {p}]]
          /\ Fails(TRUE)
          /\ UNCHANGED <<runtime, seen>>
    /\ UNCHANGED <<device, excluded, peerExcluded, memory, calls, bounds, torn>>

\* All targets are persisted: the profiles not touched are reconciled next.
ScanReconcile(s) ==
    LET f == scans[s] IN
    /\ f.pc = "persist"
    /\ f.todo = {}
    /\ scans' = [scans EXCEPT ![s] = [f EXCEPT !.pc = "reconcile",
                    !.todo = {p \in Profiles : f.scope[p] = "out"}]]
    /\ UNCHANGED <<device, db, memory, calls, bounds, faults, seen, torn>>

\* reconcileOutOfScope: DISABLED, and the planned pair stays where it is. An
\* error here rejects the discovery of the device before anything is cached.
ScanDisable(s, p) ==
    LET f == scans[s] IN
    /\ f.pc = "reconcile"
    /\ p \in f.todo
    /\ \/ /\ runtime' = [runtime EXCEPT ![p].state = "DISABLED"]
          /\ scans' = [scans EXCEPT ![s] = [f EXCEPT !.todo = @ \ {p}]]
          /\ Fails(FALSE)
       \/ /\ scans' = [scans EXCEPT ![s] = NoScan("done")]
          /\ Fails(TRUE)
          /\ UNCHANGED runtime
    /\ UNCHANGED <<device, excluded, peerExcluded, memory, calls, bounds, seen, torn>>

\* discoveryCache.set, one await per row.
ScanCache(s) ==
    LET f == scans[s] IN
    /\ \/ f.pc = "reconcile" /\ f.todo = {}
       \/ f.pc = "cache"
    /\ IF f.kept = {}
       THEN /\ scans' = [scans EXCEPT ![s] = NoScan("done")]
            /\ UNCHANGED snapshot
       ELSE \E p \in f.kept :
            /\ snapshot' = [snapshot EXCEPT ![p] =
                    IF f.conf = NULL THEN {} ELSE ExistingNodes(f.conf[PolicyOf[p]])]
            /\ scans' = [scans EXCEPT ![s] =
                    [f EXCEPT !.pc = "cache", !.kept = @ \ {p}]]
    /\ UNCHANGED <<device, db, mock, processed, calls, bounds, faults, seen, torn>>

ScanStep(s) ==
    \/ ScanRead(s)
    \/ \E p \in Profiles : ScanTarget(s, p) \/ ScanDisable(s, p)
    \/ ScanUpsert(s)
    \/ ScanReconcile(s)
    \/ ScanCache(s)

-----------------------------------------------------------------------------
(* Around the commands                                                      *)

\* PATCH of the profile's administrative exclusion.
ToggleExclusion(p) ==
    /\ toggles < MaxToggles /\ MayHappen
    /\ toggles' = toggles + 1
    /\ excluded' = [excluded EXCEPT ![p] = ~@]
    /\ seen' = IF excluded[p] THEN Lifted(p, "excluded") ELSE seen
    /\ UNCHANGED <<device, runtime, peerExcluded, memory, calls, scans,
                   edits, restarts, faults, torn>>

\* "Never mitigate this peer", for a peer of the profile.
TogglePeerExclusion(p) ==
    /\ toggles < MaxToggles /\ MayHappen
    /\ toggles' = toggles + 1
    /\ peerExcluded' = [peerExcluded EXCEPT ![p] = ~@]
    /\ seen' = IF peerExcluded[p] THEN Lifted(p, "peer") ELSE seen
    /\ UNCHANGED <<device, runtime, excluded, memory, calls, scans,
                   edits, restarts, faults, torn>>

\* The operator of the router adds, changes or deletes a node by hand.
OperatorEdit(e) ==
    /\ edits < MaxEdits /\ MayHappen
    /\ device[e.policy][e.node] # e.kind
    /\ device' = [device EXCEPT ![e.policy][e.node] = e.kind]
    /\ seen' = Disturbed(e.policy, {e.node}, NULL)
    /\ edits' = edits + 1
    /\ UNCHANGED <<db, memory, calls, scans, toggles, restarts, faults, torn>>

\* The API process dies and starts again: frames and memory are gone.
Restart ==
    /\ restarts < MaxRestarts /\ MayHappen
    /\ restarts' = restarts + 1
    /\ mock' = [pol \in Policies |-> [n \in NodeIds |-> "free"]]
    /\ snapshot' = [p \in Profiles |-> NULL]
    /\ processed' = {}
    /\ calls' = [c \in Calls |-> IF Running(c) THEN NoCall("done") ELSE calls[c]]
    /\ scans' = [s \in Scans |->
                    IF scans[s].pc = "new" THEN scans[s] ELSE NoScan("done")]
    /\ seen' = [c \in Calls |-> NoWitness]
    /\ UNCHANGED <<device, db, edits, toggles, faults, torn>>

Next ==
    \/ \E c \in Calls : CallStep(c)
    \/ \E s \in Scans : ScanStep(s)
    \/ \E p \in Profiles : ToggleExclusion(p) \/ TogglePeerExclusion(p)
    \/ \E e \in Edits : OperatorEdit(e)
    \/ Restart

Spec == Init /\ [][Next]_vars

-----------------------------------------------------------------------------
(* Properties                                                               *)

Activating(c) == calls[c].action = "ACTIVATE"
Removing(c) == calls[c].action = "REMOVE"
AboutToWrite(c) == calls[c].pc = "write"

\* Every plan that is stored, and every pair an ACTIVATE works with, is what
\* selectNodePair promises and the write guard accepts: the BOGONS node first,
\* both within the temporary range.
PlanFits ==
    LET fits(pr) == pr # NULL => pr.bogon < pr.mitigation /\ SafePair(pr) IN
    /\ \A p \in Profiles : fits(runtime[p].pair)
    /\ \A c \in Calls : Activating(c) => fits(calls[c].pair)

\* A live command writes only nodes its preflight cleared: when the commands
\* go out, a node that preflight was shown and nobody else changed since is free
\* if it is about to be created, and is NetVision's own if it is about to be
\* deleted.
OnlyClearedNodesWritten ==
    \A c \in Calls : AboutToWrite(c) /\ calls[c].live =>
        LET pr == calls[c].pair
            clear(n, kind) ==
                \/ n \in seen[c].unseen
                \/ Target(c)[n] = (IF Activating(c) THEN "free" ELSE kind) IN
        clear(pr.bogon, "bogon") /\ clear(pr.mitigation, "mitigation")

\* The mandatory gate: a target excluded from before the command began is never
\* activated, by neither executor, whatever else happens meanwhile; nor is one
\* that had a marked peer all that time, unless a read of the command failed.
ExcludedNotActivated ==
    \A c \in Calls :
        Activating(c) /\ calls[c].pc \in {"write", "readback", "record"} =>
            /\ "excluded" \notin seen[c].shut
            /\ "peer" \in seen[c].shut => seen[c].fault

\* expectedExistingNodes: a live ACTIVATE is written only if this process has
\* discovered the target; after a restart there is none until a discovery.
ActivationNeedsSnapshot ==
    \A c \in Calls : AboutToWrite(c) /\ calls[c].live /\ Activating(c) =>
        snapshot[calls[c].prof] # NULL

\* The read-back after the commit: a live command that answers "verified" left
\* the device so, also when the SSH session lost the commands, unless somebody
\* else has changed the policy since. Of a REMOVE that holds of the nodes its
\* read-back was shown: one that was cut before a node verifies its removal. An
\* ACTIVATE has seen both nodes.
VerifiedIsOnTheDevice ==
    \A c \in Calls :
        /\ calls[c].pc \in {"record", "reply"}
        /\ calls[c].status = "VERIFIED"
        /\ calls[c].live
        /\ seen[c].calm
        => IF Activating(c) THEN PairPresent(Target(c), calls[c].pair)
           ELSE \A n \in NodesOf(calls[c].pair) :
                    Target(c)[n] = "free" \/ n \in seen[c].unseen

\* Claimed by verifyRemoval: both nodes of the pair must have disappeared. With
\* nobody else on its policy, a live REMOVE that answers "verified" has left
\* neither on the device.
VerifiedRemovalIsOnTheDevice ==
    \A c \in Calls :
        /\ calls[c].pc \in {"record", "reply"}
        /\ calls[c].status = "VERIFIED"
        /\ calls[c].live /\ Removing(c)
        /\ seen[c].calm
        => PairAbsent(Target(c), calls[c].pair)

\* A REMOVE cannot be prevented: with no error and nobody else on its policy,
\* it works on the one pair the device has, and if it fails the device had
\* none. Exclusions, a stale or missing plan, a DISABLED runtime, a restart
\* before it, do not matter.
RemoveFindsThePair ==
    \A c \in Calls : Removing(c) /\ seen[c].calm /\ ~seen[c].fault =>
        /\ calls[c].pc \in {"preflight", "write"} =>
                \A pr \in ActivePairs(Target(c)) : calls[c].pair = pr
        /\ calls[c].pc = "reply" /\ calls[c].status = "REVALIDATION_FAILED" =>
                ActivePairs(Target(c)) = {}

\* The two nodes of a pair live and die together: with no CLI edit and no write
\* torn by the device, each BOGONS node is followed by its mitigation node and
\* each mitigation node preceded by its BOGONS node, whatever interleaving of
\* commands and discoveries, shared policies and restarts put them there.
PairsStayWhole ==
    LET adjacent(policy, b, m) ==
            b < m /\ \A k \in NodeIds : b < k /\ k < m => policy[k] \in ForeignKind IN
    edits = 0 /\ ~torn =>
        \A pol \in Policies :
            LET policy == device[pol] IN
            /\ \A b \in BogonNodes(policy) :
                    \E m \in MitigationNodes(policy) : adjacent(policy, b, m)
            /\ \A m \in MitigationNodes(policy) :
                    \E b \in BogonNodes(policy) : adjacent(policy, b, m)

\* Claimed by reconcileOutOfScope: a profile out of scope stops counting for
\* mitigation. With every discovery over, no live ACTIVATE is about to be
\* written for a target that was DISABLED before it began and still is.
OutOfScopeNotActivated ==
    (\A s \in Scans : scans[s].pc = "done") =>
        \A c \in Calls : AboutToWrite(c) /\ calls[c].live /\ Activating(c) =>
            "DISABLED" \notin seen[c].shut
=============================================================================
