----------------------- MODULE MitigationCommandProofs -----------------------
(* Proofs about MitigationCommand, and that every command keeps the contract *)
(* of MitigationContract, for every value of their constants.                *)
EXTENDS MitigationRefinement, TLAPS

-----------------------------------------------------------------------------
(* The planner                                                              *)

\* What selectNodePair promises of the pair it returns.
LEMMA SelectNodePairFits ==
    ASSUME NEW normal, NEW occupied
    PROVE  LET pr == SelectNodePair(normal, occupied) IN
           \/ pr = NULL
           \/ /\ pr \in Pair
              /\ pr.bogon < pr.mitigation
              /\ SafePair(pr)
<1> DEFINE firsts == FirstTwo(FreeBeforeNormal(normal, occupied))
<1>1. CASE firsts = {}
    BY <1>1 DEF SelectNodePair
<1>2. CASE firsts # {}
    <2>1. SelectNodePair(normal, occupied) \in firsts
        BY <1>2 DEF SelectNodePair
    <2>2. \A pr \in firsts : pr \in Pair /\ pr.bogon < pr.mitigation /\ SafePair(pr)
        BY DEF FirstTwo, FreeBeforeNormal, SafePair, NodesOf
    <2>. QED BY <2>1, <2>2
<1>. QED BY <1>1, <1>2

-----------------------------------------------------------------------------
(* Types of what the actions are built from                                 *)

LEMMA ResumedFrame ==
    ASSUME calls \in [Calls -> Call], NEW c \in Calls, NEW f \in Call, NEW pc,
           Resume(c, f, pc)
    PROVE  /\ calls'[c] = [f EXCEPT !.pc = pc]
           /\ calls'[c].pc = pc
           /\ calls'[c].action = f.action
           /\ calls'[c].prof = f.prof
           /\ calls'[c].excl = f.excl
           /\ calls'[c].live = f.live
           /\ calls'[c].pair = f.pair
           /\ calls'[c].status = f.status
BY DEF Resume, Call

LEMMA ReturnedFrame ==
    ASSUME calls \in [Calls -> Call], NEW c \in Calls, NEW f \in Call, NEW status,
           Return(c, f, status)
    PROVE  /\ calls'[c].pc = "reply"
           /\ calls'[c].action = f.action
           /\ calls'[c].prof = f.prof
           /\ calls'[c].live = f.live
           /\ calls'[c].pair = NULL
           /\ calls'[c].status = status
BY DEF Return, Call

\* A fault, or a read that may fail, uses up the bound.
LEMMA FaultsType ==
    ASSUME faults \in 0 .. MaxFaults, NEW e \in BOOLEAN
    PROVE  /\ Fails(e) => faults' \in 0 .. MaxFaults
           /\ \A c \in Calls, w \in [Calls -> Witness] : Meets(c, w, e) =>
                faults' \in 0 .. MaxFaults /\ seen' \in [Calls -> Witness]
           /\ \A c \in Calls : \A answer : Reads(c, answer) /\ seen \in [Calls -> Witness] =>
                faults' \in 0 .. MaxFaults /\ seen' \in [Calls -> Witness]
<1>1. \A x \in BOOLEAN : Fails(x) => faults' \in 0 .. MaxFaults
    BY CommandAssumption DEF Fails
<1>2. ASSUME NEW c \in Calls, NEW answer, Reads(c, answer), seen \in [Calls -> Witness]
      PROVE  faults' \in 0 .. MaxFaults /\ seen' \in [Calls -> Witness]
    <2> DEFINE hidden == ChangedNodes(Target(c), answer)
    <2>1. hidden \in SUBSET NodeIds
        BY DEF ChangedNodes
    <2>2. /\ Fails(hidden # {})
          /\ seen' = [seen EXCEPT ![c].fault = @ \/ hidden # {}, ![c].unseen = hidden]
        BY <1>2 DEF Reads
    <2> HIDE DEF hidden
    <2>. QED BY <1>1, <1>2, <2>1, <2>2 DEF Witness
<1>. QED BY <1>1, <1>2 DEF Meets, Witness

LEMMA HistoryType ==
    ASSUME seen \in [Calls -> Witness], NEW p, NEW b
    PROVE  /\ Lifted(p, b) \in [Calls -> Witness]
           /\ \A nodes \in SUBSET NodeIds : Disturbed(p, nodes, b) \in [Calls -> Witness]
BY DEF Lifted, Disturbed, Witness

\* What a call and a discovery begin and end with, what resolveActivePair
\* returns, a pair of nodes or null, and what the router answers: route-policies,
\* which show no node of NetVision's that is not there.
LEMMA ValueTypes ==
    /\ NoCall("new") \in Call
    /\ NoCall("done") \in Call
    /\ \A pc \in ScanPc : NoScan(pc) \in Scan
    /\ \A policy : ResolveActivePair(policy) \in Pair \cup {NULL}
    /\ \A policy \in RoutePolicy : Answers(policy) \subseteq RoutePolicy
    /\ \A policy \in RoutePolicy : \A answer \in Answers(policy), n \in NodeIds :
            answer[n] \in {"bogon", "mitigation"} => policy[n] = answer[n]
    /\ \A conf \in [Policies -> RoutePolicy] : Dumps(conf) \subseteq [Policies -> RoutePolicy]
    /\ \A conf \in [Policies -> RoutePolicy] : \A dump \in Dumps(conf), pol \in Policies :
            dump[pol] \in {conf[pol], [n \in NodeIds |-> "free"]} \cup Answers(conf[pol])
<1>1. /\ NoCall("new") \in Call
      /\ NoCall("done") \in Call
      /\ \A pc \in ScanPc : NoScan(pc) \in Scan
    BY DEF NoCall, Call, CallPc, Actions, Status, NoScan, Scan, Scope, RuntimeState
<1>2. \A policy : ResolveActivePair(policy) \in Pair \cup {NULL}
    BY DEF ResolveActivePair, ActivePairs
<1>3. ASSUME NEW policy \in RoutePolicy
      PROVE  Answers(policy) \subseteq RoutePolicy
    <2>1. \A k \in NodeIds, first \in BOOLEAN : CutAt(policy, k, first) \in RoutePolicy
        BY DEF CutAt, Plain, RoutePolicy, Kind
    <2>. QED BY <2>1 DEF Answers
<1>4. ASSUME NEW conf \in [Policies -> RoutePolicy], NEW dump \in Dumps(conf)
      PROVE  /\ dump \in [Policies -> RoutePolicy]
             /\ \A pol \in Policies :
                    dump[pol] \in {conf[pol], [n \in NodeIds |-> "free"]} \cup Answers(conf[pol])
    <2>1. CASE dump = conf
        BY <2>1
    <2>2. CASE dump # conf
        <3>1. DOMAIN conf = Policies
            OBVIOUS
        <3>2. PICK at \in Policies, after \in SUBSET Policies : \E answer \in Answers(conf[at]) :
                dump = Dump(conf, at, answer, after)
            <4> DEFINE cuts(at, after) ==
                        {Dump(conf, at, answer, after) : answer \in Answers(conf[at])}
            <4>1. dump \in UNION {cuts(at, after) : at \in DOMAIN conf, after \in SUBSET DOMAIN conf}
                BY <1>4, <2>2 DEF Dumps
            <4> HIDE DEF cuts
            <4>2. PICK at \in Policies, after \in SUBSET Policies : dump \in cuts(at, after)
                BY <3>1, <4>1
            <4>3. \E answer \in Answers(conf[at]) : dump = Dump(conf, at, answer, after)
                BY <4>2 DEF cuts
            <4>. QED BY <4>3
        <3>3. \A answer \in Answers(conf[at]) : answer \in RoutePolicy
            BY <1>3
        <3>4. [n \in NodeIds |-> "free"] \in RoutePolicy
            BY DEF RoutePolicy, Kind
        <3>. QED BY <3>2, <3>3, <3>4 DEF Dump
    <2>. QED BY <2>1, <2>2
<1>5. ASSUME NEW policy \in RoutePolicy, NEW answer \in Answers(policy), NEW n \in NodeIds,
             answer[n] \in {"bogon", "mitigation"}
      PROVE  policy[n] = answer[n]
    <2>1. ASSUME NEW k \in NodeIds, NEW first \in BOOLEAN, answer = CutAt(policy, k, first)
          PROVE  policy[n] = answer[n]
        <3>1. answer[n] \in {policy[n], Plain(policy[n]), "free"}
            BY <2>1 DEF CutAt
        <3>2. Plain(policy[n]) \in {"bogon", "mitigation"} => Plain(policy[n]) = policy[n]
            BY DEF Plain
        <3>. QED BY <1>5, <3>1, <3>2
    <2>. QED BY <1>5, <2>1 DEF Answers
<1>. QED BY <1>1, <1>2, <1>3, <1>4, <1>5

-----------------------------------------------------------------------------
(* Type correctness                                                         *)

\* What the frames hold beside their types.
FramesOK ==
    /\ \A c \in Calls : Running(c) =>
            calls[c].prof \in Profiles /\ calls[c].req \in RequestIds
    /\ \A c \in Calls : calls[c].pc \in {"write", "readback", "record"} =>
            calls[c].pair \in Pair
    /\ \A s \in Scans : scans[s].pc = "upsert" => scans[s].at \in Profiles

TypeInv == TypeOK /\ FramesOK

LEMMA TypeInvHolds == Spec => []TypeInv
\* A committed list of commands leaves a route-policy.
<1>CommittedType. ASSUME NEW policy \in RoutePolicy, NEW pr \in Pair, NEW action \in Actions
      PROVE  /\ Committed(policy, action, pr) \in RoutePolicy
             /\ PartlyCommitted(policy, action, pr) \subseteq RoutePolicy
    <2>1. pr.bogon \in NodeIds /\ pr.mitigation \in NodeIds
        BY DEF Pair
    <2>2. \A x, y \in Kind :
            [policy EXCEPT ![pr.bogon] = x, ![pr.mitigation] = y] \in RoutePolicy
        BY <2>1 DEF RoutePolicy
    <2>3. {"free", "permit", "deny", "bogon", "mitigation"} \subseteq Kind
        BY DEF Kind
    <2>4. policy[pr.bogon] \in Kind /\ policy[pr.mitigation] \in Kind
        BY <2>1 DEF RoutePolicy
    <2>5. Committed(policy, action, pr) \in RoutePolicy
        BY <2>2, <2>3 DEF Committed
    <2>6. ASSUME NEW after \in PartlyCommitted(policy, action, pr)
          PROVE  after \in RoutePolicy
        <3>1. PICK x \in Kind, y \in Kind :
                after = [policy EXCEPT ![pr.bogon] = x, ![pr.mitigation] = y]
            BY <2>3, <2>4, <2>6 DEF PartlyCommitted
        <3>. QED BY <2>2, <3>1
    <2>. QED BY <2>5, <2>6
\* A call goes on with a frame that fits where it goes on.
<1>FrameStep. ASSUME TypeInv, NEW c \in Calls, NEW f \in Call,
             f.prof \in Profiles, f.req \in RequestIds,
             \/ \E pc \in CallPc :
                  /\ Resume(c, f, pc)
                  /\ pc \in {"write", "readback", "record"} => f.pair \in Pair
             \/ \E status \in Status : Return(c, f, status)
      PROVE  /\ calls' \in [Calls -> Call]
             /\ \A d \in Calls : Running(d)' =>
                  calls'[d].prof \in Profiles /\ calls'[d].req \in RequestIds
             /\ \A d \in Calls : calls'[d].pc \in {"write", "readback", "record"} =>
                  calls'[d].pair \in Pair
    <2> USE <1>FrameStep
    <2>1. calls' \in [Calls -> Call]
        <3>1. ASSUME NEW pc \in CallPc, Resume(c, f, pc)
              PROVE  calls' \in [Calls -> Call]
            BY <3>1 DEF Resume, Call, TypeInv, TypeOK
        <3>2. ASSUME NEW status \in Status, Return(c, f, status)
              PROVE  calls' \in [Calls -> Call]
            BY <3>2 DEF Return, Call, CallPc, TypeInv, TypeOK
        <3>. QED BY <3>1, <3>2
    <2>2. \A d \in Calls \ {c} : calls'[d] = calls[d]
        BY DEF Resume, Return, TypeInv, TypeOK
    <2>3. /\ calls'[c].prof \in Profiles /\ calls'[c].req \in RequestIds
          /\ calls'[c].pc \in {"write", "readback", "record"} => calls'[c].pair \in Pair
        <3>1. CASE \E pc \in CallPc :
                    /\ Resume(c, f, pc)
                    /\ pc \in {"write", "readback", "record"} => f.pair \in Pair
            <4>1. PICK pc \in CallPc :
                    /\ calls'[c] = [f EXCEPT !.pc = pc]
                    /\ pc \in {"write", "readback", "record"} => f.pair \in Pair
                BY <3>1 DEF Resume, TypeInv, TypeOK
            <4>. QED BY <4>1 DEF Call
        <3>2. CASE \E status \in Status : Return(c, f, status)
            <4>1. PICK status \in Status :
                    calls'[c] = [f EXCEPT !.pc = "reply", !.status = status,
                                          !.excl = FALSE, !.pair = NULL]
                BY <3>2 DEF Return, TypeInv, TypeOK
            <4>. QED BY <4>1 DEF Call
        <3>. QED BY <3>1, <3>2
    <2>. QED BY <2>1, <2>2, <2>3 DEF TypeInv, FramesOK, Running
\* A discovery goes on with a frame that fits where it goes on.
<1>ScanFrame. ASSUME TypeInv, NEW s \in Scans, NEW f \in Scan,
             f.pc = "upsert" => f.at \in Profiles,
             scans' = [scans EXCEPT ![s] = f]
      PROVE  /\ scans' \in [Scans -> Scan]
             /\ \A z \in Scans : scans'[z].pc = "upsert" => scans'[z].at \in Profiles
    BY <1>ScanFrame DEF TypeInv, TypeOK, FramesOK
<1>PlanOfType. ASSUME NEW conf, NEW p
      PROVE  PlanOf(conf, p) \in Pair \cup {NULL}
    BY SelectNodePairFits DEF PlanOf, PlanFor
<1>TypeInit. Init => TypeInv
    <2> SUFFICES ASSUME Init PROVE TypeInv
        OBVIOUS
    <2>1. mock \in [Policies -> RoutePolicy]
        BY DEF Init, RoutePolicy, Kind
    <2>2. runtime \in [Profiles -> Runtime]
        BY DEF Init, Runtime, RuntimeState
    <2>3. calls \in [Calls -> Call]
        BY ValueTypes DEF Init
    <2>4. scans \in [Scans -> Scan]
        BY ValueTypes DEF Init, ScanPc
    <2>5. seen \in [Calls -> Witness]
        BY DEF Init, NoWitness, Witness
    <2>6. TypeOK
        <3>1. /\ 0 \in 0 .. MaxEdits /\ 0 \in 0 .. MaxToggles
              /\ 0 \in 0 .. MaxRestarts /\ 0 \in 0 .. MaxFaults
            BY CommandAssumption
        <3>2. device \in [Policies -> RoutePolicy]
            BY CommandAssumption DEF Init
        <3>3. /\ excluded \in [Profiles -> BOOLEAN]
              /\ peerExcluded \in [Profiles -> BOOLEAN]
              /\ snapshot \in [Profiles -> (SUBSET NodeIds) \cup {NULL}]
              /\ processed \subseteq RequestIds
              /\ torn \in BOOLEAN
            BY DEF Init
        <3>. QED BY <2>1, <2>2, <2>3, <2>4, <2>5, <3>1, <3>2, <3>3 DEF Init, TypeOK
    <2>7. FramesOK
        BY DEF Init, FramesOK, Running, NoCall, NoScan
    <2>. QED BY <2>6, <2>7 DEF TypeInv
\* A step of a call keeps the types.
<1>TypeCall. ASSUME TypeInv, NEW c \in Calls, CallStep(c)
      PROVE  TypeInv'
    <2> USE <1>TypeCall
    <2>1. ASSUME NEW a \in Actions, NEW r \in RequestIds, NEW p \in Profiles, Begin(c, a, r, p)
          PROVE  TypeInv'
        <3> USE <2>1
        <3> DEFINE f == [NoCall("new") EXCEPT !.action = a, !.req = r, !.prof = p]
        <3>1. f \in Call /\ f.prof \in Profiles /\ f.req \in RequestIds
            BY ValueTypes DEF Call, NoCall
        <3>2. Return(c, f, "CACHED") \/ Resume(c, f, "profile")
            BY DEF Begin
        <3>3. "CACHED" \in Status /\ "profile" \in CallPc
            BY DEF Status, CallPc
        <3>4. Standing(p) \subseteq Barrier
            BY DEF Standing
        <3>5. seen' \in [Calls -> Witness]
            BY <3>4 DEF Begin, TypeInv, TypeOK, Witness
        <3>6. /\ calls' \in [Calls -> Call]
              /\ \A d \in Calls : Running(d)' =>
                    calls'[d].prof \in Profiles /\ calls'[d].req \in RequestIds
              /\ \A d \in Calls : calls'[d].pc \in {"write", "readback", "record"} =>
                    calls'[d].pair \in Pair
            <4> HIDE DEF f
            <4>. QED BY <3>1, <3>2, <3>3, <1>FrameStep
        <3>7. UNCHANGED <<device, db, memory, scans, bounds, faults, torn>>
            BY DEF Begin
        <3>. QED BY <3>5, <3>6, <3>7 DEF TypeInv, TypeOK, FramesOK, db, memory, bounds
    <2>2. ASSUME LoadProfile(c) \/ LoadContext(c) \/ Resolve(c) \/ Gate(c) \/ Preflight(c)
          PROVE  TypeInv'
        <3> USE <2>2
        <3>1. calls[c] \in Call /\ Running(c)
            BY DEF TypeInv, TypeOK, LoadProfile, LoadContext, Resolve, Gate, Preflight, Running
        <3>2. calls[c].prof \in Profiles /\ calls[c].req \in RequestIds
            BY <3>1 DEF TypeInv, FramesOK
        <3>3. seen' \in [Calls -> Witness] /\ faults' \in 0 .. MaxFaults
            BY FaultsType DEF TypeInv, TypeOK, LoadProfile, LoadContext, Resolve, Gate, Preflight
        <3>4. /\ calls' \in [Calls -> Call]
              /\ \A d \in Calls : Running(d)' =>
                    calls'[d].prof \in Profiles /\ calls'[d].req \in RequestIds
              /\ \A d \in Calls : calls'[d].pc \in {"write", "readback", "record"} =>
                    calls'[d].pair \in Pair
            <4>1. CASE LoadProfile(c)
                <5>1. [calls[c] EXCEPT !.excl = excluded[calls[c].prof]] \in Call
                    BY <3>1, <3>2 DEF Call, TypeInv, TypeOK
                <5>. QED BY <3>1, <3>2, <4>1, <5>1, <1>FrameStep DEF LoadProfile, CallPc, Status, Call
            <4>2. CASE LoadContext(c)
                <5>1. PICK planRead \in BOOLEAN, hostRead \in BOOLEAN :
                        LET f == [calls[c] EXCEPT
                                    !.pair = IF planRead THEN runtime[calls[c].prof].pair ELSE NULL,
                                    !.live = hostRead] IN
                        Resume(c, f, CASE f.action = "ACTIVATE" -> "gate"
                                       [] f.action = "REMOVE" /\ f.live -> "resolve"
                                       [] OTHER -> "preflight")
                    BY <4>2 DEF LoadContext
                <5> DEFINE f == [calls[c] EXCEPT
                                    !.pair = IF planRead THEN runtime[calls[c].prof].pair ELSE NULL,
                                    !.live = hostRead]
                <5>2. f \in Call /\ f.prof \in Profiles /\ f.req \in RequestIds
                    BY <3>1, <3>2 DEF Call, TypeInv, TypeOK, Runtime
                <5>3. \E pc \in {"gate", "resolve", "preflight"} : Resume(c, f, pc)
                    BY <5>1
                <5>. QED BY <5>2, <5>3, <1>FrameStep DEF CallPc
            <4>3. CASE Resolve(c)
                <5>1. PICK pr \in Pair \cup {NULL} :
                        Resume(c, [calls[c] EXCEPT !.pair = pr], "preflight")
                    BY <3>1, <4>3, ValueTypes DEF Resolve, Call
                <5>2. [calls[c] EXCEPT !.pair = pr] \in Call
                    BY <3>1 DEF Call
                <5>. QED BY <3>1, <3>2, <5>1, <5>2, <1>FrameStep DEF CallPc, Call
            <4>4. CASE Gate(c)
                <5>1. [calls[c] EXCEPT !.excl = FALSE] \in Call
                    BY <3>1 DEF Call
                <5>. QED BY <3>1, <3>2, <4>4, <5>1, <1>FrameStep DEF Gate, CallPc, Status, Call
            <4>5. CASE Preflight(c)
                BY <3>1, <3>2, <4>5, <1>FrameStep DEF Preflight, CallPc, Status, Call
            <4>. QED BY <4>1, <4>2, <4>3, <4>4, <4>5
        <3>5. UNCHANGED <<device, db, memory, scans, bounds, torn>>
            BY DEF LoadProfile, LoadContext, Resolve, Gate, Preflight
        <3>. QED BY <3>3, <3>4, <3>5 DEF TypeInv, TypeOK, FramesOK, db, memory, bounds
    <2>3. ASSUME WriteLive(c)
          PROVE  TypeInv'
        <3> USE <2>3
        <3> DEFINE f == calls[c]
                   pol == PolicyOfCall(c)
                   whole == Committed(device[pol], f.action, f.pair)
        <3>1. f \in Call /\ f.prof \in Profiles /\ f.req \in RequestIds /\ f.pair \in Pair
            BY DEF WriteLive, TypeInv, TypeOK, FramesOK, Running
        <3>2. pol \in Policies /\ device[pol] \in RoutePolicy
            BY <3>1, CommandAssumption DEF PolicyOfCall, TypeInv, TypeOK
        <3>3. f.action \in Actions
            BY <3>1 DEF Call
        <3>4. whole \in RoutePolicy /\ PartlyCommitted(device[pol], f.action, f.pair) \subseteq RoutePolicy
            BY <3>1, <3>2, <3>3, <1>CommittedType
        <3>5. PICK policy \in RoutePolicy, answered \in BOOLEAN :
                /\ device' = [device EXCEPT ![pol] = policy]
                /\ torn' = (torn \/ policy \notin {device[pol], whole})
                /\ Meets(c, Disturbed(pol, ChangedNodes(device[pol], policy), c),
                         policy # whole \/ ~answered)
            BY <3>2, <3>4, Zenon DEF WriteLive
        <3>6. device' \in [Policies -> RoutePolicy] /\ torn' \in BOOLEAN
            BY <3>2, <3>5 DEF TypeInv, TypeOK
        <3>7. ChangedNodes(device[pol], policy) \in SUBSET NodeIds
            BY DEF ChangedNodes
        <3>8. seen' \in [Calls -> Witness] /\ faults' \in 0 .. MaxFaults
            BY <3>5, <3>7, HistoryType, FaultsType DEF TypeInv, TypeOK
        <3>9. Resume(c, f, "readback") \/ Return(c, f, "REVALIDATION_FAILED")
            BY DEF WriteLive
        <3>10. /\ calls' \in [Calls -> Call]
               /\ \A d \in Calls : Running(d)' =>
                    calls'[d].prof \in Profiles /\ calls'[d].req \in RequestIds
               /\ \A d \in Calls : calls'[d].pc \in {"write", "readback", "record"} =>
                    calls'[d].pair \in Pair
            BY <3>1, <3>9, <1>FrameStep DEF CallPc, Status
        <3>11. UNCHANGED <<db, memory, scans, bounds>>
            BY DEF WriteLive
        <3>. QED BY <3>6, <3>8, <3>10, <3>11 DEF TypeInv, TypeOK, FramesOK, db, memory, bounds
    <2>4. ASSUME WriteMock(c)
          PROVE  TypeInv'
        <3> USE <2>4
        <3> DEFINE f == calls[c]
                   pol == PolicyOfCall(c)
        <3>1. f \in Call /\ f.prof \in Profiles /\ f.req \in RequestIds /\ f.pair \in Pair
            BY DEF WriteMock, TypeInv, TypeOK, FramesOK, Running
        <3>2. pol \in Policies /\ mock[pol] \in RoutePolicy
            BY <3>1, CommandAssumption DEF PolicyOfCall, TypeInv, TypeOK
        <3>3. Committed(mock[pol], f.action, f.pair) \in RoutePolicy
            BY <3>1, <3>2, <1>CommittedType DEF Call
        <3>4. mock' \in [Policies -> RoutePolicy]
            BY <3>2, <3>3 DEF WriteMock, TypeInv, TypeOK
        <3>5. seen' \in [Calls -> Witness] /\ faults' \in 0 .. MaxFaults
            BY FaultsType DEF WriteMock, TypeInv, TypeOK
        <3>6. /\ calls' \in [Calls -> Call]
              /\ \A d \in Calls : Running(d)' =>
                    calls'[d].prof \in Profiles /\ calls'[d].req \in RequestIds
              /\ \A d \in Calls : calls'[d].pc \in {"write", "readback", "record"} =>
                    calls'[d].pair \in Pair
            BY <3>1, <1>FrameStep DEF WriteMock, CallPc
        <3>7. UNCHANGED <<device, db, snapshot, processed, scans, bounds, torn>>
            BY DEF WriteMock
        <3>. QED BY <3>4, <3>5, <3>6, <3>7 DEF TypeInv, TypeOK, FramesOK, db, bounds
    <2>5. ASSUME ReadBack(c)
          PROVE  TypeInv'
        <3> USE <2>5
        <3> DEFINE f == calls[c]
        <3>1. f \in Call /\ f.prof \in Profiles /\ f.req \in RequestIds /\ f.pair \in Pair
            BY DEF ReadBack, TypeInv, TypeOK, FramesOK, Running
        <3>2. seen' \in [Calls -> Witness] /\ faults' \in 0 .. MaxFaults
            BY FaultsType DEF ReadBack, TypeInv, TypeOK
        <3>3. \/ \E status \in {"VERIFIED", "REVALIDATION_FAILED"} :
                    Resume(c, [f EXCEPT !.status = status], "record")
              \/ Return(c, f, "REVALIDATION_FAILED")
            BY Zenon DEF ReadBack
        <3>4. \A status \in {"VERIFIED", "REVALIDATION_FAILED"} :
                LET g == [f EXCEPT !.status = status] IN
                g \in Call /\ g.prof \in Profiles /\ g.req \in RequestIds /\ g.pair \in Pair
            BY <3>1 DEF Call, Status
        <3>5. /\ calls' \in [Calls -> Call]
              /\ \A d \in Calls : Running(d)' =>
                    calls'[d].prof \in Profiles /\ calls'[d].req \in RequestIds
              /\ \A d \in Calls : calls'[d].pc \in {"write", "readback", "record"} =>
                    calls'[d].pair \in Pair
            BY <3>1, <3>3, <3>4, <1>FrameStep DEF CallPc, Status
        <3>6. UNCHANGED <<device, db, memory, scans, bounds, torn>>
            BY DEF ReadBack
        <3>. QED BY <3>2, <3>5, <3>6 DEF TypeInv, TypeOK, FramesOK, db, memory, bounds
    <2>6. ASSUME Record(c)
          PROVE  TypeInv'
        <3> USE <2>6
        <3> DEFINE f == calls[c]
        <3>1. f \in Call /\ f.prof \in Profiles /\ f.req \in RequestIds /\ f.pair \in Pair
            BY DEF Record, TypeInv, TypeOK, FramesOK, Running
        <3>2. runtime' \in [Profiles -> Runtime] /\ seen' \in [Calls -> Witness]
            <4>1. \A state \in RuntimeState :
                    [runtime EXCEPT ![f.prof].state = state] \in [Profiles -> Runtime]
                BY <3>1 DEF TypeInv, TypeOK, Runtime
            <4>2. \/ runtime' = runtime /\ seen' = seen
                  \/ \E state \in RuntimeState :
                        /\ runtime' = [runtime EXCEPT ![f.prof].state = state]
                        /\ seen' = Lifted(f.prof, "DISABLED")
                BY DEF Record, RuntimeState
            <4>3. runtime' \in [Profiles -> Runtime]
                <5>1. runtime \in [Profiles -> Runtime]
                    BY DEF TypeInv, TypeOK
                <5>2. CASE runtime' = runtime
                    BY <5>1, <5>2
                <5>3. CASE \E state \in RuntimeState :
                            runtime' = [runtime EXCEPT ![f.prof].state = state]
                    BY <4>1, <5>3
                <5>. QED BY <4>2, <5>2, <5>3
            <4>4. seen' \in [Calls -> Witness]
                <5>1. seen \in [Calls -> Witness]
                    BY DEF TypeInv, TypeOK
                <5>2. Lifted(f.prof, "DISABLED") \in [Calls -> Witness]
                    BY <5>1, HistoryType
                <5>. QED BY <4>2, <5>1, <5>2
            <4>. QED BY <4>3, <4>4
        <3>3. faults' \in 0 .. MaxFaults
            BY FaultsType DEF Record, TypeInv, TypeOK
        <3>4. /\ calls' \in [Calls -> Call]
              /\ \A d \in Calls : Running(d)' =>
                    calls'[d].prof \in Profiles /\ calls'[d].req \in RequestIds
              /\ \A d \in Calls : calls'[d].pc \in {"write", "readback", "record"} =>
                    calls'[d].pair \in Pair
            BY <3>1, <1>FrameStep DEF Record, CallPc
        <3>5. UNCHANGED <<device, excluded, peerExcluded, memory, scans, bounds, torn>>
            BY DEF Record
        <3>. QED BY <3>2, <3>3, <3>4, <3>5 DEF TypeInv, TypeOK, FramesOK, memory, bounds
    <2>7. ASSUME Reply(c)
          PROVE  TypeInv'
        <3> USE <2>7
        <3>1. calls[c].req \in RequestIds
            BY DEF Reply, TypeInv, FramesOK, Running
        <3>2. processed' \subseteq RequestIds
            BY <3>1 DEF Reply, TypeInv, TypeOK
        <3>3. calls' \in [Calls -> Call] /\ seen' \in [Calls -> Witness]
            BY ValueTypes DEF Reply, TypeInv, TypeOK, NoWitness, Witness
        <3>4. TypeOK'
            BY <3>2, <3>3 DEF Reply, TypeInv, TypeOK, db, bounds
        <3>5. \A d \in Calls : calls'[d] = IF d = c THEN NoCall("done") ELSE calls[d]
            BY DEF Reply, TypeInv, TypeOK
        <3>6. FramesOK'
            BY <3>5 DEF Reply, TypeInv, FramesOK, Running, NoCall
        <3>. QED BY <3>4, <3>6 DEF TypeInv
    <2>. QED BY <2>1, <2>2, <2>3, <2>4, <2>5, <2>6, <2>7 DEF CallStep
\* A step of a discovery keeps the types.
<1>TypeScan. ASSUME TypeInv, NEW s \in Scans, ScanStep(s)
      PROVE  TypeInv'
    <2> USE <1>TypeScan
    <2>1. ASSUME ScanRead(s)
          PROVE  TypeInv'
        <3> USE <2>1
        <3>1. PICK conf \in Dumps(device) \cup {NULL}, scope \in [Profiles -> Scope] :
                scans' = [scans EXCEPT ![s] =
                    [NoScan("persist") EXCEPT !.conf = conf, !.scope = scope,
                            !.todo = {p \in Profiles : scope[p] # "out"}]]
            BY DEF ScanRead
        <3> DEFINE f == [NoScan("persist") EXCEPT !.conf = conf, !.scope = scope,
                            !.todo = {p \in Profiles : scope[p] # "out"}]
        <3>2. conf \in [Policies -> RoutePolicy] \cup {NULL}
            BY ValueTypes DEF TypeInv, TypeOK
        <3>3. f \in Scan /\ f.pc # "upsert"
            BY <3>2, ValueTypes DEF NoScan, Scan, ScanPc
        <3>4. faults' \in 0 .. MaxFaults
            BY FaultsType DEF ScanRead, TypeInv, TypeOK
        <3>5. UNCHANGED <<device, db, memory, calls, bounds, seen, torn>>
            BY DEF ScanRead
        <3>6. /\ scans' \in [Scans -> Scan]
              /\ \A z \in Scans : scans'[z].pc = "upsert" => scans'[z].at \in Profiles
            BY <3>1, <3>3, <1>ScanFrame
        <3>. QED BY <3>4, <3>5, <3>6 DEF TypeInv, TypeOK, FramesOK, Running, db, memory, bounds
    <2>2. ASSUME NEW p \in Profiles, ScanTarget(s, p)
          PROVE  TypeInv'
        <3> USE <2>2
        <3> DEFINE f == scans[s]
        <3>1. f \in Scan /\ f.pc = "persist"
            BY DEF ScanTarget, TypeInv, TypeOK
        <3>2. PICK g \in Scan :
                /\ g.pc = "upsert" => g.at \in Profiles
                /\ scans' = [scans EXCEPT ![s] = g]
            <4>1. CASE scans' = [scans EXCEPT ![s] =
                        [f EXCEPT !.pc = "upsert", !.at = p, !.state = runtime[p].state]]
                <5>1. [f EXCEPT !.pc = "upsert", !.at = p, !.state = runtime[p].state] \in Scan
                    BY <3>1 DEF Scan, ScanPc, TypeInv, TypeOK, Runtime
                <5>. QED BY <3>1, <4>1, <5>1 DEF Scan
            <4>2. CASE \E scope \in {f.scope[p], "out"} : scans' = [scans EXCEPT ![s] =
                        [f EXCEPT !.todo = @ \ {p}, !.scope[p] = scope]]
                <5>1. \A scope \in {f.scope[p], "out"} :
                        LET g == [f EXCEPT !.todo = @ \ {p}, !.scope[p] = scope] IN
                        g \in Scan /\ g.pc # "upsert"
                    BY <3>1 DEF Scan, Scope
                <5>. QED BY <4>2, <5>1
            <4>. QED BY <4>1, <4>2 DEF ScanTarget
        <3>3. faults' \in 0 .. MaxFaults
            BY FaultsType DEF ScanTarget, TypeInv, TypeOK
        <3>4. UNCHANGED <<device, db, memory, calls, bounds, seen, torn>>
            BY DEF ScanTarget
        <3>5. /\ scans' \in [Scans -> Scan]
              /\ \A z \in Scans : scans'[z].pc = "upsert" => scans'[z].at \in Profiles
            BY <3>2, <1>ScanFrame
        <3>. QED BY <3>3, <3>4, <3>5 DEF TypeInv, TypeOK, FramesOK, Running, db, memory, bounds
    <2>3. ASSUME ScanUpsert(s)
          PROVE  TypeInv'
        <3> USE <2>3
        <3> DEFINE f == scans[s]
                   p == f.at
        <3>1. f \in Scan /\ p \in Profiles
            BY DEF ScanUpsert, TypeInv, TypeOK, FramesOK
        <3>2. runtime[p].state \in RuntimeState
            BY <3>1 DEF TypeInv, TypeOK, Runtime
        <3>3. \/ UNCHANGED <<runtime, seen>>
              \/ \E state \in RuntimeState :
                    /\ runtime' = [runtime EXCEPT ![p] = [state |-> state, pair |-> PlanOf(f.conf, p)]]
                    /\ seen' = seen \/ seen' = Lifted(p, "DISABLED")
            BY <3>2 DEF ScanUpsert, RuntimeState
        <3>4. \A state \in RuntimeState : [state |-> state, pair |-> PlanOf(f.conf, p)] \in Runtime
            BY <1>PlanOfType DEF Runtime
        <3>5. runtime' \in [Profiles -> Runtime] /\ seen' \in [Calls -> Witness]
            <4>1. \A row \in Runtime : [runtime EXCEPT ![p] = row] \in [Profiles -> Runtime]
                BY <3>1 DEF TypeInv, TypeOK
            <4>2. runtime' \in [Profiles -> Runtime]
                BY <3>3, <3>4, <4>1 DEF TypeInv, TypeOK
            <4>3. seen' \in [Calls -> Witness]
                <5>1. seen \in [Calls -> Witness]
                    BY DEF TypeInv, TypeOK
                <5>2. Lifted(p, "DISABLED") \in [Calls -> Witness]
                    BY <5>1, HistoryType
                <5>. QED BY <3>3, <5>1, <5>2
            <4>. QED BY <4>2, <4>3
        <3>6. PICK g \in Scan : g.pc # "upsert" /\ scans' = [scans EXCEPT ![s] = g]
            <4>1. \A kept \in {f.kept, f.kept \cup {p}} :
                    LET g == [f EXCEPT !.pc = "persist", !.at = NULL, !.state = "NONE",
                                       !.todo = @ \ {p}, !.kept = kept] IN
                    g \in Scan /\ g.pc # "upsert"
                BY <3>1 DEF Scan, ScanPc, RuntimeState
            <4>2. [f EXCEPT !.pc = "persist", !.at = NULL, !.state = "NONE",
                            !.todo = @ \ {p}, !.kept = @ \cup {p}] \in Scan
                BY <3>1 DEF Scan, ScanPc, RuntimeState
            <4>3. [f EXCEPT !.pc = "persist", !.at = NULL, !.state = "NONE",
                            !.todo = @ \ {p}] \in Scan
                BY <3>1 DEF Scan, ScanPc, RuntimeState
            <4>. QED BY <3>1, <4>2, <4>3 DEF ScanUpsert, Scan
        <3>7. faults' \in 0 .. MaxFaults
            BY FaultsType DEF ScanUpsert, TypeInv, TypeOK
        <3>8. UNCHANGED <<device, excluded, peerExcluded, memory, calls, bounds, torn>>
            BY DEF ScanUpsert
        <3>9. /\ scans' \in [Scans -> Scan]
              /\ \A z \in Scans : scans'[z].pc = "upsert" => scans'[z].at \in Profiles
            BY <3>6, <1>ScanFrame
        <3>. QED BY <3>5, <3>7, <3>8, <3>9 DEF TypeInv, TypeOK, FramesOK, Running, memory, bounds
    <2>4. ASSUME ScanReconcile(s)
          PROVE  TypeInv'
        <3> USE <2>4
        <3> DEFINE g == [scans[s] EXCEPT !.pc = "reconcile",
                            !.todo = {p \in Profiles : scans[s].scope[p] = "out"}]
        <3>1. g \in Scan /\ g.pc # "upsert"
            BY DEF TypeInv, TypeOK, Scan, ScanPc
        <3>2. scans' = [scans EXCEPT ![s] = g]
            BY DEF ScanReconcile
        <3>3. UNCHANGED <<device, db, memory, calls, bounds, faults, seen, torn>>
            BY DEF ScanReconcile
        <3>4. /\ scans' \in [Scans -> Scan]
              /\ \A z \in Scans : scans'[z].pc = "upsert" => scans'[z].at \in Profiles
            BY <3>1, <3>2, <1>ScanFrame
        <3>. QED BY <3>3, <3>4 DEF TypeInv, TypeOK, FramesOK, Running, db, memory, bounds
    <2>5. ASSUME NEW p \in Profiles, ScanDisable(s, p)
          PROVE  TypeInv'
        <3> USE <2>5
        <3> DEFINE f == scans[s]
        <3>1. f \in Scan
            BY DEF TypeInv, TypeOK
        <3>2. runtime' \in [Profiles -> Runtime]
            <4>1. [runtime EXCEPT ![p].state = "DISABLED"] \in [Profiles -> Runtime]
                BY DEF TypeInv, TypeOK, Runtime, RuntimeState
            <4>. QED BY <4>1 DEF ScanDisable, TypeInv, TypeOK
        <3>3. PICK g \in Scan : g.pc # "upsert" /\ scans' = [scans EXCEPT ![s] = g]
            <4>1. [f EXCEPT !.todo = @ \ {p}] \in Scan
                BY <3>1 DEF Scan
            <4>2. NoScan("done") \in Scan /\ NoScan("done").pc # "upsert"
                BY ValueTypes DEF NoScan, ScanPc
            <4>. QED BY <3>1, <4>1, <4>2 DEF ScanDisable, Scan
        <3>4. faults' \in 0 .. MaxFaults
            BY FaultsType DEF ScanDisable, TypeInv, TypeOK
        <3>5. UNCHANGED <<device, excluded, peerExcluded, memory, calls, bounds, seen, torn>>
            BY DEF ScanDisable
        <3>6. /\ scans' \in [Scans -> Scan]
              /\ \A z \in Scans : scans'[z].pc = "upsert" => scans'[z].at \in Profiles
            BY <3>3, <1>ScanFrame
        <3>. QED BY <3>2, <3>4, <3>5, <3>6 DEF TypeInv, TypeOK, FramesOK, Running, memory, bounds
    <2>6. ASSUME ScanCache(s)
          PROVE  TypeInv'
        <3> USE <2>6
        <3> DEFINE f == scans[s]
        <3>1. f \in Scan /\ f.pc # "upsert"
            BY DEF ScanCache, TypeInv, TypeOK
        <3>2. snapshot' \in [Profiles -> (SUBSET NodeIds) \cup {NULL}]
            BY DEF ScanCache, TypeInv, TypeOK, ExistingNodes
        <3>3. PICK g \in Scan : g.pc # "upsert" /\ scans' = [scans EXCEPT ![s] = g]
            <4>1. \A q : [f EXCEPT !.pc = "cache", !.kept = @ \ {q}] \in Scan
                BY <3>1 DEF Scan, ScanPc
            <4>2. NoScan("done") \in Scan /\ NoScan("done").pc # "upsert"
                BY ValueTypes DEF NoScan, ScanPc
            <4>. QED BY <3>1, <4>1, <4>2 DEF ScanCache, Scan
        <3>4. UNCHANGED <<device, db, mock, processed, calls, bounds, faults, seen, torn>>
            BY DEF ScanCache
        <3>5. /\ scans' \in [Scans -> Scan]
              /\ \A z \in Scans : scans'[z].pc = "upsert" => scans'[z].at \in Profiles
            BY <3>3, <1>ScanFrame
        <3>. QED BY <3>2, <3>4, <3>5 DEF TypeInv, TypeOK, FramesOK, Running, db, bounds
    <2>. QED BY <2>1, <2>2, <2>3, <2>4, <2>5, <2>6 DEF ScanStep
<1>TypeAround. ASSUME TypeInv,
             \/ \E p \in Profiles : ToggleExclusion(p) \/ TogglePeerExclusion(p)
             \/ \E e \in Edits : OperatorEdit(e)
             \/ Restart
      PROVE  TypeInv'
    <2> USE <1>TypeAround
    <2>1. ASSUME NEW p \in Profiles, ToggleExclusion(p) \/ TogglePeerExclusion(p)
          PROVE  TypeInv'
        <3>1. seen' \in [Calls -> Witness]
            BY <2>1, HistoryType DEF ToggleExclusion, TogglePeerExclusion, TypeInv, TypeOK
        <3>2. toggles' \in 0 .. MaxToggles
            BY <2>1, CommandAssumption DEF ToggleExclusion, TogglePeerExclusion, TypeInv, TypeOK
        <3>3. /\ excluded' \in [Profiles -> BOOLEAN]
              /\ peerExcluded' \in [Profiles -> BOOLEAN]
            BY <2>1 DEF ToggleExclusion, TogglePeerExclusion, TypeInv, TypeOK
        <3>4. UNCHANGED <<device, runtime, memory, calls, scans, edits, restarts, faults, torn>>
            BY <2>1 DEF ToggleExclusion, TogglePeerExclusion
        <3>. QED BY <3>1, <3>2, <3>3, <3>4 DEF TypeInv, TypeOK, FramesOK, Running, memory
    <2>2. ASSUME NEW e \in Edits, OperatorEdit(e)
          PROVE  TypeInv'
        <3>1. e.policy \in Policies /\ e.node \in NodeIds /\ e.kind \in Kind
            BY CommandAssumption DEF Kind, ForeignKind
        <3>2. device' \in [Policies -> RoutePolicy]
            BY <2>2, <3>1 DEF OperatorEdit, TypeInv, TypeOK, RoutePolicy
        <3>3. seen' \in [Calls -> Witness]
            BY <2>2, <3>1, HistoryType DEF OperatorEdit, TypeInv, TypeOK
        <3>4. edits' \in 0 .. MaxEdits
            BY <2>2, CommandAssumption DEF OperatorEdit, TypeInv, TypeOK
        <3>5. UNCHANGED <<db, memory, calls, scans, toggles, restarts, faults, torn>>
            BY <2>2 DEF OperatorEdit
        <3>. QED BY <3>2, <3>3, <3>4, <3>5 DEF TypeInv, TypeOK, FramesOK, Running, db, memory
    <2>3. ASSUME Restart PROVE TypeInv'
        <3>1. restarts' \in 0 .. MaxRestarts
            BY <2>3, CommandAssumption DEF Restart, TypeInv, TypeOK
        <3>2. mock' \in [Policies -> RoutePolicy]
            BY <2>3 DEF Restart, RoutePolicy, Kind
        <3>3. seen' \in [Calls -> Witness]
            BY <2>3 DEF Restart, NoWitness, Witness
        <3>4. calls' \in [Calls -> Call] /\ scans' \in [Scans -> Scan]
            BY <2>3, ValueTypes DEF Restart, ScanPc, TypeInv, TypeOK
        <3>5. FramesOK'
            BY <2>3 DEF Restart, FramesOK, Running, NoCall, NoScan
        <3>6. TypeOK'
            BY <2>3, <3>1, <3>2, <3>3, <3>4 DEF Restart, TypeInv, TypeOK, db
        <3>. QED BY <3>5, <3>6 DEF TypeInv
    <2>. QED BY <2>1, <2>2, <2>3
<1>1. TypeInv /\ [Next]_vars => TypeInv'
    <2> SUFFICES ASSUME TypeInv, [Next]_vars PROVE TypeInv'
        OBVIOUS
    <2>1. CASE UNCHANGED vars
        BY <2>1 DEF vars, db, memory, bounds, TypeInv, TypeOK, FramesOK, Running
    <2>2. CASE Next
        BY <2>2, <1>TypeCall, <1>TypeScan, <1>TypeAround DEF Next
    <2>. QED BY <2>1, <2>2
<1>. QED BY <1>1, <1>TypeInit, PTL DEF Spec

\* Every variable keeps its type, and the bounds of the instance are kept.
THEOREM TypeCorrect == Spec => []TypeOK
<1>1. TypeInv => TypeOK
    BY DEF TypeInv
<1>. QED BY <1>1, TypeInvHolds, PTL

-----------------------------------------------------------------------------
(* What a step leaves to the calls it is not a step of                      *)

Spared(d) ==
    /\ calls'[d] = calls[d]
    /\ seen'[d].shut \subseteq seen[d].shut
    /\ seen'[d].calm => seen[d].calm /\ seen'[d].unseen = seen[d].unseen
    /\ seen'[d].fault = seen[d].fault
    /\ calls[d].pc = "write" => seen[d].unseen \subseteq seen'[d].unseen
    /\ Running(d) => \A n \in NodeIds :
            \/ device'[PolicyOfCall(d)][n] = device[PolicyOfCall(d)][n]
            \/ ~seen'[d].calm /\ (calls[d].pc = "write" => n \in seen'[d].unseen)

\* All the steps that are not call c's spare it, except a restart, which ends it.
LEMMA SparedByOthers ==
    ASSUME TypeInv, NEW d \in Calls, [Next]_vars, ~CallStep(d), ~Restart
    PROVE  Spared(d)
<1>SparedIfUnseen. ASSUME calls'[d] = calls[d], device' = device,
             seen'[d].shut \subseteq seen[d].shut, seen'[d].calm = seen[d].calm,
             seen'[d].unseen = seen[d].unseen, seen'[d].fault = seen[d].fault
      PROVE  Spared(d)
    BY <1>SparedIfUnseen DEF Spared
<1>SparedByCall. ASSUME NEW c \in Calls \ {d}, CallStep(c)
      PROVE  Spared(d)
    <2> USE <1>SparedByCall
    <2>1. calls'[d] = calls[d]
        BY DEF CallStep, Begin, LoadProfile, LoadContext, Resolve, Gate, Preflight,
               WriteLive, WriteMock, ReadBack, Record, Reply, Resume, Return,
               TypeInv, TypeOK
    <2>2. seen[d] \in Witness
        BY DEF TypeInv, TypeOK
    <2>3. CASE \/ \E a \in Actions, r \in RequestIds, p \in Profiles : Begin(c, a, r, p)
               \/ LoadProfile(c) \/ LoadContext(c) \/ Resolve(c) \/ Gate(c)
               \/ Preflight(c) \/ WriteMock(c) \/ ReadBack(c) \/ Reply(c)
        <3>1. seen'[d] = seen[d] /\ device' = device
            BY <2>3 DEF Begin, LoadProfile, LoadContext, Resolve, Gate, Preflight,
                        WriteMock, ReadBack, Reply, Meets, Reads, TypeInv, TypeOK
        <3>. QED BY <2>1, <3>1 DEF Spared
    <2>4. CASE WriteLive(c)
        <3> DEFINE pol == PolicyOfCall(c)
        <3>1. PICK policy :
                /\ device' = [device EXCEPT ![pol] = policy]
                /\ \E e : Meets(c, Disturbed(pol, ChangedNodes(device[pol], policy), c), e)
            BY <2>4, Zenon DEF WriteLive
        <3>2. seen'[d] = Disturbed(pol, ChangedNodes(device[pol], policy), c)[d]
            BY <3>1, HistoryType DEF Meets, Disturbed, TypeInv, TypeOK
        <3>3. CASE Running(d) /\ PolicyOfCall(d) = pol /\ ChangedNodes(device[pol], policy) # {}
            <4>1. /\ seen'[d].calm = FALSE
                  /\ seen'[d].shut = seen[d].shut
                  /\ seen'[d].fault = seen[d].fault
                  /\ calls[d].pc = "write" =>
                        seen'[d].unseen = seen[d].unseen \cup ChangedNodes(device[pol], policy)
                BY <2>2, <3>2, <3>3 DEF Disturbed, Witness
            <4>2. pol \in Policies
                BY <3>3, CommandAssumption DEF PolicyOfCall, TypeInv, FramesOK
            <4>3. device'[pol] = policy
                BY <3>1, <4>2 DEF TypeInv, TypeOK
            <4>. QED BY <2>1, <3>3, <4>1, <4>3 DEF Spared, ChangedNodes
        <3>4. CASE ~(Running(d) /\ PolicyOfCall(d) = pol /\ ChangedNodes(device[pol], policy) # {})
            <4>1. seen'[d] = seen[d]
                BY <3>2, <3>4 DEF Disturbed
            <4>2. ASSUME Running(d), NEW n \in NodeIds
                  PROVE  device'[PolicyOfCall(d)][n] = device[PolicyOfCall(d)][n]
                <5>1. PolicyOfCall(d) \in Policies
                    BY <4>2, CommandAssumption DEF PolicyOfCall, TypeInv, FramesOK
                <5>2. CASE PolicyOfCall(d) = pol
                    BY <3>1, <3>4, <4>2, <5>1, <5>2 DEF ChangedNodes, TypeInv, TypeOK
                <5>3. CASE PolicyOfCall(d) # pol
                    BY <3>1, <5>1, <5>3 DEF TypeInv, TypeOK
                <5>. QED BY <5>2, <5>3
            <4>. QED BY <2>1, <4>1, <4>2 DEF Spared
        <3>. QED BY <3>3, <3>4
    <2>5. CASE Record(c)
        <3>1. seen' = seen \/ seen' = Lifted(calls[c].prof, "DISABLED")
            BY <2>5 DEF Record
        <3>2. /\ seen'[d].shut \subseteq seen[d].shut
              /\ seen'[d].calm = seen[d].calm
              /\ seen'[d].unseen = seen[d].unseen
              /\ seen'[d].fault = seen[d].fault
            BY <2>2, <3>1 DEF Lifted, Witness
        <3>. QED BY <2>1, <2>5, <3>2, <1>SparedIfUnseen DEF Record
    <2>. QED BY <2>3, <2>4, <2>5 DEF CallStep
<1>SparedByScan. ASSUME NEW s \in Scans, ScanStep(s)
      PROVE  Spared(d)
    <2> USE <1>SparedByScan
    <2>1. calls' = calls /\ device' = device
        BY DEF ScanStep, ScanRead, ScanTarget, ScanUpsert, ScanReconcile, ScanDisable, ScanCache
    <2>2. seen' = seen \/ \E p : seen' = Lifted(p, "DISABLED")
        BY Zenon DEF ScanStep, ScanRead, ScanTarget, ScanUpsert, ScanReconcile, ScanDisable,
           ScanCache
    <2>3. seen[d] \in Witness
        BY DEF TypeInv, TypeOK
    <2>4. /\ seen'[d].shut \subseteq seen[d].shut
          /\ seen'[d].calm = seen[d].calm
          /\ seen'[d].unseen = seen[d].unseen
          /\ seen'[d].fault = seen[d].fault
        BY <2>2, <2>3 DEF Lifted, Witness
    <2>. QED BY <2>1, <2>4, <1>SparedIfUnseen
<1>1. CASE UNCHANGED vars
    BY <1>1, <1>SparedIfUnseen DEF vars
<1>2. ASSUME NEW p \in Profiles, ToggleExclusion(p) \/ TogglePeerExclusion(p)
      PROVE  Spared(d)
    <2> USE <1>2
    <2>1. calls' = calls /\ device' = device
        BY DEF ToggleExclusion, TogglePeerExclusion
    <2>2. seen' = seen \/ \E b : seen' = Lifted(p, b)
        BY DEF ToggleExclusion, TogglePeerExclusion
    <2>3. seen[d] \in Witness
        BY DEF TypeInv, TypeOK
    <2>4. /\ seen'[d].shut \subseteq seen[d].shut
          /\ seen'[d].calm = seen[d].calm
          /\ seen'[d].unseen = seen[d].unseen
          /\ seen'[d].fault = seen[d].fault
        BY <2>2, <2>3 DEF Lifted, Witness
    <2>. QED BY <2>1, <2>4, <1>SparedIfUnseen
<1>3. ASSUME NEW e \in Edits, OperatorEdit(e)
      PROVE  Spared(d)
    <2> USE <1>3
    <2>1. calls' = calls /\ seen' = Disturbed(e.policy, {e.node}, NULL)
        BY DEF OperatorEdit
    <2>2. e.policy \in Policies /\ e.node \in NodeIds
        BY CommandAssumption
    <2>3. seen[d] \in Witness
        BY DEF TypeInv, TypeOK
    <2>4. \A pol \in Policies, n \in NodeIds :
            pol # e.policy \/ n # e.node => device'[pol][n] = device[pol][n]
        BY DEF OperatorEdit, TypeInv, TypeOK, RoutePolicy
    <2>5. d # NULL
        BY CommandAssumption
    <2>6. CASE Running(d) /\ PolicyOfCall(d) = e.policy
        <3>1. /\ seen'[d].calm = FALSE
              /\ seen'[d].shut = seen[d].shut
              /\ seen'[d].fault = seen[d].fault
              /\ calls[d].pc = "write" => seen'[d].unseen = seen[d].unseen \cup {e.node}
            BY <2>1, <2>3, <2>5, <2>6 DEF Disturbed, Witness
        <3>. QED BY <2>1, <2>2, <2>4, <2>6, <3>1 DEF Spared
    <2>7. CASE ~(Running(d) /\ PolicyOfCall(d) = e.policy)
        <3>1. seen'[d] = seen[d]
            BY <2>1, <2>7 DEF Disturbed
        <3>2. Running(d) => PolicyOfCall(d) \in Policies
            BY CommandAssumption DEF PolicyOfCall, TypeInv, FramesOK
        <3>. QED BY <2>1, <2>4, <2>7, <3>1, <3>2 DEF Spared
    <2>. QED BY <2>6, <2>7
<1>. QED BY <1>1, <1>2, <1>3, <1>SparedByCall, <1>SparedByScan DEF Next

-----------------------------------------------------------------------------
(* The exclusion gate                                                       *)

\* A target excluded all along is still excluded, the call has seen it as soon
\* as it has loaded the profile, and has not got past the gate; with a marked
\* peer all along it is past the gate only after a read of its own failed.
HeldByExclusion(c) ==
    Running(c) /\ Activating(c) =>
        /\ "excluded" \in seen[c].shut =>
            /\ excluded[calls[c].prof]
            /\ calls[c].pc \in {"context", "gate"} => calls[c].excl
            /\ calls[c].pc \in {"profile", "context", "gate", "reply"}
        /\ "peer" \in seen[c].shut =>
            /\ peerExcluded[calls[c].prof]
            /\ calls[c].pc \in {"profile", "context", "gate", "reply"} \/ seen[c].fault

ExclusionInv == \A c \in Calls : HeldByExclusion(c)

\* A target that stays excluded from before a command begins is never activated
\* by it, nor one whose peer stays marked unless a read of the command failed,
\* for any number of commands, profiles, policies and discoveries.
THEOREM ExclusionGate == Spec => []ExcludedNotActivated
<1>MetHistory. ASSUME NEW c \in Calls, NEW w \in [Calls -> Witness], NEW e, Meets(c, w, e)
      PROVE  /\ seen'[c].shut = w[c].shut
             /\ seen'[c].calm = w[c].calm
             /\ seen'[c].unseen = {}
             /\ seen'[c].fault = (w[c].fault \/ e)
    BY <1>MetHistory DEF Meets, Witness
\* What a call remembers of itself outlives all its steps but the first and the
\* last.
<1>KeptHistory. ASSUME TypeInv, NEW c \in Calls,
             \/ Resolve(c) \/ Preflight(c) \/ WriteLive(c) \/ WriteMock(c)
             \/ ReadBack(c) \/ Record(c)
      PROVE  seen'[c].shut \subseteq seen[c].shut /\ (seen[c].fault => seen'[c].fault)
    <2> USE <1>KeptHistory
    <2>1. seen \in [Calls -> Witness]
        BY DEF TypeInv, TypeOK
    <2>2. CASE \/ \E e : Meets(c, seen, e)
               \/ \E answer : Reads(c, answer)
        <3>1. ASSUME NEW answer, Reads(c, answer)
              PROVE  seen'[c].shut = seen[c].shut /\ (seen[c].fault => seen'[c].fault)
            BY <2>1, <3>1 DEF Reads, Witness
        <3>. QED BY <2>1, <2>2, <3>1, <1>MetHistory
    <2>3. CASE Resolve(c) \/ Preflight(c) \/ WriteMock(c) \/ ReadBack(c)
        BY <2>2, <2>3 DEF Resolve, Preflight, WriteMock, ReadBack
    <2>4. CASE WriteLive(c)
        <3>1. PICK policy, e : Meets(c, Disturbed(PolicyOfCall(c),
                    ChangedNodes(device[PolicyOfCall(c)], policy), c), e)
            BY <2>4, Zenon DEF WriteLive
        <3> DEFINE w == Disturbed(PolicyOfCall(c),
                            ChangedNodes(device[PolicyOfCall(c)], policy), c)
        <3>2. w[c] = seen[c]
            BY DEF Disturbed
        <3>3. w \in [Calls -> Witness]
            BY <2>1, HistoryType DEF ChangedNodes
        <3> HIDE DEF w
        <3>. QED BY <3>1, <3>2, <3>3, <1>MetHistory DEF w
    <2>5. CASE Record(c)
        <3>1. seen' = seen \/ seen' = Lifted(calls[c].prof, "DISABLED")
            BY <2>5 DEF Record
        <3>. QED BY <2>1, <3>1 DEF Lifted, Witness
    <2>. QED BY <2>3, <2>4, <2>5
<1>ExclusionOwnStep. ASSUME TypeInv, ExclusionInv, NEW c \in Calls, CallStep(c)
      PROVE  HeldByExclusion(c)'
    <2> USE <1>ExclusionOwnStep
    <2>1. calls[c] \in Call /\ seen[c] \in Witness /\ HeldByExclusion(c)
        BY DEF TypeInv, TypeOK, ExclusionInv
    <2>2. excluded' = excluded /\ peerExcluded' = peerExcluded
        BY DEF CallStep, Begin, LoadProfile, LoadContext, Resolve, Gate, Preflight,
               WriteLive, WriteMock, ReadBack, Record, Reply, db
    <2>3. ASSUME NEW a \in Actions, NEW r \in RequestIds, NEW p \in Profiles, Begin(c, a, r, p)
          PROVE  HeldByExclusion(c)'
        <3>1. seen'[c].shut = (IF a = "ACTIVATE" THEN Standing(p) ELSE {})
            BY <2>3 DEF Begin, TypeInv, TypeOK
        <3>2. calls'[c].prof = p /\ calls'[c].pc \in {"reply", "profile"}
            <4> DEFINE f == [NoCall("new") EXCEPT !.action = a, !.req = r, !.prof = p]
            <4>1. f \in Call /\ f.prof = p
                BY ValueTypes DEF Call, NoCall
            <4>2. Return(c, f, "CACHED") \/ Resume(c, f, "profile")
                BY <2>3 DEF Begin
            <4>3. calls \in [Calls -> Call]
                BY DEF TypeInv, TypeOK
            <4> HIDE DEF f
            <4>4. CASE Return(c, f, "CACHED")
                BY <4>1, <4>3, <4>4 DEF Return
            <4>5. CASE Resume(c, f, "profile")
                BY <4>1, <4>3, <4>5 DEF Resume
            <4>. QED BY <4>2, <4>4, <4>5
        <3>. QED BY <2>2, <3>1, <3>2 DEF HeldByExclusion, Standing
    <2>4. CASE LoadProfile(c)
        <3>1. seen'[c].shut = seen[c].shut
            BY <2>4, <1>MetHistory DEF LoadProfile, TypeInv, TypeOK
        <3>2. /\ calls'[c].action = calls[c].action
              /\ calls'[c].prof = calls[c].prof
              /\ \/ calls'[c].pc = "context" /\ calls'[c].excl = excluded[calls[c].prof]
                 \/ calls'[c].pc = "reply"
            <4> DEFINE f == [calls[c] EXCEPT !.excl = excluded[calls[c].prof]]
            <4>1. /\ f \in Call
                  /\ f.action = calls[c].action
                  /\ f.prof = calls[c].prof
                  /\ f.excl = excluded[calls[c].prof]
                BY <2>1, <2>4 DEF Call, LoadProfile, Running, TypeInv, TypeOK, FramesOK
            <4>2. Resume(c, f, "context") \/ Return(c, calls[c], "REJECTED")
                BY <2>4 DEF LoadProfile
            <4>3. calls \in [Calls -> Call]
                BY DEF TypeInv, TypeOK
            <4> HIDE DEF f
            <4>4. CASE Resume(c, f, "context")
                BY <4>1, <4>3, <4>4 DEF Resume, Call
            <4>5. CASE Return(c, calls[c], "REJECTED")
                BY <2>1, <4>3, <4>5 DEF Return, Call
            <4>. QED BY <4>2, <4>4, <4>5
        <3>. QED BY <2>1, <2>2, <2>4, <3>1, <3>2
                 DEF HeldByExclusion, Running, Activating, LoadProfile, Call
    <2>5. CASE LoadContext(c)
        <3>1. seen'[c].shut = seen[c].shut
            BY <2>5, <1>MetHistory DEF LoadContext, TypeInv, TypeOK
        <3>2. /\ calls'[c].action = calls[c].action
              /\ calls'[c].prof = calls[c].prof
              /\ calls'[c].excl = calls[c].excl
              /\ calls[c].action = "ACTIVATE" => calls'[c].pc = "gate"
            BY <2>1, <2>5 DEF LoadContext, Resume, TypeInv, TypeOK, Call
        <3>. QED BY <2>1, <2>2, <2>5, <3>1, <3>2
                 DEF HeldByExclusion, Running, Activating, LoadContext
    <2>6. CASE Gate(c)
        <3>1. seen'[c].shut = seen[c].shut
            BY <2>6, <1>MetHistory DEF Gate, TypeInv, TypeOK
        <3>2. /\ calls'[c].action = calls[c].action
              /\ calls'[c].prof = calls[c].prof
              /\ calls[c].excl => calls'[c].pc = "reply"
              /\ peerExcluded[calls[c].prof] => calls'[c].pc = "reply" \/ seen'[c].fault
            <4> DEFINE f == [calls[c] EXCEPT !.excl = FALSE]
            <4>1. f \in Call /\ f.action = calls[c].action /\ f.prof = calls[c].prof
                BY <2>1 DEF Call
            <4>2. PICK read \in BOOLEAN :
                    /\ IF calls[c].excl \/ (peerExcluded[calls[c].prof] /\ read)
                       THEN Return(c, calls[c], "MITIGATION_EXCLUDED")
                       ELSE Resume(c, f, "preflight")
                    /\ Meets(c, seen, ~read)
                BY <2>6 DEF Gate
            <4>3. ~read => seen'[c].fault
                BY <4>2, <1>MetHistory DEF TypeInv, TypeOK
            <4> HIDE DEF f
            <4>. QED BY <2>1, <4>1, <4>2, <4>3, ResumedFrame, ReturnedFrame DEF TypeInv, TypeOK
        <3>. QED BY <2>1, <2>2, <2>6, <3>1, <3>2
                 DEF HeldByExclusion, Running, Activating, Gate
    <2>7. CASE Resolve(c) \/ Preflight(c) \/ WriteLive(c) \/ WriteMock(c)
               \/ ReadBack(c) \/ Record(c)
        <3>1. seen'[c].shut \subseteq seen[c].shut /\ (seen[c].fault => seen'[c].fault)
            BY <2>7, <1>KeptHistory
        <3>2. calls'[c].action = calls[c].action /\ calls'[c].prof = calls[c].prof
            <4>1. \E g \in Call : /\ g.action = calls[c].action /\ g.prof = calls[c].prof
                                  /\ \/ \E pc : Resume(c, g, pc)
                                     \/ \E status : Return(c, g, status)
                <5>1. CASE Preflight(c) \/ WriteLive(c) \/ WriteMock(c) \/ Record(c)
                    BY <2>1, <5>1 DEF Preflight, WriteLive, WriteMock, Record
                <5>2. CASE Resolve(c)
                    <6>1. PICK pr \in Pair \cup {NULL} :
                            Resume(c, [calls[c] EXCEPT !.pair = pr], "preflight")
                        BY <2>1, <5>2, ValueTypes DEF Resolve, Call
                    <6>2. [calls[c] EXCEPT !.pair = pr] \in Call
                        BY <2>1 DEF Call
                    <6>. QED BY <2>1, <6>1, <6>2 DEF Call
                <5>3. CASE ReadBack(c)
                    <6>1. \A status \in Status : [calls[c] EXCEPT !.status = status] \in Call
                        BY <2>1 DEF Call
                    <6>2. \/ \E status \in Status :
                                Resume(c, [calls[c] EXCEPT !.status = status], "record")
                          \/ Return(c, calls[c], "REVALIDATION_FAILED")
                        BY <5>3 DEF ReadBack, Status
                    <6>. QED BY <2>1, <6>1, <6>2 DEF Call
                <5>. QED BY <2>7, <5>1, <5>2, <5>3
            <4>2. PICK g \in Call : /\ g.action = calls[c].action /\ g.prof = calls[c].prof
                                    /\ \/ \E pc : Resume(c, g, pc)
                                       \/ \E status : Return(c, g, status)
                BY <4>1
            <4>3. calls \in [Calls -> Call]
                BY DEF TypeInv, TypeOK
            <4>4. CASE \E pc : Resume(c, g, pc)
                BY <4>2, <4>3, <4>4 DEF Resume, Call
            <4>5. CASE \E status : Return(c, g, status)
                BY <4>2, <4>3, <4>5 DEF Return, Call
            <4>. QED BY <4>2, <4>4, <4>5
        <3>3. Running(c) /\ calls[c].pc \notin {"profile", "context", "gate", "reply"}
            BY <2>7 DEF Resolve, Preflight, WriteLive, WriteMock, ReadBack, Record, Running
        <3>. QED BY <2>1, <2>2, <3>1, <3>2, <3>3 DEF HeldByExclusion, Activating
    <2>8. CASE Reply(c)
        BY <2>1, <2>8 DEF Reply, HeldByExclusion, Running, NoCall, TypeInv, TypeOK
    <2>. QED BY <2>3, <2>4, <2>5, <2>6, <2>7, <2>8 DEF CallStep
<1>ExclusionNext. TypeInv /\ ExclusionInv /\ [Next]_vars => ExclusionInv'
    <2> SUFFICES ASSUME TypeInv, ExclusionInv, [Next]_vars, NEW c \in Calls
                 PROVE  HeldByExclusion(c)'
        BY DEF ExclusionInv
    <2>1. CASE CallStep(c)
        BY <2>1, <1>ExclusionOwnStep
    <2>2. CASE Restart
        BY <2>2 DEF Restart, HeldByExclusion, Running, NoCall
    <2>3. CASE ~CallStep(c) /\ ~Restart
        <3>1. Spared(c)
            BY <2>3, SparedByOthers
        <3>2. Running(c) => calls[c].prof \in Profiles
            BY DEF TypeInv, FramesOK
        <3>3. ASSUME Running(c), excluded[calls[c].prof], ~excluded'[calls[c].prof]
              PROVE  "excluded" \notin seen'[c].shut
            <4>1. PICK p \in Profiles : ToggleExclusion(p)
                BY <2>3, <3>3 DEF Next, vars, db, CallStep, Begin, LoadProfile, LoadContext,
                       Resolve, Gate, Preflight, WriteLive, WriteMock, ReadBack, Record, Reply,
                       ScanStep, ScanRead, ScanTarget, ScanUpsert, ScanReconcile, ScanDisable,
                       ScanCache, TogglePeerExclusion, OperatorEdit
            <4>2. p = calls[c].prof /\ excluded[p]
                BY <3>2, <3>3, <4>1 DEF ToggleExclusion, TypeInv, TypeOK
            <4>3. seen'[c] = [seen[c] EXCEPT !.shut = @ \ {"excluded"}]
                BY <4>1, <4>2 DEF ToggleExclusion, Lifted
            <4>4. seen[c] \in Witness
                BY DEF TypeInv, TypeOK
            <4>. QED BY <4>3, <4>4 DEF Witness
        <3>4. ASSUME Running(c), peerExcluded[calls[c].prof], ~peerExcluded'[calls[c].prof]
              PROVE  "peer" \notin seen'[c].shut
            <4>1. PICK p \in Profiles : TogglePeerExclusion(p)
                BY <2>3, <3>4 DEF Next, vars, db, CallStep, Begin, LoadProfile, LoadContext,
                       Resolve, Gate, Preflight, WriteLive, WriteMock, ReadBack, Record, Reply,
                       ScanStep, ScanRead, ScanTarget, ScanUpsert, ScanReconcile, ScanDisable,
                       ScanCache, ToggleExclusion, OperatorEdit
            <4>2. p = calls[c].prof /\ peerExcluded[p]
                BY <3>2, <3>4, <4>1 DEF TogglePeerExclusion, TypeInv, TypeOK
            <4>3. seen'[c] = [seen[c] EXCEPT !.shut = @ \ {"peer"}]
                BY <4>1, <4>2 DEF TogglePeerExclusion, Lifted
            <4>4. seen[c] \in Witness
                BY DEF TypeInv, TypeOK
            <4>. QED BY <4>3, <4>4 DEF Witness
        <3>5. HeldByExclusion(c)
            BY DEF ExclusionInv
        <3>6. seen'[c].shut \subseteq seen[c].shut /\ seen'[c].fault = seen[c].fault
              /\ calls'[c] = calls[c]
            BY <3>1 DEF Spared
        <3>. QED BY <3>3, <3>4, <3>5, <3>6 DEF HeldByExclusion, Running, Activating
    <2>. QED BY <2>1, <2>2, <2>3
<1>1. Init => ExclusionInv
    BY DEF Init, ExclusionInv, HeldByExclusion, Running, NoCall
<1>2. ExclusionInv => ExcludedNotActivated
    BY DEF ExclusionInv, HeldByExclusion, ExcludedNotActivated, Running
<1>. QED BY <1>1, <1>2, <1>ExclusionNext, TypeInvHolds, PTL DEF Spec

-----------------------------------------------------------------------------
(* The contract                                                             *)

\* What is shown is a frame of the contract.
LEMMA ShownType ==
    ASSUME NEW f \in Call
    PROVE  /\ Shown(f) \in Contract!Call
           /\ Shown(f).phase = PhaseOf(f.pc)
           /\ Shown(f).action = f.action
           /\ Shown(f).req = f.req
           /\ Shown(f).prof = f.prof
           /\ Shown(f).pair = IF Works(f) THEN f.pair ELSE NULL
           /\ Shown(f).live = IF Works(f) THEN f.live ELSE FALSE
           /\ Shown(f).outcome = OutcomeOf(f.status)
<1>1. PhaseOf(f.pc) \in Contract!Phase
    BY DEF PhaseOf, Call, CallPc, Contract!Phase
<1>2. OutcomeOf(f.status) \in Contract!Outcome
    BY DEF OutcomeOf, Call, Status, Contract!Outcome
<1>3. /\ f.action \in Actions /\ f.req \in RequestIds \cup {NULL}
      /\ f.prof \in Profiles \cup {NULL} /\ f.pair \in Pair \cup {NULL} /\ f.live \in BOOLEAN
    BY DEF Call
<1>4. Contract!Pair = Pair /\ Contract!Actions = Actions
    BY DEF Contract!Pair, Pair, Contract!Actions, Actions
<1>. QED BY <1>1, <1>2, <1>3, <1>4 DEF Shown, Contract!Call

\* Every command keeps the contract, for any sets of profiles, policies, calls,
\* discoveries and node numbers and any bounds of the environment: it changes
\* its policy at most once and where it was clear, verified is what it saw.
THEOREM ContractKept == Spec => KeepsContract
\* The steps of a call before its write.
\* What is shown of a call that goes on.
<1>ShownStep. ASSUME TypeInv, NEW c \in Calls, NEW g, calls' = [calls EXCEPT ![c] = g]
      PROVE  /\ ShownCalls' = [ShownCalls EXCEPT ![c] = Shown(g)]
             /\ ShownCalls[c] = Shown(calls[c])
    <2> USE <1>ShownStep
    <2>1. calls'[c] = g /\ \A d \in Calls \ {c} : calls'[d] = calls[d]
        BY DEF TypeInv, TypeOK
    <2>2. ShownCalls' = [d \in Calls |-> Shown(calls'[d])]
        BY DEF ShownCalls, Shown, Works
    <2>3. ShownCalls = [d \in Calls |-> Shown(calls[d])]
        BY DEF ShownCalls
    <2> HIDE DEF ShownCalls, Shown
    <2>. QED BY <2>1, <2>2, <2>3
\* A call that is about to return unverified is refused.
<1>Refused. ASSUME TypeInv, NEW c \in Calls,
             NEW status \in {"REVALIDATION_FAILED", "MITIGATION_EXCLUDED", "REJECTED"},
             Return(c, calls[c], status)
      PROVE  Contract!Answering(c, "REFUSED")
    <2> USE <1>Refused
    <2> DEFINE g == [calls[c] EXCEPT !.pc = "reply", !.status = status,
                                     !.excl = FALSE, !.pair = NULL]
    <2>1. calls[c] \in Call
        BY DEF TypeInv, TypeOK
    <2>2. /\ g \in Call /\ g.pc = "reply" /\ g.status = status
          /\ g.action = calls[c].action /\ g.req = calls[c].req /\ g.prof = calls[c].prof
        BY <2>1 DEF Call, CallPc, Status
    <2>3. calls' = [calls EXCEPT ![c] = g]
        BY DEF Return
    <2> HIDE DEF g
    <2>4. ShownCalls' = [ShownCalls EXCEPT ![c] = Shown(g)] /\ ShownCalls[c] = Shown(calls[c])
        BY <2>3, <1>ShownStep
    <2>5. Shown(g) = [Shown(calls[c]) EXCEPT !.phase = "answering", !.outcome = "REFUSED",
                                             !.pair = NULL, !.live = FALSE]
        <3>1. ~Works(g) /\ PhaseOf("reply") = "answering" /\ OutcomeOf(status) = "REFUSED"
            BY <2>2 DEF Works, PhaseOf, OutcomeOf
        <3> DEFINE F == Shown(calls[c])
                   G == Shown(g)
        <3>2. F \in Contract!Call /\ G \in Contract!Call
            BY <2>1, <2>2, ShownType
        <3>3. /\ G.phase = "answering" /\ G.outcome = "REFUSED" /\ G.pair = NULL /\ G.live = FALSE
              /\ G.action = F.action /\ G.req = F.req /\ G.prof = F.prof
            BY <2>1, <2>2, <3>1, ShownType
        <3> HIDE DEF F, G
        <3>4. G = [F EXCEPT !.phase = "answering", !.outcome = "REFUSED",
                            !.pair = NULL, !.live = FALSE]
            BY <3>2, <3>3 DEF Contract!Call
        <3>. QED BY <3>4 DEF F, G
    <2>. QED BY <2>4, <2>5 DEF Contract!Answering, Contract!Put
\* Before its write a call shows neither its pair nor its executor.
<1>Deciding. ASSUME TypeInv, NEW c \in Calls, NEW f \in Call,
             NEW pc \in {"profile", "context", "resolve", "gate", "preflight"},
             calls[c].pc \in {"profile", "context", "resolve", "gate", "preflight"},
             f.action = calls[c].action, f.req = calls[c].req, f.prof = calls[c].prof,
             f.status = calls[c].status, Resume(c, f, pc)
      PROVE  ShownCalls' = ShownCalls
    <2> USE <1>Deciding
    <2> DEFINE g == [f EXCEPT !.pc = pc]
    <2>1. Shown(g) = Shown(calls[c])
        BY DEF Shown, Works, PhaseOf, OutcomeOf, Call
    <2>2. calls' = [calls EXCEPT ![c] = g]
        BY DEF Resume
    <2> HIDE DEF g
    <2>3. ShownCalls' = [ShownCalls EXCEPT ![c] = Shown(g)] /\ ShownCalls[c] = Shown(calls[c])
        BY <2>2, <1>ShownStep
    <2>. QED BY <2>1, <2>3 DEF ShownCalls
\* A call that goes on with its own locals, from the write on.
<1>GoesOn. ASSUME TypeInv, NEW c \in Calls, NEW f \in Call, NEW pc \in {"readback", "record"},
             calls[c].pc \in {"write", "readback"}, Resume(c, f, pc),
             f.action = calls[c].action, f.req = calls[c].req, f.prof = calls[c].prof,
             f.pair = calls[c].pair, f.live = calls[c].live
      PROVE  ShownCalls' = [ShownCalls EXCEPT ![c] =
                  [ShownCalls[c] EXCEPT !.phase = PhaseOf(pc), !.outcome = OutcomeOf(f.status)]]
    <2> USE <1>GoesOn
    <2> DEFINE g == [f EXCEPT !.pc = pc]
               F == Shown(calls[c])
               G == Shown(g)
    <2>1. /\ g \in Call /\ g.pc = pc /\ g.pair = f.pair /\ g.live = f.live /\ g.action = f.action
          /\ g.req = f.req /\ g.prof = f.prof /\ g.status = f.status
        BY DEF Call, CallPc
    <2>2. calls' = [calls EXCEPT ![c] = g]
        BY DEF Resume
    <2> HIDE DEF g
    <2>3. ShownCalls' = [ShownCalls EXCEPT ![c] = G] /\ ShownCalls[c] = F
        BY <2>2, <1>ShownStep
    <2>4. /\ F \in Contract!Call /\ G \in Contract!Call
          /\ G.phase = PhaseOf(pc) /\ G.outcome = OutcomeOf(f.status)
          /\ G.action = F.action /\ G.req = F.req /\ G.prof = F.prof
          /\ G.pair = F.pair /\ G.live = F.live
        <3>1. calls[c] \in Call
            BY DEF TypeInv, TypeOK
        <3>2. Works(g) /\ Works(calls[c])
            BY <2>1 DEF Works
        <3>3. /\ F \in Contract!Call /\ F.action = calls[c].action /\ F.req = calls[c].req
              /\ F.prof = calls[c].prof /\ F.pair = calls[c].pair /\ F.live = calls[c].live
            BY <3>1, <3>2, ShownType
        <3>4. /\ G \in Contract!Call /\ G.phase = PhaseOf(g.pc) /\ G.outcome = OutcomeOf(g.status)
              /\ G.action = g.action /\ G.req = g.req
              /\ G.prof = g.prof /\ G.pair = g.pair /\ G.live = g.live
            BY <2>1, <3>2, ShownType
        <3> HIDE DEF F, G
        <3>. QED BY <2>1, <3>3, <3>4
    <2> HIDE DEF F, G
    <2>5. G = [F EXCEPT !.phase = PhaseOf(pc), !.outcome = OutcomeOf(f.status)]
        BY <2>4 DEF Contract!Call
    <2>. QED BY <2>3, <2>5
\* What fails, or is cut, is counted.
<1>Counted. ASSUME TypeInv, NEW c \in Calls
      PROVE  /\ \A e : Fails(e) => Contract!Tries(e)
             /\ \A w, e : Meets(c, w, e) => Contract!Tries(e)
             /\ Running(c) => \A answer \in Answers(Target(c)) : Reads(c, answer) =>
                    answer \in Contract!Answers(Target(c)) /\ Contract!Tries(answer # Target(c))
    <2>1. \A e : Fails(e) => Contract!Tries(e)
        BY DEF Fails, Contract!Tries
    <2>2. \A w, e : Meets(c, w, e) => Fails(e)
        BY DEF Meets
    <2>3. ASSUME Running(c), NEW answer \in Answers(Target(c)), Reads(c, answer)
          PROVE  answer \in Contract!Answers(Target(c)) /\ Contract!Tries(answer # Target(c))
        <3>1. PolicyOfCall(c) \in Policies
            BY <1>Counted, <2>3, CommandAssumption DEF PolicyOfCall, TypeInv, FramesOK
        <3>2. Target(c) \in RoutePolicy
            BY <1>Counted, <3>1 DEF Target, TypeInv, TypeOK
        <3>3. answer \in RoutePolicy
            BY <2>3, <3>2, ValueTypes
        <3>4. ChangedNodes(Target(c), answer) # {} <=> answer # Target(c)
            BY <3>2, <3>3 DEF ChangedNodes, RoutePolicy
        <3>5. Contract!Tries(ChangedNodes(Target(c), answer) # {})
            BY <2>1, <2>3 DEF Reads
        <3>6. Contract!Tries(answer # Target(c))
            BY <3>4, <3>5 DEF Contract!Tries
        <3>7. Contract!Answers(Target(c)) = Answers(Target(c))
            BY DEF Answers, CutAt, Plain, Contract!Answers, Contract!CutAt, Contract!Plain
        <3>. QED BY <2>3, <3>6, <3>7
    <2>. QED BY <2>1, <2>2, <2>3
<1>ContractDeciding. ASSUME TypeInv, NEW c \in Calls,
             \/ \E a \in Actions, r \in RequestIds, p \in Profiles : Begin(c, a, r, p)
             \/ LoadProfile(c) \/ LoadContext(c) \/ Resolve(c) \/ Gate(c) \/ Preflight(c)
      PROVE  Contract!CallStep(c) \/ Contract!Fault \/ UNCHANGED Contract!vars
    <2> USE <1>ContractDeciding
    <2>1. calls[c] \in Call /\ ShownCalls[c] = Shown(calls[c])
        BY DEF TypeInv, TypeOK, ShownCalls
    <2>2. device' = device /\ Mitigated' = Mitigated /\ processed' = processed
        BY DEF Begin, LoadProfile, LoadContext, Resolve, Gate, Preflight, db, memory, Mitigated
    <2>3. ASSUME NEW status \in {"REVALIDATION_FAILED", "MITIGATION_EXCLUDED", "REJECTED"},
                 Return(c, calls[c], status),
                 calls[c].pc \in {"profile", "context", "resolve", "gate", "preflight"}
          PROVE  Contract!CallStep(c)
        <3>1. Contract!Answering(c, "REFUSED")
            BY <2>3, <1>Refused
        <3>2. ShownCalls[c].phase = "deciding"
            BY <2>1, <2>3, ShownType DEF PhaseOf
        <3>3. Contract!Tries(FALSE)
            BY <2>3 DEF Begin, LoadProfile, LoadContext, Resolve, Gate, Preflight,
                        Meets, Reads, Fails, Contract!Tries
        <3>. QED BY <2>2, <3>1, <3>2, <3>3 DEF Contract!CallStep, Contract!Refuse, Contract!Tries
    <2>4. ASSUME ShownCalls' = ShownCalls,
                 calls[c].pc \in {"profile", "context", "resolve", "gate", "preflight"}
          PROVE  Contract!Fault \/ UNCHANGED Contract!vars
        <3>1. faults' = faults \/ Contract!Tries(TRUE)
            BY <2>4 DEF Begin, LoadProfile, LoadContext, Resolve, Gate, Preflight,
                        Meets, Reads, Fails, Contract!Tries
        <3>. QED BY <2>2, <2>4, <3>1 DEF Contract!vars, Contract!Fault
    <2>5. ASSUME NEW a \in Actions, NEW r \in RequestIds, NEW p \in Profiles, Begin(c, a, r, p)
          PROVE  Contract!CallStep(c)
        <3> DEFINE f == [NoCall("new") EXCEPT !.action = a, !.req = r, !.prof = p]
                   cached == [f EXCEPT !.pc = "reply", !.status = "CACHED",
                                       !.excl = FALSE, !.pair = NULL]
                   fresh == [f EXCEPT !.pc = "profile"]
                   g == IF r \in processed THEN cached ELSE fresh
                   F == [Contract!NoCall("new") EXCEPT !.action = a, !.req = r, !.prof = p]
                   h == IF r \in processed
                        THEN [F EXCEPT !.phase = "answering", !.outcome = "CACHED"]
                        ELSE [F EXCEPT !.phase = "deciding"]
        <3>1. calls[c].pc = "new" /\ calls' = [calls EXCEPT ![c] = g]
            BY <2>5 DEF Begin, Return, Resume
        <3>2. /\ g \in Call /\ g.action = a /\ g.req = r /\ g.prof = p
              /\ g.pc = IF r \in processed THEN "reply" ELSE "profile"
              /\ g.status = IF r \in processed THEN "CACHED" ELSE "none"
            BY ValueTypes DEF Call, CallPc, Status, NoCall
        <3>3. /\ F \in Contract!Call /\ h \in Contract!Call
              /\ h.action = a /\ h.req = r /\ h.prof = p /\ h.pair = NULL /\ h.live = FALSE
              /\ h.phase = IF r \in processed THEN "answering" ELSE "deciding"
              /\ h.outcome = IF r \in processed THEN "CACHED" ELSE "none"
            BY DEF Contract!Call, Contract!NoCall, Contract!Phase, Contract!Outcome,
                   Contract!Actions, Actions
        <3> HIDE DEF g
        <3>4. Shown(g) = h
            <4> DEFINE G == Shown(g)
            <4>1. /\ G \in Contract!Call
                  /\ G.action = a /\ G.req = r /\ G.prof = p /\ G.pair = NULL /\ G.live = FALSE
                  /\ G.phase = IF r \in processed THEN "answering" ELSE "deciding"
                  /\ G.outcome = IF r \in processed THEN "CACHED" ELSE "none"
                BY <3>2, ShownType DEF Works, PhaseOf, OutcomeOf
            <4> HIDE DEF G, h
            <4>2. G = h
                BY <3>3, <4>1 DEF Contract!Call
            <4>. QED BY <4>2 DEF G
        <3>5. ShownCalls' = [ShownCalls EXCEPT ![c] = h]
            <4> HIDE DEF h
            <4>. QED BY <3>1, <3>4, <1>ShownStep
        <3>6. ShownCalls[c].phase = "new"
            BY <2>1, <3>1, ShownType DEF PhaseOf
        <3>7. Contract!Begin(c, a, r, p)
            BY <2>2, <2>5, <3>5, <3>6 DEF Begin, Contract!Begin, Contract!Put
        <3>8. a \in Contract!Actions
            BY DEF Contract!Actions, Actions
        <3>. QED BY <3>7, <3>8 DEF Contract!CallStep
    <2>6. CASE LoadProfile(c)
        <3>1. \/ [calls[c] EXCEPT !.excl = excluded[calls[c].prof]] \in Call
              \/ Return(c, calls[c], "REJECTED")
            BY <2>1, <2>6 DEF LoadProfile, Call, TypeInv, TypeOK, FramesOK, Running
        <3>. QED BY <2>1, <2>3, <2>4, <2>6, <3>1, <1>Deciding DEF LoadProfile, Call
    <2>7. CASE LoadContext(c)
        <3>1. PICK planRead \in BOOLEAN, hostRead \in BOOLEAN :
                LET f == [calls[c] EXCEPT
                            !.pair = IF planRead THEN runtime[calls[c].prof].pair ELSE NULL,
                            !.live = hostRead] IN
                Resume(c, f, CASE f.action = "ACTIVATE" -> "gate"
                               [] f.action = "REMOVE" /\ f.live -> "resolve"
                               [] OTHER -> "preflight")
            BY <2>7 DEF LoadContext
        <3> DEFINE f == [calls[c] EXCEPT
                            !.pair = IF planRead THEN runtime[calls[c].prof].pair ELSE NULL,
                            !.live = hostRead]
        <3>2. calls[c].prof \in Profiles
            BY <2>7 DEF TypeInv, FramesOK, Running, LoadContext
        <3>3. /\ f \in Call /\ f.action = calls[c].action /\ f.req = calls[c].req
              /\ f.prof = calls[c].prof /\ f.status = calls[c].status
            BY <2>1, <3>2 DEF Call, TypeInv, TypeOK, Runtime
        <3>4. \E pc \in {"gate", "resolve", "preflight"} : Resume(c, f, pc)
            BY <3>1
        <3> HIDE DEF f
        <3>. QED BY <2>4, <2>7, <3>3, <3>4, <1>Deciding DEF LoadContext
    <2>8. CASE Resolve(c)
        <3>1. PICK pr \in Pair \cup {NULL} :
                Resume(c, [calls[c] EXCEPT !.pair = pr], "preflight")
            BY <2>1, <2>8, ValueTypes DEF Resolve, Call
        <3> DEFINE f == [calls[c] EXCEPT !.pair = pr]
        <3>2. /\ f \in Call /\ f.action = calls[c].action /\ f.req = calls[c].req
              /\ f.prof = calls[c].prof /\ f.status = calls[c].status
            BY <2>1 DEF Call
        <3> HIDE DEF f
        <3>. QED BY <2>4, <2>8, <3>1, <3>2, <1>Deciding DEF Resolve, f
    <2>9. CASE Gate(c)
        <3> DEFINE f == [calls[c] EXCEPT !.excl = FALSE]
        <3>1. /\ f \in Call /\ f.action = calls[c].action /\ f.req = calls[c].req
              /\ f.prof = calls[c].prof /\ f.status = calls[c].status
            BY <2>1 DEF Call
        <3>2. Resume(c, f, "preflight") \/ Return(c, calls[c], "MITIGATION_EXCLUDED")
            BY <2>9 DEF Gate
        <3> HIDE DEF f
        <3>. QED BY <2>3, <2>4, <2>9, <3>1, <3>2, <1>Deciding DEF Gate
    <2>10. CASE Preflight(c)
        <3>1. CASE Return(c, calls[c], "REVALIDATION_FAILED")
            BY <2>3, <2>10, <3>1 DEF Preflight
        <3>2. CASE /\ calls[c].pair # NULL
                   /\ Resume(c, calls[c], "write")
                   /\ \/ ~calls[c].live /\ Meets(c, seen, FALSE)
                      \/ /\ calls[c].live
                         /\ \E answer \in Answers(Target(c)) :
                                PreflightOk(c, answer) /\ Reads(c, answer)
            <4> DEFINE g == [calls[c] EXCEPT !.pc = "write"]
                       F == Shown(calls[c])
                       G == Shown(g)
            <4>1. /\ g \in Call /\ g.pc = "write" /\ g.pair = calls[c].pair /\ g.live = calls[c].live
                  /\ g.action = calls[c].action /\ g.req = calls[c].req /\ g.prof = calls[c].prof
                  /\ g.status = calls[c].status
                BY <2>1 DEF Call, CallPc
            <4>2. calls' = [calls EXCEPT ![c] = g]
                BY <3>2 DEF Resume
            <4>3. calls[c].pc = "preflight" /\ calls[c].pair \in Pair /\ calls[c].prof \in Profiles
                BY <2>1, <2>10, <3>2 DEF Preflight, Call, TypeInv, FramesOK, Running
            <4> HIDE DEF g
            <4>4. ShownCalls' = [ShownCalls EXCEPT ![c] = G]
                BY <4>2, <1>ShownStep
            <4>5. /\ F \in Contract!Call /\ G \in Contract!Call
                  /\ F.phase = "deciding" /\ G.phase = "cleared"
                  /\ G.action = F.action /\ G.req = F.req /\ G.prof = F.prof /\ G.outcome = F.outcome
                  /\ G.pair = calls[c].pair /\ G.live = calls[c].live /\ F.prof = calls[c].prof
                  /\ G.action = calls[c].action
                BY <2>1, <4>1, <4>3, ShownType DEF Works, PhaseOf
            <4> HIDE DEF F, G
            <4>6. G = [F EXCEPT !.phase = "cleared", !.pair = G.pair, !.live = G.live]
                BY <4>5 DEF Contract!Call
            <4>7. ShownCalls[c] = F /\ ShownCalls'[c] = G
                BY <2>1, <4>4 DEF F, ShownCalls
            <4>8. G.pair \in Contract!Pair /\ G.live \in BOOLEAN
                BY <4>3, <4>5 DEF Contract!Pair, Pair, Contract!Call
            <4>9. \E answer \in Contract!Answers(Contract!Target(c)) :
                    /\ G.live => Contract!ClearFor(answer, G.action, G.pair)
                    /\ Contract!Tries(answer # Contract!Target(c))
                <5>1. Contract!Target(c) = Target(c)
                    BY <4>5, <4>7 DEF Contract!Target, Target, PolicyOfCall
                <5>2. ASSUME NEW answer, PreflightOk(c, answer)
                      PROVE  Contract!ClearFor(answer, calls[c].action, calls[c].pair)
                    <6>1. calls[c].action = "ACTIVATE" => PairAbsent(answer, calls[c].pair)
                        <7>1. calls[c].pair.bogon \in NodeIds /\ calls[c].pair.mitigation \in NodeIds
                            BY <4>3 DEF Pair
                        <7>. QED BY <5>2, <7>1 DEF PreflightOk, NodesOf, ExistingNodes, PairAbsent
                    <6>2. calls[c].action # "ACTIVATE" => PairPresent(answer, calls[c].pair)
                        BY <5>2 DEF PreflightOk
                    <6>. QED BY <6>1, <6>2 DEF Contract!ClearFor, Contract!PairAbsent,
                                Contract!PairPresent, PairAbsent, PairPresent
                <5>3. CASE calls[c].live
                    <6>1. PICK answer \in Answers(Target(c)) :
                            PreflightOk(c, answer) /\ Reads(c, answer)
                        BY <3>2, <5>3
                    <6>2. /\ answer \in Contract!Answers(Target(c))
                          /\ Contract!Tries(answer # Target(c))
                        BY <4>3, <6>1, <1>Counted DEF Running
                    <6>. QED BY <4>5, <5>1, <5>2, <6>1, <6>2
                <5>4. CASE ~calls[c].live
                    <6>1. Target(c) \in Contract!Answers(Target(c))
                        BY DEF Contract!Answers
                    <6>2. Contract!Tries(FALSE)
                        BY <3>2, <5>4, <1>Counted
                    <6>. QED BY <4>5, <5>1, <5>4, <6>1, <6>2 DEF Contract!Tries
                <5>. QED BY <5>3, <5>4
            <4>10. Contract!Clear(c)
                BY <2>2, <4>4, <4>5, <4>6, <4>7, <4>8, <4>9 DEF Contract!Clear, Contract!Put
            <4>. QED BY <4>10 DEF Contract!CallStep
        <3>. QED BY <2>10, <3>1, <3>2 DEF Preflight
    <2>. QED BY <2>5, <2>6, <2>7, <2>8, <2>9, <2>10
\* What a live write may leave of a policy is what the contract allows.
<1>WriteOutcomes. ASSUME NEW policy \in RoutePolicy, NEW pr \in Pair, NEW action \in Actions,
             NEW after \in {policy, Committed(policy, action, pr)}
                              \cup PartlyCommitted(policy, action, pr)
      PROVE  after \in Contract!Outcomes(policy, action, pr)
    <2> USE <1>WriteOutcomes
    <2>1. pr.bogon \in NodeIds /\ pr.mitigation \in NodeIds
        BY DEF Pair
    <2>2. policy = [policy EXCEPT ![pr.bogon] = policy[pr.bogon],
                                  ![pr.mitigation] = policy[pr.mitigation]]
        BY <2>1 DEF RoutePolicy
    <2>3. CASE after = policy
        BY <2>2, <2>3 DEF Contract!Outcomes
    <2>4. CASE after = Committed(policy, action, pr)
        BY <2>4 DEF Committed, Contract!Outcomes
    <2>5. CASE after \in PartlyCommitted(policy, action, pr)
        BY <2>5 DEF PartlyCommitted, Contract!Outcomes
    <2>. QED BY <2>3, <2>4, <2>5
\* The steps of a call from its write on.
<1>ContractWriting. ASSUME TypeInv, NEW c \in Calls,
             WriteLive(c) \/ WriteMock(c) \/ ReadBack(c) \/ Record(c) \/ Reply(c)
      PROVE  Contract!CallStep(c)
    <2> USE <1>ContractWriting
    <2> DEFINE F == ShownCalls[c]
               pol == PolicyOfCall(c)
    <2>1. calls[c] \in Call /\ F = Shown(calls[c]) /\ F \in Contract!Call
        BY ShownType DEF TypeInv, TypeOK, ShownCalls
    <2>2. calls[c].prof \in Profiles /\ calls[c].action \in Actions /\ pol \in Policies
        BY CommandAssumption DEF TypeInv, TypeOK, FramesOK, Running, Call, PolicyOfCall,
           WriteLive, WriteMock, ReadBack, Record, Reply
    <2>3. /\ F.phase = PhaseOf(calls[c].pc) /\ F.action = calls[c].action
          /\ F.req = calls[c].req /\ F.prof = calls[c].prof
          /\ F.outcome = OutcomeOf(calls[c].status)
          /\ Works(calls[c]) => F.pair = calls[c].pair /\ F.live = calls[c].live
        BY <2>1, ShownType
    <2>4. PolicyOf[F.prof] = pol /\ Contract!Target(c) = Target(c)
        BY <2>3 DEF PolicyOfCall, Contract!Target, Target
    <2>5. Works(calls[c]) => calls[c].pair \in Pair
        BY DEF Works, TypeInv, FramesOK
    <2>6. calls[c].pc = "write" => F.phase = "cleared" /\ Works(calls[c])
        BY <2>3 DEF PhaseOf, Works
    <2>7. calls[c].pc = "readback" => F.phase = "committed" /\ Works(calls[c])
        BY <2>3 DEF PhaseOf, Works
    <2>8. CASE WriteLive(c)
        <3>1. device[pol] \in RoutePolicy /\ calls[c].pc = "write" /\ calls[c].live
            BY <2>2, <2>8 DEF WriteLive, TypeInv, TypeOK
        <3>2. PICK policy :
                /\ policy \in {device[pol], Committed(device[pol], calls[c].action, calls[c].pair)}
                                \cup PartlyCommitted(device[pol], calls[c].action, calls[c].pair)
                /\ device' = [device EXCEPT ![pol] = policy]
                /\ \E answered \in BOOLEAN :
                    /\ \E w : Meets(c, w,
                            \/ policy # Committed(device[pol], calls[c].action, calls[c].pair)
                            \/ ~answered)
                    /\ IF answered THEN Resume(c, calls[c], "readback")
                                   ELSE Return(c, calls[c], "REVALIDATION_FAILED")
            BY <2>8, Zenon DEF WriteLive
        <3>3. policy \in Contract!Outcomes(device[PolicyOf[F.prof]], F.action, F.pair)
            BY <2>2, <2>3, <2>4, <2>5, <2>6, <3>1, <3>2, <1>WriteOutcomes
        <3> DEFINE whole == Committed(device[pol], calls[c].action, calls[c].pair)
        <3>4. /\ Contract!Tries(policy # whole)
              /\ \/ Contract!Put(c, [F EXCEPT !.phase = "committed"])
                 \/ F.live /\ Contract!Answering(c, "REFUSED") /\ faults' = faults + 1
            <4> HIDE DEF whole
            <4>0. PICK answered \in BOOLEAN :
                    /\ \E w : Meets(c, w, policy # whole \/ ~answered)
                    /\ IF answered THEN Resume(c, calls[c], "readback")
                                   ELSE Return(c, calls[c], "REVALIDATION_FAILED")
                BY <3>2 DEF whole
            <4>3. Contract!Tries(policy # whole \/ ~answered)
                BY <4>0, <1>Counted
            <4>4. Contract!Tries(policy # whole)
                BY <4>3 DEF Contract!Tries
            <4>1. CASE answered
                <5>1. ShownCalls' = [ShownCalls EXCEPT ![c] =
                        [F EXCEPT !.phase = PhaseOf("readback"),
                                  !.outcome = OutcomeOf(calls[c].status)]]
                    BY <2>1, <3>1, <4>0, <4>1, <1>GoesOn
                <5> HIDE DEF F
                <5>2. [F EXCEPT !.phase = "committed", !.outcome = F.outcome]
                        = [F EXCEPT !.phase = "committed"]
                    BY <2>1 DEF Contract!Call
                <5>3. Contract!Put(c, [F EXCEPT !.phase = "committed"])
                    BY <2>3, <5>1, <5>2 DEF Contract!Put, PhaseOf
                <5>. QED BY <4>4, <5>3
            <4>2. CASE ~answered
                <5>1. F.live /\ Contract!Answering(c, "REFUSED")
                    BY <2>3, <2>6, <3>1, <4>0, <4>2, <1>Refused
                <5>2. faults' = faults + 1
                    BY <4>2, <4>3 DEF Contract!Tries
                <5>. QED BY <4>4, <5>1, <5>2
            <4>. QED BY <4>1, <4>2
        <3>5. UNCHANGED <<Mitigated, processed>>
            BY <2>8 DEF WriteLive, Mitigated, db, memory
        <3>6. Contract!Whole(device[pol], F.action, F.pair) = whole
            BY <2>3, <2>6, <3>1 DEF Contract!Whole, Committed
        <3> HIDE DEF F, whole, pol
        <3>7. Contract!Commit(c)
            BY <2>3, <2>4, <2>6, <3>1, <3>2, <3>3, <3>4, <3>5, <3>6 DEF Contract!Commit, F, pol
        <3>. QED BY <3>7 DEF Contract!CallStep
    <2>9. CASE WriteMock(c)
        <3>1. calls[c].pc = "write" /\ ~calls[c].live /\ Resume(c, calls[c], "readback")
            BY <2>9 DEF WriteMock
        <3>2. ShownCalls' = [ShownCalls EXCEPT ![c] =
                [F EXCEPT !.phase = PhaseOf("readback"), !.outcome = OutcomeOf(calls[c].status)]]
            BY <2>1, <3>1, <1>GoesOn
        <3> HIDE DEF F
        <3>3. [F EXCEPT !.phase = "committed", !.outcome = F.outcome]
                = [F EXCEPT !.phase = "committed"]
            BY <2>1 DEF Contract!Call
        <3>4. Contract!Put(c, [ShownCalls[c] EXCEPT !.phase = "committed"])
            BY <2>3, <3>2, <3>3 DEF Contract!Put, PhaseOf, F
        <3>5. UNCHANGED <<device, Mitigated, processed, faults>>
            BY <2>9 DEF WriteMock, Mitigated, db, Meets, Fails
        <3>6. ShownCalls[c].phase = "cleared" /\ ~ShownCalls[c].live
            BY <2>3, <2>6, <3>1 DEF F
        <3>7. Contract!Commit(c)
            BY <3>4, <3>5, <3>6 DEF Contract!Commit
        <3>. QED BY <3>7 DEF Contract!CallStep
    <2>10. CASE ReadBack(c)
        <3>1. calls[c].pc = "readback" /\ UNCHANGED <<device, Mitigated, processed>>
            BY <2>10 DEF ReadBack, Mitigated, db, memory
        <3>2. CASE Return(c, calls[c], "REVALIDATION_FAILED") /\ Meets(c, seen, TRUE)
            <4>1. Contract!Tries(TRUE)
                BY <3>2, <1>Counted
            <4>2. Contract!Refuse(c)
                BY <2>7, <3>1, <3>2, <4>1, <1>Refused DEF Contract!Refuse, Contract!Tries
            <4>. QED BY <4>2 DEF Contract!CallStep
        <3>3. CASE \E status \in {"VERIFIED", "REVALIDATION_FAILED"} :
                    /\ Resume(c, [calls[c] EXCEPT !.status = status], "record")
                    /\ \/ ~calls[c].live /\ Meets(c, seen, FALSE)
                       \/ \E answer \in Answers(Target(c)) :
                            /\ Reads(c, answer)
                            /\ status = "VERIFIED" <=> Done(answer, calls[c].action, calls[c].pair)
            <4>1. PICK status \in {"VERIFIED", "REVALIDATION_FAILED"} :
                    /\ Resume(c, [calls[c] EXCEPT !.status = status], "record")
                    /\ \/ ~calls[c].live /\ Meets(c, seen, FALSE)
                       \/ \E answer \in Answers(Target(c)) :
                            /\ Reads(c, answer)
                            /\ status = "VERIFIED" <=> Done(answer, calls[c].action, calls[c].pair)
                BY <3>3
            <4> DEFINE f == [calls[c] EXCEPT !.status = status]
            <4>2. /\ f \in Call /\ f.action = calls[c].action /\ f.req = calls[c].req
                  /\ f.prof = calls[c].prof /\ f.pair = calls[c].pair /\ f.live = calls[c].live
                  /\ f.status = status
                BY <2>1 DEF Call, Status
            <4>3. Resume(c, f, "record")
                BY <4>1
            <4> HIDE DEF f
            <4>4. ShownCalls' = [ShownCalls EXCEPT ![c] =
                    [F EXCEPT !.phase = PhaseOf("record"), !.outcome = OutcomeOf(f.status)]]
                BY <3>1, <4>2, <4>3, <1>GoesOn
            <4>5. /\ PhaseOf("record") = "judged" /\ OutcomeOf(status) \in {"VERIFIED", "REFUSED"}
                  /\ OutcomeOf(status) = "VERIFIED" <=> status = "VERIFIED"
                BY DEF PhaseOf, OutcomeOf
            <4>6. Contract!Put(c, [F EXCEPT !.phase = "judged", !.outcome = OutcomeOf(status)])
                BY <4>2, <4>4, <4>5 DEF Contract!Put
            <4>7. PICK answer \in Contract!Answers(Contract!Target(c)) :
                    /\ F.live => (status = "VERIFIED" <=> Contract!Done(answer, F.action, F.pair))
                    /\ Contract!Tries(answer # Contract!Target(c))
                <5>1. CASE ~calls[c].live /\ Meets(c, seen, FALSE)
                    <6>1. Target(c) \in Contract!Answers(Target(c))
                        BY DEF Contract!Answers
                    <6>2. Contract!Tries(FALSE)
                        BY <5>1, <1>Counted
                    <6>. QED BY <2>3, <2>4, <2>7, <3>1, <5>1, <6>1, <6>2 DEF Contract!Tries
                <5>2. CASE \E answer \in Answers(Target(c)) :
                            /\ Reads(c, answer)
                            /\ status = "VERIFIED" <=> Done(answer, calls[c].action, calls[c].pair)
                    <6>1. PICK answer \in Answers(Target(c)) :
                            /\ Reads(c, answer)
                            /\ status = "VERIFIED" <=> Done(answer, calls[c].action, calls[c].pair)
                        BY <5>2
                    <6>2. /\ answer \in Contract!Answers(Target(c))
                          /\ Contract!Tries(answer # Target(c))
                        BY <3>1, <6>1, <1>Counted DEF Running
                    <6>3. Done(answer, calls[c].action, calls[c].pair)
                            <=> Contract!Done(answer, F.action, F.pair)
                        BY <2>3, <2>7, <3>1 DEF Done, PairPresent, PairAbsent,
                           Contract!Done, Contract!PairPresent, Contract!PairAbsent
                    <6>. QED BY <2>4, <6>1, <6>2, <6>3
                <5>. QED BY <4>1, <5>1, <5>2
            <4>8. F.live => (OutcomeOf(status) = "VERIFIED" <=> Contract!Done(answer, F.action, F.pair))
                BY <4>5, <4>7
            <4>9. Contract!Judge(c)
                BY <2>7, <3>1, <4>5, <4>6, <4>7, <4>8 DEF Contract!Judge
            <4>. QED BY <4>9 DEF Contract!CallStep
        <3>. QED BY <2>10, <3>2, <3>3 DEF ReadBack
    <2>11. CASE Record(c)
        <3> DEFINE g == [calls[c] EXCEPT !.pc = "reply"]
                   G == Shown(g)
        <3>1. /\ g \in Call /\ g.pc = "reply" /\ g.action = calls[c].action
              /\ g.req = calls[c].req /\ g.prof = calls[c].prof /\ g.status = calls[c].status
            BY <2>1 DEF Call, CallPc
        <3>2. calls' = [calls EXCEPT ![c] = g] /\ calls[c].pc = "record"
            BY <2>11 DEF Record, Resume
        <3> HIDE DEF g
        <3>3. ShownCalls' = [ShownCalls EXCEPT ![c] = G]
            BY <3>2, <1>ShownStep
        <3>4. /\ G \in Contract!Call /\ G.phase = "answering" /\ G.pair = NULL /\ G.live = FALSE
              /\ G.action = F.action /\ G.req = F.req /\ G.prof = F.prof /\ G.outcome = F.outcome
            BY <2>3, <3>1, ShownType DEF Works, PhaseOf
        <3>5. F.phase = "judged"
            BY <2>3, <3>2 DEF PhaseOf
        <3> HIDE DEF F, G
        <3>6. G = [F EXCEPT !.phase = "answering", !.outcome = F.outcome,
                            !.pair = NULL, !.live = FALSE]
            BY <2>1, <3>4 DEF Contract!Call
        <3>7. Contract!Answering(c, F.outcome)
            BY <3>3, <3>6 DEF Contract!Answering, Contract!Put, F
        <3>8. \/ UNCHANGED Mitigated /\ Contract!Tries(TRUE)
              \/ /\ Mitigated' = IF calls[c].action = "ACTIVATE" THEN Mitigated \cup {calls[c].prof}
                                 ELSE Mitigated \ {calls[c].prof}
                 /\ UNCHANGED faults
            <4>0. \/ UNCHANGED runtime /\ Fails(TRUE)
                  \/ /\ runtime' = [runtime EXCEPT ![calls[c].prof].state =
                            IF calls[c].action = "ACTIVATE" THEN "MITIGATED" ELSE "NORMAL"]
                     /\ UNCHANGED faults
                BY <2>11 DEF Record, Fails
            <4>1. CASE UNCHANGED runtime /\ Fails(TRUE)
                <5>1. Contract!Tries(TRUE)
                    BY <4>1, <1>Counted
                <5>. QED BY <4>1, <5>1 DEF Mitigated
            <4>2. CASE /\ runtime' = [runtime EXCEPT ![calls[c].prof].state =
                            IF calls[c].action = "ACTIVATE" THEN "MITIGATED" ELSE "NORMAL"]
                       /\ UNCHANGED faults
                <5>1. \A p \in Profiles : runtime'[p].state =
                        IF p = calls[c].prof
                        THEN IF calls[c].action = "ACTIVATE" THEN "MITIGATED" ELSE "NORMAL"
                        ELSE runtime[p].state
                    BY <4>2 DEF TypeInv, TypeOK, Runtime
                <5>2. Mitigated' = IF calls[c].action = "ACTIVATE" THEN Mitigated \cup {calls[c].prof}
                                   ELSE Mitigated \ {calls[c].prof}
                    BY <2>2, <5>1 DEF Mitigated
                <5>. QED BY <4>2, <5>2
            <4>. QED BY <4>0, <4>1, <4>2
        <3>9. UNCHANGED <<device, processed>>
            BY <2>11 DEF Record, memory
        <3>10. Contract!Book(c)
            BY <2>3, <3>5, <3>7, <3>8, <3>9 DEF Contract!Book, F
        <3>. QED BY <3>10 DEF Contract!CallStep
    <2>12. CASE Reply(c)
        <3>1. /\ calls[c].pc = "reply" /\ calls' = [calls EXCEPT ![c] = NoCall("done")]
              /\ UNCHANGED <<device, Mitigated, faults>>
            BY <2>12 DEF Reply, Mitigated, db
        <3>2. Shown(NoCall("done")) = Contract!NoCall("over")
            BY DEF Shown, Works, PhaseOf, OutcomeOf, NoCall, Contract!NoCall
        <3>3. Contract!Put(c, Contract!NoCall("over"))
            BY <3>1, <3>2, <1>ShownStep DEF Contract!Put
        <3>4. F.phase = "answering"
            BY <2>3, <3>1 DEF PhaseOf
        <3>5. F.outcome = "VERIFIED" <=> calls[c].status = "VERIFIED"
            BY <2>3 DEF OutcomeOf
        <3>6. processed' = processed \cup (IF F.outcome = "VERIFIED" THEN {F.req} ELSE {})
            BY <2>3, <2>12, <3>5 DEF Reply
        <3>7. Contract!Answer(c)
            BY <3>1, <3>3, <3>4, <3>6 DEF Contract!Answer
        <3>. QED BY <3>7 DEF Contract!CallStep
    <2>. QED BY <2>8, <2>9, <2>10, <2>11, <2>12
\* The steps of a discovery: a target may be found to be no longer mitigated.
<1>ContractScan. ASSUME TypeInv, NEW s \in Scans, ScanStep(s)
      PROVE  [Contract!Next]_Contract!vars
    <2> USE <1>ContractScan
    <2>1. UNCHANGED <<device, processed, ShownCalls>>
        BY DEF ScanStep, ScanRead, ScanTarget, ScanUpsert, ScanReconcile, ScanDisable,
               ScanCache, memory, ShownCalls
    <2>2. ASSUME UNCHANGED runtime
          PROVE  [Contract!Next]_Contract!vars
        <3>1. UNCHANGED Mitigated
            BY <2>2 DEF Mitigated
        <3>2. faults' = faults \/ Contract!Tries(TRUE)
            BY DEF ScanStep, ScanRead, ScanTarget, ScanUpsert, ScanReconcile, ScanDisable,
                   ScanCache, Fails, Contract!Tries
        <3>3. UNCHANGED Contract!vars \/ Contract!Fault
            BY <2>1, <3>1, <3>2 DEF Contract!vars, Contract!Fault
        <3>. QED BY <3>3 DEF Contract!Next
    <2>3. ASSUME NEW p \in Profiles, NEW row, UNCHANGED faults,
                 row.state # "MITIGATED" \/ row.state = runtime[p].state,
                 runtime' = [runtime EXCEPT ![p] = row]
          PROVE  [Contract!Next]_Contract!vars
        <3>1. \A q \in Profiles :
                runtime'[q].state = IF q = p THEN row.state ELSE runtime[q].state
            BY <2>3 DEF TypeInv, TypeOK
        <3>2. CASE row.state = "MITIGATED"
            <4>1. Mitigated' = Mitigated
                BY <2>3, <3>1, <3>2 DEF Mitigated
            <4>. QED BY <2>1, <2>3, <4>1 DEF Contract!vars
        <3>3. CASE row.state # "MITIGATED"
            <4>1. Mitigated' = Mitigated \ {p}
                BY <3>1, <3>3 DEF Mitigated
            <4>2. Contract!Reconcile(p)
                BY <2>1, <2>3, <4>1 DEF Contract!Reconcile
            <4>. QED BY <4>2 DEF Contract!Next
        <3>. QED BY <3>2, <3>3
    <2>4. CASE ScanUpsert(s)
        <3> DEFINE f == scans[s]
                   plan == PlanOf(f.conf, f.at)
                   state == IF plan = NULL \/ f.scope[f.at] = "exceeded"
                            THEN "RECONCILIATION_REQUIRED"
                            ELSE IF f.state \in {"NONE", "DISABLED", "RECONCILIATION_REQUIRED"}
                            THEN "NORMAL" ELSE runtime[f.at].state
                   row == [state |-> state, pair |-> plan]
        <3>1. f.at \in Profiles
            BY <2>4 DEF ScanUpsert, TypeInv, FramesOK
        <3>2. \/ UNCHANGED runtime
              \/ runtime' = [runtime EXCEPT ![f.at] = row] /\ UNCHANGED faults
            BY <2>4 DEF ScanUpsert, Fails
        <3>3. row.state # "MITIGATED" \/ row.state = runtime[f.at].state
            OBVIOUS
        <3> HIDE DEF row, f
        <3>. QED BY <2>2, <2>3, <3>1, <3>2, <3>3
    <2>5. ASSUME NEW p \in Profiles, ScanDisable(s, p)
          PROVE  [Contract!Next]_Contract!vars
        <3> DEFINE row == [runtime[p] EXCEPT !.state = "DISABLED"]
        <3>1. row.state = "DISABLED"
            BY DEF TypeInv, TypeOK, Runtime
        <3>2. \/ UNCHANGED runtime
              \/ runtime' = [runtime EXCEPT ![p] = row] /\ UNCHANGED faults
            BY <2>5 DEF ScanDisable, Fails
        <3> HIDE DEF row
        <3>. QED BY <2>2, <2>3, <3>1, <3>2
    <2>6. CASE ScanRead(s) \/ ScanReconcile(s) \/ ScanCache(s) \/ \E p \in Profiles : ScanTarget(s, p)
        BY <2>2, <2>6 DEF ScanRead, ScanReconcile, ScanCache, ScanTarget, db
    <2>. QED BY <2>4, <2>5, <2>6 DEF ScanStep
\* What happens around the commands.
<1>ContractAround. ASSUME TypeInv,
             \/ \E p \in Profiles : ToggleExclusion(p) \/ TogglePeerExclusion(p)
             \/ \E e \in Edits : OperatorEdit(e)
             \/ Restart
      PROVE  [Contract!Next]_Contract!vars
    <2> USE <1>ContractAround
    <2>1. UNCHANGED <<Mitigated, faults>>
        BY DEF ToggleExclusion, TogglePeerExclusion, OperatorEdit, Restart, db, Mitigated
    <2>2. CASE \E p \in Profiles : ToggleExclusion(p) \/ TogglePeerExclusion(p)
        <3>1. UNCHANGED <<device, processed, ShownCalls>>
            BY <2>2 DEF ToggleExclusion, TogglePeerExclusion, memory, ShownCalls
        <3>. QED BY <2>1, <3>1 DEF Contract!vars
    <2>3. CASE \E e \in Edits : OperatorEdit(e)
        <3>1. PICK e \in Edits : OperatorEdit(e)
            BY <2>3
        <3>2. /\ e.policy \in Policies /\ e.node \in NodeIds
              /\ e.kind \in {"free"} \cup Contract!ForeignKind
            BY CommandAssumption DEF ForeignKind, Contract!ForeignKind
        <3>3. UNCHANGED <<processed, ShownCalls>>
            BY <3>1 DEF OperatorEdit, memory, ShownCalls
        <3>4. Contract!Edit(e.policy, e.node, e.kind)
            BY <2>1, <3>1, <3>3 DEF OperatorEdit, Contract!Edit
        <3>. QED BY <3>2, <3>4 DEF Contract!Next
    <2>4. CASE Restart
        <3>1. device' = device /\ processed' = {}
            BY <2>4 DEF Restart
        <3>2. \A c \in Calls : calls'[c] = IF Running(c) THEN NoCall("done") ELSE calls[c]
            BY <2>4 DEF Restart
        <3>3. ShownCalls' = [c \in Calls |-> Shown(calls'[c])]
            BY DEF ShownCalls, Shown, Works
        <3>4. ShownCalls = [c \in Calls |-> Shown(calls[c])]
            BY DEF ShownCalls
        <3>5. Shown(NoCall("done")) = Contract!NoCall("over")
            BY DEF Shown, Works, PhaseOf, OutcomeOf, NoCall, Contract!NoCall
        <3>6. ASSUME NEW c \in Calls
              PROVE  Shown(calls'[c]) = IF ShownCalls[c].phase \in {"new", "over"}
                                        THEN ShownCalls[c] ELSE Contract!NoCall("over")
            <4>1. calls[c] \in Call /\ calls[c].pc \in CallPc
                BY DEF TypeInv, TypeOK, Call
            <4>2. ShownCalls[c] = Shown(calls[c]) /\ ShownCalls[c].phase = PhaseOf(calls[c].pc)
                BY <3>4, <4>1, ShownType
            <4>3. PhaseOf(calls[c].pc) \in {"new", "over"} <=> ~Running(c)
                BY <4>1 DEF PhaseOf, Running, CallPc
            <4>. QED BY <3>2, <3>5, <4>2, <4>3
        <3>7. Contract!Restart
            <4> HIDE DEF ShownCalls
            <4>. QED BY <2>1, <3>1, <3>3, <3>6 DEF Contract!Restart
        <3>. QED BY <3>7 DEF Contract!Next
    <2>. QED BY <2>2, <2>3, <2>4
<1>1. TypeInv /\ [Next]_vars => [Contract!Next]_Contract!vars
    <2> SUFFICES ASSUME TypeInv, [Next]_vars PROVE [Contract!Next]_Contract!vars
        OBVIOUS
    <2>1. CASE UNCHANGED vars
        <3>1. UNCHANGED <<device, Mitigated, processed, ShownCalls, faults>>
            BY <2>1 DEF vars, db, memory, Mitigated, ShownCalls
        <3>. QED BY <3>1 DEF Contract!vars
    <2>2. ASSUME NEW c \in Calls, CallStep(c)
          PROVE  [Contract!Next]_Contract!vars
        <3>1. Contract!CallStep(c) \/ Contract!Fault \/ UNCHANGED Contract!vars
            BY <2>2, <1>ContractDeciding, <1>ContractWriting DEF CallStep
        <3>. QED BY <3>1 DEF Contract!Next
    <2>3. ASSUME NEW s \in Scans, ScanStep(s)
          PROVE  [Contract!Next]_Contract!vars
        BY <2>3, <1>ContractScan
    <2>. QED BY <2>1, <2>2, <2>3, <1>ContractAround DEF Next
<1>2. Init => Contract!Init
    <2> SUFFICES ASSUME Init PROVE Contract!Init
        OBVIOUS
    <2>1. Mitigated = {}
        BY DEF Init, Mitigated
    <2>2. Shown(NoCall("new")) = Contract!NoCall("new")
        BY DEF Shown, Works, PhaseOf, OutcomeOf, NoCall, Contract!NoCall
    <2>3. ShownCalls = [c \in Calls |-> Contract!NoCall("new")]
        BY <2>2 DEF Init, ShownCalls
    <2>. QED BY <2>1, <2>3 DEF Init, Contract!Init
<1>. QED BY <1>1, <1>2, TypeInvHolds, PTL DEF Spec, KeepsContract, Contract!Spec
=============================================================================
