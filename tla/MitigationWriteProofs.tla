------------------------ MODULE MitigationWriteProofs ------------------------
(***************************************************************************)
(* Proofs about what the commands of MitigationCommand write to the device *)
(* and what they then claim of it: the node pairs, the preflight and its   *)
(* snapshot, the read-back, and that a removal works. Every invariant is   *)
(* shown step by step: the call's own steps one by one, everybody else's   *)
(* by Spared.                                                              *)
(***************************************************************************)
EXTENDS MitigationCommandProofs, NaturalSets

-----------------------------------------------------------------------------
(* Where a plan comes from                                                  *)

\* What selectNodePair promises of a pair that is not null.
Fits(pr) == pr # NULL => pr.bogon < pr.mitigation /\ SafePair(pr)

\* Only a REMOVE takes its pair from the device.
PlanInv ==
    /\ \A p \in Profiles : Fits(runtime[p].pair)
    /\ \A c \in Calls : Activating(c) => Fits(calls[c].pair)
    /\ \A c \in Calls : calls[c].pc = "resolve" => ~Activating(c)

\* Every stored plan and every pair an ACTIVATE works with has its BOGONS node
\* before its mitigation node, both within the temporary range.
THEOREM PlansFit == Spec => []PlanFits
\* The plan discovery writes fits, whatever it has read.
<1>PlanOfFits. ASSUME NEW conf, NEW p
      PROVE  Fits(PlanOf(conf, p))
    <2>. SUFFICES ASSUME PlanOf(conf, p) # NULL
                  PROVE  LET pr == PlanOf(conf, p) IN pr.bogon < pr.mitigation /\ SafePair(pr)
        BY DEF Fits
    <2>1. PlanOf(conf, p) = SelectNodePair(NormalNodes(conf[PolicyOf[p]]),
                                           ExistingNodes(conf[PolicyOf[p]]))
        BY DEF PlanOf, PlanFor
    <2>. QED BY <2>1, SelectNodePairFits
<1>PlanRows. ASSUME TypeInv, PlanInv, [Next]_vars, NEW p \in Profiles
      PROVE  Fits(runtime'[p].pair)
    <2> USE <1>PlanRows
    <2>1. Fits(runtime[p].pair) /\ runtime \in [Profiles -> Runtime]
        BY DEF PlanInv, TypeInv, TypeOK
    <2>2. CASE \E s \in Scans : ScanUpsert(s)
        <3>1. PICK s \in Scans : ScanUpsert(s)
            BY <2>2
        <3>2. \/ runtime' = runtime
              \/ \E state : runtime' = [runtime EXCEPT ![scans[s].at] =
                                [state |-> state, pair |-> PlanOf(scans[s].conf, scans[s].at)]]
            BY <3>1 DEF ScanUpsert
        <3>3. ASSUME NEW state, runtime' = [runtime EXCEPT ![scans[s].at] =
                                [state |-> state, pair |-> PlanOf(scans[s].conf, scans[s].at)]]
              PROVE  runtime'[p].pair \in {runtime[p].pair,
                                           PlanOf(scans[s].conf, scans[s].at)}
            BY <2>1, <3>3
        <3>4. Fits(PlanOf(scans[s].conf, scans[s].at))
            BY <1>PlanOfFits
        <3>. QED BY <2>1, <3>2, <3>3, <3>4
    <2>3. CASE \/ \E c \in Calls : Record(c)
               \/ \E s \in Scans, q \in Profiles : ScanDisable(s, q)
        <3>1. \/ runtime' = runtime
              \/ \E state, q : runtime' = [runtime EXCEPT ![q].state = state]
            BY <2>3 DEF Record, ScanDisable
        <3>2. runtime'[p].pair = runtime[p].pair
            BY <2>1, <3>1 DEF Runtime
        <3>. QED BY <2>1, <3>2
    <2>4. CASE ~\/ \E s \in Scans : ScanUpsert(s)
                \/ \E c \in Calls : Record(c)
                \/ \E s \in Scans, q \in Profiles : ScanDisable(s, q)
        <3>1. runtime' = runtime
            BY <2>4 DEF Next, vars, db, CallStep, Begin, LoadProfile, LoadContext, Resolve,
                   Gate, Preflight, WriteLive, WriteMock, ReadBack, Reply, ScanStep, ScanRead,
                   ScanTarget, ScanReconcile, ScanCache, ToggleExclusion,
                   TogglePeerExclusion, OperatorEdit, Restart
        <3>. QED BY <2>1, <3>1
    <2>. QED BY <2>2, <2>3, <2>4
<1>PlanFrames. ASSUME TypeInv, PlanInv, NEW c \in Calls, CallStep(c)
      PROVE  /\ Activating(c)' => Fits(calls'[c].pair)
             /\ calls'[c].pc = "resolve" => ~Activating(c)'
    <2> USE <1>PlanFrames
    <2>1. /\ calls \in [Calls -> Call] /\ calls[c] \in Call
          /\ Activating(c) => Fits(calls[c].pair)
        BY DEF TypeInv, TypeOK, PlanInv
    <2>2. Fits(NULL)
        BY DEF Fits
    <2>3. CASE \E a \in Actions, r \in RequestIds, p \in Profiles : Begin(c, a, r, p)
        <3>1. PICK a \in Actions, r \in RequestIds, p \in Profiles : Begin(c, a, r, p)
            BY <2>3
        <3> DEFINE f == [NoCall("new") EXCEPT !.action = a, !.req = r, !.prof = p]
        <3>2. Return(c, f, "CACHED") \/ Resume(c, f, "profile")
            BY <3>1 DEF Begin
        <3>3. f \in Call /\ f.pair = NULL
            BY ValueTypes DEF Call, NoCall
        <3> HIDE DEF f
        <3>4. calls'[c].pair = NULL /\ calls'[c].pc \in {"reply", "profile"}
            <4>1. CASE Return(c, f, "CACHED")
                BY <2>1, <3>3, <4>1, ReturnedFrame
            <4>2. CASE Resume(c, f, "profile")
                BY <2>1, <3>3, <4>2 DEF Resume, Call
            <4>. QED BY <3>2, <4>1, <4>2
        <3>. QED BY <2>2, <3>4
    <2>4. CASE LoadContext(c)
        <3>1. calls[c].prof \in Profiles
            BY <2>4 DEF LoadContext, TypeInv, FramesOK, Running
        <3>2. /\ calls'[c].action = calls[c].action
              /\ calls'[c].pair \in {NULL, runtime[calls[c].prof].pair}
              /\ calls'[c].pc = "resolve" => calls[c].action = "REMOVE"
            BY <2>1, <2>4 DEF LoadContext, Resume, Call, Actions
        <3>. QED BY <2>2, <3>1, <3>2 DEF PlanInv, Activating
    <2>5. CASE Resolve(c)
        <3>1. calls[c].action # "ACTIVATE"
            BY <2>5 DEF Resolve, PlanInv, Activating
        <3>2. calls'[c].action = calls[c].action
            BY <2>1, <2>5 DEF Resolve, Resume, Call
        <3>. QED BY <3>1, <3>2 DEF Activating
    <2>6. CASE LoadProfile(c) \/ Gate(c) \/ Preflight(c) \/ WriteLive(c) \/ WriteMock(c)
               \/ ReadBack(c) \/ Record(c)
        <3>1. \/ \E status : Return(c, calls[c], status)
              \/ \E x \in BOOLEAN, pc \in {"context", "preflight"} :
                    Resume(c, [calls[c] EXCEPT !.excl = x], pc)
              \/ \E pc \in {"write", "readback", "reply"} : Resume(c, calls[c], pc)
              \/ \E status \in Status : Resume(c, [calls[c] EXCEPT !.status = status], "record")
            <4>1. CASE ReadBack(c)
                BY <4>1 DEF ReadBack, Status
            <4>2. CASE LoadProfile(c) \/ Gate(c) \/ Preflight(c) \/ WriteLive(c)
                       \/ WriteMock(c) \/ Record(c)
                BY <2>1, <4>2 DEF LoadProfile, Gate, Preflight, WriteLive, WriteMock, Record,
                                  TypeInv, TypeOK, FramesOK, Running
            <4>. QED BY <2>6, <4>1, <4>2
        <3>2. /\ calls'[c].action = calls[c].action
              /\ calls'[c].pair \in {NULL, calls[c].pair}
              /\ calls'[c].pc # "resolve"
            <4>1. CASE \E status : Return(c, calls[c], status)
                BY <2>1, <4>1 DEF Return, Call
            <4>2. CASE \E x \in BOOLEAN, pc \in {"context", "preflight"} :
                        Resume(c, [calls[c] EXCEPT !.excl = x], pc)
                BY <2>1, <4>2 DEF Resume, Call
            <4>3. CASE \E pc \in {"write", "readback", "reply"} : Resume(c, calls[c], pc)
                BY <2>1, <4>3 DEF Resume, Call
            <4>4. CASE \E status \in Status :
                        Resume(c, [calls[c] EXCEPT !.status = status], "record")
                BY <2>1, <4>4 DEF Resume, Call
            <4>. QED BY <3>1, <4>1, <4>2, <4>3, <4>4
        <3>. QED BY <2>1, <2>2, <3>2 DEF Activating
    <2>7. CASE Reply(c)
        BY <2>1, <2>2, <2>7 DEF Reply, NoCall, Activating
    <2>. QED BY <2>3, <2>4, <2>5, <2>6, <2>7 DEF CallStep
<1>PlanNext. TypeInv /\ PlanInv /\ [Next]_vars => PlanInv'
    <2> SUFFICES ASSUME TypeInv, PlanInv, [Next]_vars
                 PROVE  PlanInv'
        OBVIOUS
    <2>1. ASSUME NEW c \in Calls
          PROVE  /\ Activating(c)' => Fits(calls'[c].pair)
                 /\ calls'[c].pc = "resolve" => ~Activating(c)'
        <3>1. CASE CallStep(c)
            BY <3>1, <1>PlanFrames
        <3>2. CASE Restart
            <4>1. calls'[c] = calls[c] \/ calls'[c] = NoCall("done")
                BY <3>2 DEF Restart
            <4>. QED BY <4>1 DEF PlanInv, Activating, NoCall, Fits
        <3>3. CASE ~CallStep(c) /\ ~Restart
            BY <3>3, SparedByOthers DEF Spared, PlanInv, Activating
        <3>. QED BY <3>1, <3>2, <3>3
    <2>. QED BY <2>1, <1>PlanRows DEF PlanInv
<1>1. Init => PlanInv
    BY DEF Init, PlanInv, NoCall, Fits, Activating
<1>2. PlanInv => PlanFits
    BY DEF PlanInv, PlanFits, Fits
<1>. QED BY <1>1, <1>2, <1>PlanNext, TypeInvHolds, PTL DEF Spec

-----------------------------------------------------------------------------
(* The way to a write                                                       *)

\* A call comes to its write from its preflight only, which has passed.
LEMMA ReachesWrite ==
    ASSUME TypeInv, NEW c \in Calls, CallStep(c), AboutToWrite(c)'
    PROVE  /\ calls[c].pc = "preflight"
           /\ calls'[c].action = calls[c].action
           /\ calls'[c].prof = calls[c].prof
           /\ calls'[c].live = calls[c].live
           /\ calls'[c].pair = calls[c].pair
           /\ calls[c].pair # NULL
           /\ calls[c].live =>
                \E answer \in Answers(Target(c)) : PreflightOk(c, answer) /\ Reads(c, answer)
           /\ device' = device
           /\ snapshot' = snapshot
<1>1. calls \in [Calls -> Call] /\ calls[c] \in Call
    BY DEF TypeInv, TypeOK
<1>2. CASE Preflight(c)
    <2>1. \/ /\ Resume(c, calls[c], "write")
             /\ calls[c].pair # NULL
             /\ calls[c].live =>
                \E answer \in Answers(Target(c)) : PreflightOk(c, answer) /\ Reads(c, answer)
          \/ Return(c, calls[c], "REVALIDATION_FAILED")
        BY <1>2 DEF Preflight
    <2>2. ~Return(c, calls[c], "REVALIDATION_FAILED")
        BY <1>1, ReturnedFrame DEF AboutToWrite
    <2>3. device' = device /\ snapshot' = snapshot
        BY <1>2 DEF Preflight, memory
    <2>4. calls[c].pc = "preflight"
        BY <1>2 DEF Preflight
    <2>. QED BY <1>1, <2>1, <2>2, <2>3, <2>4, ResumedFrame
<1>3. CASE \E a \in Actions, r \in RequestIds, p \in Profiles : Begin(c, a, r, p)
    <2>1. PICK a \in Actions, r \in RequestIds, p \in Profiles : Begin(c, a, r, p)
        BY <1>3
    <2> DEFINE f == [NoCall("new") EXCEPT !.action = a, !.req = r, !.prof = p]
    <2>2. Return(c, f, "CACHED") \/ Resume(c, f, "profile")
        BY <2>1 DEF Begin
    <2>3. f \in Call
        BY ValueTypes DEF Call, NoCall
    <2> HIDE DEF f
    <2>4. CASE Return(c, f, "CACHED")
        BY <1>1, <2>3, <2>4, ReturnedFrame DEF AboutToWrite
    <2>5. CASE Resume(c, f, "profile")
        BY <1>1, <2>3, <2>5 DEF Resume, Call, AboutToWrite
    <2>. QED BY <2>2, <2>4, <2>5
<1>4. CASE LoadProfile(c) \/ LoadContext(c) \/ Resolve(c)
    <2>1. CASE LoadProfile(c)
        BY <1>1, <2>1 DEF LoadProfile, Resume, Return, Call, AboutToWrite
    <2>2. CASE LoadContext(c)
        BY <1>1, <2>2 DEF LoadContext, Resume, Call, Actions, AboutToWrite
    <2>3. CASE Resolve(c)
        BY <1>1, <2>3 DEF Resolve, Resume, Call, AboutToWrite
    <2>. QED BY <1>4, <2>1, <2>2, <2>3
<1>5. CASE ReadBack(c) \/ Record(c)
    <2>1. CASE ReadBack(c)
        <3>1. \A status \in Status : [calls[c] EXCEPT !.status = status] \in Call
            BY <1>1 DEF Call
        <3>2. \/ \E status \in Status :
                    Resume(c, [calls[c] EXCEPT !.status = status], "record")
              \/ Return(c, calls[c], "REVALIDATION_FAILED")
            BY <2>1 DEF ReadBack, Status
        <3>3. CASE Return(c, calls[c], "REVALIDATION_FAILED")
            BY <1>1, <3>3, ReturnedFrame DEF AboutToWrite
        <3>4. CASE \E status \in Status :
                    Resume(c, [calls[c] EXCEPT !.status = status], "record")
            BY <1>1, <3>1, <3>4 DEF Resume, Call, AboutToWrite
        <3>. QED BY <3>2, <3>3, <3>4
    <2>2. CASE Record(c)
        <3>1. Resume(c, calls[c], "reply")
            BY <2>2 DEF Record
        <3>. QED BY <1>1, <3>1 DEF Resume, Call, AboutToWrite
    <2>. QED BY <1>5, <2>1, <2>2
<1>6. CASE WriteLive(c) \/ WriteMock(c)
    <2>1. \/ Resume(c, calls[c], "readback")
          \/ Return(c, calls[c], "REVALIDATION_FAILED")
        BY <1>6 DEF WriteLive, WriteMock
    <2>. QED BY <1>1, <2>1, ResumedFrame, ReturnedFrame DEF AboutToWrite
<1>7. CASE Reply(c)
    BY <1>1, <1>7 DEF Reply, NoCall, AboutToWrite
<1>8. CASE Gate(c)
    BY <1>1, <1>8 DEF Gate, Resume, Return, Call, AboutToWrite
<1>. QED BY <1>2, <1>3, <1>4, <1>5, <1>6, <1>7, <1>8 DEF CallStep

-----------------------------------------------------------------------------
(* The snapshot of the discovery                                            *)

\* No live ACTIVATE is written unless this process discovered the target since
\* it started, however many restarts, discoveries and commands there are.
THEOREM SnapshotRequired == Spec => []ActivationNeedsSnapshot
<1>SnapshotNext. TypeInv /\ ActivationNeedsSnapshot /\ [Next]_vars => ActivationNeedsSnapshot'
    <2> SUFFICES ASSUME TypeInv, ActivationNeedsSnapshot, [Next]_vars, NEW c \in Calls,
                        AboutToWrite(c)', calls'[c].live, Activating(c)'
                 PROVE  snapshot'[calls'[c].prof] # NULL
        BY DEF ActivationNeedsSnapshot
    <2>1. CASE CallStep(c)
        <3>1. \E answer : PreflightOk(c, answer) /\ Activating(c)
            BY <2>1, ReachesWrite DEF Activating
        <3>2. snapshot[calls[c].prof] # NULL
            BY <3>1 DEF PreflightOk, Activating
        <3>. QED BY <2>1, <3>2, ReachesWrite
    <2>2. CASE Restart
        BY <2>2 DEF Restart, AboutToWrite, Running, NoCall, TypeInv, TypeOK
    <2>3. CASE ~CallStep(c) /\ ~Restart
        <3>1. calls'[c] = calls[c]
            BY <2>3, SparedByOthers DEF Spared
        <3>2. snapshot[calls[c].prof] # NULL /\ calls[c].prof \in Profiles
            BY <3>1 DEF ActivationNeedsSnapshot, AboutToWrite, Activating,
                        TypeInv, FramesOK, Running
        <3>3. CASE \E s \in Scans : ScanCache(s)
            <4>1. PICK s \in Scans : ScanCache(s)
                BY <3>3
            <4>2. \A policy : ExistingNodes(policy) # NULL
                BY CommandAssumption DEF ExistingNodes
            <4>3. {} # NULL
                BY CommandAssumption
            <4>4. \/ snapshot' = snapshot
                  \/ \E p, nodes : nodes # NULL /\ snapshot' = [snapshot EXCEPT ![p] = nodes]
                <5> HIDE DEF ExistingNodes
                <5>. QED BY <4>1, <4>2, <4>3 DEF ScanCache
            <4>5. snapshot \in [Profiles -> (SUBSET NodeIds) \cup {NULL}]
                BY DEF TypeInv, TypeOK
            <4>. QED BY <3>1, <3>2, <4>4, <4>5
        <3>4. CASE ~\E s \in Scans : ScanCache(s)
            <4>1. snapshot' = snapshot
                BY <2>3, <3>4 DEF Next, vars, memory, CallStep, Begin, LoadProfile,
                       LoadContext, Resolve, Gate, Preflight, WriteLive, WriteMock, ReadBack,
                       Record, Reply, ScanStep, ScanRead, ScanTarget, ScanUpsert,
                       ScanReconcile, ScanDisable, ToggleExclusion, TogglePeerExclusion,
                       OperatorEdit
            <4>. QED BY <3>1, <3>2, <4>1
        <3>. QED BY <3>3, <3>4
    <2>. QED BY <2>1, <2>2, <2>3
<1>1. Init => ActivationNeedsSnapshot
    BY DEF Init, ActivationNeedsSnapshot, AboutToWrite, NoCall
<1>. QED BY <1>1, <1>SnapshotNext, TypeInvHolds, PTL DEF Spec

-----------------------------------------------------------------------------
(* The nodes a live command writes                                          *)

\* A live command writes over nothing but the nodes its preflight cleared, save
\* what it was not shown and what others changed between preflight and write.
THEOREM ClearedNodes == Spec => []OnlyClearedNodesWritten
<1>ClearedNext. TypeInv /\ OnlyClearedNodesWritten /\ [Next]_vars => OnlyClearedNodesWritten'
    <2> DEFINE Clear(c, n, kind) ==
            \/ n \in seen[c].unseen
            \/ Target(c)[n] = (IF Activating(c) THEN "free" ELSE kind)
    <2> SUFFICES ASSUME TypeInv, OnlyClearedNodesWritten, [Next]_vars, NEW c \in Calls,
                        AboutToWrite(c)', calls'[c].live
                 PROVE  /\ Clear(c, calls[c].pair.bogon, "bogon")'
                        /\ Clear(c, calls[c].pair.mitigation, "mitigation")'
        BY DEF OnlyClearedNodesWritten
    <2>1. CASE CallStep(c)
        <3>1. /\ calls[c].pair \in Pair /\ calls[c].prof \in Profiles
              /\ PolicyOfCall(c) \in Policies
            BY <2>1, ReachesWrite, CommandAssumption
               DEF TypeInv, TypeOK, FramesOK, Running, Call, PolicyOfCall
        <3>2. calls[c].pair.bogon \in NodeIds /\ calls[c].pair.mitigation \in NodeIds
            BY <3>1 DEF Pair
        <3>3. PICK answer \in Answers(Target(c)) : PreflightOk(c, answer) /\ Reads(c, answer)
            BY <2>1, ReachesWrite
        <3>4. Target(c)' = Target(c)
            BY <2>1, ReachesWrite DEF Target, PolicyOfCall
        <3>5. \A n \in NodeIds : answer[n] = Target(c)[n] \/ n \in seen'[c].unseen
            <4>1. seen'[c].unseen = ChangedNodes(Target(c), answer)
                BY <3>3 DEF Reads, TypeInv, TypeOK, Witness
            <4>. QED BY <4>1 DEF ChangedNodes
        <3>6. CASE Activating(c)
            <4>1. answer[calls[c].pair.bogon] = "free" /\ answer[calls[c].pair.mitigation] = "free"
                BY <3>2, <3>3, <3>6 DEF PreflightOk, NodesOf, ExistingNodes, Activating
            <4>. QED BY <2>1, <3>2, <3>4, <3>5, <3>6, <4>1, ReachesWrite DEF Activating
        <3>7. CASE ~Activating(c)
            <4>1. PairPresent(answer, calls[c].pair)
                BY <3>3, <3>7 DEF PreflightOk, Activating
            <4>. QED BY <2>1, <3>2, <3>4, <3>5, <3>7, <4>1, ReachesWrite DEF PairPresent, Activating
        <3>. QED BY <3>6, <3>7
    <2>2. CASE Restart
        BY <2>2 DEF Restart, AboutToWrite, Running, NoCall, TypeInv, TypeOK
    <2>3. CASE ~CallStep(c) /\ ~Restart
        <3>1. Spared(c)
            BY <2>3, SparedByOthers
        <3>2. calls'[c] = calls[c] /\ calls[c].pc = "write" /\ Running(c)
            BY <3>1 DEF Spared, AboutToWrite, Running
        <3>3. calls[c].pair.bogon \in NodeIds /\ calls[c].pair.mitigation \in NodeIds
            BY <3>2 DEF TypeInv, FramesOK, Pair
        <3>4. /\ Clear(c, calls[c].pair.bogon, "bogon")
              /\ Clear(c, calls[c].pair.mitigation, "mitigation")
            BY <3>2 DEF OnlyClearedNodesWritten, AboutToWrite
        <3>5. Target(c)' = device'[PolicyOfCall(c)] /\ Activating(c)' = Activating(c)
            BY <3>2 DEF Target, PolicyOfCall, Activating
        <3>6. \A n \in NodeIds :
                \/ n \in seen'[c].unseen
                \/ n \notin seen[c].unseen /\ Target(c)'[n] = Target(c)[n]
            BY <3>1, <3>2, <3>5 DEF Spared, Target
        <3>. QED BY <3>2, <3>3, <3>4, <3>5, <3>6
    <2>. QED BY <2>1, <2>2, <2>3
<1>1. Init => OnlyClearedNodesWritten
    BY DEF Init, OnlyClearedNodesWritten, AboutToWrite, NoCall
<1>. QED BY <1>1, <1>ClearedNext, TypeInvHolds, PTL DEF Spec

-----------------------------------------------------------------------------
(* The read-back                                                            *)

\* A call that will answer "verified" knows its pair, which the device has as
\* the call says, save what its read-back was not shown of a removal, unless
\* somebody else has changed the policy since it began.
Proved(c) ==
    calls[c].pc \in {"record", "reply"} /\ calls[c].status = "VERIFIED" =>
        /\ calls[c].pair \in Pair
        /\ calls[c].live /\ seen[c].calm =>
                IF Activating(c) THEN PairPresent(Target(c), calls[c].pair)
                ELSE \A n \in NodesOf(calls[c].pair) :
                        Target(c)[n] = "free" \/ n \in seen[c].unseen

VerifiedInv == \A c \in Calls : Proved(c)

\* What a live ACTIVATE has answered "verified" for is on the device, whatever
\* the SSH session did with the write, until somebody else changes the policy;
\* what a live REMOVE has, is gone save for nodes its read-back was not shown.
THEOREM ReadBackProves == Spec => []VerifiedIsOnTheDevice
<1>VerifiedOwnStep. ASSUME TypeInv, VerifiedInv, NEW c \in Calls, CallStep(c)
      PROVE  Proved(c)'
    <2> USE <1>VerifiedOwnStep
    <2>1. calls \in [Calls -> Call] /\ calls[c] \in Call /\ seen \in [Calls -> Witness]
        BY DEF TypeInv, TypeOK
    <2>2. CASE ReadBack(c)
        <3>1. device' = device /\ calls[c].pair \in Pair /\ calls[c].prof \in Profiles
            BY <2>2 DEF ReadBack, TypeInv, FramesOK, Running
        <3>2. CASE Return(c, calls[c], "REVALIDATION_FAILED")
            BY <2>1, <3>2, ReturnedFrame DEF Proved
        <3>3. CASE ~Return(c, calls[c], "REVALIDATION_FAILED")
            <4>1. PICK answer :
                    /\ Resume(c, [calls[c] EXCEPT !.status =
                                    IF Done(answer, calls[c].action, calls[c].pair)
                                    THEN "VERIFIED" ELSE "REVALIDATION_FAILED"], "record")
                    /\ calls[c].live => answer \in Answers(Target(c)) /\ Reads(c, answer)
                BY <2>2, <3>3 DEF ReadBack
            <4> DEFINE status == IF Done(answer, calls[c].action, calls[c].pair)
                                 THEN "VERIFIED" ELSE "REVALIDATION_FAILED"
                       f == [calls[c] EXCEPT !.status = status]
            <4>2. /\ f.status = status /\ f \in Call
                  /\ f.action = calls[c].action /\ f.prof = calls[c].prof
                  /\ f.live = calls[c].live /\ f.pair = calls[c].pair
                BY <2>1 DEF Call, Status
            <4>3. Resume(c, f, "record")
                BY <4>1
            <4> HIDE DEF f
            <4>4. /\ calls'[c].status = status
                  /\ calls'[c].action = calls[c].action /\ calls'[c].prof = calls[c].prof
                  /\ calls'[c].live = calls[c].live /\ calls'[c].pair = calls[c].pair
                BY <2>1, <4>2, <4>3, ResumedFrame
            <4>5. status = "VERIFIED" <=> Done(answer, calls[c].action, calls[c].pair)
                OBVIOUS
            <4> HIDE DEF status
            <4>6. Target(c)' = Target(c) /\ Activating(c)' = Activating(c)
                BY <3>1, <4>4 DEF Target, PolicyOfCall, Activating
            <4>7. calls[c].pair.bogon \in NodeIds /\ calls[c].pair.mitigation \in NodeIds
                BY <3>1 DEF Pair
            <4>8. Target(c) \in RoutePolicy
                BY <3>1, CommandAssumption DEF Target, PolicyOfCall, TypeInv, TypeOK
            <4>9. ASSUME calls[c].live, Done(answer, calls[c].action, calls[c].pair)
                  PROVE  IF Activating(c) THEN PairPresent(Target(c), calls[c].pair)
                         ELSE \A n \in NodesOf(calls[c].pair) :
                                Target(c)[n] = "free" \/ n \in seen'[c].unseen
                <5>1. CASE Activating(c)
                    <6>1. PairPresent(answer, calls[c].pair)
                        BY <4>9, <5>1 DEF Done, Activating
                    <6>. QED BY <4>1, <4>7, <4>8, <4>9, <5>1, <6>1, ValueTypes DEF PairPresent
                <5>2. CASE ~Activating(c)
                    <6>1. seen'[c].unseen = ChangedNodes(Target(c), answer)
                        BY <2>1, <4>1, <4>9 DEF Reads, Witness
                    <6>2. PairAbsent(answer, calls[c].pair)
                        BY <4>9, <5>2 DEF Done, Activating
                    <6>. QED BY <4>7, <5>2, <6>1, <6>2 DEF PairAbsent, NodesOf, ChangedNodes
                <5>. QED BY <5>1, <5>2
            <4>. QED BY <3>1, <4>4, <4>5, <4>6, <4>9 DEF Proved
        <3>. QED BY <3>2, <3>3
    <2>3. CASE Record(c)
        <3>1. Resume(c, calls[c], "reply") /\ device' = device /\ calls[c].pc = "record"
            BY <2>3 DEF Record
        <3>2. seen'[c].calm = seen[c].calm /\ seen'[c].unseen = seen[c].unseen
            <4>1. seen' = seen \/ seen' = Lifted(calls[c].prof, "DISABLED")
                BY <2>3 DEF Record
            <4>. QED BY <2>1, <4>1 DEF Lifted, Witness
        <3>3. /\ calls'[c].status = calls[c].status
              /\ calls'[c].action = calls[c].action /\ calls'[c].prof = calls[c].prof
              /\ calls'[c].live = calls[c].live /\ calls'[c].pair = calls[c].pair
            BY <2>1, <3>1, ResumedFrame
        <3>. QED BY <3>1, <3>2, <3>3
                 DEF VerifiedInv, Proved, Activating, Target, PolicyOfCall
    <2>4. CASE \E a \in Actions, r \in RequestIds, p \in Profiles : Begin(c, a, r, p)
        <3>1. PICK a \in Actions, r \in RequestIds, p \in Profiles : Begin(c, a, r, p)
            BY <2>4
        <3> DEFINE f == [NoCall("new") EXCEPT !.action = a, !.req = r, !.prof = p]
        <3>2. Return(c, f, "CACHED") \/ Resume(c, f, "profile")
            BY <3>1 DEF Begin
        <3>3. f \in Call
            BY ValueTypes DEF Call, NoCall
        <3> HIDE DEF f
        <3>4. CASE Return(c, f, "CACHED")
            BY <2>1, <3>3, <3>4, ReturnedFrame DEF Proved
        <3>5. CASE Resume(c, f, "profile")
            BY <2>1, <3>3, <3>5 DEF Resume, Call, Proved
        <3>. QED BY <3>2, <3>4, <3>5
    <2>5. CASE \/ LoadProfile(c) \/ Gate(c) \/ Preflight(c)
               \/ WriteLive(c) \/ WriteMock(c)
        <3>1. \/ \E status \in {"REJECTED", "MITIGATION_EXCLUDED", "REVALIDATION_FAILED"} :
                    Return(c, calls[c], status)
              \/ \E x \in BOOLEAN, pc \in {"context", "preflight"} :
                    Resume(c, [calls[c] EXCEPT !.excl = x], pc)
              \/ \E pc \in {"write", "readback"} : Resume(c, calls[c], pc)
            BY <2>1, <2>5 DEF LoadProfile, Gate, Preflight, WriteLive, WriteMock,
                              TypeInv, TypeOK, FramesOK, Running
        <3>2. CASE \E status \in {"REJECTED", "MITIGATION_EXCLUDED", "REVALIDATION_FAILED"} :
                    Return(c, calls[c], status)
            BY <2>1, <3>2 DEF Return, Call, Proved
        <3>3. CASE \E x \in BOOLEAN, pc \in {"context", "preflight"} :
                    Resume(c, [calls[c] EXCEPT !.excl = x], pc)
            BY <2>1, <3>3 DEF Resume, Call, Proved
        <3>4. CASE \E pc \in {"write", "readback"} : Resume(c, calls[c], pc)
            BY <2>1, <3>4 DEF Resume, Call, Proved
        <3>. QED BY <3>1, <3>2, <3>3, <3>4
    <2>6. CASE LoadContext(c) \/ Resolve(c)
        <3>1. calls'[c].pc \in {"gate", "resolve", "preflight"}
            <4>1. CASE LoadContext(c)
                BY <2>1, <4>1 DEF LoadContext, Resume, Call, Actions
            <4>2. CASE Resolve(c)
                BY <2>1, <4>2 DEF Resolve, Resume, Call
            <4>. QED BY <2>6, <4>1, <4>2
        <3>. QED BY <3>1 DEF Proved
    <2>7. CASE Reply(c)
        BY <2>1, <2>7 DEF Reply, NoCall, Proved
    <2>. QED BY <2>2, <2>3, <2>4, <2>5, <2>6, <2>7 DEF CallStep
<1>VerifiedNext. TypeInv /\ VerifiedInv /\ [Next]_vars => VerifiedInv'
    <2> SUFFICES ASSUME TypeInv, VerifiedInv, [Next]_vars, NEW c \in Calls
                 PROVE  Proved(c)'
        BY DEF VerifiedInv
    <2>1. CASE CallStep(c)
        BY <2>1, <1>VerifiedOwnStep
    <2>2. CASE Restart
        BY <2>2 DEF Restart, Proved, VerifiedInv, Running, NoCall, NoWitness, TypeInv, TypeOK
    <2>3. CASE ~CallStep(c) /\ ~Restart
        <3>1. Spared(c)
            BY <2>3, SparedByOthers
        <3>2. Proved(c) /\ calls'[c] = calls[c]
            BY <3>1 DEF VerifiedInv, Spared
        <3>3. ASSUME calls[c].pc \in {"record", "reply"}, calls[c].pair \in Pair, seen'[c].calm
              PROVE  /\ seen[c].calm
                     /\ Target(c)'[calls[c].pair.bogon] = Target(c)[calls[c].pair.bogon]
                     /\ Target(c)'[calls[c].pair.mitigation]
                            = Target(c)[calls[c].pair.mitigation]
                     /\ seen'[c].unseen = seen[c].unseen
            <4>1. Running(c) /\ calls[c].pair.bogon \in NodeIds
                             /\ calls[c].pair.mitigation \in NodeIds
                BY <3>3 DEF Running, Pair
            <4>2. Target(c)' = device'[PolicyOfCall(c)]
                BY <3>2 DEF Target, PolicyOfCall
            <4>. QED BY <3>1, <3>3, <4>1, <4>2 DEF Spared, Target
        <3>. QED BY <3>2, <3>3 DEF Proved, PairPresent, NodesOf, Activating
    <2>. QED BY <2>1, <2>2, <2>3
<1>1. Init => VerifiedInv
    BY DEF Init, VerifiedInv, Proved, NoCall
<1>2. VerifiedInv => VerifiedIsOnTheDevice
    BY DEF VerifiedInv, Proved, VerifiedIsOnTheDevice
<1>. QED BY <1>1, <1>2, <1>VerifiedNext, TypeInvHolds, PTL DEF Spec

-----------------------------------------------------------------------------
(* A removal                                                                *)

\* A policy has at most one active pair, and resolveActivePair finds it.
LEMMA ResolvesThePair ==
    ASSUME NEW policy, NEW pr \in ActivePairs(policy)
    PROVE  /\ ResolveActivePair(policy) = pr
           /\ pr \in Pair /\ pr # NULL /\ PairPresent(policy, pr)
           /\ ExistingNodes(policy) # {}
<1>1. \A x \in ActivePairs(policy) : x = pr
    <2> SUFFICES ASSUME NEW x \in ActivePairs(policy) PROVE x = pr
        OBVIOUS
    <2>1. x.bogon = pr.bogon /\ x.mitigation = pr.mitigation
        BY DEF ActivePairs
    <2>2. x \in Pair /\ pr \in Pair
        BY DEF ActivePairs
    <2>. QED BY <2>1, <2>2 DEF Pair
<1>2. ResolveActivePair(policy) = pr
    <2>1. ActivePairs(policy) # {}
        OBVIOUS
    <2>. QED BY <1>1, <2>1 DEF ResolveActivePair
<1>3. pr \in Pair /\ BogonNodes(policy) = {pr.bogon} /\ MitigationNodes(policy) = {pr.mitigation}
    BY DEF ActivePairs
<1>4. policy[pr.bogon] = "bogon" /\ policy[pr.mitigation] = "mitigation" /\ pr.bogon \in NodeIds
    BY <1>3 DEF BogonNodes, MitigationNodes, Pair
<1>5. pr # NULL
    BY <1>3, PlannerAssumption DEF Pair
<1>. QED BY <1>2, <1>3, <1>4, <1>5 DEF PairPresent, ExistingNodes

\* Of a removal that met no error while nobody else touched its policy: it is
\* live, from the read of the device to the write it works on the pair the
\* device has, afterwards that pair is gone; it fails only if there was none.
Found(c) ==
    Removing(c) /\ Running(c) /\ seen[c].calm /\ ~seen[c].fault =>
        /\ calls[c].pc # "gate"
        /\ calls[c].pc \in {"resolve", "preflight", "write", "readback", "record"} =>
                calls[c].live
        /\ calls[c].pc \in {"preflight", "write"} =>
                \A pr \in ActivePairs(Target(c)) : calls[c].pair = pr
        /\ calls[c].pc = "readback" => PairAbsent(Target(c), calls[c].pair)
        /\ calls[c].pc = "record" => calls[c].status = "VERIFIED"
        /\ calls[c].pc = "reply" /\ calls[c].status = "REVALIDATION_FAILED" =>
                ActivePairs(Target(c)) = {}

FoundInv == \A c \in Calls : Found(c)

\* A removal cannot be prevented: without an error of its own and left alone by
\* everybody else it works on the one pair the device has, whatever was planned,
\* excluded, disabled, forgotten or discovered meanwhile.
THEOREM RemoveWorks == Spec => []RemoveFindsThePair
<1>FoundOwnStep. ASSUME TypeInv, FoundInv, NEW c \in Calls, CallStep(c)
      PROVE  Found(c)'
    <2> USE <1>FoundOwnStep
    <2>0. SUFFICES ASSUME Removing(c)', Running(c)', seen'[c].calm, ~seen'[c].fault
                   PROVE  Found(c)'
        BY DEF Found
    <2>1. calls \in [Calls -> Call] /\ calls[c] \in Call /\ seen \in [Calls -> Witness] /\ Found(c)
        BY DEF TypeInv, TypeOK, FoundInv
    \* In a step without an error the history of the call stays as it was.
    <2>2. ASSUME NEW w \in [Calls -> Witness], NEW e, Meets(c, w, e), w[c] = seen[c]
          PROVE  seen[c].calm /\ ~seen[c].fault /\ ~e
        BY <2>0, <2>2 DEF Meets, Witness
    \* And what it was shown is the policy as it is.
    <2>14. ASSUME calls[c].prof \in Profiles, NEW answer \in Answers(Target(c)), Reads(c, answer)
           PROVE  seen[c].calm /\ ~seen[c].fault /\ answer = Target(c)
        <3> DEFINE hidden == ChangedNodes(Target(c), answer)
        <3>1. seen' = [seen EXCEPT ![c].fault = @ \/ hidden # {}, ![c].unseen = hidden]
            BY <2>14 DEF Reads
        <3>2. seen[c].calm /\ ~seen[c].fault /\ hidden = {}
            <4> HIDE DEF hidden
            <4>. QED BY <2>0, <2>1, <3>1 DEF Witness
        <3>3. Target(c) \in RoutePolicy
            BY <2>14, CommandAssumption DEF Target, PolicyOfCall, TypeInv, TypeOK
        <3>4. answer \in RoutePolicy
            BY <2>14, <3>3, ValueTypes
        <3>. QED BY <3>2, <3>3, <3>4 DEF ChangedNodes, RoutePolicy
    <2>3. CASE \E a \in Actions, r \in RequestIds, p \in Profiles : Begin(c, a, r, p)
        <3>1. PICK a \in Actions, r \in RequestIds, p \in Profiles : Begin(c, a, r, p)
            BY <2>3
        <3> DEFINE f == [NoCall("new") EXCEPT !.action = a, !.req = r, !.prof = p]
        <3>2. Return(c, f, "CACHED") \/ Resume(c, f, "profile")
            BY <3>1 DEF Begin
        <3>3. f \in Call
            BY ValueTypes DEF Call, NoCall
        <3> HIDE DEF f
        <3>4. CASE Return(c, f, "CACHED")
            BY <2>1, <3>3, <3>4, ReturnedFrame DEF Found
        <3>5. CASE Resume(c, f, "profile")
            <4>1. calls'[c].pc = "profile"
                BY <2>1, <3>3, <3>5 DEF Resume, Call
            <4>. QED BY <4>1 DEF Found
        <3>. QED BY <3>2, <3>4, <3>5
    <2>4. CASE LoadProfile(c)
        <3>1. Resume(c, [calls[c] EXCEPT !.excl = excluded[calls[c].prof]], "context")
            BY <2>1, <2>2, <2>4 DEF LoadProfile
        <3>2. calls'[c].pc = "context"
            BY <2>1, <3>1 DEF Resume, Call
        <3>. QED BY <3>2 DEF Found
    <2>5. CASE LoadContext(c)
        <3>1. PICK planRead \in BOOLEAN, hostRead \in BOOLEAN :
                LET f == [calls[c] EXCEPT
                            !.pair = IF planRead THEN runtime[calls[c].prof].pair ELSE NULL,
                            !.live = hostRead] IN
                /\ Resume(c, f, CASE f.action = "ACTIVATE" -> "gate"
                                  [] f.action = "REMOVE" /\ f.live -> "resolve"
                                  [] OTHER -> "preflight")
                /\ Meets(c, seen, ~planRead \/ ~hostRead)
            BY <2>5 DEF LoadContext
        <3>2. hostRead
            BY <2>1, <2>2, <3>1
        <3> DEFINE f == [calls[c] EXCEPT
                            !.pair = IF planRead THEN runtime[calls[c].prof].pair ELSE NULL,
                            !.live = hostRead]
        <3>3. f.action = calls[c].action /\ f.live
            BY <2>1, <3>2 DEF Call
        <3>4. calls'[c].action = f.action
            BY <2>1, <3>1 DEF Resume, Call
        <3>5. calls'[c].pc = "resolve" /\ calls'[c].live
            BY <2>0, <2>1, <3>1, <3>2, <3>3, <3>4 DEF Removing, Resume, Call
        <3>. QED BY <3>5 DEF Found
    <2>6. CASE Resolve(c)
        <3> DEFINE active == ResolveActivePair(Target(c))
                   f == [calls[c] EXCEPT !.pair = IF active = NULL THEN @ ELSE active]
        <3>1. PICK found :
                /\ Resume(c, [calls[c] EXCEPT !.pair = IF found = NULL THEN @ ELSE found],
                          "preflight")
                /\ Meets(c, seen, found # active)
            BY <2>6 DEF Resolve
        <3>2. found = active /\ seen[c].calm /\ ~seen[c].fault
            BY <2>1, <2>2, <3>1
        <3>3. Resume(c, f, "preflight") /\ device' = device /\ calls[c].pc = "resolve"
            BY <2>6, <3>1, <3>2 DEF Resolve
        <3>4. /\ f \in Call /\ f.action = calls[c].action /\ f.prof = calls[c].prof
              /\ f.live = calls[c].live
              /\ f.pair = IF active = NULL THEN calls[c].pair ELSE active
            BY <2>1, ValueTypes DEF Call
        <3> HIDE DEF f
        <3>5. /\ calls'[c].pc = "preflight" /\ calls'[c].action = calls[c].action
              /\ calls'[c].prof = calls[c].prof /\ calls'[c].live = calls[c].live
              /\ calls'[c].pair = IF active = NULL THEN calls[c].pair ELSE active
            BY <2>1, <3>3, <3>4 DEF Resume, Call
        <3>6. calls[c].live
            BY <2>0, <2>1, <3>2, <3>3, <3>5 DEF Found, Removing, Running
        <3>7. Target(c)' = Target(c)
            BY <3>3, <3>5 DEF Target, PolicyOfCall
        <3>8. \A pr \in ActivePairs(Target(c)) : calls'[c].pair = pr
            BY <3>5, ResolvesThePair
        <3>. QED BY <3>5, <3>6, <3>7, <3>8 DEF Found
    <2>7. CASE Gate(c)
        <3>1. calls[c].pc = "gate" /\ calls'[c].action = calls[c].action
            <4> DEFINE f == [calls[c] EXCEPT !.excl = FALSE]
            <4>1. f \in Call /\ f.action = calls[c].action
                BY <2>1 DEF Call
            <4>2. Resume(c, f, "preflight") \/ Return(c, calls[c], "MITIGATION_EXCLUDED")
                BY <2>7 DEF Gate
            <4> HIDE DEF f
            <4>3. calls'[c].action = calls[c].action
                BY <2>1, <4>1, <4>2, ResumedFrame, ReturnedFrame
            <4>. QED BY <2>7, <4>3 DEF Gate
        <3>2. seen[c].calm /\ ~seen[c].fault
            BY <2>1, <2>2, <2>7 DEF Gate
        <3>. QED BY <2>0, <2>1, <3>1, <3>2 DEF Found, Removing, Running
    <2>8. CASE Preflight(c)
        <3>1. /\ \/ Resume(c, calls[c], "write")
                 \/ /\ Return(c, calls[c], "REVALIDATION_FAILED")
                    /\ calls[c].pair = NULL \/ ~PreflightOk(c, Target(c))
              /\ seen[c].calm /\ ~seen[c].fault
            <4>0. calls[c].prof \in Profiles
                BY <2>8 DEF Preflight, TypeInv, FramesOK, Running
            <4>1. CASE /\ IF calls[c].pair = NULL THEN Return(c, calls[c], "REVALIDATION_FAILED")
                                                 ELSE Resume(c, calls[c], "write")
                       /\ Meets(c, seen, FALSE)
                BY <2>1, <2>2, <4>1
            <4>2. CASE \E answer \in Answers(Target(c)) :
                        /\ IF PreflightOk(c, answer) THEN Resume(c, calls[c], "write")
                           ELSE Return(c, calls[c], "REVALIDATION_FAILED")
                        /\ Reads(c, answer)
                BY <2>14, <4>0, <4>2
            <4>3. ~Meets(c, seen, TRUE)
                BY <2>1, <2>2
            <4>. QED BY <2>8, <4>1, <4>2, <4>3 DEF Preflight
        <3>3. /\ calls[c].pc = "preflight" /\ device' = device
              /\ calls'[c].action = calls[c].action /\ calls'[c].prof = calls[c].prof
              /\ calls'[c].live = calls[c].live
            <4>1. Resume(c, calls[c], "write") \/ Return(c, calls[c], "REVALIDATION_FAILED")
                BY <3>1
            <4>2. /\ calls'[c].action = calls[c].action /\ calls'[c].prof = calls[c].prof
                  /\ calls'[c].live = calls[c].live
                BY <2>1, <4>1, ResumedFrame, ReturnedFrame
            <4>. QED BY <2>8, <4>2 DEF Preflight
        <3>4. /\ calls[c].live
              /\ \A pr \in ActivePairs(Target(c)) : calls[c].pair = pr
            BY <2>0, <2>1, <3>1, <3>3 DEF Found, Removing, Running
        <3>5. Target(c)' = Target(c)
            BY <3>3 DEF Target, PolicyOfCall
        <3>6. CASE Return(c, calls[c], "REVALIDATION_FAILED")
            <4>1. calls'[c].pc = "reply"
                BY <2>1, <3>6, ReturnedFrame
            <4>2. calls[c].pair = NULL \/ ~PreflightOk(c, Target(c))
                <5>1. calls'[c].pc = "write" => FALSE
                    BY <4>1
                <5>2. Resume(c, calls[c], "write") => calls'[c].pc = "write"
                    BY <2>1 DEF Resume, Call
                <5>. QED BY <3>1, <5>1, <5>2
            <4>3. calls[c].action = "REMOVE"
                BY <2>0, <3>3 DEF Removing
            <4>4. ActivePairs(Target(c)) = {}
                BY <3>4, <4>2, <4>3, ResolvesThePair DEF PreflightOk
            <4>. QED BY <3>5, <4>1, <4>4 DEF Found
        <3>7. CASE Resume(c, calls[c], "write")
            <4>1. calls'[c].pc = "write" /\ calls'[c].pair = calls[c].pair
                BY <2>1, <3>7 DEF Resume, Call
            <4>. QED BY <3>3, <3>4, <3>5, <4>1 DEF Found
        <3>. QED BY <3>1, <3>6, <3>7
    <2>9. CASE WriteLive(c)
        <3> DEFINE pol == PolicyOfCall(c)
                   whole == Committed(device[pol], calls[c].action, calls[c].pair)
                   w(policy) == Disturbed(pol, ChangedNodes(device[pol], policy), c)
        <3>1. ASSUME NEW policy
              PROVE  w(policy) \in [Calls -> Witness] /\ w(policy)[c] = seen[c]
            <4>1. ChangedNodes(device[pol], policy) \in SUBSET NodeIds
                BY DEF ChangedNodes
            <4>2. w(policy) \in [Calls -> Witness]
                BY <2>1, <4>1, HistoryType
            <4>. QED BY <4>2 DEF Disturbed
        <3>2. \/ \E policy : /\ device' = [device EXCEPT ![pol] = policy]
                             /\ Meets(c, w(policy), policy # whole \/ ~TRUE)
                             /\ Resume(c, calls[c], "readback")
              \/ \E policy : Meets(c, w(policy), policy # whole \/ ~FALSE)
            BY <2>9, Zenon DEF WriteLive
        <3> HIDE DEF w, whole
        <3>3. ~ \E policy : Meets(c, w(policy), policy # whole \/ ~FALSE)
            BY <2>2, <3>1
        <3>4. PICK policy : /\ device' = [device EXCEPT ![pol] = policy]
                            /\ Meets(c, w(policy), policy # whole \/ ~TRUE)
                            /\ Resume(c, calls[c], "readback")
            BY <3>2, <3>3
        <3>5. policy = whole /\ seen[c].calm /\ ~seen[c].fault
            BY <2>2, <3>1, <3>4
        <3>6. /\ calls'[c].pc = "readback" /\ calls'[c].pair = calls[c].pair
              /\ calls'[c].prof = calls[c].prof /\ calls'[c].live = calls[c].live
              /\ calls'[c].action = calls[c].action
            BY <2>1, <3>4 DEF Resume, Call
        <3>7. /\ calls[c].live /\ calls[c].prof \in Profiles /\ calls[c].pair \in Pair
            BY <2>9 DEF WriteLive, TypeInv, FramesOK, Running
        <3>8. pol \in Policies /\ device[pol] \in RoutePolicy
            BY <3>7, CommandAssumption DEF PolicyOfCall, TypeInv, TypeOK
        <3>9. Target(c)' = whole
            BY <3>4, <3>5, <3>6, <3>8 DEF Target, PolicyOfCall, TypeInv, TypeOK
        <3>10. PairAbsent(whole, calls[c].pair)
            <4>1. calls[c].action = "REMOVE"
                BY <2>0, <3>6 DEF Removing
            <4>2. calls[c].pair.bogon \in NodeIds /\ calls[c].pair.mitigation \in NodeIds
                BY <3>7 DEF Pair
            <4>. QED BY <3>8, <4>1, <4>2 DEF whole, Committed, PairAbsent, RoutePolicy
        <3>. QED BY <3>6, <3>7, <3>9, <3>10 DEF Found, PairAbsent
    <2>10. CASE WriteMock(c)
        <3>1. /\ seen[c].calm /\ ~seen[c].fault /\ calls[c].pc = "write" /\ ~calls[c].live
              /\ calls'[c].action = calls[c].action
            BY <2>1, <2>2, <2>10, ResumedFrame DEF WriteMock
        <3>. QED BY <2>0, <2>1, <3>1 DEF Found, Removing, Running
    <2>11. CASE ReadBack(c)
        <3>0. calls[c].prof \in Profiles /\ calls[c].pc = "readback"
            BY <2>11 DEF ReadBack, TypeInv, FramesOK, Running
        <3>1. PICK status \in {"VERIFIED", "REVALIDATION_FAILED"} :
                /\ Resume(c, [calls[c] EXCEPT !.status = status], "record")
                /\ seen[c].calm /\ ~seen[c].fault
                /\ calls[c].live =>
                    (status = "VERIFIED" <=> Done(Target(c), calls[c].action, calls[c].pair))
            <4> DEFINE status(policy) == IF Done(policy, calls[c].action, calls[c].pair)
                                         THEN "VERIFIED" ELSE "REVALIDATION_FAILED"
            <4>1. ~Meets(c, seen, TRUE)
                BY <2>1, <2>2
            <4>2. CASE calls[c].live
                <5>1. PICK answer \in Answers(Target(c)) :
                        /\ Resume(c, [calls[c] EXCEPT !.status = status(answer)], "record")
                        /\ Reads(c, answer)
                    BY <2>11, <4>1, <4>2 DEF ReadBack
                <5>2. answer = Target(c) /\ seen[c].calm /\ ~seen[c].fault
                    BY <2>14, <3>0, <5>1
                <5>. QED BY <5>1, <5>2
            <4>3. CASE ~calls[c].live
                <5>1. /\ Resume(c, [calls[c] EXCEPT !.status = status(mock[PolicyOfCall(c)])], "record")
                      /\ Meets(c, seen, FALSE)
                    BY <2>11, <4>3 DEF ReadBack
                <5>2. seen[c].calm /\ ~seen[c].fault
                    BY <2>1, <2>2, <5>1
                <5>. QED BY <4>3, <5>1, <5>2
            <4>. QED BY <4>2, <4>3
        <3> DEFINE f == [calls[c] EXCEPT !.status = status]
        <3>2. f.status = status /\ f \in Call /\ f.action = calls[c].action /\ f.live = calls[c].live
            BY <2>1 DEF Call, Status
        <3> HIDE DEF f
        <3>3. /\ calls'[c].pc = "record" /\ calls'[c].status = status
              /\ calls'[c].action = calls[c].action /\ calls'[c].live = calls[c].live
            BY <2>1, <3>1, <3>2 DEF Resume, Call, f
        <3>4. calls[c].live /\ PairAbsent(Target(c), calls[c].pair) /\ calls[c].action = "REMOVE"
            BY <2>0, <2>1, <3>0, <3>1, <3>3 DEF Found, Removing, Running
        <3>5. status = "VERIFIED"
            BY <3>1, <3>4 DEF Done
        <3>. QED BY <3>3, <3>4, <3>5 DEF Found
    <2>12. CASE Record(c)
        <3>1. Resume(c, calls[c], "reply") /\ calls[c].pc = "record"
            BY <2>12 DEF Record
        <3>2. seen'[c].calm = seen[c].calm /\ seen'[c].fault = seen[c].fault
            <4>1. seen' = seen \/ seen' = Lifted(calls[c].prof, "DISABLED")
                BY <2>12 DEF Record
            <4>. QED BY <2>1, <4>1 DEF Lifted, Witness
        <3>3. calls'[c].pc = "reply" /\ calls'[c].status = calls[c].status
              /\ calls'[c].action = calls[c].action
            BY <2>1, <3>1 DEF Resume, Call
        <3>. QED BY <2>0, <2>1, <3>1, <3>2, <3>3 DEF Found, Removing, Running
    <2>13. CASE Reply(c)
        BY <2>0, <2>1, <2>13 DEF Reply, NoWitness
    <2>. QED BY <2>3, <2>4, <2>5, <2>6, <2>7, <2>8, <2>9, <2>10, <2>11, <2>12, <2>13
             DEF CallStep
<1>1. Init => FoundInv
    BY DEF Init, FoundInv, Found, Running, NoCall
<1>2. TypeInv /\ FoundInv /\ [Next]_vars => FoundInv'
    <2> SUFFICES ASSUME TypeInv, FoundInv, [Next]_vars, NEW c \in Calls
                 PROVE  Found(c)'
        BY DEF FoundInv
    <2>1. CASE CallStep(c)
        BY <2>1, <1>FoundOwnStep
    <2>2. CASE Restart
        BY <2>2 DEF Restart, Found, Running, NoCall, NoWitness, TypeInv, TypeOK
    <2>3. CASE ~CallStep(c) /\ ~Restart
        <3>1. Spared(c)
            BY <2>3, SparedByOthers
        <3>2. Found(c) /\ calls'[c] = calls[c]
            BY <3>1 DEF FoundInv, Spared
        <3>3. ASSUME Running(c), seen'[c].calm
              PROVE  /\ seen[c].calm
                     /\ \A n \in NodeIds : Target(c)'[n] = Target(c)[n]
            <4>1. Target(c)' = device'[PolicyOfCall(c)]
                BY <3>2 DEF Target, PolicyOfCall
            <4>. QED BY <3>1, <3>3, <4>1 DEF Spared, Target
        <3>4. ASSUME \A n \in NodeIds : Target(c)'[n] = Target(c)[n]
              PROVE  /\ ActivePairs(Target(c)') = ActivePairs(Target(c))
                     /\ \A pr \in Pair : PairAbsent(Target(c), pr) => PairAbsent(Target(c)', pr)
            BY <3>4 DEF ActivePairs, BogonNodes, MitigationNodes, PairAbsent, Pair
        <3>5. calls[c].pc = "readback" => calls[c].pair \in Pair
            BY DEF TypeInv, FramesOK
        <3>6. seen'[c].fault = seen[c].fault
            BY <3>1 DEF Spared
        <3>. QED BY <3>2, <3>3, <3>4, <3>5, <3>6 DEF Found, Removing, Running
    <2>. QED BY <2>1, <2>2, <2>3
<1>3. FoundInv => RemoveFindsThePair
    BY DEF FoundInv, Found, RemoveFindsThePair, Running
<1>. QED BY <1>1, <1>2, <1>3, TypeInvHolds, PTL DEF Spec

-----------------------------------------------------------------------------
(* Pairs stay whole                                                          *)

\* What keeps the places apart, and makes the planner find them one by one.
LEMMA PlacesApart ==
    ASSUME NEW pol \in Policies
    PROVE  /\ \A pr, other \in Places(pol) : NodesOf(pr) \cap NodesOf(other) # {} => pr = other
           /\ \A x, y \in Room(pol) :
                /\ x < y
                /\ \A n \in Room(pol) : n <= x \/ n >= y
                => \/ [bogon |-> x, mitigation |-> y] \in Places(pol)
                   \/ \E w \in Room(pol) : w < x /\ [bogon |-> w, mitigation |-> x] \in Places(pol)
           /\ \A pr \in Places(pol) : InitialPolicy[pol][pr.bogon] \notin ForeignKind
                                   /\ InitialPolicy[pol][pr.mitigation] \notin ForeignKind
<1> DEFINE upTo(x) == {n \in Room(pol) : n <= x}
           Next2(x, y) == x < y /\ \A n \in Room(pol) : n <= x \/ n >= y
<1>1. Room(pol) \subseteq Nat /\ Room(pol) \subseteq NodeIds
    BY PlannerAssumption DEF Room, FreeBeforeNormal
<1>2. ASSUME NEW x \in Room(pol)
      PROVE  IsFiniteSet(upTo(x)) /\ Cardinality(upTo(x)) \in Nat
    <2>1. x \in Nat /\ upTo(x) \in SUBSET Nat /\ \A n \in upTo(x) : n <= x
        BY <1>1
    <2>2. IsFiniteSet(upTo(x))
        <3> HIDE DEF upTo
        <3>. QED BY <2>1, FS_BoundedSetOfNaturals
    <2>. QED BY <2>2, FS_CardinalityType
<1>3. ASSUME NEW x \in Room(pol), NEW y \in Room(pol), Next2(x, y)
      PROVE  Cardinality(upTo(y)) = Cardinality(upTo(x)) + 1
    <2>1. upTo(y) = upTo(x) \cup {y} /\ y \notin upTo(x)
        BY <1>1, <1>3
    <2>2. IsFiniteSet(upTo(x))
        BY <1>2
    <2> HIDE DEF upTo
    <2>. QED BY <2>1, <2>2, FS_AddElement
<1>4. ASSUME NEW pr \in Places(pol)
      PROVE  /\ pr.bogon \in Room(pol) /\ pr.mitigation \in Room(pol)
             /\ Next2(pr.bogon, pr.mitigation)
             /\ pr = [bogon |-> pr.bogon, mitigation |-> pr.mitigation]
             /\ Cardinality(upTo(pr.bogon)) % 2 = 1
             /\ Cardinality(upTo(pr.mitigation)) % 2 = 0
    <2>1. /\ pr.bogon \in Room(pol) /\ pr.mitigation \in Room(pol)
          /\ Next2(pr.bogon, pr.mitigation)
          /\ Cardinality(upTo(pr.bogon)) % 2 = 1
        BY DEF Places, NodesOf
    <2>2. pr = [bogon |-> pr.bogon, mitigation |-> pr.mitigation]
        BY DEF Places, Pair
    <2>3. /\ Cardinality(upTo(pr.mitigation)) = Cardinality(upTo(pr.bogon)) + 1
          /\ Cardinality(upTo(pr.bogon)) \in Nat
        BY <1>2, <1>3, <2>1
    <2>4. \A k \in Nat : k % 2 = 1 => (k + 1) % 2 = 0
        OBVIOUS
    <2> HIDE DEF upTo
    <2>. QED BY <2>1, <2>2, <2>3, <2>4
<1>5. ASSUME NEW x \in Room(pol), NEW y \in Room(pol), Next2(x, y),
             Cardinality(upTo(x)) % 2 = 1
      PROVE  [bogon |-> x, mitigation |-> y] \in Places(pol)
    BY <1>1, <1>5 DEF Places, Pair, NodesOf
<1>6. ASSUME NEW pr \in Places(pol), NEW other \in Places(pol),
             NodesOf(pr) \cap NodesOf(other) # {}
      PROVE  pr = other
    <2> HIDE DEF upTo
    <2>1. pr.bogon # other.mitigation /\ pr.mitigation # other.bogon
        BY <1>4
    <2>2. pr.bogon = other.bogon \/ pr.mitigation = other.mitigation
        BY <1>6, <2>1 DEF NodesOf
    <2>3. /\ pr.bogon \in Nat /\ pr.mitigation \in Nat
          /\ other.bogon \in Nat /\ other.mitigation \in Nat
        BY <1>1, <1>4
    <2>4. pr.bogon = other.bogon /\ pr.mitigation = other.mitigation
        BY <1>4, <2>2, <2>3
    <2>. QED BY <1>4, <2>4
<1>7. ASSUME NEW x \in Room(pol), NEW y \in Room(pol), Next2(x, y)
      PROVE  \/ [bogon |-> x, mitigation |-> y] \in Places(pol)
             \/ \E w \in Room(pol) : w < x /\ [bogon |-> w, mitigation |-> x] \in Places(pol)
    <2>1. CASE Cardinality(upTo(x)) % 2 = 1
        BY <1>5, <1>7, <2>1
    <2>2. CASE Cardinality(upTo(x)) % 2 # 1
        <3> DEFINE below == {n \in Room(pol) : n < x}
        <3>1. below # {}
            <4> SUFFICES ASSUME below = {} PROVE FALSE
                OBVIOUS
            <4>1. upTo(x) = {} \cup {x} /\ x \notin {}
                BY <1>1
            <4>2. Cardinality(upTo(x)) = 0 + 1
                <5> HIDE DEF upTo
                <5>. QED BY <4>1, FS_EmptySet, FS_AddElement
            <4>. QED BY <2>2, <4>2
        <3>2. PICK w \in below : \A n \in below : n <= w
            <4> DEFINE far == {x - n : n \in below}
            <4>1. x \in Nat /\ \A n \in below : n \in Nat /\ n < x /\ x - n \in Nat
                BY <1>1
            <4> HIDE DEF below
            <4>2. far \in SUBSET Nat /\ far # {}
                BY <3>1, <4>1
            <4>3. PICK m \in far : \A k \in far : m <= k
                <5> HIDE DEF far
                <5>. QED BY <4>2, LeastNatural
            <4>4. PICK w \in below : m = x - w
                BY <4>3
            <4>5. \A n \in below : m <= x - n
                BY <4>3
            <4>. QED BY <4>1, <4>4, <4>5
        <3>3. w \in Room(pol) /\ Next2(w, x)
            BY <1>1, <3>2
        <3>4. /\ Cardinality(upTo(x)) = Cardinality(upTo(w)) + 1
              /\ Cardinality(upTo(w)) \in Nat
            BY <1>2, <1>3, <3>3
        <3>5. \A k \in Nat : (k + 1) % 2 # 1 => k % 2 = 1
            OBVIOUS
        <3>6. Cardinality(upTo(w)) % 2 = 1
            <4> HIDE DEF upTo
            <4>. QED BY <2>2, <3>4, <3>5
        <3>7. [bogon |-> w, mitigation |-> x] \in Places(pol)
            BY <1>5, <3>3, <3>6
        <3>. QED BY <3>3, <3>7
    <2>. QED BY <2>1, <2>2
<1>8. ASSUME NEW n \in Room(pol)
      PROVE  InitialPolicy[pol][n] \notin ForeignKind
    BY <1>8 DEF Room, FreeBeforeNormal
<1> HIDE DEF upTo
<1>. QED BY <1>4, <1>6, <1>7, <1>8

\* Nobody edits the policies and no write is torn: the device stays in place,
\* and every pair planned, stored or worked with, and every one a discovery will
\* plan from what it has read, is one of the places.
PlaceInv ==
    edits = 0 /\ ~torn =>
        /\ \A pol \in Policies : InPlace(pol, device[pol])
        /\ \A p \in Profiles : runtime[p].pair \in Places(PolicyOf[p]) \cup {NULL}
        /\ \A c \in Calls : calls[c].pair \in Places(PolicyOfCall(c)) \cup {NULL}
        /\ \A s \in Scans : scans[s].conf # NULL =>
                \A pol \in Policies :
                    PlanFor(scans[s].conf[pol]) \in Places(pol) \cup {NULL}

\* With no edit by hand and no torn write the nodes of a pair live and die
\* together on the router, whatever commands, discoveries and restarts there are.
THEOREM PairsWhole == Spec => []PairsStayWhole
\* From what the router answers of such a policy, be it cut, the planner plans one
\* of the places, and the one active pair there may be in it is one of them.
<1>PlansInPlace. ASSUME NEW pol \in Policies, NEW policy \in RoutePolicy, InPlace(pol, policy),
             NEW answer \in Answers(policy)
      PROVE  /\ PlanFor(answer) \in Places(pol) \cup {NULL}
             /\ ResolveActivePair(answer) \in Places(pol) \cup {NULL}
    <2> USE <1>PlansInPlace
    <2> DEFINE free == FreeBeforeNormal(NormalNodes(policy), ExistingNodes(policy))
    <2>0. /\ Room(pol) \subseteq Nat /\ Room(pol) \subseteq NodeIds /\ NodeIds \subseteq Nat
          /\ InitialPolicy[pol] \in RoutePolicy
        BY PlannerAssumption, CommandAssumption DEF Room, FreeBeforeNormal
    <2>1. \A n \in NodeIds : policy[n] \in ForeignKind \/ InitialPolicy[pol][n] \in ForeignKind =>
                policy[n] = InitialPolicy[pol][n]
        BY DEF InPlace
    <2>2. free = {n \in Room(pol) : policy[n] = "free"}
        <3>1. NormalNodes(policy) = NormalNodes(InitialPolicy[pol])
            BY <2>1 DEF NormalNodes, ForeignKind
        <3>2. ASSUME NEW n \in NodeIds, policy[n] = "free"
              PROVE  InitialPolicy[pol][n] \notin ForeignKind
            BY <2>1, <3>2 DEF ForeignKind
        <3> DEFINE normal == NormalNodes(InitialPolicy[pol])
                   low(n) == n <= MaxCandidate /\ normal # {} /\ \A k \in normal : n < k
        <3>3. free = {n \in NodeIds : low(n) /\ n \notin ExistingNodes(policy)}
            BY <3>1 DEF FreeBeforeNormal
        <3>4. Room(pol) = {n \in NodeIds : low(n) /\ InitialPolicy[pol][n] \notin ForeignKind}
            BY DEF FreeBeforeNormal, Room
        <3>5. \A n \in NodeIds : n \notin ExistingNodes(policy) <=> policy[n] = "free"
            BY DEF ExistingNodes
        <3> HIDE DEF low, normal, free
        <3>. QED BY <3>2, <3>3, <3>4, <3>5
    <2>3. ASSUME NEW n \in Room(pol), policy[n] # "free"
          PROVE  \E pr \in Places(pol) : n \in NodesOf(pr) /\ PairPresent(policy, pr)
        <3>1. InitialPolicy[pol][n] \notin ForeignKind
            BY DEF Room, FreeBeforeNormal
        <3>2. policy[n] \notin ForeignKind /\ policy[n] \in Kind /\ n \in NodeIds
            BY <2>0, <2>1, <3>1 DEF RoutePolicy
        <3>3. policy[n] \in {"bogon", "mitigation"}
            BY <2>3, <3>2 DEF ForeignKind, Kind
        <3>. QED BY <3>2, <3>3 DEF InPlace, BogonNodes, MitigationNodes
    <2>4. ASSUME NEW plan \in FirstTwo(free)
          PROVE  plan \in Places(pol)
        <3> DEFINE x == plan.bogon
                   y == plan.mitigation
        <3>1. /\ x \in free /\ y \in free /\ x < y /\ \A n \in free : n = x \/ n >= y
              /\ plan = [bogon |-> x, mitigation |-> y]
            BY DEF FirstTwo, Pair
        <3> HIDE DEF free
        <3>2. /\ x \in Room(pol) /\ y \in Room(pol) /\ policy[x] = "free" /\ policy[y] = "free"
              /\ x \in Nat /\ y \in Nat
            BY <2>0, <2>2, <3>1
        <3> HIDE DEF x, y
        \* The room's next node after the first free one.
        <3>3. PICK z \in Room(pol) : x < z /\ \A n \in Room(pol) : n <= x \/ n >= z
            <4> DEFINE above == {n \in Room(pol) : n > x}
            <4>1. above \in SUBSET Nat /\ above # {}
                BY <2>0, <3>1, <3>2
            <4>2. PICK z \in above : \A n \in above : z <= n
                <5> HIDE DEF above
                <5>. QED BY <4>1, LeastNatural
            <4>. QED BY <2>0, <3>2, <4>2
        <3>4. ASSUME NEW w \in Room(pol), w < x, [bogon |-> w, mitigation |-> x] \in Places(pol)
              PROVE  FALSE
            <4>1. policy[w] # "free"
                BY <2>0, <2>2, <3>1, <3>2, <3>4
            <4>2. PICK pr \in Places(pol) : w \in NodesOf(pr) /\ PairPresent(policy, pr)
                BY <2>3, <4>1
            <4>3. pr = [bogon |-> w, mitigation |-> x]
                BY <3>4, <4>2, PlacesApart DEF NodesOf
            <4>. QED BY <3>2, <4>2, <4>3 DEF PairPresent
        <3>5. [bogon |-> x, mitigation |-> z] \in Places(pol)
            BY <3>2, <3>3, <3>4, PlacesApart
        <3>6. z = y
            <4> SUFFICES ASSUME z # y PROVE FALSE
                OBVIOUS
            <4>1. z < y /\ policy[z] # "free"
                BY <2>0, <2>2, <3>1, <3>2, <3>3
            <4>2. PICK pr \in Places(pol) : z \in NodesOf(pr) /\ PairPresent(policy, pr)
                BY <2>3, <4>1
            <4>3. pr = [bogon |-> x, mitigation |-> z]
                BY <3>5, <4>2, PlacesApart DEF NodesOf
            <4>. QED BY <3>2, <4>2, <4>3 DEF PairPresent
        <3>. QED BY <3>1, <3>5, <3>6
    \* Up to where it is cut an answer has the free nodes of the policy, and a
    \* node that seems normal there has all of them after it.
    <2>5. PlanFor(answer) \in Places(pol) \cup {NULL}
        <3> DEFINE shown == FreeBeforeNormal(NormalNodes(answer), ExistingNodes(answer))
        <3>1. CASE answer = policy
            BY <2>4, <3>1 DEF PlanFor, SelectNodePair
        <3>2. CASE answer # policy
            <4>1. PICK k \in NodeIds, first \in BOOLEAN : answer = CutAt(policy, k, first)
                BY <3>2 DEF Answers
            <4>2. \A n \in NodeIds : answer[n] = IF n < k THEN policy[n]
                    ELSE IF n = k /\ first THEN Plain(policy[n]) ELSE "free"
                BY <4>1 DEF CutAt
            <4>3. ASSUME NEW j \in NormalNodes(answer)
                  PROVE  /\ j \in NodeIds /\ j <= k
                         /\ policy[j] \in {"permit", "mitigation"}
                         /\ NormalNodes(policy) # {}
                <5>1. j \in NodeIds /\ answer[j] = "permit"
                    BY DEF NormalNodes
                <5>2. j <= k /\ policy[j] \in {"permit", "mitigation"}
                    <6>1. j \in Nat /\ k \in Nat
                        BY <2>0, <5>1
                    <6>2. Plain(policy[j]) = "permit" => policy[j] \in {"permit", "mitigation"}
                        BY DEF Plain
                    <6>. QED BY <4>2, <5>1, <6>1, <6>2
                <5>3. policy[j] = "mitigation" => NormalNodes(policy) # {}
                    <6> SUFFICES ASSUME policy[j] = "mitigation" PROVE NormalNodes(policy) # {}
                        OBVIOUS
                    <6>1. \E pr \in Places(pol) : j \in NodesOf(pr)
                        BY <5>1 DEF InPlace, MitigationNodes
                    <6>2. j \in Room(pol)
                        BY <6>1 DEF Places
                    <6>3. NormalNodes(InitialPolicy[pol]) # {}
                        BY <6>2 DEF Room, FreeBeforeNormal
                    <6>. QED BY <2>1, <6>3 DEF NormalNodes, ForeignKind
                <5>. QED BY <5>1, <5>2, <5>3 DEF NormalNodes
            <4>4. ASSUME NEW n \in shown
                  PROVE  n \in free /\ n < k
                <5>1. /\ n \in NodeIds /\ n <= MaxCandidate /\ answer[n] = "free"
                      /\ NormalNodes(answer) # {} /\ \A j \in NormalNodes(answer) : n < j
                    BY DEF FreeBeforeNormal, ExistingNodes
                <5>2. n < k
                    <6>1. PICK j \in NodeIds : n < j /\ j <= k
                        BY <4>3, <5>1 DEF NormalNodes
                    <6>2. n \in Nat /\ j \in Nat /\ k \in Nat
                        BY <2>0, <4>1, <5>1
                    <6>. QED BY <6>1, <6>2
                <5>3. policy[n] = "free" /\ NormalNodes(policy) # {}
                    BY <4>2, <4>3, <5>1, <5>2
                <5>4. ASSUME NEW j \in NormalNodes(policy)
                      PROVE  n < j
                    <6>1. j \in NodeIds /\ policy[j] = "permit"
                        BY DEF NormalNodes
                    <6>2. CASE j < k
                        <7>1. j \in NormalNodes(answer)
                            BY <4>2, <6>1, <6>2 DEF NormalNodes
                        <7>. QED BY <5>1, <7>1
                    <6>3. CASE ~(j < k)
                        BY <2>0, <5>1, <5>2, <6>1, <6>3
                    <6>. QED BY <6>2, <6>3
                <5>. QED BY <5>1, <5>2, <5>3, <5>4 DEF FreeBeforeNormal, ExistingNodes
            <4>5. ASSUME NEW m \in shown, NEW n \in free, n < m
                  PROVE  n \in shown
                <5>1. /\ m \in NodeIds /\ m <= MaxCandidate
                      /\ NormalNodes(answer) # {} /\ \A j \in NormalNodes(answer) : m < j
                    BY DEF FreeBeforeNormal
                <5>2. n \in NodeIds /\ policy[n] = "free" /\ n <= MaxCandidate
                    BY DEF FreeBeforeNormal, ExistingNodes
                <5>3. n < k /\ \A j \in NormalNodes(answer) : n < j
                    BY <2>0, <4>3, <4>4, <4>5, <5>1, <5>2
                <5>4. answer[n] = "free"
                    BY <4>2, <5>2, <5>3
                <5>. QED BY <5>1, <5>2, <5>3, <5>4 DEF FreeBeforeNormal, ExistingNodes
            <4> HIDE DEF free, shown
            <4>6. ASSUME NEW plan \in FirstTwo(shown)
                  PROVE  plan \in FirstTwo(free)
                <5>1. /\ plan \in Pair /\ plan.bogon \in shown /\ plan.mitigation \in shown
                      /\ plan.bogon < plan.mitigation
                      /\ \A n \in shown : n = plan.bogon \/ n >= plan.mitigation
                    BY DEF FirstTwo
                <5>2. ASSUME NEW n \in free
                      PROVE  n = plan.bogon \/ n >= plan.mitigation
                    <6>1. n \in Nat /\ plan.mitigation \in Nat
                        BY <2>0, <5>1 DEF free, FreeBeforeNormal, Pair
                    <6>. QED BY <4>5, <5>1, <6>1
                <5>. QED BY <4>4, <5>1, <5>2 DEF FirstTwo
            <4>. QED BY <2>4, <4>6 DEF PlanFor, SelectNodePair, shown
        <3>. QED BY <3>1, <3>2
    \* NetVision's nodes in an answer are there, and what is before one of them is.
    <2>6. ResolveActivePair(answer) \in Places(pol) \cup {NULL}
        <3> SUFFICES ASSUME NEW active \in ActivePairs(answer)
                     PROVE  active \in Places(pol)
            BY DEF ResolveActivePair
        <3>1. /\ BogonNodes(answer) = {active.bogon} /\ MitigationNodes(answer) = {active.mitigation}
              /\ active \in Pair /\ active.bogon \in NodeIds /\ active.mitigation \in NodeIds
            BY DEF ActivePairs, Pair
        <3>2. /\ answer[active.bogon] = "bogon" /\ answer[active.mitigation] = "mitigation"
              /\ policy[active.bogon] = "bogon" /\ policy[active.mitigation] = "mitigation"
            BY <3>1, ValueTypes DEF BogonNodes, MitigationNodes
        <3>3. PICK pr \in Places(pol) : active.mitigation \in NodesOf(pr) /\ PairPresent(policy, pr)
            BY <3>1, <3>2 DEF InPlace, MitigationNodes
        <3>4. /\ pr \in Pair /\ pr.bogon \in NodeIds /\ pr.mitigation \in NodeIds
              /\ pr.bogon < pr.mitigation /\ pr.mitigation = active.mitigation
            BY <3>2, <3>3 DEF Places, Pair, PairPresent, NodesOf
        <3>5. answer[pr.bogon] = "bogon"
            <4>1. CASE answer = policy
                BY <3>3, <4>1 DEF PairPresent
            <4>2. CASE answer # policy
                <5>1. PICK k \in NodeIds, first \in BOOLEAN : answer = CutAt(policy, k, first)
                    BY <4>2 DEF Answers
                <5>2. \A n \in NodeIds : answer[n] = IF n < k THEN policy[n]
                        ELSE IF n = k /\ first THEN Plain(policy[n]) ELSE "free"
                    BY <5>1 DEF CutAt
                <5>3. Plain("mitigation") # "mitigation"
                    BY DEF Plain
                <5>4. pr.mitigation < k
                    BY <3>2, <3>4, <5>2, <5>3
                <5>5. pr.bogon < k
                    <6>1. pr.bogon \in Nat /\ pr.mitigation \in Nat /\ k \in Nat
                        BY <2>0, <3>4, <5>1
                    <6>. QED BY <3>4, <5>4, <6>1
                <5>. QED BY <3>3, <3>4, <5>2, <5>5 DEF PairPresent
            <4>. QED BY <4>1, <4>2
        <3>6. pr = active
            BY <3>1, <3>4, <3>5 DEF Pair, BogonNodes
        <3>. QED BY <3>3, <3>6
    <2>. QED BY <2>5, <2>6
\* A command on one of the places leaves every other pair as it is.
<1>CommittedInPlace. ASSUME NEW pol \in Policies, NEW policy \in RoutePolicy, InPlace(pol, policy),
             NEW pr \in Places(pol), NEW action \in Actions
      PROVE  InPlace(pol, Committed(policy, action, pr))
    <2> USE <1>CommittedInPlace
    <2> DEFINE after == Committed(policy, action, pr)
    <2>1. /\ pr.bogon \in NodeIds /\ pr.mitigation \in NodeIds /\ pr.bogon # pr.mitigation
        <3>1. pr \in Pair /\ pr.bogon < pr.mitigation
            BY DEF Places
        <3>2. pr.bogon \in NodeIds /\ pr.mitigation \in NodeIds
            BY <3>1 DEF Pair
        <3>3. pr.bogon \in Nat /\ pr.mitigation \in Nat
            BY <3>2, PlannerAssumption
        <3>. QED BY <3>1, <3>2, <3>3
    <2>2. /\ \A n \in NodeIds \ NodesOf(pr) : after[n] = policy[n]
          /\ action = "ACTIVATE" => after[pr.bogon] = "bogon" /\ after[pr.mitigation] = "mitigation"
          /\ action # "ACTIVATE" => after[pr.bogon] = "free" /\ after[pr.mitigation] = "free"
        BY <2>1 DEF Committed, NodesOf, RoutePolicy
    <2> HIDE DEF after
    <2>3. ASSUME NEW n \in BogonNodes(after) \cup MitigationNodes(after)
          PROVE  \E other \in Places(pol) : n \in NodesOf(other) /\ PairPresent(after, other)
        <3>1. CASE n \in NodesOf(pr)
            <4>1. action = "ACTIVATE"
                BY <2>2, <2>3, <3>1 DEF BogonNodes, MitigationNodes, NodesOf
            <4>. QED BY <2>2, <3>1, <4>1 DEF PairPresent
        <3>2. CASE n \notin NodesOf(pr)
            <4>1. n \in BogonNodes(policy) \cup MitigationNodes(policy)
                BY <2>2, <2>3, <3>2 DEF BogonNodes, MitigationNodes
            <4>2. PICK other \in Places(pol) : n \in NodesOf(other) /\ PairPresent(policy, other)
                BY <4>1 DEF InPlace
            <4>3. NodesOf(other) \cap NodesOf(pr) = {}
                BY <3>2, <4>2, PlacesApart
            <4>4. /\ other.bogon \in NodeIds \ NodesOf(pr)
                  /\ other.mitigation \in NodeIds \ NodesOf(pr)
                BY <4>3 DEF NodesOf, Places, Pair
            <4>. QED BY <2>2, <4>2, <4>4 DEF PairPresent
        <3>. QED BY <3>1, <3>2
    <2>4. ASSUME NEW n \in NodeIds, {after[n], InitialPolicy[pol][n]} \cap ForeignKind # {}
          PROVE  after[n] = InitialPolicy[pol][n]
        <3>1. n \notin NodesOf(pr)
            <4> SUFFICES ASSUME n \in NodesOf(pr) PROVE FALSE
                OBVIOUS
            <4>1. InitialPolicy[pol][n] \notin ForeignKind
                BY PlacesApart DEF NodesOf
            <4>2. after[n] \in {"bogon", "mitigation", "free"}
                BY <2>2 DEF NodesOf
            <4>. QED BY <2>4, <4>1, <4>2 DEF ForeignKind
        <3>. QED BY <2>2, <2>4, <3>1 DEF InPlace
    <2>. QED BY <2>3, <2>4 DEF InPlace, after
<1>Device. ASSUME TypeInv, PlaceInv, [Next]_vars, edits' = 0, ~torn', edits = 0, ~torn,
                  NEW pol \in Policies
      PROVE  InPlace(pol, device'[pol])
    <2> USE <1>Device
    <2>1. InPlace(pol, device[pol]) /\ device[pol] \in RoutePolicy /\ device \in [Policies -> RoutePolicy]
        BY DEF PlaceInv, TypeInv, TypeOK
    <2>2. CASE \E c \in Calls : WriteLive(c)
        <3>1. PICK c \in Calls : WriteLive(c)
            BY <2>2
        <3> DEFINE at == PolicyOfCall(c)
                   whole == Committed(device[at], calls[c].action, calls[c].pair)
        <3>2. \E policy : /\ device' = [device EXCEPT ![at] = policy]
                          /\ torn' = (torn \/ policy \notin {device[at], whole})
            BY <3>1, Zenon DEF WriteLive
        <3>3. device' = [device EXCEPT ![at] = device[at]] \/ device' = [device EXCEPT ![at] = whole]
            BY <3>2
        <3>4. /\ calls[c].pair \in Places(at) /\ calls[c].action \in Actions
            <4>1. calls[c] \in Call /\ calls[c].pair \in Pair /\ calls[c].pair # NULL
                BY <3>1, PlannerAssumption DEF WriteLive, TypeInv, TypeOK, FramesOK, Pair
            <4>. QED BY <4>1 DEF PlaceInv, Call
        <3>5. CASE at = pol
            BY <2>1, <3>3, <3>4, <3>5, <1>CommittedInPlace
        <3>6. CASE at # pol
            BY <2>1, <3>3, <3>6
        <3>. QED BY <3>5, <3>6
    <2>3. CASE ~\E c \in Calls : WriteLive(c)
        <3>1. ASSUME NEW e \in Edits, OperatorEdit(e) PROVE FALSE
            BY <3>1 DEF OperatorEdit
        <3>2. device' = device
            BY <2>3, <3>1 DEF Next, vars, CallStep, Begin, LoadProfile, LoadContext, Resolve,
                   Gate, Preflight, WriteMock, ReadBack, Record, Reply, ScanStep, ScanRead,
                   ScanTarget, ScanUpsert, ScanReconcile, ScanDisable, ScanCache,
                   ToggleExclusion, TogglePeerExclusion, Restart
        <3>. QED BY <2>1, <3>2
    <2>. QED BY <2>2, <2>3
<1>Rows. ASSUME TypeInv, PlaceInv, [Next]_vars, edits = 0, ~torn, NEW p \in Profiles
      PROVE  runtime'[p].pair \in Places(PolicyOf[p]) \cup {NULL}
    <2> USE <1>Rows
    <2>1. /\ runtime[p].pair \in Places(PolicyOf[p]) \cup {NULL}
          /\ runtime \in [Profiles -> Runtime]
        BY DEF PlaceInv, TypeInv, TypeOK
    <2>2. CASE \E s \in Scans : ScanUpsert(s)
        <3>1. PICK s \in Scans : ScanUpsert(s)
            BY <2>2
        <3> DEFINE at == scans[s].at
                   plan == PlanOf(scans[s].conf, at)
        <3>2. \/ runtime' = runtime
              \/ \E state : runtime' = [runtime EXCEPT ![at] = [state |-> state, pair |-> plan]]
            BY <3>1 DEF ScanUpsert
        <3>3. plan \in Places(PolicyOf[at]) \cup {NULL} \/ at # p
            <4> SUFFICES ASSUME at = p, scans[s].conf # NULL
                         PROVE  PlanFor(scans[s].conf[PolicyOf[p]])
                                   \in Places(PolicyOf[p]) \cup {NULL}
                BY DEF PlanOf
            <4>1. PolicyOf[p] \in Policies
                BY CommandAssumption
            <4>. QED BY <4>1 DEF PlaceInv
        <3> HIDE DEF plan
        <3>4. CASE runtime' = runtime
            BY <2>1, <3>4
        <3>5. CASE \E state : runtime' = [runtime EXCEPT ![at] = [state |-> state, pair |-> plan]]
            <4>1. runtime'[p].pair = IF at = p THEN plan ELSE runtime[p].pair
                BY <2>1, <3>5
            <4>. QED BY <2>1, <3>3, <4>1
        <3>. QED BY <3>2, <3>4, <3>5
    <2>3. CASE \/ \E c \in Calls : Record(c)
               \/ \E s \in Scans, q \in Profiles : ScanDisable(s, q)
        <3>1. \/ runtime' = runtime
              \/ \E state, q : runtime' = [runtime EXCEPT ![q].state = state]
            BY <2>3 DEF Record, ScanDisable
        <3>2. runtime'[p].pair = runtime[p].pair
            BY <2>1, <3>1 DEF Runtime
        <3>. QED BY <2>1, <3>2
    <2>4. CASE ~\/ \E s \in Scans : ScanUpsert(s)
                \/ \E c \in Calls : Record(c)
                \/ \E s \in Scans, q \in Profiles : ScanDisable(s, q)
        <3>1. runtime' = runtime
            BY <2>4 DEF Next, vars, db, CallStep, Begin, LoadProfile, LoadContext, Resolve,
                   Gate, Preflight, WriteLive, WriteMock, ReadBack, Reply, ScanStep, ScanRead,
                   ScanTarget, ScanReconcile, ScanCache, ToggleExclusion,
                   TogglePeerExclusion, OperatorEdit, Restart
        <3>. QED BY <2>1, <3>1
    <2>. QED BY <2>2, <2>3, <2>4
<1>Frames. ASSUME TypeInv, PlaceInv, edits = 0, ~torn, NEW c \in Calls, CallStep(c)
      PROVE  calls'[c].pair \in Places(PolicyOf[calls'[c].prof]) \cup {NULL}
    <2> USE <1>Frames
    <2>1. /\ calls \in [Calls -> Call] /\ calls[c] \in Call
          /\ calls[c].pair \in Places(PolicyOf[calls[c].prof]) \cup {NULL}
        BY DEF TypeInv, TypeOK, PlaceInv, PolicyOfCall
    <2>2. CASE (\E a \in Actions, r \in RequestIds, p \in Profiles : Begin(c, a, r, p)) \/ Reply(c)
        <3>1. ASSUME NEW a \in Actions, NEW r \in RequestIds, NEW p \in Profiles, Begin(c, a, r, p)
              PROVE  calls'[c].pair = NULL
            <4> DEFINE f == [NoCall("new") EXCEPT !.action = a, !.req = r, !.prof = p]
            <4>1. Return(c, f, "CACHED") \/ Resume(c, f, "profile")
                BY <3>1 DEF Begin
            <4>2. f \in Call /\ f.pair = NULL
                BY ValueTypes DEF Call, NoCall
            <4> HIDE DEF f
            <4>. QED BY <2>1, <4>1, <4>2, ReturnedFrame, ResumedFrame
        <3>2. Reply(c) => calls'[c].pair = NULL
            BY <2>1 DEF Reply, NoCall
        <3>. QED BY <2>2, <3>1, <3>2
    <2>3. CASE LoadContext(c)
        <3>1. calls[c].prof \in Profiles
            BY <2>3 DEF LoadContext, TypeInv, FramesOK, Running
        <3>2. /\ calls'[c].prof = calls[c].prof
              /\ calls'[c].pair \in {NULL, runtime[calls[c].prof].pair}
            BY <2>1, <2>3 DEF LoadContext, Resume, Call
        <3>. QED BY <3>1, <3>2 DEF PlaceInv
    <2>4. CASE Resolve(c)
        <3>1. calls[c].prof \in Profiles
            BY <2>4 DEF Resolve, TypeInv, FramesOK, Running
        <3>2. PICK pr \in {ResolveActivePair(answer) : answer \in Answers(Target(c))} \cup {NULL} :
                Resume(c, [calls[c] EXCEPT !.pair = IF pr = NULL THEN @ ELSE pr], "preflight")
            BY <2>4 DEF Resolve
        <3>3. /\ calls'[c].prof = calls[c].prof
              /\ calls'[c].pair \in {calls[c].pair, pr}
            BY <2>1, <3>2 DEF Resume, Call
        <3>4. pr \in Places(PolicyOf[calls[c].prof]) \cup {NULL}
            <4>1. /\ PolicyOfCall(c) \in Policies /\ Target(c) \in RoutePolicy
                  /\ InPlace(PolicyOfCall(c), Target(c))
                BY <3>1, CommandAssumption DEF PolicyOfCall, Target, PlaceInv, TypeInv, TypeOK
            <4>. QED BY <3>2, <4>1, <1>PlansInPlace DEF PolicyOfCall
        <3>. QED BY <2>1, <3>3, <3>4
    <2>5. CASE LoadProfile(c) \/ Gate(c) \/ Preflight(c) \/ WriteLive(c) \/ WriteMock(c)
               \/ ReadBack(c) \/ Record(c)
        <3>1. \/ \E status : Return(c, calls[c], status)
              \/ \E x \in BOOLEAN, pc \in {"context", "preflight"} :
                    Resume(c, [calls[c] EXCEPT !.excl = x], pc)
              \/ \E pc \in {"write", "readback", "reply"} : Resume(c, calls[c], pc)
              \/ \E status \in Status : Resume(c, [calls[c] EXCEPT !.status = status], "record")
            <4>1. CASE ReadBack(c)
                BY <4>1 DEF ReadBack, Status
            <4>2. CASE LoadProfile(c) \/ Gate(c) \/ Preflight(c) \/ WriteLive(c)
                       \/ WriteMock(c) \/ Record(c)
                BY <2>1, <4>2 DEF LoadProfile, Gate, Preflight, WriteLive, WriteMock, Record,
                                  TypeInv, TypeOK, FramesOK, Running
            <4>. QED BY <2>5, <4>1, <4>2
        <3>2. calls'[c].prof = calls[c].prof /\ calls'[c].pair \in {NULL, calls[c].pair}
            <4>1. CASE \E status : Return(c, calls[c], status)
                BY <2>1, <4>1 DEF Return, Call
            <4>2. CASE \E x \in BOOLEAN, pc \in {"context", "preflight"} :
                        Resume(c, [calls[c] EXCEPT !.excl = x], pc)
                BY <2>1, <4>2 DEF Resume, Call
            <4>3. CASE \E pc \in {"write", "readback", "reply"} : Resume(c, calls[c], pc)
                BY <2>1, <4>3 DEF Resume, Call
            <4>4. CASE \E status \in Status :
                        Resume(c, [calls[c] EXCEPT !.status = status], "record")
                BY <2>1, <4>4 DEF Resume, Call
            <4>. QED BY <3>1, <4>1, <4>2, <4>3, <4>4
        <3>. QED BY <2>1, <3>2
    <2>. QED BY <2>2, <2>3, <2>4, <2>5 DEF CallStep
<1>Dumped. ASSUME TypeInv, PlaceInv, [Next]_vars, edits = 0, ~torn, NEW s \in Scans,
                 scans'[s].conf # NULL, NEW pol \in Policies
      PROVE  PlanFor(scans'[s].conf[pol]) \in Places(pol) \cup {NULL}
    <2> USE <1>Dumped
    <2>1. /\ scans \in [Scans -> Scan] /\ device \in [Policies -> RoutePolicy]
          /\ \A at \in Policies : InPlace(at, device[at])
          /\ scans[s].conf # NULL => PlanFor(scans[s].conf[pol]) \in Places(pol) \cup {NULL}
        BY DEF PlaceInv, TypeInv, TypeOK
    <2>2. scans'[s].conf \in {scans[s].conf, NULL} \cup Dumps(device)
        <3>1. ASSUME NEW t \in Scans, ScanStep(t)
              PROVE  scans'[s].conf \in {scans[s].conf, NULL} \cup Dumps(device)
            <4>1. PICK f : /\ scans' = [scans EXCEPT ![t] = f]
                           /\ f.conf \in {scans[t].conf, NULL} \cup Dumps(device)
                <5>0. scans[t] \in Scan
                    BY DEF TypeInv, TypeOK
                <5>1. CASE ScanRead(t)
                    BY <5>1 DEF ScanRead, NoScan
                <5>2. CASE ScanReconcile(t) \/ ScanCache(t)
                    BY <5>0, <5>2 DEF ScanReconcile, ScanCache, NoScan, Scan
                <5>3. CASE ScanUpsert(t)
                    <6>1. \E kept \in {scans[t].kept, scans[t].kept \cup {scans[t].at}} :
                            scans' = [scans EXCEPT ![t] =
                                [scans[t] EXCEPT !.pc = "persist", !.at = NULL, !.state = "NONE",
                                                 !.todo = @ \ {scans[t].at}, !.kept = kept]]
                        BY <5>0, <5>3 DEF ScanUpsert, Scan
                    <6>2. \A kept : [scans[t] EXCEPT !.pc = "persist", !.at = NULL, !.state = "NONE",
                                        !.todo = @ \ {scans[t].at}, !.kept = kept].conf
                                     = scans[t].conf
                        BY <5>0 DEF Scan
                    <6>. QED BY <6>1, <6>2
                <5>4. CASE \E p \in Profiles : ScanTarget(t, p)
                    <6>1. PICK p \in Profiles : ScanTarget(t, p)
                        BY <5>4
                    <6> DEFINE looked == [scans[t] EXCEPT !.pc = "upsert", !.at = p,
                                                          !.state = runtime[p].state]
                               failed(scope) == [scans[t] EXCEPT !.todo = @ \ {p}, !.scope[p] = scope]
                    <6>2. looked.conf = scans[t].conf /\ \A scope : failed(scope).conf = scans[t].conf
                        BY <5>0 DEF Scan
                    <6>3. \/ scans' = [scans EXCEPT ![t] = looked]
                          \/ \E scope : scans' = [scans EXCEPT ![t] = failed(scope)]
                        BY <6>1 DEF ScanTarget
                    <6> HIDE DEF looked, failed
                    <6>. QED BY <6>2, <6>3
                <5>5. CASE \E p \in Profiles : ScanDisable(t, p)
                    BY <5>0, <5>5 DEF ScanDisable, NoScan, Scan
                <5>. QED BY <3>1, <5>1, <5>2, <5>3, <5>4, <5>5 DEF ScanStep
            <4>. QED BY <2>1, <4>1
        <3>2. CASE Restart
            BY <2>1, <3>2 DEF Restart, NoScan
        <3>3. CASE ~Restart /\ ~\E t \in Scans : ScanStep(t)
            BY <3>3 DEF Next, vars, CallStep, Begin, LoadProfile, LoadContext, Resolve, Gate,
                   Preflight, WriteLive, WriteMock, ReadBack, Record, Reply, ToggleExclusion,
                   TogglePeerExclusion, OperatorEdit
        <3>. QED BY <3>1, <3>2, <3>3
    \* What a dump holds of a policy plans as an answer of the router would, or not
    \* at all.
    <2>3. ASSUME NEW dump \in Dumps(device)
          PROVE  PlanFor(dump[pol]) \in Places(pol) \cup {NULL}
        <3>1. device[pol] \in RoutePolicy /\ InPlace(pol, device[pol])
            BY <2>1
        <3>2. \A answer \in Answers(device[pol]) : PlanFor(answer) \in Places(pol) \cup {NULL}
            BY <3>1, <1>PlansInPlace
        <3>3. device[pol] \in Answers(device[pol])
            BY DEF Answers
        <3>4. PlanFor([n \in NodeIds |-> "free"]) = NULL
            BY DEF PlanFor, SelectNodePair, FirstTwo, FreeBeforeNormal, NormalNodes
        <3>5. dump[pol] \in {device[pol], [n \in NodeIds |-> "free"]} \cup Answers(device[pol])
            <4>1. \A conf \in [Policies -> RoutePolicy] : \A cut \in Dumps(conf), at \in Policies :
                    cut[at] \in {conf[at], [n \in NodeIds |-> "free"]} \cup Answers(conf[at])
                BY ValueTypes
            <4>2. \A cut \in Dumps(device), at \in Policies :
                    cut[at] \in {device[at], [n \in NodeIds |-> "free"]} \cup Answers(device[at])
                BY <2>1, <4>1
            <4>. QED BY <2>3, <4>2
        <3>. QED BY <3>2, <3>3, <3>4, <3>5
    <2>. QED BY <2>1, <2>2, <2>3
<1>PlaceNext. TypeInv /\ PlaceInv /\ [Next]_vars => PlaceInv'
    <2> SUFFICES ASSUME TypeInv, PlaceInv, [Next]_vars, edits' = 0, ~torn'
                 PROVE  /\ \A pol \in Policies : InPlace(pol, device'[pol])
                        /\ \A p \in Profiles : runtime'[p].pair \in Places(PolicyOf[p]) \cup {NULL}
                        /\ \A c \in Calls : calls'[c].pair \in Places(PolicyOf[calls'[c].prof])
                                                                \cup {NULL}
                        /\ \A s \in Scans : scans'[s].conf # NULL => \A pol \in Policies :
                                PlanFor(scans'[s].conf[pol]) \in Places(pol) \cup {NULL}
        BY DEF PlaceInv, PolicyOfCall
    <2>1. edits = 0 /\ ~torn
        <3>1. edits \in Nat /\ torn \in BOOLEAN
            BY CommandAssumption DEF TypeInv, TypeOK
        <3>2. edits' = edits \/ edits' = edits + 1
            BY DEF Next, vars, bounds, CallStep, Begin, LoadProfile, LoadContext, Resolve, Gate,
                   Preflight, WriteLive, WriteMock, ReadBack, Record, Reply, ScanStep, ScanRead,
                   ScanTarget, ScanUpsert, ScanReconcile, ScanDisable, ScanCache,
                   ToggleExclusion, TogglePeerExclusion, OperatorEdit, Restart
        <3>3. torn => torn'
            BY DEF Next, vars, CallStep, Begin, LoadProfile, LoadContext, Resolve, Gate,
                   Preflight, WriteLive, WriteMock, ReadBack, Record, Reply, ScanStep, ScanRead,
                   ScanTarget, ScanUpsert, ScanReconcile, ScanDisable, ScanCache,
                   ToggleExclusion, TogglePeerExclusion, OperatorEdit, Restart
        <3>. QED BY <3>1, <3>2, <3>3
    <2>2. ASSUME NEW c \in Calls
          PROVE  calls'[c].pair \in Places(PolicyOf[calls'[c].prof]) \cup {NULL}
        <3>1. calls[c].pair \in Places(PolicyOf[calls[c].prof]) \cup {NULL}
            BY <2>1 DEF PlaceInv, PolicyOfCall
        <3>2. CASE CallStep(c)
            BY <2>1, <3>2, <1>Frames
        <3>3. CASE Restart
            BY <3>1, <3>3 DEF Restart, NoCall
        <3>4. CASE ~CallStep(c) /\ ~Restart
            BY <3>1, <3>4, SparedByOthers DEF Spared
        <3>. QED BY <3>2, <3>3, <3>4
    <2>. QED BY <2>1, <2>2, <1>Device, <1>Rows, <1>Dumped
<1>1. Init => PlaceInv
    BY InheritedAssumption DEF Init, PlaceInv, NoCall, NoScan
\* Between the nodes of a place there is nothing but the operator's.
<1>2. TypeInv /\ PlaceInv => PairsStayWhole
    <2> SUFFICES ASSUME TypeInv, PlaceInv, edits = 0, ~torn, NEW pol \in Policies
                 PROVE  \A n \in BogonNodes(device[pol]) \cup MitigationNodes(device[pol]) :
                          \E b \in BogonNodes(device[pol]), m \in MitigationNodes(device[pol]) :
                            /\ n \in {b, m}
                            /\ b < m
                            /\ \A k \in NodeIds : b < k /\ k < m => device[pol][k] \in ForeignKind
        <3> SUFFICES ASSUME TypeInv, PlaceInv, edits = 0, ~torn, NEW pol \in Policies
                     PROVE  LET policy == device[pol]
                                adjacent(b, m) ==
                                    b < m /\ \A k \in NodeIds : b < k /\ k < m =>
                                                policy[k] \in ForeignKind IN
                            /\ \A b \in BogonNodes(policy) :
                                    \E m \in MitigationNodes(policy) : adjacent(b, m)
                            /\ \A m \in MitigationNodes(policy) :
                                    \E b \in BogonNodes(policy) : adjacent(b, m)
            BY DEF PairsStayWhole
        <3> DEFINE policy == device[pol]
                   adjacent(b, m) == b < m /\ \A k \in NodeIds : b < k /\ k < m =>
                                                    policy[k] \in ForeignKind
        <3>1. \A n \in BogonNodes(policy) : n \notin MitigationNodes(policy)
            BY DEF BogonNodes, MitigationNodes
        <3>2. \A n \in BogonNodes(policy) \cup MitigationNodes(policy) :
                \E b \in BogonNodes(policy), m \in MitigationNodes(policy) :
                    n \in {b, m} /\ adjacent(b, m)
            OBVIOUS
        <3> HIDE DEF adjacent, policy
        <3>3. ASSUME NEW b \in BogonNodes(policy)
              PROVE  \E m \in MitigationNodes(policy) : adjacent(b, m)
            BY <3>1, <3>2
        <3>4. ASSUME NEW m \in MitigationNodes(policy)
              PROVE  \E b \in BogonNodes(policy) : adjacent(b, m)
            BY <3>1, <3>2
        <3>. QED BY <3>3, <3>4 DEF adjacent, policy
    <2> TAKE n \in BogonNodes(device[pol]) \cup MitigationNodes(device[pol])
    <2>1. PICK pr \in Places(pol) : n \in NodesOf(pr) /\ PairPresent(device[pol], pr)
        BY DEF PlaceInv, InPlace
    <2>2. ASSUME NEW k \in NodeIds, pr.bogon < k, k < pr.mitigation
          PROVE  device[pol][k] \in ForeignKind
        <3>0. /\ NodeIds \subseteq Nat /\ MaxCandidate \in Nat
              /\ \A i \in NodeIds : InitialPolicy[pol][i] \in Kind
            BY PlannerAssumption, CommandAssumption DEF RoutePolicy
        <3>1. /\ pr.mitigation \in Room(pol) /\ pr.bogon \in NodeIds
              /\ \A i \in Room(pol) : i <= pr.bogon \/ i >= pr.mitigation
            BY DEF Places, NodesOf, Pair
        <3>2. k \notin Room(pol) /\ pr.mitigation \in NodeIds
            <4>1. pr.mitigation \in NodeIds
                BY <3>1 DEF Room, FreeBeforeNormal
            <4>2. k \in Nat /\ pr.bogon \in Nat /\ pr.mitigation \in Nat
                BY <3>0, <3>1, <4>1
            <4>. QED BY <2>2, <3>1, <4>1, <4>2
        <3> DEFINE normal == NormalNodes(InitialPolicy[pol])
        <3>3. \A i \in NodeIds : i \in Room(pol) <=>
                /\ i <= MaxCandidate /\ normal # {} /\ \A j \in normal : i < j
                /\ InitialPolicy[pol][i] \notin ForeignKind
            BY DEF Room, FreeBeforeNormal
        <3>4. normal \subseteq NodeIds
            BY DEF NormalNodes
        <3> HIDE DEF normal
        <3>5. k <= MaxCandidate /\ normal # {} /\ \A j \in normal : k < j
            <4>1. /\ k \in Nat /\ pr.mitigation \in Nat /\ MaxCandidate \in Nat
                  /\ normal \subseteq Nat
                BY <3>0, <3>2, <3>4
            <4>2. /\ pr.mitigation <= MaxCandidate /\ normal # {}
                  /\ \A j \in normal : pr.mitigation < j
                BY <3>1, <3>2, <3>3
            <4>. QED BY <2>2, <4>1, <4>2
        <3>6. InitialPolicy[pol][k] \in ForeignKind
            BY <3>2, <3>3, <3>5
        <3>. QED BY <3>6 DEF PlaceInv, InPlace
    <2>3. /\ pr.bogon \in BogonNodes(device[pol]) /\ pr.mitigation \in MitigationNodes(device[pol])
          /\ pr.bogon < pr.mitigation
        BY <2>1 DEF Places, Pair, PairPresent, BogonNodes, MitigationNodes
    <2>. QED BY <2>1, <2>2, <2>3 DEF NodesOf
<1>. QED BY <1>1, <1>2, <1>PlaceNext, TypeInvHolds, PTL DEF Spec
=============================================================================
