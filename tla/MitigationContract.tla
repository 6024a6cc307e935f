-------------------------- MODULE MitigationContract --------------------------
(***************************************************************************)
(* What a mitigation command promises, to its caller and to the router:    *)
(* MitigationCommandService without its reads, gates, executors' sessions  *)
(* and discoveries. MitigationRefinement shows that MitigationCommand      *)
(* keeps it.                                                               *)
(*                                                                         *)
(* A call decides, or is answered from memory. Having decided on a pair    *)
(* that is clear on the router it changes the router at most once, that    *)
(* pair only, and says "verified" only after it has looked. Nothing else   *)
(* of NetVision changes the router or records a target as mitigated.       *)
(*                                                                         *)
(* What goes wrong on the way is counted: without a fault a call looks at  *)
(* the router as it is, commits the whole pair and is judged by what is    *)
(* there; each departure from that takes a fault of its own.               *)
(***************************************************************************)
EXTENDS MitigationPlanner

CONSTANTS
    Profiles, Policies, PolicyOf, InitialPolicy,
    Calls, RequestIds

VARIABLES
    device,      \* the route-policies
    mitigated,   \* the targets whose runtime row says MITIGATED
    answered,    \* the ids whose repetition is answered from memory
    calls,
    faults       \* reads and writes that failed, or were cut, so far

vars == <<device, mitigated, answered, calls, faults>>

Actions == {"ACTIVATE", "REMOVE"}
Phase == {"new", "deciding", "cleared", "committed", "judged", "answering", "over"}
Outcome == {"none", "VERIFIED", "CACHED", "REFUSED"}

Call == [phase : Phase, action : Actions, req : RequestIds \cup {NULL},
         prof : Profiles \cup {NULL}, pair : Pair \cup {NULL}, live : BOOLEAN,
         outcome : Outcome]

NoCall(phase) ==
    [phase |-> phase, action |-> "REMOVE", req |-> NULL, prof |-> NULL,
     pair |-> NULL, live |-> FALSE, outcome |-> "none"]

Target(c) == device[PolicyOf[calls[c].prof]]

Init ==
    /\ device = InitialPolicy
    /\ mitigated = {}
    /\ answered = {}
    /\ calls = [c \in Calls |-> NoCall("new")]
    /\ faults = 0

-----------------------------------------------------------------------------

Put(c, f) == calls' = [calls EXCEPT ![c] = f]

\* A step during which at most one thing goes wrong, and does if e.
Tries(e) ==
    /\ faults' \in {faults, faults + 1}
    /\ e => faults' = faults + 1

\* The call is to be answered so; what it worked on is forgotten.
Answering(c, outcome) ==
    Put(c, [calls[c] EXCEPT !.phase = "answering", !.outcome = outcome,
                            !.pair = NULL, !.live = FALSE])

\* An id that was answered "verified" is answered from memory.
Begin(c, a, r, p) ==
    LET f == [NoCall("new") EXCEPT !.action = a, !.req = r, !.prof = p] IN
    /\ calls[c].phase = "new"
    /\ Put(c, IF r \in answered THEN [f EXCEPT !.phase = "answering", !.outcome = "CACHED"]
              ELSE [f EXCEPT !.phase = "deciding"])
    /\ UNCHANGED <<device, mitigated, answered, faults>>

\* A call may be refused before it has changed anything, and for a failing
\* read-back after.
Refuse(c) ==
    /\ calls[c].phase \in {"deciding", "committed"}
    /\ Answering(c, "REFUSED")
    /\ Tries(calls[c].phase = "committed")
    /\ UNCHANGED <<device, mitigated, answered>>

\* A pair may be written if its nodes are free, and deleted if they hold it.
ClearFor(policy, action, pr) ==
    IF action = "ACTIVATE" THEN PairAbsent(policy, pr) ELSE PairPresent(policy, pr)

\* A live call is cleared by the router as it shows itself, any other by nothing.
Clear(c) ==
    LET f == calls'[c] IN
    /\ calls[c].phase = "deciding"
    /\ f = [calls[c] EXCEPT !.phase = "cleared", !.pair = f.pair, !.live = f.live]
    /\ f.pair \in Pair /\ f.live \in BOOLEAN
    /\ \E answer \in Answers(Target(c)) :
        /\ f.live => ClearFor(answer, f.action, f.pair)
        /\ Tries(answer # Target(c))
    /\ Put(c, f)
    /\ UNCHANGED <<device, mitigated, answered>>

\* What may become of a policy: the pair, as a whole or in part, and no more.
Outcomes(policy, action, pr) ==
    LET left(n, new) ==
            {policy[n]} \cup (IF action = "ACTIVATE" THEN new ELSE {"free"}) IN
    {[policy EXCEPT ![pr.bogon] = x, ![pr.mitigation] = y] :
        x \in left(pr.bogon, {"deny", "bogon"}),
        y \in left(pr.mitigation, {"permit", "mitigation"})}

\* The pair as a whole, had nothing gone wrong.
Whole(policy, action, pr) ==
    IF action = "ACTIVATE"
    THEN [policy EXCEPT ![pr.bogon] = "bogon", ![pr.mitigation] = "mitigation"]
    ELSE [policy EXCEPT ![pr.bogon] = "free", ![pr.mitigation] = "free"]

Commit(c) ==
    LET f == calls[c]
        pol == PolicyOf[f.prof] IN
    /\ f.phase = "cleared"
    /\ IF f.live
       THEN \E policy \in Outcomes(device[pol], f.action, f.pair) :
                /\ device' = [device EXCEPT ![pol] = policy]
                /\ Tries(policy # Whole(device[pol], f.action, f.pair))
       ELSE UNCHANGED <<device, faults>>
    /\ \/ Put(c, [f EXCEPT !.phase = "committed"])
       \/ f.live /\ Answering(c, "REFUSED") /\ faults' = faults + 1
    /\ UNCHANGED <<mitigated, answered>>

\* The router says whether a live call did what it was to do. An answer that is
\* cut shows nothing that is not there, so only a removal can seem done.
Judge(c) ==
    LET f == calls[c] IN
    /\ f.phase = "committed"
    /\ \E answer \in Answers(Target(c)), outcome \in {"VERIFIED", "REFUSED"} :
        /\ f.live => (outcome = "VERIFIED" <=> Done(answer, f.action, f.pair))
        /\ Tries(answer # Target(c))
        /\ Put(c, [f EXCEPT !.phase = "judged", !.outcome = outcome])
    /\ UNCHANGED <<device, mitigated, answered>>

\* The runtime row follows what the call aimed at, unless storing it fails.
Book(c) ==
    LET f == calls[c] IN
    /\ f.phase = "judged"
    /\ \/ /\ mitigated' = IF f.action = "ACTIVATE" THEN mitigated \cup {f.prof}
                           ELSE mitigated \ {f.prof}
          /\ UNCHANGED faults
       \/ /\ UNCHANGED mitigated
          /\ Tries(TRUE)
    /\ Answering(c, f.outcome)
    /\ UNCHANGED <<device, answered>>

Answer(c) ==
    /\ calls[c].phase = "answering"
    /\ answered' = answered \cup
            (IF calls[c].outcome = "VERIFIED" THEN {calls[c].req} ELSE {})
    /\ Put(c, NoCall("over"))
    /\ UNCHANGED <<device, mitigated, faults>>

CallStep(c) ==
    \/ \E a \in Actions, r \in RequestIds, p \in Profiles : Begin(c, a, r, p)
    \/ Refuse(c) \/ Clear(c) \/ Commit(c) \/ Judge(c) \/ Book(c) \/ Answer(c)

-----------------------------------------------------------------------------

\* A discovery may take a target for no longer mitigated, never for mitigated.
Reconcile(p) ==
    /\ mitigated' = mitigated \ {p}
    /\ UNCHANGED <<device, answered, calls, faults>>

\* A read that decides nothing yet, or a discovery's, fails or is cut.
Fault ==
    /\ Tries(TRUE)
    /\ UNCHANGED <<device, mitigated, answered, calls>>

\* The router's operator may do anything but NetVision's part.
Edit(pol, n, kind) ==
    /\ device' = [device EXCEPT ![pol][n] = kind]
    /\ UNCHANGED <<mitigated, answered, calls, faults>>

\* Calls in progress are never answered; what was answered is forgotten.
Restart ==
    /\ answered' = {}
    /\ calls' = [c \in Calls |->
            IF calls[c].phase \in {"new", "over"} THEN calls[c] ELSE NoCall("over")]
    /\ UNCHANGED <<device, mitigated, faults>>

Next ==
    \/ \E p \in Profiles : Reconcile(p)
    \/ \E c \in Calls : CallStep(c)
    \/ \E pol \in Policies, n \in NodeIds, kind \in {"free"} \cup ForeignKind :
            Edit(pol, n, kind)
    \/ Fault
    \/ Restart

Spec == Init /\ [][Next]_vars
=============================================================================
