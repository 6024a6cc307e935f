---------------------------- MODULE PhysicalTrace ----------------------------
(***************************************************************************)
(* tracePhysicalPath on the cabling of PhysicalInventory: what an operator *)
(* who clicks a port is shown of its path                                  *)
(* (apps/api/src/infrastructure/physical/physical-domain.ts).              *)
(***************************************************************************)
EXTENDS PhysicalInventory

OtherEnd(p) ==
    IF port[p].cable = NULL THEN p
    ELSE CHOOSE q \in Live \ {p} : port[q].cable = port[p].cable

\* What is followed: from where it began to its end, through what it has seen.
Begin(p) == [end |-> p, seen |-> {p}, loop |-> FALSE, over |-> FALSE]

\* Mutant: the end of the cable is not noted as visited.
StepForgetful(w) ==
    LET far == OtherEnd(w.end)
        next == port[far].pair
        stop(q, loop) ==
            [end |-> q, seen |-> w.seen \cup {far}, loop |-> loop, over |-> TRUE]
    IN
    IF w.over THEN w
    ELSE IF far # w.end /\ far \in w.seen THEN stop(w.end, TRUE)
    ELSE IF next = NULL THEN stop(far, FALSE)
    ELSE IF next \in w.seen THEN stop(far, next = w.end)
    ELSE [w EXCEPT !.end = next, !.seen = @ \cup {next}]

\* Mutant: only the cables are watched for a loop.
StepRevisits(w) ==
    LET far == OtherEnd(w.end)
        now == w.seen \cup {far}
        next == port[far].pair
        stop(q, loop) == [end |-> q, seen |-> now, loop |-> loop, over |-> TRUE]
    IN
    IF w.over THEN w
    ELSE IF far # w.end /\ far \in w.seen THEN stop(w.end, TRUE)
    ELSE IF next = NULL THEN stop(far, FALSE)
    ELSE [w EXCEPT !.end = next, !.seen = now \cup {next}]

\* A round of the loop: along the cable, then through the passage, until a port has
\* none or was seen.
Step(w) ==
    LET far == OtherEnd(w.end)
        now == w.seen \cup {far}
        next == port[far].pair
        stop(q, loop) == [end |-> q, seen |-> now, loop |-> loop, over |-> TRUE]
    IN
    IF w.over THEN w
    ELSE IF far # w.end /\ far \in w.seen THEN stop(w.end, TRUE)
    ELSE IF next = NULL THEN stop(far, FALSE)
    ELSE IF next \in now THEN stop(far, TRUE)
    ELSE [w EXCEPT !.end = next, !.seen = now \cup {next}]

\* Every round but the last comes to another port: there are no more than ports.
Trace(p) ==
    LET after[n \in Nat] == IF n = 0 THEN Begin(p) ELSE Step(after[n - 1]) IN
    after[Cardinality(Ports)]

-----------------------------------------------------------------------------
(* Properties                                                               *)

Mutual == \A p \in Live : port[p].pair # NULL =>
    port[p].pair \in Live /\ port[port[p].pair].pair = p

\* Every one of these ports has a cable and a passage, and neither leads out.
Ring(r) == \A q \in r :
    port[q].cable # NULL /\ OtherEnd(q) \in r /\ port[q].pair \in r

\* The loop of tracePhysicalPath, which has no bound of its own, comes to an end,
\* with passages known to one side only too.
TraceEnds == \A p \in Live : Trace(p).over

\* tracePhysicalPath reports a loop where the cabling has one, or where the path ends
\* at a passage whose far side has no cable; when passages are known to both sides.
LoopsAreReal == Mutual => \A p \in Live :
    LET t == Trace(p) IN
    t.loop => Ring(t.seen) \/ port[t.end].cable = NULL

\* A path is the same from both ends: traced from where it ends, it passes through
\* where it began; when passages are known to both sides.
TraceComesBack == Mutual => \A p \in Live : p \in Trace(Trace(p).end).seen
=============================================================================
