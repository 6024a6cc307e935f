-------------------------- MODULE MitigationPlanner --------------------------
(***************************************************************************)
(* The pure planner of the DDoS mitigation core                            *)
(* (apps/api/src/infrastructure/bgp/mitigation/mitigation-planner.ts) and  *)
(* the classification of route-policy nodes it is fed with.                *)
(*                                                                         *)
(* A route-policy is a function from node numbers to what a node holds.    *)
(* Only the distinctions the code makes are kept:                          *)
(*   "free"       no such node                                             *)
(*   "permit"     a permit node that is not a mitigation node ("normal")   *)
(*   "deny"       a deny node without the BOGONS prefix-list               *)
(*   "bogon"      deny + if-match BOGONS                                   *)
(*   "mitigation" permit + if-match PREFIX8to24 + the mitigation RT        *)
(***************************************************************************)
EXTENDS Integers

CONSTANTS
    NodeIds,        \* node numbers a policy of the model may use
    MaxCandidate,   \* ceiling of a temporary node (9 in the code)
    NULL            \* the code's null

ASSUME PlannerAssumption ==
    /\ NodeIds \subseteq Nat \ {0}
    /\ MaxCandidate \in Nat
    /\ \A b, m \in NodeIds : NULL # [bogon |-> b, mitigation |-> m]

Kind == {"free", "permit", "deny", "bogon", "mitigation"}

\* What the operator of the router configures; everything else is NetVision's.
ForeignKind == {"permit", "deny"}

RoutePolicy == [NodeIds -> Kind]

\* A MitigationNodePair.
Pair == [bogon : NodeIds, mitigation : NodeIds]

NodesOf(pr) == {pr.bogon, pr.mitigation}

-----------------------------------------------------------------------------
(* Classification of the parsed nodes                                       *)

ExistingNodes(policy) == {n \in NodeIds : policy[n] # "free"}
BogonNodes(policy) == {n \in NodeIds : policy[n] = "bogon"}
MitigationNodes(policy) == {n \in NodeIds : policy[n] = "mitigation"}
NormalNodes(policy) == {n \in NodeIds : policy[n] = "permit"}

-----------------------------------------------------------------------------
(* selectNodePair                                                           *)

\* nodesBeforeFirstNormal without the occupied ones ("livres"). A policy with
\* no normal node has ceiling 0: nothing is free.
FreeBeforeNormal(normal, occupied) ==
    {n \in NodeIds :
        /\ n <= MaxCandidate
        /\ normal # {}
        /\ \A k \in normal : n < k
        /\ n \notin occupied}

\* The first free node denies BOGONS, the next free node mitigates.
FirstTwo(free) ==
    {pr \in Pair :
        /\ pr.bogon \in free
        /\ pr.mitigation \in free
        /\ pr.bogon < pr.mitigation
        /\ \A n \in free : n = pr.bogon \/ n >= pr.mitigation}

\* Mutants: a plan made with one free node only; the two nodes swapped.
HalfPlan(normal, occupied) ==
    LET free == FreeBeforeNormal(normal, occupied) IN
    IF free = {} THEN NULL
    ELSE LET first == CHOOSE n \in free : \A k \in free : n <= k IN
         [bogon |-> first, mitigation |-> 0]

SwappedPlan(normal, occupied) ==
    LET firsts == FirstTwo(FreeBeforeNormal(normal, occupied)) IN
    IF firsts = {} THEN NULL
    ELSE LET pr == CHOOSE pr \in firsts : TRUE IN
         [bogon |-> pr.mitigation, mitigation |-> pr.bogon]

\* The planned pair, NULL when blocked with NO_SAFE_TEMPORARY_NODE.
SelectNodePair(normal, occupied) ==
    LET firsts == FirstTwo(FreeBeforeNormal(normal, occupied)) IN
    IF firsts = {} THEN NULL ELSE CHOOSE pr \in firsts : TRUE

\* What discovery plans for a policy it has read.
PlanFor(policy) == SelectNodePair(NormalNodes(policy), ExistingNodes(policy))

-----------------------------------------------------------------------------
(* What the router answers                                                  *)

\* A node of which only the first line was printed.
Plain(kind) ==
    CASE kind = "bogon" -> "deny" [] kind = "mitigation" -> "permit" [] OTHER -> kind

\* The printed text ends at node k, of which at most the first line is there.
CutAt(policy, k, first) ==
    [n \in NodeIds |-> IF n < k THEN policy[n]
                       ELSE IF n = k /\ first THEN Plain(policy[n]) ELSE "free"]

\* A channel that closes early, or a router that pauses while it prints, ends a
\* read without an error: what is there by then is taken for the whole policy.
Answers(policy) ==
    {policy} \cup {CutAt(policy, k, first) : k \in NodeIds, first \in BOOLEAN}

\* The route-policies of a device in one dump, cut while it prints that of at:
\* those after it are missing.
Dump(conf, at, answer, after) ==
    [pol \in DOMAIN conf |-> IF pol = at THEN answer
                            ELSE IF pol \in after THEN [n \in NodeIds |-> "free"]
                            ELSE conf[pol]]

Dumps(conf) ==
    LET cuts(at, after) == {Dump(conf, at, answer, after) : answer \in Answers(conf[at])} IN
    {conf} \cup UNION {cuts(at, after) : at \in DOMAIN conf, after \in SUBSET DOMAIN conf}

-----------------------------------------------------------------------------
(* Read-back                                                                *)

\* verifyActivation: both nodes of the pair are complete.
PairPresent(policy, pr) ==
    policy[pr.bogon] = "bogon" /\ policy[pr.mitigation] = "mitigation"

\* verifyRemoval: both nodes are gone.
PairAbsent(policy, pr) ==
    policy[pr.bogon] = "free" /\ policy[pr.mitigation] = "free"

\* What the read-back of an action looks for.
Done(policy, action, pr) ==
    IF action = "ACTIVATE" THEN PairPresent(policy, pr) ELSE PairAbsent(policy, pr)

\* resolveActivePair: exactly one candidate for each node, otherwise null.
ActivePairs(policy) ==
    {pr \in Pair :
        /\ BogonNodes(policy) = {pr.bogon}
        /\ MitigationNodes(policy) = {pr.mitigation}}

ResolveActivePair(policy) ==
    IF ActivePairs(policy) = {} THEN NULL
    ELSE CHOOSE pr \in ActivePairs(policy) : TRUE
=============================================================================
