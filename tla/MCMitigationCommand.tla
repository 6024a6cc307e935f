------------------------- MODULE MCMitigationCommand -------------------------
(* Small instances of MitigationCommand for TLC. *)
EXTENDS MitigationRefinement, TLC

CONSTANTS p1, p2, c1, c2, r1, r2, s1, s2, pol1

MCNodeIds == 1 .. 5
MCNodeIds6 == 1 .. 6
MCPolicyOf == [p \in Profiles |-> pol1]

\* Nodes 1, 3, 4 are free, 2 is a hand-made deny, 5 is where normal routes go.
MCInitialPolicy ==
    [pol \in Policies |->
        [n \in MCNodeIds |-> CASE n = 5 -> "permit" [] n = 2 -> "deny" [] OTHER -> "free"]]

\* The same with the pair <<1, 3>> active since before the API started, room for
\* a second one on 4 and 5, and the normal routes on 6.
MCActivePolicy ==
    [pol \in Policies |->
        [n \in MCNodeIds6 |->
            CASE n = 1 -> "bogon" [] n = 2 -> "deny" [] n = 3 -> "mitigation"
              [] n = 6 -> "permit" [] OTHER -> "free"]]

\* By hand: node 1 is deleted, node 3 becomes a normal node.
MCEdits ==
    {[policy |-> pol1, node |-> 1, kind |-> "free"],
     [policy |-> pol1, node |-> 3, kind |-> "permit"]}

MCSymmetry ==
    Permutations(Profiles) \cup Permutations(Calls) \cup
    Permutations(RequestIds) \cup Permutations(Scans)
=============================================================================
