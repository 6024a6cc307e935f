------------------------- MODULE MCPhysicalInventory -------------------------
(* A switch sw with a cage, two discovered ports and a board, and a patch panel *)
(* with two passages and a port an operator may add.                           *)
EXTENDS PhysicalTrace, TLC

CONSTANTS sw, panel, card, cage, disc, log, bp, front, rear, front2, rear2, man,
    eth, lane, gig, vlan

MCPortsOf == (sw :> {cage, disc, log, bp}) @@ (panel :> {front, rear, front2, rear2, man})
MCOrigin == [p \in {disc, log} |-> "discovered"] @@ (bp :> card) @@ (man :> "manual")
    @@ [p \in {cage, front, rear, front2, rear2} |-> "template"]
MCSide == [p \in {cage, disc, log, bp} |-> "DEVICE"] @@ [p \in {front, front2, man} |-> "FRONT"]
    @@ [p \in {rear, rear2} |-> "REAR"]
MCSlotOf == card :> sw
MCHome == [i \in {eth, lane, gig, vlan} |-> sw]
MCClass == (eth :> "PHYSICAL") @@ (lane :> "LANE") @@ (gig :> "PHYSICAL") @@ (vlan :> "LOGICAL")
MCConnector == (eth :> cage) @@ (lane :> cage) @@ (gig :> disc) @@ (vlan :> log)
MCIfIndex == (eth :> 1) @@ (lane :> 2) @@ (gig :> 3) @@ (vlan :> 4)

Unit(u) == [start |-> u, height |-> 1]
Passage(a, b) == (a :> [Free EXCEPT !.pair = b]) @@ (b :> [Free EXCEPT !.pair = a])
Switch == (cage :> Free) @@ [p \in {disc, log, bp} |-> NULL]
Panel == [p \in {front, rear, front2, rear2} |-> Free] @@ (man :> NULL)

Full == (sw :> Unit(1)) @@ (panel :> Unit(2))
Panelled == (log :> [Free EXCEPT !.iface = vlan]) @@ Passage(front, rear)
    @@ Passage(front2, rear2) @@ Switch @@ Panel
Cabled(c) == (bp :> [Free EXCEPT !.cable = c])
    @@ (front :> [Free EXCEPT !.cable = c, !.pair = rear])

\* A rack with the passages paired and a port that an old sync made for vlan; the
\* same with the board in place and cabled to the panel; and a rack without the panel.
MCStarts ==
    {[place |-> Full, port |-> Panelled, boards |-> {}],
     [place |-> (sw :> Unit(2)) @@ (panel :> NULL),
      port |-> Switch @@ [p \in MCPortsOf[panel] |-> NULL], boards |-> {}]}
    \cup {[place |-> Full, port |-> Cabled(c) @@ Panelled, boards |-> {card}] : c \in Cables}

Symmetry == Permutations(Callers) \cup Permutations(Cables)
=============================================================================
