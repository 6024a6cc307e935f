------------------------- MODULE MitigationRefinement -------------------------
(***************************************************************************)
(* MitigationCommand keeps the contract of MitigationContract: the mapping *)
(* of its frames to the phases of the contract.                            *)
(***************************************************************************)
EXTENDS MitigationCommand

PhaseOf(pc) ==
    CASE pc = "new" -> "new"
      [] pc \in {"profile", "context", "resolve", "gate", "preflight"} -> "deciding"
      [] pc = "write" -> "cleared"
      [] pc = "readback" -> "committed"
      [] pc = "record" -> "judged"
      [] pc = "reply" -> "answering"
      [] pc = "done" -> "over"

OutcomeOf(status) ==
    IF status \in {"none", "VERIFIED", "CACHED"} THEN status ELSE "REFUSED"

\* From the write to the record a call shows what it works on.
Works(f) == f.pc \in {"write", "readback", "record"}

Shown(f) ==
    [phase |-> PhaseOf(f.pc), action |-> f.action, req |-> f.req, prof |-> f.prof,
     pair |-> IF Works(f) THEN f.pair ELSE NULL,
     live |-> IF Works(f) THEN f.live ELSE FALSE,
     outcome |-> OutcomeOf(f.status)]

ShownCalls == [c \in Calls |-> Shown(calls[c])]
Mitigated == {p \in Profiles : runtime[p].state = "MITIGATED"}

Contract == INSTANCE MitigationContract
    WITH mitigated <- Mitigated, answered <- processed, calls <- ShownCalls

\* Whatever is interleaved with it, a command changes the router once and where
\* it was shown clear, answers "verified" of what it was shown and from memory
\* what was verified; only a command that wrote records a target as mitigated;
\* and what it is shown is the router as it is, save for one fault each time.
KeepsContract == Contract!Spec
=============================================================================
