--------------------------- MODULE MCMitigationAuto ---------------------------
(* Instances of MitigationAuto for TLC. *)
EXTENDS MitigationAuto

CONSTANTS p1, p2
=============================================================================
