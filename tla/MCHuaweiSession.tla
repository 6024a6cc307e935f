--------------------------- MODULE MCHuaweiSession ---------------------------
(* A small instance of HuaweiSession for TLC. *)
EXTENDS HuaweiSession

CONSTANTS n1, n2, n3, k1, k2
=============================================================================
