---------------------------- MODULE MCAlarmEngine ----------------------------
(* Instances of AlarmEngine for TLC. *)
EXTENDS AlarmEngine

CONSTANTS r1, r2, o1, o2
=============================================================================
