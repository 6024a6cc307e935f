----------------------- MODULE MCOperationalOccurrence -----------------------
(* Instance of OperationalOccurrence for TLC: counters of 3 and 6 bits.      *)
EXTENDS OperationalOccurrence

\* About to wrap its 32 bits.
MCStarts == {6}
=============================================================================
