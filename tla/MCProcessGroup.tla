--------------------------- MODULE MCProcessGroup ---------------------------
(* Instances of ProcessGroup for TLC: two runs of the service.             *)
EXTENDS ProcessGroup

CONSTANTS p1, p2

TwoRuns == {p1, p2}
=============================================================================
