--------------------------- MODULE MCHealthCheck ---------------------------
(* Instances of HealthCheck for TLC: a checker and a ready gate.           *)
EXTENDS HealthCheck

CONSTANTS chk, gate, p1, p2

Checks == {chk}
Gates == {gate}
Pids == {p1, p2}
=============================================================================
