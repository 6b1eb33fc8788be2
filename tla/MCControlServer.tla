--------------------------- MODULE MCControlServer ---------------------------
(* Instances of ControlServer for TLC: four connections, pools of two and  *)
(* one.                                                                    *)
EXTENDS ControlServer

CONSTANTS c1, c2, c3, c4

FourConns == {c1, c2, c3, c4}
=============================================================================
