------------------------------ MODULE MCSched -------------------------------
(***************************************************************************)
(* Constants of the runs of Sched.                                         *)
(***************************************************************************)
EXTENDS Sched

CONSTANTS c1, c2

MCTwo  == {c1, c2}
MCP1   == {1}
MCP2   == {2}
MCP12  == {1, 2}
=============================================================================
