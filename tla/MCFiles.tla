------------------------------- MODULE MCFiles ------------------------------
(***************************************************************************)
(* Constants of the run of Files.                                          *)
(***************************************************************************)
EXTENDS Files, TLC

CONSTANTS p1, p2

MCProcs  == {p1, p2}
MCWrites == {<<1, 2, 1>>}
MCSym    == Permutations(MCProcs)
=============================================================================
