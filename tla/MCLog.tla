------------------------------- MODULE MCLog -------------------------------
(***************************************************************************)
(* Constants and symmetry for the runs Log_full and Log_race.              *)
(***************************************************************************)
EXTENDS Log, TLC

CONSTANTS p1, p2, b1, b2, b3, b4, b5, v1, v2

MCProcs2 == {p1, p2}
MCBlocks2 == {b1, b2}
MCBlocks5 == {b1, b2, b3, b4, b5}
MCVals1 == {v1}
MCVals2 == {v1, v2}

SymFull == Permutations(MCProcs2) \cup Permutations(MCBlocks5)
=============================================================================
