----------------------------- MODULE MCInodes ------------------------------
(***************************************************************************)
(* Constants of the runs of Inodes.                                        *)
(***************************************************************************)
EXTENDS Inodes, TLC

CONSTANTS p1, p2

Abs(s) == [abs |-> TRUE, names |-> s]
Rel(s) == [abs |-> FALSE, names |-> s]

MCProcs == {p1, p2}
MCOne   == {p1}
MCNames == {"a", "b"}

A  == Abs(<<"a">>)
AB == Abs(<<"a", "b">>)
B  == Rel(<<"b">>)

Call1(s, paths) == [sys : {s}, path : paths, new : {A}]

MCCalls ==
  Call1("open", {A}) \cup Call1("chdir", {A}) \cup Call1("creat", {A, AB}) \cup
  Call1("mkdir", {A}) \cup Call1("unlink", {A, B, AB}) \cup
  [sys : {"link"}, path : {A}, new : {B}] \cup [sys : {"link"}, path : {B}, new : {AB}]

\* One process in a directory that it removes, and then the parent of that.
Up == Rel(<<"..">>)

MCUpCalls ==
  Call1("mkdir", {A, AB}) \cup Call1("unlink", {A, AB}) \cup Call1("chdir", {AB, Up})

MCSym   == Permutations(MCProcs)
=============================================================================
