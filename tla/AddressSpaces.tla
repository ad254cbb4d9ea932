---------------------------- MODULE AddressSpaces ---------------------------
(***************************************************************************)
(* What the kernel promises about user memory: every process has a memory   *)
(* of its own, which nobody else changes.  image[p][v] is what process p     *)
(* finds in its page v, and whether it may use the page at all.             *)
(***************************************************************************)
EXTENDS Integers

CONSTANTS
  Procs,
  Vpns,        \* the page numbers below KERNBASE
  Zero,        \* the content of a fresh page
  Vals,        \* what a process writes
  Images       \* what exec makes of the programs there are

VARIABLE image

Fresh == [data |-> Zero, user |-> TRUE]
Empty == [v \in {} |-> Fresh]      \* no process, or one that has no memory left

Store(p, v, x) ==
  /\ v \in DOMAIN image[p] /\ image[p][v].user
  /\ image' = [image EXCEPT ![p][v].data = x]

\* A zeroed page comes.
Grow(p, v) ==
  /\ v \notin DOMAIN image[p]
  /\ image' = [image EXCEPT ![p] =
                 [u \in DOMAIN image[p] \cup {v} |-> IF u = v THEN Fresh ELSE image[p][u]]]

\* Pages go.
Shrink(p, gone) ==
  image' = [image EXCEPT ![p] = [v \in DOMAIN image[p] \ gone |-> image[p][v]]]

\* q comes to be, as a copy of p's pages up to some page.
Fork(p, q) ==
  /\ image[q] = Empty
  /\ \E n \in {0} \cup {v + 1 : v \in Vpns} :
       image' = [image EXCEPT ![q] = [v \in {u \in DOMAIN image[p] : u < n} |-> image[p][v]]]

\* A new image; pages that could not be had may be missing.
Exec(p, i) ==
  \E S \in SUBSET DOMAIN i : image' = [image EXCEPT ![p] = [v \in S |-> i[v]]]

Next ==
  \E p \in Procs :
    \/ \E v \in Vpns : Grow(p, v) \/ \E x \in Vals : Store(p, v, x)
    \/ \E gone \in SUBSET Vpns : Shrink(p, gone)
    \/ \E q \in Procs : Fork(p, q)
    \/ \E i \in Images : Exec(p, i)

Spec == (\A p \in Procs : image[p] = Empty \/ \E i \in Images : image[p] = i)
          /\ [][Next]_image
=============================================================================
