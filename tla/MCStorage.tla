------------------------------ MODULE MCStorage -----------------------------
(***************************************************************************)
(* Constants of the run Storage: the buffer cache and its driver, the blocks *)
(* of files, and user memory, side by side.  A behaviour is one of one of    *)
(* the three, the others stay in their initial states.                      *)
(***************************************************************************)
EXTENDS Disk, Content, Memory, TLC

\* Disk
CONSTANTS p1, p2, s1, s2, s3, s4, v1, v2

MCProcs   == {p1, p2}
MCSectors == {s1, s2, s3, s4}
MCBad     == {s4}
MCVals    == {v1, v2}

MCSym == UNION {Permutations(S) : S \in {MCProcs, {s1, s2, s3}, MCVals}}

\* Content: two of the open files share an inode.
MCInodeOf == <<1, 1, 2>>
MCImage   == <<1, 2>>
MCByteOf  == [p |-> 2, q |-> 3]

\* Memory: one segment with a page of bss, two segments of an unreadable file, and
\* arguments of more than a page.
Seg(a, f, m) == [at |-> a, filesz |-> f, memsz |-> m]

MCPrograms ==
  {[segs |-> <<Seg(0, 1, 3)>>, reads |-> TRUE, fits |-> TRUE],
   [segs |-> <<Seg(0, 2, 2), Seg(1, 1, 1)>>, reads |-> FALSE, fits |-> TRUE],
   [segs |-> <<Seg(0, 2, 2)>>, reads |-> TRUE, fits |-> FALSE]}

MCSbrks == {-3, 3}

VARIABLE which

\* The initial states of Disk differ in what is on the disk, those of Memory in the
\* pages there are.
MCInit ==
  /\ which \in {"disk", "content", "memory"}
  /\ Init /\ ContentInit /\ MemInit
  /\ which # "disk" => \A s, t \in Good : disk[s] = disk[t]
  /\ which # "memory" => \A n \in Sizes : Len(mem) <= n

\* The calls of Content and of Memory are bounded: they stop.
MCNext ==
  /\ UNCHANGED which
  /\ \/ which = "disk" /\ Next /\ UNCHANGED <<contentVars, memVars>>
     \/ which = "content" /\ ContentNext /\ UNCHANGED <<vars, memVars>>
     \/ which = "memory" /\ MemNext /\ UNCHANGED <<vars, contentVars>>
     \/ which # "disk" /\ UNCHANGED <<vars, contentVars, memVars>>

MCSpec == MCInit /\ [][MCNext]_<<vars, contentVars, memVars, which>>
=============================================================================
