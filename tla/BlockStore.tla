----------------------------- MODULE BlockStore -----------------------------
(***************************************************************************)
(* What the buffer cache promises to the log and the file system (the      *)
(* comment at the head of bio.c): a block has one content, the last one a  *)
(* process gave it, whatever is in memory or on disk; one process at a     *)
(* time has it, and the disk gets what it has then.                        *)
(***************************************************************************)
CONSTANTS
  Procs,
  NoProc,   \* nobody has the block
  Blocks,
  Vals,     \* the contents a block can have
  Nothing   \* a process does not see a content

VARIABLES
  content,  \* of a block, for the processes
  disk,     \* its content on disk
  holder,   \* the process that has it
  view      \* what a process sees of the block it has

bvars == <<content, disk, holder, view>>

Init ==
  /\ disk \in [Blocks -> Vals]
  /\ content = disk
  /\ holder = [b \in Blocks |-> NoProc]
  /\ view = [p \in Procs |-> Nothing]

\* The content comes with the block, or later from the disk.
Get(p, b) ==
  /\ holder[b] = NoProc
  /\ holder' = [holder EXCEPT ![b] = p]
  /\ \E v \in {Nothing, content[b]} : view' = [view EXCEPT ![p] = v]
  /\ UNCHANGED <<content, disk>>

Read(p, b) ==
  /\ holder[b] = p
  /\ view' = [view EXCEPT ![p] = content[b]]
  /\ UNCHANGED <<content, disk, holder>>

Change(p, b, v) ==
  /\ holder[b] = p
  /\ content' = [content EXCEPT ![b] = v]
  /\ view' = [view EXCEPT ![p] = v]
  /\ UNCHANGED <<disk, holder>>

Flush(b) ==
  /\ holder[b] # NoProc
  /\ disk' = [disk EXCEPT ![b] = content[b]]
  /\ UNCHANGED <<content, holder, view>>

Put(p, b) ==
  /\ holder[b] = p
  /\ holder' = [holder EXCEPT ![b] = NoProc]
  /\ view' = [view EXCEPT ![p] = Nothing]
  /\ UNCHANGED <<content, disk>>

Next ==
  \E b \in Blocks :
    \/ Flush(b)
    \/ \E p \in Procs :
         \/ Get(p, b) \/ Read(p, b) \/ Put(p, b)
         \/ \E v \in Vals : Change(p, b, v)

Spec == Init /\ [][Next]_bvars
=============================================================================
