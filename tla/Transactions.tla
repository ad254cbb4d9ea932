---------------------------- MODULE Transactions ----------------------------
(***************************************************************************)
(* What the logging layer promises to the file system (the comment at the  *)
(* head of log.c): the updates of the file system calls are made durable   *)
(* in groups, a group is taken only while no call is in progress, and a    *)
(* crash takes the disk back to the end of the last durable group, never   *)
(* to a part of one.                                                       *)
(***************************************************************************)
CONSTANTS
  Procs,    \* the processes that make file system calls
  Blocks,   \* the home blocks of the file system
  Vals      \* the contents a block can have

VARIABLES
  durable,  \* the contents a reboot would find
  current,  \* the contents the running system sees
  inOp      \* the processes between begin_op and end_op

tvars == <<durable, current, inOp>>

Init ==
  /\ durable \in [Blocks -> Vals]
  /\ current = durable
  /\ inOp = {}

Begin(p) ==
  /\ p \notin inOp
  /\ inOp' = inOp \cup {p}
  /\ UNCHANGED <<durable, current>>

\* Only a process inside a call changes a block.
Update(p, b, v) ==
  /\ p \in inOp
  /\ current' = [current EXCEPT ![b] = v]
  /\ UNCHANGED <<durable, inOp>>

End(p) ==
  /\ p \in inOp
  /\ inOp' = inOp \ {p}
  /\ UNCHANGED <<durable, current>>

\* All the updates of the calls that ended become durable at once.
Commit ==
  /\ inOp = {}
  /\ durable' = current
  /\ UNCHANGED <<current, inOp>>

Crash ==
  /\ current' = durable
  /\ inOp' = {}
  /\ UNCHANGED durable

Next ==
  \/ \E p \in Procs : Begin(p) \/ End(p)
  \/ \E p \in Procs, b \in Blocks, v \in Vals : Update(p, b, v)
  \/ Commit
  \/ Crash

Spec == Init /\ [][Next]_tvars
=============================================================================
