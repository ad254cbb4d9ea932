------------------------------- MODULE MCCore -------------------------------
(***************************************************************************)
(* Constants of the run Core: the locks and the log, which have no liveness  *)
(* here and are proved about, and whole system calls as the programs in the  *)
(* repository make them, side by side: a behaviour is one of Spinlock, of    *)
(* Log, or of Calls.                                                       *)
(*                                                                         *)
(* Spinlock: the console lock and the ide lock, each taken by a thread and by *)
(* a handler, and ptable.lock inside both (sleep and wakeup).  Log: two       *)
(* processes, two blocks, two values.                                       *)
(***************************************************************************)
EXTENDS Spinlock, Log, TLC

CONSTANTS c1, c2, ide, cons, ptable, p1, p2, b1, b2, v1, v2, MCPrograms

MCCPUs  == {c1, c2}
MCLocks == {ide, cons, ptable}
MCOrder == {<<ide, ptable>>, <<cons, ptable>>}
MCHandlerLocks == {ide, cons}

MCProcs  == {p1, p2}
MCBlocks == {b1, b2}
MCVals   == {v1, v2}

VARIABLES which, kernel, failed, test

callVars == <<kernel, failed, test>>

\* The programs, and the kernel they run on.
U == INSTANCE Usertests WITH
       NPROC <- 5, NOFILE <- 6, NFILE <- 8, PIPESIZE <- 2, DIRSIZ <- 14, MAXFILE <- 8,
       PGSIZE <- 2, NPages <- 12, ImageSize <- 2, N <- 2, Kids <- 3, Programs <- {}
C == INSTANCE Calls WITH
       NPROC <- 5, NOFILE <- 6, NFILE <- 8, PIPESIZE <- 2, DIRSIZ <- 14, MAXFILE <- 8,
       PGSIZE <- 2, NPages <- 12, ImageSize <- 2, Programs <- MCPrograms

MCTests == U!Tests

\* A part that stays in its initial state stays in one of them.
MCInit ==
  /\ LockInit /\ Init
  /\ which \in {"locks", "log", "calls"}
  /\ which # "locks" =>
       base = [c \in CPUs |-> TRUE] /\ want = [c \in CPUs |-> [v \in Levels |-> ide]]
  /\ which # "log" => disk = [b \in Blocks |-> v1] /\ logd[1] = v1
  /\ \/ which # "calls" /\ kernel = << >> /\ failed = FALSE /\ test = << >>
     \/ which = "calls" /\ C!CallsInit

MCNext ==
  /\ UNCHANGED which
  /\ \/ which = "locks" /\ LockNext /\ UNCHANGED <<vars, callVars>>
     \/ which = "log" /\ Next /\ UNCHANGED <<lockVars, callVars>>
     \/ which = "calls" /\ C!CallsNext /\ UNCHANGED <<lockVars, vars>>

MCSpec == MCInit /\ [][MCNext]_<<lockVars, vars, callVars, which>>

MCSym == Permutations(MCProcs) \cup Permutations(MCBlocks) \cup Permutations(MCVals)

\* The property of Calls, of the programs that are run.
CallsRight == which = "calls" => C!CallsRight
=============================================================================
