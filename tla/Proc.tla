-------------------------------- MODULE Proc --------------------------------
(***************************************************************************)
(* The life of a process (proc.c): allocproc, fork, exit, wait and kill on *)
(* a table of NProc slots, with the kernel pages a process owns.  Module    *)
(* Files has what fork and exit do with its open files.                     *)
(*                                                                         *)
(* The processes run concurrently; a critical section of ptable.lock is    *)
(* one step, and so is one that ends in sched, whose switch module Sched   *)
(* has.  Between them come the steps fork and exit take without the lock.  *)
(* RUNNABLE stands for RUNNABLE and RUNNING.                               *)
(***************************************************************************)
EXTENDS Integers, FiniteSets

CONSTANTS
  NProc,
  Pages,       \* kernel pages there are; a process needs two
  MaxTaken,    \* pages others (pipes, user memory) have at a time, at most
  MaxPid       \* bound: nextpid goes no further; it is 2 after userinit

ASSUME ProcAssumption ==
  /\ NProc \in Nat \ {0}
  /\ Pages \in Nat /\ Pages >= 2
  /\ MaxTaken \in Nat
  /\ MaxPid \in Nat /\ MaxPid >= 2

Slots == 1..NProc
Init1 == 1     \* initproc, which userinit puts into the first slot

VARIABLES
  state, pid, parent, killed,
  kstack,    \* p->kstack # 0
  pgdir,     \* the page table is allocated
  free,      \* kmem.freelist, as a number
  taken,     \* the pages others have
  nextpid,
  at,        \* where a process is in its system call
  np,        \* the local variable np of fork
  child      \* the local variable pid of fork: the pid of np

vars == <<state, pid, parent, killed, kstack, pgdir, free, taken, nextpid, at, np, child>>

States == {"UNUSED", "EMBRYO", "SLEEPING", "RUNNABLE", "ZOMBIE"}
Pcs    == {"user", "kalloc", "copy", "publish", "forked", "wait", "leave"}

Runs(p, l)  == state[p] = "RUNNABLE" /\ at[p] = l
Goto(p, l)  == at' = [at EXCEPT ![p] = l]

Children(p) == {s \in Slots : parent[s] = p}

-----------------------------------------------------------------------------
Marked(s) == [state EXCEPT ![s] = "EMBRYO"]

\* allocproc, under ptable.lock: the first UNUSED slot; fork fails without one.
Fork(p) ==
  /\ Runs(p, "user") /\ ~ killed[p]
  /\ nextpid < MaxPid
  /\ \E s \in Slots :
       /\ state[s] = "UNUSED"
       /\ \A r \in 1..(s - 1) : state[r] # "UNUSED"
       /\ state' = Marked(s)
       /\ pid' = [pid EXCEPT ![s] = nextpid]
       /\ np' = [np EXCEPT ![p] = s]
  /\ nextpid' = nextpid + 1
  /\ Goto(p, "kalloc")
  /\ UNCHANGED <<parent, killed, kstack, pgdir, free, taken, child>>

\* allocproc, without the lock: p->kstack = kalloc(), or the slot is UNUSED
\* again, with its pid.
AllocStack(p) ==
  /\ Runs(p, "kalloc")
  /\ IF free > 0
     THEN /\ free' = free - 1
          /\ kstack' = [kstack EXCEPT ![np[p]] = TRUE]
          /\ Goto(p, "copy")
          /\ UNCHANGED state
     ELSE /\ state' = [state EXCEPT ![np[p]] = "UNUSED"]
          /\ Goto(p, "user")
          /\ UNCHANGED <<free, kstack>>
  /\ UNCHANGED <<pid, parent, killed, pgdir, taken, nextpid, np, child>>

\* Mutant: the kernel stack is not given back.
KeepStack(p) == kstack

FreeStack(p) == [kstack EXCEPT ![np[p]] = FALSE]

\* fork: copyuvm, or kfree(np->kstack) and the slot is UNUSED again; then
\* np->parent = proc and pid = np->pid, without the lock.
CopyMemory(p) ==
  /\ Runs(p, "copy")
  /\ IF free > 0
     THEN /\ free' = free - 1
          /\ pgdir' = [pgdir EXCEPT ![np[p]] = TRUE]
          /\ parent' = [parent EXCEPT ![np[p]] = p]
          /\ child' = [child EXCEPT ![p] = pid[np[p]]]
          /\ Goto(p, "publish")
          /\ UNCHANGED <<kstack, state>>
     ELSE /\ free' = free + 1
          /\ kstack' = FreeStack(p)
          /\ state' = [state EXCEPT ![np[p]] = "UNUSED"]
          /\ Goto(p, "user")
          /\ UNCHANGED <<pgdir, parent, child>>
  /\ UNCHANGED <<pid, killed, taken, nextpid, np>>

\* fork: np->state = RUNNABLE.
Publish(p) ==
  /\ Runs(p, "publish")
  /\ state' = [state EXCEPT ![np[p]] = "RUNNABLE"]
  /\ at' = [at EXCEPT ![p] = "forked", ![np[p]] = "user"]
  /\ UNCHANGED <<pid, parent, killed, kstack, pgdir, free, taken, nextpid, np, child>>

\* return pid
Forked(p) ==
  /\ Runs(p, "forked")
  /\ Goto(p, "user")
  /\ UNCHANGED <<state, pid, parent, killed, kstack, pgdir, free, taken, nextpid, np, child>>

-----------------------------------------------------------------------------
\* exit, called by the process or by trap because it is killed; it closes the
\* files and puts the directory of the process before it goes on.
Exit(p) ==
  /\ Runs(p, "user")
  /\ p # Init1
  /\ Goto(p, "leave")
  /\ UNCHANGED <<state, pid, parent, killed, kstack, pgdir, free, taken, nextpid, np, child>>

\* Mutant: init is not told of a zombie it inherits.
ParentOnly(p) == {parent[p]}

\* The processes exit wakes: the parent, and init if it gets a zombie.
Told(p) ==
  {parent[p]} \cup {q \in {Init1} : \E s \in Children(p) : state[s] = "ZOMBIE"}

\* Pass abandoned children to init.
Reparent(p) == [s \in Slots |-> IF parent[s] = p THEN Init1 ELSE parent[s]]

\* exit, under ptable.lock: wakeup1(proc->parent), the children to init, ZOMBIE.
\* wait is the only sleep with the channel of a process.
Leave(p) ==
  /\ Runs(p, "leave")
  /\ parent' = Reparent(p)
  /\ state' = [s \in Slots |->
                 IF s = p THEN "ZOMBIE"
                 ELSE IF s \in Told(p) /\ state[s] = "SLEEPING" THEN "RUNNABLE"
                 ELSE state[s]]
  /\ UNCHANGED <<pid, killed, kstack, pgdir, free, taken, nextpid, at, np, child>>

-----------------------------------------------------------------------------
\* p->killed = 0
Unkilled(s) == [killed EXCEPT ![s] = FALSE]

\* kfree(p->kstack) and freevm(p->pgdir).
Given == free + 2

\* wait finds a zombie: kfree, freevm, and the slot is UNUSED.
Reap(p) ==
  /\ Runs(p, "wait")
  /\ \E s \in Children(p) :
       /\ state[s] = "ZOMBIE"
       /\ \A r \in Children(p) : r < s => state[r] # "ZOMBIE"
       /\ kstack' = [kstack EXCEPT ![s] = FALSE]
       /\ pgdir' = [pgdir EXCEPT ![s] = FALSE]
       /\ state' = [state EXCEPT ![s] = "UNUSED"]
       /\ pid' = [pid EXCEPT ![s] = 0]
       /\ parent' = [parent EXCEPT ![s] = 0]
       /\ killed' = Unkilled(s)
  /\ free' = Given
  /\ Goto(p, "user")
  /\ UNCHANGED <<taken, nextpid, np, child>>

\* No point waiting without children, or if killed; otherwise sleep.
NoZombie(p) ==
  /\ Runs(p, "wait")
  /\ \A s \in Children(p) : state[s] # "ZOMBIE"
  /\ IF Children(p) = {} \/ killed[p]
     THEN Goto(p, "user") /\ UNCHANGED state
     ELSE state' = [state EXCEPT ![p] = "SLEEPING"] /\ UNCHANGED at
  /\ UNCHANGED <<pid, parent, killed, kstack, pgdir, free, taken, nextpid, np, child>>

Wait(p) ==
  /\ Runs(p, "user") /\ ~ killed[p]
  /\ Goto(p, "wait")
  /\ UNCHANGED <<state, pid, parent, killed, kstack, pgdir, free, taken, nextpid, np, child>>

\* Wake process from sleep if necessary.
Roused(s) == [state EXCEPT ![s] = IF @ = "SLEEPING" THEN "RUNNABLE" ELSE @]

\* kill finds the first slot with the pid, whatever its state.
Kill(p, i) ==
  /\ Runs(p, "user") /\ ~ killed[p]
  /\ i # pid[Init1]
  /\ \E s \in Slots :
       /\ pid[s] = i
       /\ \A r \in 1..(s - 1) : pid[r] # i
       /\ killed' = [killed EXCEPT ![s] = TRUE]
       /\ state' = Roused(s)
  /\ UNCHANGED <<pid, parent, kstack, pgdir, free, taken, nextpid, at, np, child>>

\* kalloc and kfree of a page by anybody else.
Others(d) ==
  /\ free - d \in Nat /\ taken + d \in 0..MaxTaken
  /\ free' = free - d
  /\ taken' = taken + d
  /\ UNCHANGED <<state, pid, parent, killed, kstack, pgdir, nextpid, at, np, child>>

-----------------------------------------------------------------------------
\* userinit
Init ==
  /\ state = [s \in Slots |-> IF s = Init1 THEN "RUNNABLE" ELSE "UNUSED"]
  /\ pid = [s \in Slots |-> IF s = Init1 THEN 1 ELSE 0]
  /\ parent = [s \in Slots |-> 0]
  /\ killed = [s \in Slots |-> FALSE]
  /\ kstack = [s \in Slots |-> s = Init1]
  /\ pgdir = [s \in Slots |-> s = Init1]
  /\ free = Pages - 2
  /\ taken = 0
  /\ nextpid = 2
  /\ at = [s \in Slots |-> "user"]
  /\ np = [s \in Slots |-> 0]
  /\ child = [s \in Slots |-> 0]

Kernel(p) ==
  \/ AllocStack(p)
  \/ CopyMemory(p)
  \/ Publish(p)
  \/ Forked(p)
  \/ Leave(p)
  \/ Reap(p)
  \/ NoZombie(p)

Next ==
  \/ \E p \in Slots :
       \/ Kernel(p)
       \/ Fork(p)
       \/ Exit(p)
       \/ Wait(p)
       \/ \E i \in 0..MaxPid : Kill(p, i)
  \/ \E d \in {1, -1} : Others(d)

Spec == Init /\ [][Next]_vars

\* Every process goes on with its system call, a killed one exits, and init
\* waits again and again (init.c).
FairSpec ==
  /\ Spec
  /\ \A p \in Slots : WF_vars(Kernel(p)) /\ WF_vars(Exit(p) /\ killed[p])
  /\ SF_vars(Wait(Init1))

-----------------------------------------------------------------------------
\* Every variable keeps its type.
TypeOK ==
  /\ state \in [Slots -> States]
  /\ pid \in [Slots -> 0..MaxPid]
  /\ parent \in [Slots -> Slots \cup {0}]
  /\ killed \in [Slots -> BOOLEAN]
  /\ kstack \in [Slots -> BOOLEAN]
  /\ pgdir \in [Slots -> BOOLEAN]
  /\ free \in 0..Pages
  /\ taken \in 0..MaxTaken
  /\ nextpid \in 1..MaxPid
  /\ at \in [Slots -> Pcs]
  /\ np \in [Slots -> Slots \cup {0}]
  /\ child \in [Slots -> 0..MaxPid]

Alive == {s \in Slots : state[s] \in {"SLEEPING", "RUNNABLE"}}

\* Every process but init has a parent that is alive, one that will not exit
\* without passing it on: no zombie is left that nobody can wait for.
LiveParents ==
  \A s \in Slots \ {Init1} :
    s \in Alive \/ state[s] = "ZOMBIE" => parent[s] \in Alive

\* A process that sleeps in wait has children, none of them is a zombie, and it
\* is not killed: exit, inheritance and kill wake everybody they have to.
WaiterNotForgotten ==
  \A p \in Slots :
    state[p] = "SLEEPING" =>
      /\ Children(p) # {}
      /\ \A s \in Children(p) : state[s] # "ZOMBIE"
      /\ ~ killed[p]

\* A page is free or belongs to one live slot, on every path of fork, exit and
\* wait; a process that can run has its kernel stack and its page table.
PagesAccounted ==
  /\ free + taken + Cardinality({s \in Slots : kstack[s]}) + Cardinality({s \in Slots : pgdir[s]})
       = Pages
  /\ \A s \in Slots :
       /\ state[s] = "UNUSED" => ~ kstack[s] /\ ~ pgdir[s]
       /\ s \in Alive \/ state[s] = "ZOMBIE" => kstack[s] /\ pgdir[s]

\* The child a fork made is still in its slot when fork returns, even if it has
\* exited: only its parent can reap it, so that the reuse of the slot TRICKS
\* warns of (its text on np->pid) cannot come before the return.
ChildKept == \A p \in Slots : Runs(p, "forked") => pid[np[p]] = child[p]

\* The table is sound at every step of fork, exit, wait and kill.
TableSound == TypeOK /\ LiveParents /\ WaiterNotForgotten /\ PagesAccounted /\ ChildKept

\* Every zombie that init inherits or makes is reaped.
ZombiesReaped ==
  \A s \in Slots :
    state[s] = "ZOMBIE" /\ parent[s] = Init1 ~> state[s] # "ZOMBIE"
=============================================================================
