------------------------------- MODULE Sched --------------------------------
(***************************************************************************)
(* The scheduler and sleep/wakeup (proc.c): kernel threads switched among  *)
(* CPUs with ptable.lock held across swtch, timer preemption, sleep with   *)
(* any lock, wakeup from processes and interrupt handlers, kill.           *)
(*                                                                         *)
(* The clients are those of sleep1.p: consumers wait for an item under a   *)
(* lock lk, as in piperead or wait, producers make one and call wakeup.    *)
(* acquire and release are atomic here (module Spinlock has their steps),  *)
(* and so is a critical section of ptable.lock that holds no swtch.        *)
(***************************************************************************)
EXTENDS Integers, FiniteSets

CONSTANTS
  CPUs,
  NoCpu,
  NProc,      \* the table holds the processes 1..NProc
  Consumers,
  Producers,
  Devices,    \* whether interrupt handlers produce
  MayKill,    \* whether processes call kill
  SleepLock,  \* the lock consumers pass to sleep: "lk", or "ptable" as in wait
  MaxItems    \* bound: no more items are made than this at a time

Procs == 1..NProc

ASSUME SchedAssumption ==
  /\ NoCpu \notin CPUs
  /\ NProc \in Nat /\ MaxItems \in Nat
  /\ Consumers \subseteq Procs /\ Producers \subseteq Procs
  /\ Devices \in BOOLEAN /\ MayKill \in BOOLEAN
  /\ SleepLock \in {"lk", "ptable"}

VARIABLES
  state,    \* p->state
  chan,     \* p->chan # 0; there is one channel
  killed,   \* p->killed
  context,  \* p->context: where swtch to the process resumes
  back,     \* where the interrupt frame at the top of its stack returns to
  saved,    \* the local variable intena of sched, on the stack of a process
  proc,     \* cpu->proc, 0 in the scheduler
  stack,    \* whose stack the CPU really runs on; 0 is the scheduler's own
  at,       \* where the CPU is in the code of that stack
  handler,  \* where it is in an interrupt handler on top of it, or "none"
  next,     \* the loop variable of scheduler
  intr,     \* FL_IF of the CPU
  ncli,     \* cpu->ncli
  intena,   \* cpu->intena
  holder,   \* the CPU that holds a lock
  items     \* what the consumers wait for; protected by SleepLock

table == <<state, chan, killed>>
cpus  == <<intr, ncli, intena, holder>>
vars  == <<table, context, back, saved, proc, stack, at, handler, next, cpus, items>>

Locks  == {"ptable", "lk"}
States == {"RUNNABLE", "RUNNING", "SLEEPING", "ZOMBIE"}
Resume == {"forkret", "yielded", "slept", "zombie"}
OpenPcs == {"user", "lock", "make", "wake", "kill", "exit"}   \* no lock is held
MakePcs == {"make", "made", "wake", "unlock"}
Pcs == Resume \cup OpenPcs \cup MakePcs \cup
       {"test", "sleep", "unlk", "mark", "sched", "iret",
        "ret", "yield", "sti", "slock", "scan", "switched"}

InHandler(c) == handler[c] # "none"
Here(c)      == IF InHandler(c) THEN handler[c] ELSE at[c]
Goto(c, l)   ==
  IF InHandler(c) THEN handler' = [handler EXCEPT ![c] = l] /\ UNCHANGED at
                  ELSE at' = [at EXCEPT ![c] = l] /\ UNCHANGED handler
Thread(c, l) == ~ InHandler(c) /\ at[c] = l

Held(c)    == {l \in Locks : holder[l] = c}
Spinning(c) == ncli[c] = Cardinality(Held(c)) + 1   \* after the pushcli of acquire

AcquirePcs == {"lock", "make", "sleep", "yield", "slock", "made", "wake", "kill", "exit"}

\* acquire: pushcli turns interrupts off, then the CPU spins.
Pushcli(c) ==
  /\ Here(c) \in AcquirePcs
  /\ ~ Spinning(c)
  /\ ncli' = [ncli EXCEPT ![c] = @ + 1]
  /\ intena' = [intena EXCEPT ![c] = IF ncli[c] = 0 THEN intr[c] ELSE @]
  /\ intr' = [intr EXCEPT ![c] = FALSE]
  /\ UNCHANGED <<table, context, back, saved, proc, stack, at, handler, next, holder,
                 items>>

Take(c, l) ==
  /\ Spinning(c)
  /\ holder[l] = NoCpu
  /\ holder' = [holder EXCEPT ![l] = c]
  /\ UNCHANGED <<intr, ncli, intena>>

\* release, with its popcli; ie is what cpu->intena is by then.
Give(c, l, ie) ==
  /\ holder[l] = c
  /\ holder' = [holder EXCEPT ![l] = NoCpu]
  /\ ncli' = [ncli EXCEPT ![c] = @ - 1]
  /\ intena' = [intena EXCEPT ![c] = ie]
  /\ intr' = [intr EXCEPT ![c] = ncli[c] = 1 /\ ie]

-----------------------------------------------------------------------------
\* scheduler: sti, then acquire(&ptable.lock); interrupts can come in between.
\* Mutant: the loop trusts release to turn the interrupts on.
NoSti(c) ==
  /\ Thread(c, "sti")
  /\ at' = [at EXCEPT ![c] = "slock"]
  /\ UNCHANGED <<table, context, back, saved, proc, stack, handler, next, cpus,
                 items>>

Sti(c) ==
  /\ Thread(c, "sti")
  /\ at' = [at EXCEPT ![c] = "slock"]
  /\ intr' = [intr EXCEPT ![c] = TRUE]
  /\ UNCHANGED <<table, context, back, saved, proc, stack, handler, next, ncli,
                 intena, holder, items>>

LockTable(c) ==
  /\ Thread(c, "slock")
  /\ Take(c, "ptable")
  /\ at' = [at EXCEPT ![c] = "scan"]
  /\ next' = [next EXCEPT ![c] = 1]
  /\ UNCHANGED <<table, context, back, saved, proc, stack, handler, items>>

\* The scan stops at the next RUNNABLE process: proc = p, RUNNING, and swtch,
\* with ptable.lock held.
Run(c, p) ==
  /\ Thread(c, "scan")
  /\ next[c] <= p /\ state[p] = "RUNNABLE"
  /\ \A q \in next[c]..(p - 1) : state[q] # "RUNNABLE"
  /\ next' = [next EXCEPT ![c] = p]
  /\ proc' = [proc EXCEPT ![c] = p]
  /\ state' = [state EXCEPT ![p] = "RUNNING"]
  /\ stack' = [stack EXCEPT ![c] = p]
  /\ at' = [at EXCEPT ![c] = context[p]]
  /\ UNCHANGED <<chan, killed, context, back, saved, handler, cpus, items>>

\* Mutant: p++ twice, after the process and in the loop.
RestTwice(c) == next[c] + 2

\* p++ in the loop of scheduler.
Rest(c) == next[c] + 1

\* A process has switched back: proc = 0, and the scan goes on.
Switched(c) ==
  /\ Thread(c, "switched")
  /\ at' = [at EXCEPT ![c] = "scan"]
  /\ proc' = [proc EXCEPT ![c] = 0]
  /\ next' = [next EXCEPT ![c] = Rest(c)]
  /\ UNCHANGED <<table, context, back, saved, stack, handler, cpus, items>>

EndScan(c) ==
  /\ Thread(c, "scan")
  /\ \A q \in next[c]..NProc : state[q] # "RUNNABLE"
  /\ Give(c, "ptable", intena[c])
  /\ at' = [at EXCEPT ![c] = "sti"]
  /\ UNCHANGED <<table, context, back, saved, proc, stack, handler, next, items>>

-----------------------------------------------------------------------------
\* sched: the checks before swtch.
SchedOK(c) ==
  holder["ptable"] = c /\ ncli[c] = 1 /\ state[proc[c]] # "RUNNING" /\ ~ intr[c]

\* The caller of sched, known by the state it has set.
Caller == [RUNNABLE |-> "yielded", SLEEPING |-> "slept", ZOMBIE |-> "zombie"]

\* sched: intena = cpu->intena; swtch(&proc->context, cpu->scheduler).
ToScheduler(c) ==
  /\ Thread(c, "sched")
  /\ SchedOK(c)
  /\ saved' = [saved EXCEPT ![stack[c]] = intena[c]]
  /\ context' = [context EXCEPT ![proc[c]] = Caller[state[proc[c]]]]
  /\ stack' = [stack EXCEPT ![c] = 0]
  /\ at' = [at EXCEPT ![c] = "switched"]
  /\ UNCHANGED <<table, back, proc, handler, next, cpus, items>>

\* Mutant: cpu->intena stays as the last process has left it.
Leftover(c) == intena[c]

\* sched, on the way back: cpu->intena = intena.
Restored(c) == saved[stack[c]]

\* forkret releases the ptable.lock that scheduler has taken.
Forkret(c) ==
  /\ Thread(c, "forkret")
  /\ Give(c, "ptable", intena[c])
  /\ at' = [at EXCEPT ![c] = "iret"]
  /\ UNCHANGED <<table, context, back, saved, proc, stack, handler, next, items>>

\* The timer interrupt of a running process calls yield.
Timer(c) ==
  /\ stack[c] # 0 /\ ~ InHandler(c) /\ at[c] \in OpenPcs
  /\ intr[c]
  /\ state[proc[c]] = "RUNNING"
  /\ back' = [back EXCEPT ![stack[c]] = at[c]]
  /\ intr' = [intr EXCEPT ![c] = FALSE]
  /\ at' = [at EXCEPT ![c] = "yield"]
  /\ UNCHANGED <<table, context, saved, proc, stack, handler, next, ncli, intena,
                 holder, items>>

\* Mutant: no DOC: yieldlock.
YieldUnlocked(c) ==
  /\ Thread(c, "yield")
  /\ state' = [state EXCEPT ![proc[c]] = "RUNNABLE"]
  /\ at' = [at EXCEPT ![c] = "sched"]
  /\ UNCHANGED <<chan, killed, context, back, saved, proc, stack, handler, next,
                 cpus, items>>

Yield(c) ==
  /\ Thread(c, "yield")
  /\ Take(c, "ptable")
  /\ state' = [state EXCEPT ![proc[c]] = "RUNNABLE"]
  /\ at' = [at EXCEPT ![c] = "sched"]
  /\ UNCHANGED <<chan, killed, context, back, saved, proc, stack, handler, next, items>>

Yielded(c) ==
  /\ Thread(c, "yielded")
  /\ Give(c, "ptable", Restored(c))
  /\ at' = [at EXCEPT ![c] = "iret"]
  /\ UNCHANGED <<table, context, back, saved, proc, stack, handler, next, items>>

\* trapret, after yield or forkret: back where the frame says, interrupts on.
Iret(c) ==
  /\ Thread(c, "iret")
  /\ at' = [at EXCEPT ![c] = back[stack[c]]]
  /\ back' = [back EXCEPT ![stack[c]] = "user"]
  /\ intr' = [intr EXCEPT ![c] = TRUE]
  /\ UNCHANGED <<table, context, saved, proc, stack, handler, next, ncli, intena,
                 holder, items>>

\* trapret at the end of a handler or of a system call.
Ret(c) ==
  /\ Here(c) = "ret"
  /\ Goto(c, IF InHandler(c) THEN "none" ELSE "user")
  /\ intr' = [intr EXCEPT ![c] = TRUE]
  /\ UNCHANGED <<table, context, back, saved, proc, stack, next, ncli, intena, holder,
                 items>>

-----------------------------------------------------------------------------
Call(c) ==
  \/ proc[c] \in Consumers /\ at' = [at EXCEPT ![c] = "lock"]
  \/ proc[c] \in Producers /\ at' = [at EXCEPT ![c] = "make"]
  \/ MayKill /\ at' = [at EXCEPT ![c] = "kill"]

\* trap: a consumer wants an item, a producer makes one, anybody calls kill; but
\* a killed process exits.
Syscall(c) ==
  /\ Thread(c, "user")
  /\ \/ killed[proc[c]] /\ at' = [at EXCEPT ![c] = "exit"]
     \/ ~ killed[proc[c]] /\ Call(c)
  /\ UNCHANGED <<table, context, back, saved, proc, stack, handler, next, cpus, items>>

\* acquire(lk), before the loop or at the end of sleep.
Lock(c) ==
  /\ Thread(c, "lock")
  /\ Take(c, SleepLock)
  /\ at' = [at EXCEPT ![c] = "test"]
  /\ UNCHANGED <<table, context, back, saved, proc, stack, handler, next, items>>

\* while(there is none){ if(proc->killed) return -1; sleep(chan, lk); }
Test(c) ==
  /\ Thread(c, "test")
  /\ items' = IF items > 0 THEN items - 1 ELSE 0
  /\ at' = [at EXCEPT ![c] =
              IF items > 0 \/ killed[proc[c]] THEN "unlock"
              ELSE IF SleepLock = "ptable" THEN "mark" ELSE "sleep"]
  /\ UNCHANGED <<table, context, back, saved, proc, stack, handler, next, cpus>>

\* Mutant: sleep releases lk before it has ptable.lock.
SleepUnlocked(c) ==
  /\ Thread(c, "sleep")
  /\ Give(c, "lk", intena[c])
  /\ at' = [at EXCEPT ![c] = "mark"]
  /\ UNCHANGED <<table, context, back, saved, proc, stack, handler, next, items>>

\* sleep, DOC: sleeplock1.
Sleep(c) ==
  /\ Thread(c, "sleep")
  /\ Take(c, "ptable")
  /\ at' = [at EXCEPT ![c] = "unlk"]
  /\ UNCHANGED <<table, context, back, saved, proc, stack, handler, next, items>>

\* Mutant: sleep keeps lk.
KeepLk(c) ==
  /\ Thread(c, "unlk")
  /\ at' = [at EXCEPT ![c] = "mark"]
  /\ UNCHANGED <<table, context, back, saved, proc, stack, handler, next, cpus, items>>

ReleaseLk(c) ==
  /\ Thread(c, "unlk")
  /\ Give(c, "lk", intena[c])
  /\ at' = [at EXCEPT ![c] = "mark"]
  /\ UNCHANGED <<table, context, back, saved, proc, stack, handler, next, items>>

\* Go to sleep.
Mark(c) ==
  /\ Thread(c, "mark")
  /\ chan' = [chan EXCEPT ![proc[c]] = TRUE]
  /\ state' = [state EXCEPT ![proc[c]] = "SLEEPING"]
  /\ at' = [at EXCEPT ![c] = "sched"]
  /\ UNCHANGED <<killed, context, back, saved, proc, stack, handler, next, cpus, items>>

\* Tidy up; DOC: sleeplock2.
Slept(c) ==
  /\ Thread(c, "slept")
  /\ chan' = [chan EXCEPT ![proc[c]] = FALSE]
  /\ IF SleepLock = "ptable"
     THEN /\ intena' = [intena EXCEPT ![c] = Restored(c)]
          /\ at' = [at EXCEPT ![c] = "test"]
          /\ UNCHANGED <<intr, ncli, holder>>
     ELSE /\ Give(c, "ptable", Restored(c))
          /\ at' = [at EXCEPT ![c] = "lock"]
  /\ UNCHANGED <<state, killed, context, back, saved, proc, stack, handler, next, items>>

-----------------------------------------------------------------------------
\* Mutant: wakeup finds nobody.
NobodyWoken == state

\* wakeup1: every sleeper on the channel becomes RUNNABLE.
Woken ==
  [p \in Procs |-> IF state[p] = "SLEEPING" /\ chan[p] THEN "RUNNABLE" ELSE state[p]]

\* A device interrupt, when interrupts are on: in a process or in the scheduler.
Interrupt(c) ==
  /\ Devices
  /\ intr[c] /\ ~ InHandler(c)
  /\ handler' = [handler EXCEPT ![c] = "make"]
  /\ intr' = [intr EXCEPT ![c] = FALSE]
  /\ UNCHANGED <<table, context, back, saved, proc, stack, at, next, ncli, intena,
                 holder, items>>

\* acquire(lk) and an item; one that holds ptable.lock has wakeup1 in the same
\* critical section, as exit does.
Make(c) ==
  /\ Here(c) = "make"
  /\ Take(c, SleepLock)
  /\ items' = IF items < MaxItems THEN items + 1 ELSE items
  /\ IF SleepLock = "ptable"
     THEN state' = Woken /\ Goto(c, "unlock")
     ELSE UNCHANGED state /\ Goto(c, "made")
  /\ UNCHANGED <<chan, killed, context, back, saved, proc, stack, next>>

\* The rest of a critical section of ptable.lock that has no swtch in it, up to
\* its release.
InTable(c, l) ==
  /\ Spinning(c)
  /\ holder["ptable"] = NoCpu
  /\ ncli' = [ncli EXCEPT ![c] = @ - 1]
  /\ intr' = [intr EXCEPT ![c] = ncli[c] = 1 /\ intena[c]]
  /\ Goto(c, l)
  /\ UNCHANGED <<intena, holder>>

\* wakeup, before or after release(lk).
Wakeup(c) ==
  /\ Here(c) \in {"made", "wake"}
  /\ InTable(c, IF Here(c) = "made" THEN "unlock" ELSE "ret")
  /\ state' = Woken
  /\ UNCHANGED <<chan, killed, context, back, saved, proc, stack, next, items>>

\* release(lk)
Unlock(c) ==
  /\ Here(c) \in {"made", "unlock"} /\ ~ Spinning(c)
  /\ Give(c, SleepLock, intena[c])
  /\ Goto(c, IF Here(c) = "made" THEN "wake" ELSE "ret")
  /\ UNCHANGED <<table, context, back, saved, proc, stack, next, items>>

\* if(p->state == SLEEPING) p->state = RUNNABLE
KillState(p) == IF state[p] = "SLEEPING" THEN "RUNNABLE" ELSE state[p]

Kill(c) ==
  /\ Thread(c, "kill")
  /\ InTable(c, "ret")
  /\ \E p \in Procs :
       /\ killed' = [killed EXCEPT ![p] = TRUE]
       /\ state' = [state EXCEPT ![p] = KillState(p)]
  /\ UNCHANGED <<chan, context, back, saved, proc, stack, next, items>>

\* Of exit, the part that leaves the CPU.
Exit(c) ==
  /\ Thread(c, "exit")
  /\ Take(c, "ptable")
  /\ state' = [state EXCEPT ![proc[c]] = "ZOMBIE"]
  /\ at' = [at EXCEPT ![c] = "sched"]
  /\ UNCHANGED <<chan, killed, context, back, saved, proc, stack, handler, next, items>>

-----------------------------------------------------------------------------
Init ==
  /\ state = [p \in Procs |-> "RUNNABLE"]
  /\ chan = [p \in Procs |-> FALSE]
  /\ killed = [p \in Procs |-> FALSE]
  /\ context = [p \in Procs |-> "forkret"]
  /\ back = [p \in Procs |-> "user"]
  /\ saved = [p \in Procs |-> FALSE]
  /\ proc = [c \in CPUs |-> 0]
  /\ stack = [c \in CPUs |-> 0]
  /\ at = [c \in CPUs |-> "sti"]
  /\ handler = [c \in CPUs |-> "none"]
  /\ next = [c \in CPUs |-> 1]
  /\ intr = [c \in CPUs |-> FALSE]
  /\ ncli = [c \in CPUs |-> 0]
  /\ intena = [c \in CPUs |-> FALSE]
  /\ holder = [l \in Locks |-> NoCpu]
  /\ items = 0

Scheduler(c) ==
  \/ Sti(c)
  \/ LockTable(c)
  \/ \E p \in Procs : Run(c, p)
  \/ Switched(c)
  \/ EndScan(c)

Switching(c) ==
  \/ ToScheduler(c)
  \/ Forkret(c)
  \/ Yield(c)
  \/ Yielded(c)
  \/ Iret(c)
  \/ Ret(c)
  \/ Exit(c)
  \/ Kill(c)
  \/ Pushcli(c)

Consumer(c) ==
  \/ Lock(c)
  \/ Test(c)
  \/ Sleep(c)
  \/ ReleaseLk(c)
  \/ Mark(c)
  \/ Slept(c)

Producer(c) == Make(c) \/ Wakeup(c) \/ Unlock(c)

Next ==
  \E c \in CPUs :
    \/ Scheduler(c)
    \/ Switching(c)
    \/ Consumer(c)
    \/ Producer(c)
    \/ Syscall(c)
    \/ Timer(c)
    \/ Interrupt(c)

Spec == Init /\ [][Next]_vars

-----------------------------------------------------------------------------
\* A CPU that can go on does so, and the spinlock it spins on is its own in the
\* end; the timer interrupts every CPU again and again, but not always before
\* the first step of a process it has just switched to.  Nobody has to make a
\* system call, and no device has to interrupt.
Work(c) == Scheduler(c) \/ Switching(c) \/ Consumer(c) \/ Producer(c)

Fairness ==
  /\ \A c \in CPUs :
       /\ SF_vars(Work(c) /\ ~ InHandler(c))
       /\ SF_vars(Work(c) /\ InHandler(c))
       /\ SF_vars(Timer(c))
  /\ \A p \in Procs :
       SF_vars(\E c \in CPUs : stack[c] = p /\ at[c] \in OpenPcs /\ Pushcli(c))

FairSpec == Spec /\ Fairness

-----------------------------------------------------------------------------
\* Every variable keeps its type.
TypeOK ==
  /\ state \in [Procs -> States]
  /\ chan \in [Procs -> BOOLEAN]
  /\ killed \in [Procs -> BOOLEAN]
  /\ context \in [Procs -> Resume]
  /\ back \in [Procs -> OpenPcs]
  /\ saved \in [Procs -> BOOLEAN]
  /\ proc \in [CPUs -> Procs \cup {0}]
  /\ stack \in [CPUs -> Procs \cup {0}]
  /\ at \in [CPUs -> Pcs]
  /\ handler \in [CPUs -> MakePcs \cup {"ret", "none"}]
  /\ next \in [CPUs -> 1..(NProc + 1)]
  /\ intr \in [CPUs -> BOOLEAN]
  /\ ncli \in [CPUs -> 0..2]
  /\ intena \in [CPUs -> BOOLEAN]
  /\ holder \in [Locks -> CPUs \cup {NoCpu}]
  /\ items \in 0..MaxItems

\* No two CPUs run on the kernel stack of one process: a process that is
\* RUNNABLE again is not picked before its swtch has saved its context.
OneStack == \A c, d \in CPUs : stack[c] = stack[d] /\ stack[c] # 0 => c = d

\* While nobody holds ptable.lock the table says the truth: a process is
\* RUNNING exactly when a CPU runs on its stack and has it as proc.
TableMatchesCpus ==
  holder["ptable"] = NoCpu =>
    /\ proc = stack
    /\ \A p \in Procs : state[p] = "RUNNING" <=> \E c \in CPUs : stack[c] = p

\* A producer, on a CPU or preempted, that still has to call wakeup.
AboutToWake ==
  \/ \E c \in CPUs : {at[c], handler[c]} \cap {"made", "wake"} # {}
  \/ \E p \in Procs : back[p] = "wake"

\* A wakeup is never lost: nobody sleeps while there is something to consume,
\* unless a producer is about to call wakeup (proc.c:381-386).
NoLostWakeup ==
  items > 0 /\ (\E p \in Procs : state[p] = "SLEEPING") => AboutToWake

\* cpu->intena is a property of the thread: whatever CPU it has been switched
\* to, a process that holds no lock runs with interrupts on.
FlagKept ==
  \A c \in CPUs :
    stack[c] # 0 /\ ~ InHandler(c) /\ at[c] \in OpenPcs =>
      IF Spinning(c) THEN intena[c] ELSE intr[c]

Acquires ==
  ({"lock", "make"} \X {SleepLock}) \cup
  ({"sleep", "yield", "slock", "made", "wake", "kill", "exit"} \X {"ptable"})

Releases ==
  ({"made", "unlock"} \X {SleepLock}) \cup
  ({"scan", "forkret", "yielded", "slept"} \X {"ptable"}) \cup {<<"unlk", "lk">>}

Panics(c) ==
  \/ \E l \in Locks : <<Here(c), l>> \in Acquires /\ Spinning(c) /\ holder[l] = c
  \/ \E l \in Locks : <<Here(c), l>> \in Releases /\ holder[l] # c
  \/ Thread(c, "sched") /\ ~ SchedOK(c)
  \/ Thread(c, "mark") /\ proc[c] = 0
  \/ Thread(c, "zombie")

\* ptable.lock is released by another thread than took it, and never wrongly:
\* no panic in acquire, release, sched, sleep or after exit.
NeverPanics == \A c \in CPUs : ~ Panics(c)

\* Every RUNNABLE process is run in the end: the scan starves nobody.
EveryoneRuns == \A p \in Procs : state[p] = "RUNNABLE" ~> state[p] # "RUNNABLE"

\* A sleeper does not sleep on while there is something for it.
SleepersServed ==
  \A p \in Procs :
    state[p] = "SLEEPING" /\ items > 0 ~> state[p] # "SLEEPING" \/ items = 0

\* Interrupts are on again and again on every CPU, one that idles in the
\* scheduler included: otherwise no device could wake anybody.
InterruptsComeBack == \A c \in CPUs : []<>intr[c]

\* The scheduler's loop takes every process in turn, and lets interrupts in (scheduler).
SchedulerLives == EveryoneRuns /\ InterruptsComeBack

\* Who runs where is the same in the table, in cpu->proc and on the stacks, each of
\* which one CPU at most is on (scheduler, sched and swtch).
TableAndStacks == TypeOK /\ OneStack /\ TableMatchesCpus
=============================================================================
