------------------------------ MODULE Spinlock ------------------------------
(***************************************************************************)
(* Spinlocks and interrupts (spinlock.c): acquire and release step by step *)
(* on several CPUs, pushcli and popcli with their nesting count, and an    *)
(* interrupt handler that can start on a CPU whenever its interrupts are   *)
(* on and take locks of its own.                                           *)
(*                                                                         *)
(* A CPU runs two activities, the kernel thread and, on top of it, the     *)
(* handler.  `held' and `at' are the program; the rest is struct spinlock, *)
(* struct cpu and the interrupt flag.                                      *)
(***************************************************************************)
EXTENDS Integers, FiniteSets

CONSTANTS
  CPUs,
  NoCpu,         \* lk->cpu = 0
  Locks,
  Order,         \* <<outer, inner>>: a lock may be taken while another is held
  HandlerLocks   \* the locks interrupt handlers take first

ASSUME SpinlockAssumption ==
  /\ NoCpu \notin CPUs
  /\ IsFiniteSet(Locks)
  /\ Order \subseteq Locks \X Locks
  /\ HandlerLocks \subseteq Locks

VARIABLES
  locked,   \* lk->locked
  owner,    \* lk->cpu
  ncli,     \* cpu->ncli
  intena,   \* cpu->intena
  intr,     \* the interrupt flag of a CPU, FL_IF
  base,     \* the flag as the thread has it when it holds no lock
  inIntr,   \* the CPU runs an interrupt handler
  at,       \* where an activity of a CPU is
  want,     \* the argument lk of the acquire or release it is in
  eflags,   \* the local variable of pushcli
  held,     \* the locks it has acquired and not yet released
  lockPanic  \* a CPU has called panic

lockVars == <<locked, owner, ncli, intena, intr, base, inIntr, at, want, eflags, held,
              lockPanic>>

Levels == {"thread", "handler"}
LockPcs    == {"run", "pushcli", "cli", "holding", "xchg", "setcpu", "unlock", "popcli"}

Level(c)   == IF inIntr[c] THEN "handler" ELSE "thread"
Here(c)    == at[c][Level(c)]
Arg(c)     == want[c][Level(c)]
Mine(c)    == held[c][Level(c)]
HeldBy(c)  == held[c]["thread"] \cup held[c]["handler"]
Goto(c, l) == at' = [at EXCEPT ![c][Level(c)] = l]

-----------------------------------------------------------------------------
\* The discipline of the callers: locks are nested in one order, a handler
\* starts with a lock of its own.
MayTake(c, l) ==
  /\ l \notin Mine(c)
  /\ \A h \in Mine(c) : <<h, l>> \in Order
  /\ inIntr[c] /\ Mine(c) = {} => l \in HandlerLocks

Acquire(c, l) ==
  /\ ~ lockPanic
  /\ Here(c) = "run"
  /\ MayTake(c, l)
  /\ want' = [want EXCEPT ![c][Level(c)] = l]
  /\ Goto(c, "pushcli")
  /\ UNCHANGED <<locked, owner, ncli, intena, intr, base, inIntr, eflags, held,
                 lockPanic>>

\* pushcli: eflags = readeflags(); an interrupt can still come after it.
ReadEflags(c) ==
  /\ ~ lockPanic
  /\ Here(c) = "pushcli"
  /\ eflags' = [eflags EXCEPT ![c][Level(c)] = intr[c]]
  /\ Goto(c, "cli")
  /\ UNCHANGED <<locked, owner, ncli, intena, intr, base, inIntr, want, held,
                 lockPanic>>

\* Mutant: pushcli saves the flag at every depth.
IntenaAlways(c) == [intena EXCEPT ![c] = eflags[c][Level(c)]]

\* Only the outermost pushcli saves the flag.
Intena(c) ==
  IF ncli[c] = 0 THEN [intena EXCEPT ![c] = eflags[c][Level(c)]] ELSE intena

Pushed(c) == [ncli EXCEPT ![c] = @ + 1]

\* pushcli: cli(); then ncli and intena, which no other CPU touches.
Cli(c) ==
  /\ ~ lockPanic
  /\ Here(c) = "cli"
  /\ intr' = [intr EXCEPT ![c] = FALSE]
  /\ intena' = Intena(c)
  /\ ncli' = Pushed(c)
  /\ Goto(c, "holding")
  /\ UNCHANGED <<locked, owner, base, inIntr, want, eflags, held, lockPanic>>

Holding(c, l) == locked[l] /\ owner[l] = c

\* acquire: panic on a lock this CPU holds already.
CheckHolding(c) ==
  /\ ~ lockPanic
  /\ Here(c) = "holding"
  /\ IF Holding(c, Arg(c))
     THEN lockPanic' = TRUE /\ UNCHANGED at
     ELSE Goto(c, "xchg") /\ UNCHANGED lockPanic
  /\ UNCHANGED <<locked, owner, ncli, intena, intr, base, inIntr, want, eflags, held>>

\* Mutant: the test reads lk->cpu, which is set after the xchg.
FreeByOwner(l) == owner[l] = NoCpu

Free(l) == ~ locked[l]

\* The xchg that finds the lock free; one that does not changes nothing.
Xchg(c) ==
  /\ ~ lockPanic
  /\ Here(c) = "xchg"
  /\ Free(Arg(c))
  /\ locked' = [locked EXCEPT ![Arg(c)] = TRUE]
  /\ held' = [held EXCEPT ![c][Level(c)] = @ \cup {Arg(c)}]
  /\ Goto(c, "setcpu")
  /\ UNCHANGED <<owner, ncli, intena, intr, base, inIntr, want, eflags, lockPanic>>

SetCpu(c) ==
  /\ ~ lockPanic
  /\ Here(c) = "setcpu"
  /\ owner' = [owner EXCEPT ![Arg(c)] = c]
  /\ Goto(c, "run")
  /\ UNCHANGED <<locked, ncli, intena, intr, base, inIntr, want, eflags, held,
                 lockPanic>>

\* release, in any order: the test and lk->cpu = 0.
Release(c, l) ==
  /\ ~ lockPanic
  /\ Here(c) = "run"
  /\ l \in Mine(c)
  /\ want' = [want EXCEPT ![c][Level(c)] = l]
  /\ IF Holding(c, l)
     THEN /\ owner' = [owner EXCEPT ![l] = NoCpu]
          /\ Goto(c, "unlock")
          /\ UNCHANGED lockPanic
     ELSE lockPanic' = TRUE /\ UNCHANGED <<owner, at>>
  /\ UNCHANGED <<locked, ncli, intena, intr, base, inIntr, eflags, held>>

Unlock(c) ==
  /\ ~ lockPanic
  /\ Here(c) = "unlock"
  /\ locked' = [locked EXCEPT ![Arg(c)] = FALSE]
  /\ held' = [held EXCEPT ![c][Level(c)] = @ \ {Arg(c)}]
  /\ Goto(c, "popcli")
  /\ UNCHANGED <<owner, ncli, intena, intr, base, inIntr, want, eflags, lockPanic>>

\* Mutant: popcli turns the interrupts on at every depth.
StiAlways(c) == intena[c]

\* if(cpu->ncli == 0 && cpu->intena) sti(), after the decrement.
Sti(c) == ncli[c] = 1 /\ intena[c]

Popcli(c) ==
  /\ ~ lockPanic
  /\ Here(c) = "popcli"
  /\ ncli' = [ncli EXCEPT ![c] = @ - 1]
  /\ IF intr[c] \/ ncli[c] < 1
     THEN lockPanic' = TRUE /\ UNCHANGED <<intr, at>>
     ELSE /\ intr' = [intr EXCEPT ![c] = @ \/ Sti(c)]
          /\ Goto(c, "run")
          /\ UNCHANGED lockPanic
  /\ UNCHANGED <<locked, owner, intena, base, inIntr, want, eflags, held>>

-----------------------------------------------------------------------------
\* An interrupt gate turns the flag off and iret turns it on again.
Interrupt(c) ==
  /\ ~ lockPanic
  /\ intr[c]
  /\ inIntr' = [inIntr EXCEPT ![c] = TRUE]
  /\ intr' = [intr EXCEPT ![c] = FALSE]
  /\ UNCHANGED <<locked, owner, ncli, intena, base, at, want, eflags, held, lockPanic>>

Iret(c) ==
  /\ ~ lockPanic
  /\ inIntr[c]
  /\ Here(c) = "run"
  /\ Mine(c) = {}
  /\ inIntr' = [inIntr EXCEPT ![c] = FALSE]
  /\ intr' = [intr EXCEPT ![c] = TRUE]
  /\ UNCHANGED <<locked, owner, ncli, intena, base, at, want, eflags, held, lockPanic>>

\* initlock; main runs with interrupts off until scheduler's first sti.
LockInit ==
  /\ locked = [l \in Locks |-> FALSE]
  /\ owner = [l \in Locks |-> NoCpu]
  /\ ncli = [c \in CPUs |-> 0]
  /\ intena = [c \in CPUs |-> FALSE]
  /\ base \in [CPUs -> BOOLEAN]
  /\ intr = base
  /\ inIntr = [c \in CPUs |-> FALSE]
  /\ at = [c \in CPUs |-> [v \in Levels |-> "run"]]
  /\ \E l \in Locks : want = [c \in CPUs |-> [v \in Levels |-> l]]
  /\ eflags = [c \in CPUs |-> [v \in Levels |-> FALSE]]
  /\ held = [c \in CPUs |-> [v \in Levels |-> {}]]
  /\ lockPanic = FALSE

Cpu(c) ==
  \/ \E l \in Locks : Acquire(c, l) \/ Release(c, l)
  \/ ReadEflags(c)
  \/ Cli(c)
  \/ CheckHolding(c)
  \/ Xchg(c)
  \/ SetCpu(c)
  \/ Unlock(c)
  \/ Popcli(c)
  \/ Interrupt(c)
  \/ Iret(c)

LockNext == \E c \in CPUs : Cpu(c)

LockSpec == LockInit /\ [][LockNext]_lockVars

-----------------------------------------------------------------------------
\* Every variable keeps its type; cpu->ncli never goes below zero.
LockTypeOK ==
  /\ locked \in [Locks -> BOOLEAN]
  /\ owner \in [Locks -> CPUs \cup {NoCpu}]
  /\ ncli \in [CPUs -> Nat]
  /\ intena \in [CPUs -> BOOLEAN]
  /\ intr \in [CPUs -> BOOLEAN]
  /\ base \in [CPUs -> BOOLEAN]
  /\ inIntr \in [CPUs -> BOOLEAN]
  /\ at \in [CPUs -> [Levels -> LockPcs]]
  /\ want \in [CPUs -> [Levels -> Locks]]
  /\ eflags \in [CPUs -> [Levels -> BOOLEAN]]
  /\ held \in [CPUs -> [Levels -> SUBSET Locks]]
  /\ lockPanic \in BOOLEAN

\* Between the xchg of acquire and the xchg of release a lock is one
\* activity's: no other CPU has it, nor a handler on the same CPU.
MutualExclusion ==
  \A c, d \in CPUs : \A v, w \in Levels :
    held[c][v] \cap held[d][w] # {} => c = d /\ v = w

\* No interrupt can come while the CPU holds a lock, whatever the order in
\* which nested locks are released (pushcli and popcli count).
InterruptsOff == \A c \in CPUs : HeldBy(c) # {} => ~ intr[c]

\* When the last lock is released the flag is again what it was before the
\* first acquire.
FlagRestored ==
  \A c \in CPUs :
    at[c]["thread"] = "run" /\ held[c]["thread"] = {} /\ ~ inIntr[c] =>
      intr[c] = base[c] /\ ncli[c] = 0

\* pushcli and popcli nest as spinlock.c:92 says: interrupts stay off until the
\* last lock is released, and then the flag is what it was.
InterruptsKept == InterruptsOff /\ FlagRestored

\* holding() never errs, though it reads two fields of a lock that others are
\* changing: no panic in acquire, release or popcli.
NeverPanics == ~ lockPanic
=============================================================================
