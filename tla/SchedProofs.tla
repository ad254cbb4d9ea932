---------------------------- MODULE SchedProofs -----------------------------
(***************************************************************************)
(* Proofs about Sched, for every number of CPUs and processes, whatever     *)
(* they do, with and without devices, and for both ways to sleep.           *)
(***************************************************************************)
EXTENDS Sched, TLAPS, FiniteSetTheorems

\* The locks held at a place of the code, and how many.
LocksAt(l) ==
  IF l \in Resume \cup {"scan", "switched", "sched", "mark"} THEN {"ptable"}
  ELSE IF l = "unlk" THEN {"ptable", "lk"}
  ELSE IF l = "sleep" THEN {"lk"}
  ELSE IF l \in {"test", "unlock", "made"} THEN {SleepLock}
  ELSE {}

CountAt(l) == IF l = "unlk" THEN 2 ELSE IF LocksAt(l) = {} THEN 0 ELSE 1

\* A CPU holds what its place says, whichever CPU the thread on it took the
\* lock on; its ncli counts these locks and one it is about to take.
LockOf(c) ==
  /\ \A l \in Locks : holder[l] = c <=> l \in LocksAt(Here(c))
  /\ \/ ncli[c] = CountAt(Here(c))
     \/ ncli[c] = CountAt(Here(c)) + 1 /\ Here(c) \in AcquirePcs

\* Places that only a sleep or a wakeup with a lock of its own has.
LkPcs == {"sleep", "unlk", "made", "wake"}
PlaceOf(c) == at[c] \in LkPcs \/ handler[c] \in LkPcs => SleepLock = "lk"

\* A process preempted in front of its wakeup, on a CPU or not.
Preempted(c) ==
  at[c] \in {"yield", "yielded", "iret"} \/ (at[c] = "sched" /\ state[stack[c]] = "RUNNABLE")
BackOK ==
  \A p \in Procs : back[p] = "wake" =>
    /\ SleepLock = "lk"
    /\ \A c \in CPUs : stack[c] = p => Preempted(c)
    /\ context[p] = "yielded" \/ \E c \in CPUs : stack[c] = p

\* Places of a process in a critical section it entered with interrupts on.
InsidePcs == {"test", "unlock", "made", "sleep", "unlk", "mark"}

FlagOf(c) ==
  /\ ncli[c] > 0 => ~ intr[c]
  /\ InHandler(c) => /\ LocksAt(at[c]) = {}
                     /\ ~ intr[c]
                     /\ ncli[c] > 0 => ~ intena[c]
  /\ stack[c] # 0 =>
       /\ at[c] \in InsidePcs => intena[c]
       /\ at[c] = "sched" /\ state[stack[c]] = "SLEEPING" => intena[c]
       /\ ~ InHandler(c) /\ at[c] \in OpenPcs =>
            IF ncli[c] = 0 THEN intr[c] ELSE intena[c]

\* What a CPU says of the processes.
SchedulerPcs == {"sti", "slock", "scan", "switched"}

StackOf(c) ==
  /\ stack[c] = 0 <=> at[c] \in SchedulerPcs
  /\ at[c] # "switched" => proc[c] = stack[c]
  /\ stack[c] # 0 \/ at[c] = "switched" => next[c] \in Procs
  /\ stack[c] # 0 => (state[stack[c]] = "RUNNING" <=> at[c] # "sched")
  /\ at[c] = "slept" => context[stack[c]] = "slept"
  /\ at[c] # "zombie"

CpuOK(c) == LockOf(c) /\ PlaceOf(c) /\ FlagOf(c) /\ StackOf(c)

\* What the table says of them.
ContextOK ==
  \A p \in Procs :
    /\ state[p] = "RUNNING" => \E c \in CPUs : stack[c] = p
    /\ context[p] = "slept" => saved[p]
    /\ context[p] = "zombie" => state[p] = "ZOMBIE" /\ \A c \in CPUs : stack[c] # p
    /\ state[p] = "SLEEPING" => chan[p]

\* A process on its way to sleep has seen that there is nothing to consume.
NoItemsOK == \A c \in CPUs : at[c] \in {"sleep", "unlk"} => items = 0
Falling ==
  (\E p \in Procs : state[p] = "SLEEPING") \/ (\E c \in CPUs : at[c] = "mark")
WakeOK == NoItemsOK /\ (items > 0 /\ Falling => AboutToWake)

IndInv ==
  /\ TypeOK /\ OneStack
  /\ \A c \in CPUs : CpuOK(c)
  /\ BackOK /\ ContextOK /\ WakeOK

-----------------------------------------------------------------------------
(***************************************************************************)
(* Who holds what.                                                         *)
(***************************************************************************)
LEMMA LocksAtPlaces ==
  /\ \A l \in Resume \cup {"scan", "switched", "sched", "mark"} : LocksAt(l) = {"ptable"}
  /\ LocksAt("unlk") = {"ptable", "lk"} /\ LocksAt("sleep") = {"lk"}
  /\ \A l \in {"test", "unlock", "made"} : LocksAt(l) = {SleepLock}
  /\ \A l \in OpenPcs \cup {"iret", "ret", "yield", "sti", "slock"} : LocksAt(l) = {}
  /\ \A l : LocksAt(l) \subseteq Locks
  BY SchedAssumption DEF LocksAt, Resume, OpenPcs, Locks

LEMMA CountAtPlaces ==
  /\ \A l \in Resume \cup {"scan", "switched", "sched", "mark"} : CountAt(l) = 1
  /\ CountAt("unlk") = 2
  /\ \A l \in {"test", "unlock", "made", "sleep"} : CountAt(l) = 1
  /\ \A l \in OpenPcs \cup {"iret", "ret", "yield", "sti", "slock"} : CountAt(l) = 0
  /\ \A l : CountAt(l) \in {0, 1, 2}
  <1>1. "unlk" \notin Resume \cup OpenPcs
    BY DEF Resume, OpenPcs
  <1>. QED  BY <1>1, LocksAtPlaces DEF CountAt

LEMMA CardAt == \A l : Cardinality(LocksAt(l)) = CountAt(l)
  <1> TAKE l
  <1>1. CASE l = "unlk"
    <2>1. LocksAt(l) = {"ptable"} \cup {"lk"} /\ CountAt(l) = 2
      BY <1>1, LocksAtPlaces, CountAtPlaces
    <2>2. Cardinality({"ptable"} \cup {"lk"}) = Cardinality({"ptable"}) + 1
      BY FS_Singleton, FS_AddElement
    <2>3. Cardinality({"ptable"}) = 1
      BY FS_Singleton
    <2>. QED  BY <2>1, <2>2, <2>3
  <1>2. CASE l # "unlk"
    <2>1. LocksAt(l) = {} \/ \E x : LocksAt(l) = {x}
      BY <1>2 DEF LocksAt
    <2>2. CASE LocksAt(l) = {}
      BY <2>2, <1>2, FS_EmptySet DEF CountAt
    <2>3. CASE LocksAt(l) # {}
      <3>1. PICK x : LocksAt(l) = {x}
        BY <2>1, <2>3
      <3>2. Cardinality({x}) = 1
        BY FS_Singleton
      <3>. QED  BY <3>1, <3>2, <1>2, <2>3 DEF CountAt
    <2>. QED  BY <2>2, <2>3
  <1>. QED  BY <1>1, <1>2

LEMMA SpinCount ==
  ASSUME NEW c \in CPUs, LockOf(c)
  PROVE  Spinning(c) <=> ncli[c] = CountAt(Here(c)) + 1
  <1>1. Held(c) = LocksAt(Here(c))
    BY LocksAtPlaces DEF LockOf, Held
  <1>. QED  BY <1>1, CardAt DEF Spinning

\* acquire has come to its lock.
LEMMA TakeFacts ==
  ASSUME NEW c \in CPUs, LockOf(c), FlagOf(c), NEW l \in Locks, Take(c, l)
  PROVE  /\ ncli[c] = CountAt(Here(c)) + 1 /\ Here(c) \in AcquirePcs /\ ~ intr[c]
         /\ holder[l] = NoCpu
         /\ holder' = [holder EXCEPT ![l] = c]
         /\ UNCHANGED <<intr, ncli, intena>>
  BY SpinCount, CountAtPlaces DEF Take, LockOf, FlagOf

-----------------------------------------------------------------------------
(***************************************************************************)
(* A step of one CPU and the others.                                       *)
(***************************************************************************)
OthersKept(c) ==
  /\ \A d \in CPUs \ {c} :
       /\ at'[d] = at[d] /\ handler'[d] = handler[d]
       /\ stack'[d] = stack[d] /\ proc'[d] = proc[d] /\ next'[d] = next[d]
       /\ intr'[d] = intr[d] /\ ncli'[d] = ncli[d] /\ intena'[d] = intena[d]
       /\ stack[d] # 0 =>
            state'[stack[d]] = state[stack[d]] /\ context'[stack[d]] = context[stack[d]]
  /\ \A l \in Locks : holder'[l] # holder[l] => {holder[l], holder'[l]} = {c, NoCpu}

LEMMA OthersOK ==
  ASSUME NEW c \in CPUs, OthersKept(c), NEW d \in CPUs \ {c}, CpuOK(d)
  PROVE  CpuOK(d)'
  <1>1. LockOf(d)'
    <2>1. Here(d)' = Here(d)
      BY DEF OthersKept, Here, InHandler
    <2>2. \A l \in Locks : holder'[l] = d <=> holder[l] = d
      BY SchedAssumption DEF OthersKept
    <2>. QED  BY <2>1, <2>2 DEF OthersKept, CpuOK, LockOf
  <1>2. PlaceOf(d)'
    BY DEF OthersKept, CpuOK, PlaceOf
  <1>3. FlagOf(d)'
    BY DEF OthersKept, CpuOK, FlagOf, InHandler
  <1>4. StackOf(d)'
    BY DEF OthersKept, CpuOK, StackOf, SchedulerPcs
  <1>. QED  BY <1>1, <1>2, <1>3, <1>4 DEF CpuOK

\* Two CPUs do not hold one lock.
LEMMA Exclusion ==
  ASSUME IndInv, NEW c \in CPUs, NEW d \in CPUs, c # d
  PROVE  LocksAt(Here(c)) \cap LocksAt(Here(d)) = {}
  BY LocksAtPlaces DEF IndInv, CpuOK, LockOf
LEMMA Assemble ==
  ASSUME IndInv, NEW c \in CPUs, OthersKept(c), CpuOK(c)',
         TypeOK', OneStack', BackOK', ContextOK', WakeOK'
  PROVE  IndInv'
  BY OthersOK DEF IndInv

\* Nobody changes place on the stacks or in the table.
LEMMA QuietTable ==
  ASSUME IndInv, UNCHANGED <<table, context, saved, stack>>
  PROVE  OneStack' /\ ContextOK'
  BY DEF IndInv, OneStack, ContextOK, table

LEMMA QuietWake ==
  ASSUME IndInv, NEW c \in CPUs, OthersKept(c), UNCHANGED <<items, back>>,
         \A p \in Procs : state'[p] = "SLEEPING" => state[p] = "SLEEPING",
         at'[c] \in {"sleep", "unlk", "mark"} => items = 0 \/ at'[c] = at[c],
         \/ at[c] \notin {"made", "wake"} /\ handler[c] \notin {"made", "wake"}
         \/ at'[c] \in {"made", "wake"} \/ handler'[c] \in {"made", "wake"}
  PROVE  WakeOK'
  <1>1. NoItemsOK'
    BY DEF IndInv, WakeOK, NoItemsOK, OthersKept
  <1>2. AboutToWake => AboutToWake'
    BY DEF AboutToWake, OthersKept
  <1>3. items > 0 /\ Falling' => Falling
    BY DEF Falling, OthersKept, IndInv, TypeOK
  <1>. QED  BY <1>1, <1>2, <1>3 DEF IndInv, WakeOK

LEMMA QuietBack ==
  ASSUME IndInv, NEW c \in CPUs, OthersKept(c), UNCHANGED <<back, context, stack>>,
         stack[c] = 0 \/ ~ Preempted(c) \/ Preempted(c)'
  PROVE  BackOK'
  <1>1. \A d \in CPUs \ {c} : stack[d] # 0 /\ Preempted(d) => Preempted(d)'
    BY DEF OthersKept, Preempted
  <1>2. 0 \notin Procs
    BY DEF Procs
  <1>. QED  BY <1>1, <1>2 DEF IndInv, BackOK

\* The process on the stack of a CPU changes its state.
LEMMA RunnerTable ==
  ASSUME IndInv, NEW c \in CPUs, NEW v, stack[c] \in Procs,
         state' = [state EXCEPT ![stack[c]] = v],
         UNCHANGED <<context, saved, stack>>,
         \/ chan' = chan /\ v # "SLEEPING"
         \/ chan' = [chan EXCEPT ![stack[c]] = TRUE]
  PROVE  OneStack' /\ ContextOK'
  <1>1. OneStack'
    BY DEF IndInv, OneStack
  <1>2. \A p \in Procs : p # stack[c] => state'[p] = state[p] /\ chan'[p] = chan[p]
    BY DEF IndInv, TypeOK
  <1>3. /\ state'[stack[c]] = v
        /\ v = "SLEEPING" => chan'[stack[c]]
        /\ context[stack[c]] # "zombie"
    BY DEF IndInv, TypeOK, ContextOK
  <1>. QED  BY <1>1, <1>2, <1>3 DEF IndInv, ContextOK

\* While ptable.lock is free, a process on a stack is RUNNING, and nobody is on its way
\* to sleep.
LEMMA TableFree ==
  ASSUME IndInv, holder["ptable"] = NoCpu, NEW d \in CPUs
  PROVE  /\ "ptable" \notin LocksAt(at[d])
         /\ at[d] \notin {"sched", "mark", "switched"}
         /\ stack[d] # 0 => state[stack[d]] = "RUNNING"
  <1> USE DEF IndInv, CpuOK
  <1>1. "ptable" \notin LocksAt(Here(d))
    BY SchedAssumption DEF LockOf, Locks
  <1>2. "ptable" \notin LocksAt(at[d])
    BY <1>1 DEF Here, FlagOf
  <1>3. at[d] \notin {"sched", "mark", "switched"}
    BY <1>2, LocksAtPlaces
  <1>. QED  BY <1>2, <1>3 DEF StackOf

-----------------------------------------------------------------------------
(***************************************************************************)
(* acquire and the scheduler.                                              *)
(***************************************************************************)
LEMMA PushcliInv ==
  ASSUME IndInv, NEW c \in CPUs, Pushcli(c)
  PROVE  IndInv'
  <1> USE DEF IndInv, CpuOK
  <1>0. /\ Here(c) \in AcquirePcs /\ ncli[c] = CountAt(Here(c))
        /\ ncli' = [ncli EXCEPT ![c] = ncli[c] + 1]
        /\ intena' = [intena EXCEPT ![c] = IF ncli[c] = 0 THEN intr[c] ELSE intena[c]]
        /\ intr' = [intr EXCEPT ![c] = FALSE]
        /\ UNCHANGED <<table, context, back, saved, proc, stack, at, handler, next, holder,
                       items>>
        /\ Here(c)' = Here(c)
    BY SpinCount DEF Pushcli, LockOf, Here, InHandler
  <1>1. OthersKept(c)
    BY <1>0 DEF OthersKept, table, TypeOK
  <1>2. TypeOK'
    <2>1. ncli[c] \in 0..1
      BY <1>0, CountAtPlaces DEF AcquirePcs, OpenPcs
    <2>. QED  BY <2>1, <1>0 DEF TypeOK, table
  <1>3. LockOf(c)' /\ PlaceOf(c)'
    BY <1>0 DEF LockOf, PlaceOf, TypeOK
  <1>4. FlagOf(c)'
    <2>0. /\ ncli'[c] = ncli[c] + 1 /\ ~ intr'[c] /\ ncli[c] \in Nat
          /\ intena'[c] = (IF ncli[c] = 0 THEN intr[c] ELSE intena[c])
      BY <1>0 DEF TypeOK
    <2>1. InHandler(c) => ~ intena'[c]
      BY <2>0 DEF FlagOf
    <2>2. stack[c] # 0 /\ at[c] \in InsidePcs \cup {"sched"} => ~ InHandler(c)
      BY LocksAtPlaces, SchedAssumption DEF FlagOf, InsidePcs
    <2>3. stack[c] # 0 /\ at[c] \in InsidePcs \cup {"sched"} => ncli[c] # 0
      BY <2>2, <1>0, CountAtPlaces DEF Here, InsidePcs
    <2>4. stack[c] # 0 /\ ~ InHandler(c) /\ at[c] \in OpenPcs => ncli[c] = 0
      BY <1>0, CountAtPlaces DEF Here
    <2>. QED  BY <2>0, <2>1, <2>3, <2>4, <1>0 DEF FlagOf, table, InHandler
  <1>5. StackOf(c)'
    BY <1>0 DEF StackOf, table
  <1>6. OneStack' /\ ContextOK'
    BY <1>0, QuietTable
  <1>8. BackOK'
    BY <1>0, <1>1, QuietBack DEF Preempted, table, TypeOK
  <1>7. WakeOK'
    BY <1>0, <1>1, QuietWake DEF table
  <1>. QED  BY <1>1, <1>2, <1>3, <1>4, <1>5, <1>6, <1>7, <1>8, Assemble

LEMMA StiInv ==
  ASSUME IndInv, NEW c \in CPUs, Sti(c)
  PROVE  IndInv'
  <1> USE DEF IndInv, CpuOK
  <1>0. /\ handler[c] = "none" /\ at[c] = "sti"
        /\ at' = [at EXCEPT ![c] = "slock"]
        /\ intr' = [intr EXCEPT ![c] = TRUE]
        /\ UNCHANGED <<table, context, back, saved, proc, stack, handler, next, ncli,
                       intena, holder, items>>
    BY DEF Sti, Thread, InHandler
  <1>1. OthersKept(c)
    BY <1>0 DEF OthersKept, table, TypeOK
  <1>2. TypeOK'
    BY <1>0 DEF TypeOK, table, Pcs
  <1>3. LockOf(c)' /\ PlaceOf(c)'
    BY <1>0, CountAtPlaces, LocksAtPlaces
    DEF LockOf, PlaceOf, TypeOK, Here, InHandler, AcquirePcs, LkPcs
  <1>4. FlagOf(c)'
    BY <1>0, <1>3, CountAtPlaces DEF FlagOf, LockOf, StackOf, TypeOK, InHandler, Here, AcquirePcs,
       SchedulerPcs
  <1>5. StackOf(c)'
    BY <1>0 DEF StackOf, table, TypeOK, SchedulerPcs
  <1>6. OneStack' /\ ContextOK'
    BY <1>0, QuietTable
  <1>8. BackOK'
    BY <1>0, <1>1, QuietBack DEF Preempted, table, TypeOK
  <1>7. WakeOK'
    BY <1>0, <1>1, QuietWake DEF table, TypeOK
  <1>. QED  BY <1>1, <1>2, <1>3, <1>4, <1>5, <1>6, <1>7, <1>8, Assemble

LEMMA LockTableInv ==
  ASSUME IndInv, NEW c \in CPUs, LockTable(c)
  PROVE  IndInv'
  <1> USE DEF IndInv, CpuOK
  <1>0. /\ handler[c] = "none" /\ at[c] = "slock" /\ Here(c) = "slock" /\ Take(c, "ptable")
        /\ at' = [at EXCEPT ![c] = "scan"]
        /\ next' = [next EXCEPT ![c] = 1]
        /\ UNCHANGED <<table, context, back, saved, proc, stack, handler, items>>
        /\ Here(c)' = "scan" 
    BY DEF LockTable, Thread, InHandler, Here, TypeOK
  <1>a. /\ ncli[c] = 1 /\ ~ intr[c] /\ holder["ptable"] = NoCpu
        /\ holder' = [holder EXCEPT !["ptable"] = c]
        /\ UNCHANGED <<intr, ncli, intena>>
    BY <1>0, TakeFacts, CountAtPlaces DEF Locks
  <1>1. OthersKept(c)
    BY <1>0, <1>a DEF OthersKept, table, TypeOK
  <1>2. TypeOK'
    BY <1>0, <1>a, SchedAssumption DEF TypeOK, table, Pcs, Locks
  <1>3. LockOf(c)' /\ PlaceOf(c)'
    BY <1>0, <1>a, CountAtPlaces, LocksAtPlaces
    DEF LockOf, PlaceOf, TypeOK, LkPcs, Locks
  <1>4. FlagOf(c)'
    BY <1>0, <1>a DEF FlagOf, StackOf, TypeOK, InHandler, SchedulerPcs
  <1>5. StackOf(c)'
    BY <1>0 DEF StackOf, table, TypeOK, SchedulerPcs
  <1>6. OneStack' /\ ContextOK'
    BY <1>0, QuietTable
  <1>8. BackOK'
    BY <1>0, <1>1, QuietBack DEF Preempted, table, TypeOK
  <1>7. WakeOK'
    BY <1>0, <1>1, QuietWake DEF table, TypeOK
  <1>. QED  BY <1>1, <1>2, <1>3, <1>4, <1>5, <1>6, <1>7, <1>8, Assemble
LEMMA RunInv ==
  ASSUME IndInv, NEW c \in CPUs, NEW p \in Procs, Run(c, p)
  PROVE  IndInv'
  <1> USE DEF IndInv, CpuOK
  <1>0. /\ handler[c] = "none" /\ at[c] = "scan" /\ Here(c) = "scan"
        /\ state[p] = "RUNNABLE"
        /\ next' = [next EXCEPT ![c] = p]
        /\ proc' = [proc EXCEPT ![c] = p]
        /\ state' = [state EXCEPT ![p] = "RUNNING"]
        /\ stack' = [stack EXCEPT ![c] = p]
        /\ at' = [at EXCEPT ![c] = context[p]]
        /\ UNCHANGED <<chan, killed, context, back, saved, handler, cpus, items>>
        /\ Here(c)' = context[p]
    BY DEF Run, Thread, InHandler, Here, TypeOK
  <1>a. stack[c] = 0 /\ "ptable" \in LocksAt(Here(c)) /\ 0 \notin Procs
    BY <1>0, LocksAtPlaces DEF StackOf, SchedulerPcs, Procs
  <1>b. \A d \in CPUs : stack[d] # p
    <2> SUFFICES ASSUME NEW d \in CPUs, stack[d] = p PROVE FALSE
      OBVIOUS
    <2>1. d # c /\ at[d] = "sched"
      BY <1>0, <1>a DEF StackOf
    <2>2. Here(d) = "sched"
      BY <2>1, LocksAtPlaces DEF FlagOf, Here, Resume
    <2>. QED  BY <2>1, <2>2, <1>a, Exclusion, LocksAtPlaces
  <1>c. context[p] \in Resume /\ context[p] # "zombie"
    BY <1>0 DEF TypeOK, ContextOK
  <1>1. OthersKept(c)
    BY <1>0, <1>b DEF OthersKept, TypeOK, cpus
  <1>2. TypeOK'
    BY <1>0, <1>c, SchedAssumption DEF TypeOK, Pcs, cpus, States, Procs
  <1>3. LockOf(c)' /\ PlaceOf(c)'
    BY <1>0, <1>c, CountAtPlaces, LocksAtPlaces
    DEF LockOf, PlaceOf, TypeOK, LkPcs, Locks, cpus, Resume, AcquirePcs
  <1>4. FlagOf(c)'
    BY <1>0, <1>c DEF FlagOf, TypeOK, InHandler, Resume, OpenPcs, InsidePcs, cpus
  <1>5. StackOf(c)'
    BY <1>0, <1>a, <1>c DEF StackOf, TypeOK, SchedulerPcs, Resume
  <1>6. OneStack'
    BY <1>0, <1>b DEF OneStack, TypeOK
  <1>7. ContextOK'
    BY <1>0, <1>a, <1>c DEF ContextOK, TypeOK
  <1>8. WakeOK'
    BY <1>0, <1>1, <1>c, QuietWake DEF TypeOK, Resume
  <1>9. BackOK'
    <2> SUFFICES ASSUME NEW q \in Procs, back[q] = "wake"
                 PROVE  /\ SleepLock = "lk"
                        /\ \A d \in CPUs : stack'[d] = q => Preempted(d)'
                        /\ context'[q] = "yielded" \/ \E d \in CPUs : stack'[d] = q
      BY <1>0 DEF BackOK
    <2>1. CASE q = p
      <3>1. context[p] = "yielded" /\ SleepLock = "lk"
        BY <2>1, <1>b DEF BackOK
      <3>2. \A d \in CPUs : stack'[d] = q => d = c
        BY <2>1, <1>0, <1>b DEF TypeOK
      <3>. QED  BY <3>1, <3>2, <2>1, <1>0 DEF TypeOK, Preempted
    <2>2. CASE q # p
      <3>1. \A d \in CPUs : stack'[d] = q => d # c /\ stack[d] = q
        BY <2>2, <1>0 DEF TypeOK
      <3>2. \A d \in CPUs : stack[d] = q => stack'[d] = q
        BY <2>2, <1>0, <1>a DEF TypeOK
      <3>3. \A d \in CPUs : stack'[d] = q => Preempted(d)'
        BY <3>1, <2>2, <1>0 DEF BackOK, Preempted, TypeOK
      <3>. QED  BY <3>2, <3>3, <1>0 DEF BackOK
    <2>. QED  BY <2>1, <2>2
  <1>. QED  BY <1>1, <1>2, <1>3, <1>4, <1>5, <1>6, <1>7, <1>8, <1>9, Assemble

LEMMA SwitchedInv ==
  ASSUME IndInv, NEW c \in CPUs, Switched(c)
  PROVE  IndInv'
  <1> USE DEF IndInv, CpuOK
  <1>0. /\ handler[c] = "none" /\ at[c] = "switched" /\ Here(c) = "switched"
        /\ at' = [at EXCEPT ![c] = "scan"]
        /\ proc' = [proc EXCEPT ![c] = 0]
        /\ next' = [next EXCEPT ![c] = next[c] + 1]
        /\ UNCHANGED <<table, context, back, saved, stack, handler, cpus, items>>
        /\ Here(c)' = "scan" /\ stack[c] = 0 /\ next[c] \in Procs
    BY DEF Switched, Thread, InHandler, Here, TypeOK, Rest, StackOf, SchedulerPcs
  <1>1. OthersKept(c)
    BY <1>0 DEF OthersKept, TypeOK, cpus, table
  <1>2. TypeOK'
    BY <1>0, SchedAssumption DEF TypeOK, Pcs, cpus, table, Procs
  <1>3. LockOf(c)' /\ PlaceOf(c)'
    BY <1>0, CountAtPlaces, LocksAtPlaces
    DEF LockOf, PlaceOf, TypeOK, LkPcs, Locks, cpus, AcquirePcs, OpenPcs
  <1>4. FlagOf(c)'
    BY <1>0 DEF FlagOf, TypeOK, InHandler, cpus
  <1>5. StackOf(c)'
    BY <1>0 DEF StackOf, TypeOK, SchedulerPcs
  <1>6. OneStack' /\ ContextOK'
    BY <1>0, QuietTable
  <1>8. BackOK'
    BY <1>0, <1>1, QuietBack DEF Preempted, table, TypeOK
  <1>7. WakeOK'
    BY <1>0, <1>1, QuietWake DEF table, TypeOK
  <1>. QED  BY <1>1, <1>2, <1>3, <1>4, <1>5, <1>6, <1>7, <1>8, Assemble

LEMMA EndScanInv ==
  ASSUME IndInv, NEW c \in CPUs, EndScan(c)
  PROVE  IndInv'
  <1> USE DEF IndInv, CpuOK
  <1>0. /\ handler[c] = "none" /\ at[c] = "scan" /\ Here(c) = "scan"
        /\ Give(c, "ptable", intena[c])
        /\ at' = [at EXCEPT ![c] = "sti"]
        /\ UNCHANGED <<table, context, back, saved, proc, stack, handler, next, items>>
        /\ Here(c)' = "sti"
    BY DEF EndScan, Thread, InHandler, Here, TypeOK
  <1>a. /\ ncli[c] = 1 /\ holder["ptable"] = c
        /\ holder' = [holder EXCEPT !["ptable"] = NoCpu]
        /\ ncli' = [ncli EXCEPT ![c] = 0]
        /\ intena' = [intena EXCEPT ![c] = intena[c]]
        /\ intr' = [intr EXCEPT ![c] = intena[c]]
    <2>1. CountAt(Here(c)) = 1 /\ Here(c) \notin AcquirePcs /\ "ptable" \in Locks
      BY <1>0, CountAtPlaces DEF AcquirePcs, Locks
    <2>2. ncli[c] = 1
      BY <1>0, <2>1 DEF LockOf
    <2>3. intr' = [intr EXCEPT ![c] = intena[c]]
      BY <1>0, <2>2 DEF Give, TypeOK
    <2>4. holder["ptable"] = c /\ holder' = [holder EXCEPT !["ptable"] = NoCpu]
      BY <1>0 DEF Give
    <2>5. ncli' = [ncli EXCEPT ![c] = 0]
      BY <1>0, <2>2 DEF Give
    <2>6. intena' = [intena EXCEPT ![c] = intena[c]]
      BY <1>0 DEF Give
    <2>. QED  BY <2>2, <2>3, <2>4, <2>5, <2>6
  <1>1. OthersKept(c)
    BY <1>0, <1>a DEF OthersKept, table, TypeOK
  <1>2. TypeOK'
    BY <1>0, <1>a, SchedAssumption DEF TypeOK, table, Pcs, Locks
  <1>3. LockOf(c)' /\ PlaceOf(c)'
    BY <1>0, <1>a, CountAtPlaces, LocksAtPlaces, SchedAssumption
    DEF LockOf, PlaceOf, TypeOK, LkPcs, Locks
  <1>4. FlagOf(c)'
    BY <1>0, <1>a DEF FlagOf, StackOf, TypeOK, InHandler, SchedulerPcs
  <1>5. StackOf(c)'
    BY <1>0 DEF StackOf, table, TypeOK, SchedulerPcs
  <1>6. OneStack' /\ ContextOK'
    BY <1>0, QuietTable
  <1>8. BackOK'
    BY <1>0, <1>1, QuietBack DEF Preempted, table, TypeOK
  <1>7. WakeOK'
    BY <1>0, <1>1, QuietWake DEF table, TypeOK
  <1>. QED  BY <1>1, <1>2, <1>3, <1>4, <1>5, <1>6, <1>7, <1>8, Assemble
-----------------------------------------------------------------------------
(***************************************************************************)
(* swtch and the ways back to a process.                                   *)
(***************************************************************************)
LEMMA ToSchedulerInv ==
  ASSUME IndInv, NEW c \in CPUs, ToScheduler(c)
  PROVE  IndInv'
  <1> USE DEF IndInv, CpuOK
  <1> DEFINE p == stack[c]
  <1>0. /\ handler[c] = "none" /\ at[c] = "sched" /\ Here(c) = "sched"
        /\ stack[c] # 0 /\ proc[c] = p /\ p \in Procs /\ 0 \notin Procs
        /\ state[p] \in {"RUNNABLE", "SLEEPING", "ZOMBIE"}
        /\ context' = [context EXCEPT ![p] = Caller[state[p]]]
        /\ saved' = [saved EXCEPT ![p] = intena[c]]
        /\ stack' = [stack EXCEPT ![c] = 0]
        /\ at' = [at EXCEPT ![c] = "switched"]
        /\ UNCHANGED <<table, back, proc, handler, next, cpus, items>>
        /\ Here(c)' = "switched"
    <2>1. handler[c] = "none" /\ at[c] = "sched" /\ Here(c) = "sched" /\ 0 \notin Procs
      BY DEF ToScheduler, Thread, InHandler, Here, Procs
    <2>2. stack[c] # 0 /\ proc[c] = stack[c] /\ stack[c] \in Procs
      BY <2>1 DEF StackOf, SchedulerPcs, TypeOK
    <2>3. state[p] \in {"RUNNABLE", "SLEEPING", "ZOMBIE"}
      BY <2>1, <2>2 DEF StackOf, TypeOK, States
    <2>. QED  BY <2>1, <2>2, <2>3 DEF ToScheduler, Here, InHandler, TypeOK
  <1>a. /\ Caller[state[p]] \in Resume
        /\ Caller[state[p]] = "slept" => state[p] = "SLEEPING"
        /\ Caller[state[p]] = "zombie" => state[p] = "ZOMBIE"
    BY <1>0 DEF Caller, Resume
  <1>b. \A d \in CPUs : d # c => stack[d] # p
    BY <1>0 DEF OneStack
  <1> HIDE DEF p
  <1>1. OthersKept(c)
    BY <1>0, <1>b DEF OthersKept, TypeOK, cpus, table
  <1>2. TypeOK'
    BY <1>0, <1>a DEF TypeOK, Pcs, cpus, table
  <1>3. LockOf(c)' /\ PlaceOf(c)'
    BY <1>0, CountAtPlaces, LocksAtPlaces
    DEF LockOf, PlaceOf, TypeOK, LkPcs, Locks, cpus, AcquirePcs, OpenPcs
  <1>4. FlagOf(c)'
    BY <1>0 DEF FlagOf, TypeOK, InHandler, cpus
  <1>5. StackOf(c)'
    BY <1>0 DEF StackOf, TypeOK, SchedulerPcs
  <1>6. OneStack'
    BY <1>0, <1>b DEF OneStack, TypeOK
  <1>7. ContextOK'
    <2> SUFFICES ASSUME NEW q \in Procs
                 PROVE  /\ state'[q] = "RUNNING" => \E d \in CPUs : stack'[d] = q
                        /\ context'[q] = "slept" => saved'[q]
                        /\ context'[q] = "zombie" =>
                             state'[q] = "ZOMBIE" /\ \A d \in CPUs : stack'[d] # q
                        /\ state'[q] = "SLEEPING" => chan'[q]
      BY DEF ContextOK
    <2>1. CASE q = p
      <3>1. /\ context'[q] = Caller[state[p]] /\ saved'[q] = intena[c]
            /\ state'[q] = state[p] /\ chan'[q] = chan[q]
        BY <2>1, <1>0 DEF TypeOK, table
      <3>2. \A d \in CPUs : stack'[d] # q
        BY <2>1, <1>0, <1>b DEF TypeOK
      <3>3. state[p] = "SLEEPING" => intena[c]
        BY <1>0 DEF FlagOf, p
      <3>. QED  BY <3>1, <3>2, <3>3, <2>1, <1>0, <1>a DEF ContextOK
    <2>2. CASE q # p
      BY <2>2, <1>0 DEF ContextOK, TypeOK, table, p
    <2>. QED  BY <2>1, <2>2
  <1>8. WakeOK'
    BY <1>0, <1>1, QuietWake DEF TypeOK, table
  <1>9. BackOK'
    <2> SUFFICES ASSUME NEW q \in Procs, back[q] = "wake"
                 PROVE  /\ SleepLock = "lk"
                        /\ \A d \in CPUs : stack'[d] = q => Preempted(d)'
                        /\ context'[q] = "yielded" \/ \E d \in CPUs : stack'[d] = q
      BY <1>0 DEF BackOK
    <2>1. CASE q = p
      <3>1. state[p] = "RUNNABLE" /\ SleepLock = "lk"
        BY <2>1, <1>0 DEF BackOK, Preempted, p
      <3>2. context'[q] = "yielded"
        BY <3>1, <2>1, <1>0 DEF Caller, TypeOK
      <3>3. \A d \in CPUs : stack'[d] # q
        BY <2>1, <1>0, <1>b DEF TypeOK
      <3>. QED  BY <3>1, <3>2, <3>3
    <2>2. CASE q # p
      <3>1. \A d \in CPUs : stack'[d] = q <=> stack[d] = q /\ d # c
        BY <2>2, <1>0 DEF TypeOK, p
      <3>2. \A d \in CPUs : stack[d] = q => d # c
        BY <2>2 DEF p
      <3>3. \A d \in CPUs : stack'[d] = q => Preempted(d)'
        BY <3>1, <1>0 DEF BackOK, Preempted, TypeOK, table
      <3>4. context'[q] = context[q]
        BY <2>2, <1>0 DEF TypeOK
      <3>. QED  BY <3>1, <3>2, <3>3, <3>4 DEF BackOK
    <2>. QED  BY <2>1, <2>2
  <1>. QED  BY <1>1, <1>2, <1>3, <1>4, <1>5, <1>6, <1>7, <1>8, <1>9, Assemble

LEMMA ForkretInv ==
  ASSUME IndInv, NEW c \in CPUs, Forkret(c)
  PROVE  IndInv'
  <1> USE DEF IndInv, CpuOK
  <1>0. /\ handler[c] = "none" /\ at[c] = "forkret" /\ Here(c) = "forkret"
        /\ stack[c] \in Procs /\ stack[c] # 0
        /\ Give(c, "ptable", intena[c])
        /\ at' = [at EXCEPT ![c] = "iret"]
        /\ UNCHANGED <<table, context, back, saved, proc, stack, handler, next, items>>
        /\ Here(c)' = "iret"
    BY DEF Forkret, Thread, InHandler, Here, TypeOK, StackOf, SchedulerPcs, Restored
  <1>a. /\ ncli[c] = 1 /\ holder["ptable"] = c
        /\ holder' = [holder EXCEPT !["ptable"] = NoCpu]
        /\ ncli' = [ncli EXCEPT ![c] = 0]
        /\ intena' = [intena EXCEPT ![c] = intena[c]]
        /\ intr' = [intr EXCEPT ![c] = intena[c]]
    <2>1. CountAt(Here(c)) = 1 /\ Here(c) \notin AcquirePcs
      BY <1>0, CountAtPlaces DEF AcquirePcs, Resume
    <2>2. ncli[c] = 1
      BY <1>0, <2>1 DEF LockOf
    <2>3. intr' = [intr EXCEPT ![c] = intena[c]]
      BY <1>0, <2>2 DEF Give, TypeOK
    <2>4. holder["ptable"] = c /\ holder' = [holder EXCEPT !["ptable"] = NoCpu]
      BY <1>0 DEF Give
    <2>5. ncli' = [ncli EXCEPT ![c] = 0]
      BY <1>0, <2>2 DEF Give
    <2>6. intena' = [intena EXCEPT ![c] = intena[c]]
      BY <1>0 DEF Give
    <2>. QED  BY <2>2, <2>3, <2>4, <2>5, <2>6
  <1>1. OthersKept(c)
    BY <1>0, <1>a DEF OthersKept, table, TypeOK
  <1>2. TypeOK'
    BY <1>0, <1>a, SchedAssumption DEF TypeOK, table, Pcs, Locks
  <1>3. LockOf(c)' /\ PlaceOf(c)'
    BY <1>0, <1>a, CountAtPlaces, LocksAtPlaces, SchedAssumption
    DEF LockOf, PlaceOf, TypeOK, LkPcs, Locks, Resume
  <1>4. FlagOf(c)'
    BY <1>0, <1>a DEF FlagOf, TypeOK, InHandler, InsidePcs, OpenPcs
  <1>5. StackOf(c)'
    BY <1>0 DEF StackOf, table, TypeOK, SchedulerPcs
  <1>6. OneStack' /\ ContextOK'
    BY <1>0, QuietTable
  <1>8. BackOK'
    BY <1>0, <1>1, QuietBack DEF Preempted, table, TypeOK
  <1>7. WakeOK'
    BY <1>0, <1>1, QuietWake DEF table, TypeOK
  <1>. QED  BY <1>1, <1>2, <1>3, <1>4, <1>5, <1>6, <1>7, <1>8, Assemble

LEMMA YieldedInv ==
  ASSUME IndInv, NEW c \in CPUs, Yielded(c)
  PROVE  IndInv'
  <1> USE DEF IndInv, CpuOK
  <1>0. /\ handler[c] = "none" /\ at[c] = "yielded" /\ Here(c) = "yielded"
        /\ stack[c] \in Procs /\ stack[c] # 0
        /\ Give(c, "ptable", saved[stack[c]])
        /\ at' = [at EXCEPT ![c] = "iret"]
        /\ UNCHANGED <<table, context, back, saved, proc, stack, handler, next, items>>
        /\ Here(c)' = "iret"
    BY DEF Yielded, Thread, InHandler, Here, TypeOK, StackOf, SchedulerPcs, Restored
  <1>a. /\ ncli[c] = 1 /\ holder["ptable"] = c
        /\ holder' = [holder EXCEPT !["ptable"] = NoCpu]
        /\ ncli' = [ncli EXCEPT ![c] = 0]
        /\ intena' = [intena EXCEPT ![c] = saved[stack[c]]]
        /\ intr' = [intr EXCEPT ![c] = saved[stack[c]]]
    <2>1. CountAt(Here(c)) = 1 /\ Here(c) \notin AcquirePcs
      BY <1>0, CountAtPlaces DEF AcquirePcs, Resume
    <2>2. ncli[c] = 1
      BY <1>0, <2>1 DEF LockOf
    <2>3. intr' = [intr EXCEPT ![c] = saved[stack[c]]]
      BY <1>0, <2>2 DEF Give, TypeOK
    <2>4. holder["ptable"] = c /\ holder' = [holder EXCEPT !["ptable"] = NoCpu]
      BY <1>0 DEF Give
    <2>5. ncli' = [ncli EXCEPT ![c] = 0]
      BY <1>0, <2>2 DEF Give
    <2>6. intena' = [intena EXCEPT ![c] = saved[stack[c]]]
      BY <1>0 DEF Give
    <2>. QED  BY <2>2, <2>3, <2>4, <2>5, <2>6
  <1>1. OthersKept(c)
    BY <1>0, <1>a DEF OthersKept, table, TypeOK
  <1>2. TypeOK'
    BY <1>0, <1>a, SchedAssumption DEF TypeOK, table, Pcs, Locks
  <1>3. LockOf(c)' /\ PlaceOf(c)'
    BY <1>0, <1>a, CountAtPlaces, LocksAtPlaces, SchedAssumption
    DEF LockOf, PlaceOf, TypeOK, LkPcs, Locks, Resume
  <1>4. FlagOf(c)'
    BY <1>0, <1>a DEF FlagOf, TypeOK, InHandler, InsidePcs, OpenPcs
  <1>5. StackOf(c)'
    BY <1>0 DEF StackOf, table, TypeOK, SchedulerPcs
  <1>6. OneStack' /\ ContextOK'
    BY <1>0, QuietTable
  <1>8. BackOK'
    BY <1>0, <1>1, QuietBack DEF Preempted, table, TypeOK
  <1>7. WakeOK'
    BY <1>0, <1>1, QuietWake DEF table, TypeOK
  <1>. QED  BY <1>1, <1>2, <1>3, <1>4, <1>5, <1>6, <1>7, <1>8, Assemble

LEMMA TimerInv ==
  ASSUME IndInv, NEW c \in CPUs, Timer(c)
  PROVE  IndInv'
  <1> USE DEF IndInv, CpuOK
  <1>0. /\ handler[c] = "none" /\ at[c] \in OpenPcs /\ Here(c) = at[c] /\ intr[c]
        /\ stack[c] \in Procs
        /\ back' = [back EXCEPT ![stack[c]] = at[c]]
        /\ intr' = [intr EXCEPT ![c] = FALSE]
        /\ at' = [at EXCEPT ![c] = "yield"]
        /\ UNCHANGED <<table, context, saved, proc, stack, handler, next, ncli, intena,
                       holder, items>>
        /\ Here(c)' = "yield" /\ state[stack[c]] = "RUNNING" /\ stack[c] # 0
    BY DEF Timer, InHandler, Here, TypeOK, StackOf, SchedulerPcs, OpenPcs
  <1>a. ncli[c] = 0
    BY <1>0 DEF FlagOf, TypeOK
  <1>1. OthersKept(c)
    BY <1>0 DEF OthersKept, table, TypeOK
  <1>2. TypeOK'
    BY <1>0 DEF TypeOK, table, Pcs
  <1>3. LockOf(c)' /\ PlaceOf(c)'
    BY <1>0, <1>a, CountAtPlaces, LocksAtPlaces DEF LockOf, PlaceOf, TypeOK, LkPcs
  <1>4. FlagOf(c)'
    BY <1>0, <1>a DEF FlagOf, TypeOK, InHandler, InsidePcs, OpenPcs
  <1>5. StackOf(c)'
    BY <1>0 DEF StackOf, table, TypeOK, SchedulerPcs, OpenPcs
  <1>6. OneStack' /\ ContextOK'
    BY <1>0, QuietTable
  <1>b. back[stack[c]] # "wake"
    BY <1>0 DEF BackOK, Preempted, OpenPcs
  <1>7. BackOK'
    <2> SUFFICES ASSUME NEW p \in Procs, back'[p] = "wake"
                 PROVE  /\ SleepLock = "lk"
                        /\ \A d \in CPUs : stack'[d] = p => Preempted(d)'
                        /\ context'[p] = "yielded" \/ \E d \in CPUs : stack'[d] = p
      BY DEF BackOK
    <2>1. CASE p = stack[c]
      <3>1. at[c] = "wake" /\ at'[c] = "yield"
        BY <2>1, <1>0 DEF TypeOK
      <3>2. \A d \in CPUs : stack[d] = p => d = c
        BY <2>1, <1>0 DEF OneStack
      <3>. QED  BY <2>1, <3>1, <3>2, <1>0 DEF PlaceOf, LkPcs, Preempted
    <2>2. CASE p # stack[c]
      <3>1. back[p] = "wake"
        BY <2>2, <1>0 DEF TypeOK
      <3>2. \A d \in CPUs : stack[d] = p => d # c /\ Preempted(d)
        BY <2>2, <3>1 DEF BackOK
      <3>3. \A d \in CPUs : stack[d] = p => Preempted(d)'
        BY <3>2, <1>0, <1>1 DEF Preempted, OthersKept, table
      <3>. QED  BY <3>1, <3>3, <1>0 DEF BackOK
    <2>. QED  BY <2>1, <2>2
  <1>8. WakeOK'
    <2>1. NoItemsOK' /\ (Falling' => Falling)
      BY <1>0 DEF NoItemsOK, Falling, WakeOK, TypeOK, table
    <2>2. AboutToWake => AboutToWake'
      <3>1. CASE at[c] = "wake"
        BY <3>1, <1>0 DEF AboutToWake, TypeOK
      <3>2. CASE at[c] # "wake"
        <4>1. {at[c], handler[c]} \cap {"made", "wake"} = {}
          BY <3>2, <1>0 DEF OpenPcs
        <4>2. \A p \in Procs : back[p] = "wake" => back'[p] = "wake"
          BY <1>0, <1>b DEF TypeOK
        <4>. QED  BY <4>1, <4>2, <1>1 DEF AboutToWake, OthersKept
      <3>. QED  BY <3>1, <3>2
    <2>. QED  BY <2>1, <2>2, <1>0 DEF WakeOK
  <1>. QED  BY <1>1, <1>2, <1>3, <1>4, <1>5, <1>6, <1>7, <1>8, Assemble
LEMMA YieldInv ==
  ASSUME IndInv, NEW c \in CPUs, Yield(c)
  PROVE  IndInv'
  <1> USE DEF IndInv, CpuOK
  <1>0. /\ handler[c] = "none" /\ at[c] = "yield" /\ Here(c) = "yield"
        /\ stack[c] \in Procs /\ stack[c] # 0 /\ proc[c] = stack[c]
        /\ state[stack[c]] = "RUNNING"
        /\ Take(c, "ptable") /\ "ptable" \in Locks
        /\ at' = [at EXCEPT ![c] = "sched"]
        /\ UNCHANGED <<chan, killed, context, back, saved, proc, stack, handler, next, items>>
        /\ state' = [state EXCEPT ![stack[c]] = "RUNNABLE"]
        /\ Here(c)' = "sched"
    BY ZenonT(60), SchedAssumption
    DEF Yield, Thread, InHandler, Here, TypeOK, StackOf, SchedulerPcs, Locks
  <1>a. /\ ncli[c] = CountAt("yield") + 1 /\ holder["ptable"] = NoCpu
        /\ holder' = [holder EXCEPT !["ptable"] = c]
        /\ UNCHANGED <<intr, ncli, intena>>
    BY <1>0, TakeFacts
  <1>1. OthersKept(c)
    BY <1>0, <1>a DEF OthersKept, table, TypeOK, OneStack
  <1>2. TypeOK'
    BY <1>0, <1>a DEF TypeOK, table, Pcs, Locks, States
  <1>3. LockOf(c)' /\ PlaceOf(c)'
    BY <1>0, <1>a, CountAtPlaces, LocksAtPlaces, SchedAssumption
    DEF LockOf, PlaceOf, TypeOK, LkPcs, Locks, OpenPcs
  <1>4. FlagOf(c)'
    BY <1>0, <1>a, CountAtPlaces DEF FlagOf, TypeOK, InHandler, InsidePcs, OpenPcs, table
  <1>5. StackOf(c)'
    BY <1>0 DEF StackOf, table, TypeOK, SchedulerPcs
  <1>6. OneStack' /\ ContextOK'
    BY <1>0, RunnerTable
  <1>7. WakeOK'
    BY <1>0, <1>1, QuietWake DEF table, TypeOK
  <1>8. BackOK'
    BY <1>0, <1>1, QuietBack DEF Preempted, table, TypeOK
  <1>. QED  BY <1>1, <1>2, <1>3, <1>4, <1>5, <1>6, <1>7, <1>8, Assemble

LEMMA ExitInv ==
  ASSUME IndInv, NEW c \in CPUs, Exit(c)
  PROVE  IndInv'
  <1> USE DEF IndInv, CpuOK
  <1>0. /\ handler[c] = "none" /\ at[c] = "exit" /\ Here(c) = "exit"
        /\ stack[c] \in Procs /\ stack[c] # 0 /\ proc[c] = stack[c]
        /\ state[stack[c]] = "RUNNING"
        /\ Take(c, "ptable") /\ "ptable" \in Locks
        /\ at' = [at EXCEPT ![c] = "sched"]
        /\ UNCHANGED <<chan, killed, context, back, saved, proc, stack, handler, next, items>>
        /\ state' = [state EXCEPT ![stack[c]] = "ZOMBIE"]
        /\ Here(c)' = "sched"
    BY ZenonT(60), SchedAssumption
    DEF Exit, Thread, InHandler, Here, TypeOK, StackOf, SchedulerPcs, Locks
  <1>a. /\ ncli[c] = CountAt("exit") + 1 /\ holder["ptable"] = NoCpu
        /\ holder' = [holder EXCEPT !["ptable"] = c]
        /\ UNCHANGED <<intr, ncli, intena>>
    BY <1>0, TakeFacts
  <1>1. OthersKept(c)
    BY <1>0, <1>a DEF OthersKept, table, TypeOK, OneStack
  <1>2. TypeOK'
    BY <1>0, <1>a DEF TypeOK, table, Pcs, Locks, States
  <1>3. LockOf(c)' /\ PlaceOf(c)'
    BY <1>0, <1>a, CountAtPlaces, LocksAtPlaces, SchedAssumption
    DEF LockOf, PlaceOf, TypeOK, LkPcs, Locks, OpenPcs
  <1>4. FlagOf(c)'
    BY <1>0, <1>a, CountAtPlaces DEF FlagOf, TypeOK, InHandler, InsidePcs, OpenPcs, table
  <1>5. StackOf(c)'
    BY <1>0 DEF StackOf, table, TypeOK, SchedulerPcs
  <1>6. OneStack' /\ ContextOK'
    BY <1>0, RunnerTable
  <1>7. WakeOK'
    BY <1>0, <1>1, QuietWake DEF table, TypeOK
  <1>8. BackOK'
    BY <1>0, <1>1, QuietBack DEF Preempted, table, TypeOK
  <1>. QED  BY <1>1, <1>2, <1>3, <1>4, <1>5, <1>6, <1>7, <1>8, Assemble

LEMMA LockInv ==
  ASSUME IndInv, NEW c \in CPUs, Lock(c)
  PROVE  IndInv'
  <1> USE DEF IndInv, CpuOK
  <1>0. /\ handler[c] = "none" /\ at[c] = "lock" /\ Here(c) = "lock"
        /\ stack[c] \in Procs /\ stack[c] # 0 /\ proc[c] = stack[c]
        /\ state[stack[c]] = "RUNNING"
        /\ Take(c, SleepLock) /\ SleepLock \in Locks
        /\ at' = [at EXCEPT ![c] = "test"]
        /\ UNCHANGED <<table, context, back, saved, proc, stack, handler, next, items>>
        /\ Here(c)' = "test"
    BY SchedAssumption
    DEF Lock, Thread, InHandler, Here, TypeOK, StackOf, SchedulerPcs, Locks
  <1>a. /\ ncli[c] = CountAt("lock") + 1 /\ holder[SleepLock] = NoCpu
        /\ holder' = [holder EXCEPT ![SleepLock] = c]
        /\ UNCHANGED <<intr, ncli, intena>>
    BY <1>0, TakeFacts
  <1>1. OthersKept(c)
    BY <1>0, <1>a DEF OthersKept, table, TypeOK, OneStack
  <1>2. TypeOK'
    BY <1>0, <1>a DEF TypeOK, table, Pcs, Locks, States
  <1>3. LockOf(c)' /\ PlaceOf(c)'
    BY <1>0, <1>a, CountAtPlaces, LocksAtPlaces, SchedAssumption
    DEF LockOf, PlaceOf, TypeOK, LkPcs, Locks, OpenPcs
  <1>4. FlagOf(c)'
    BY <1>0, <1>a, CountAtPlaces DEF FlagOf, TypeOK, InHandler, InsidePcs, OpenPcs, table
  <1>5. StackOf(c)'
    BY <1>0 DEF StackOf, table, TypeOK, SchedulerPcs
  <1>6. OneStack' /\ ContextOK'
    BY <1>0, QuietTable
  <1>7. WakeOK'
    BY <1>0, <1>1, QuietWake DEF table, TypeOK
  <1>8. BackOK'
    BY <1>0, <1>1, QuietBack DEF Preempted, table, TypeOK
  <1>. QED  BY <1>1, <1>2, <1>3, <1>4, <1>5, <1>6, <1>7, <1>8, Assemble

LEMMA SleepInv ==
  ASSUME IndInv, NEW c \in CPUs, Sleep(c)
  PROVE  IndInv'
  <1> USE DEF IndInv, CpuOK
  <1>0. /\ handler[c] = "none" /\ at[c] = "sleep" /\ Here(c) = "sleep"
        /\ stack[c] \in Procs /\ stack[c] # 0 /\ proc[c] = stack[c]
        /\ state[stack[c]] = "RUNNING"
        /\ Take(c, "ptable") /\ "ptable" \in Locks
        /\ at' = [at EXCEPT ![c] = "unlk"]
        /\ UNCHANGED <<table, context, back, saved, proc, stack, handler, next, items>>
        /\ Here(c)' = "unlk"
    BY SchedAssumption
    DEF Sleep, Thread, InHandler, Here, TypeOK, StackOf, SchedulerPcs, Locks
  <1>a. /\ ncli[c] = CountAt("sleep") + 1 /\ holder["ptable"] = NoCpu
        /\ holder' = [holder EXCEPT !["ptable"] = c]
        /\ UNCHANGED <<intr, ncli, intena>>
    BY <1>0, TakeFacts
  <1>1. OthersKept(c)
    BY <1>0, <1>a DEF OthersKept, table, TypeOK, OneStack
  <1>2. TypeOK'
    BY <1>0, <1>a DEF TypeOK, table, Pcs, Locks, States
  <1>3. LockOf(c)' /\ PlaceOf(c)'
    BY <1>0, <1>a, CountAtPlaces, LocksAtPlaces, SchedAssumption
    DEF LockOf, PlaceOf, TypeOK, LkPcs, Locks, OpenPcs
  <1>4. FlagOf(c)'
    BY <1>0, <1>a, CountAtPlaces DEF FlagOf, TypeOK, InHandler, InsidePcs, OpenPcs, table
  <1>5. StackOf(c)'
    BY <1>0 DEF StackOf, table, TypeOK, SchedulerPcs
  <1>6. OneStack' /\ ContextOK'
    BY <1>0, QuietTable
  <1>7. WakeOK'
    BY <1>0, <1>1, QuietWake DEF table, TypeOK, WakeOK, NoItemsOK
  <1>8. BackOK'
    BY <1>0, <1>1, QuietBack DEF Preempted, table, TypeOK
  <1>. QED  BY <1>1, <1>2, <1>3, <1>4, <1>5, <1>6, <1>7, <1>8, Assemble
-----------------------------------------------------------------------------
(***************************************************************************)
(* Interrupts, and the ways out of the kernel and into it.                 *)
(***************************************************************************)
LEMMA IretInv ==
  ASSUME IndInv, NEW c \in CPUs, Iret(c)
  PROVE  IndInv'
  <1> USE DEF IndInv, CpuOK
  <1>0. /\ handler[c] = "none" /\ at[c] = "iret" /\ Here(c) = "iret"
        /\ stack[c] \in Procs /\ stack[c] # 0
        /\ state[stack[c]] = "RUNNING"
        /\ back[stack[c]] \in OpenPcs
        /\ at' = [at EXCEPT ![c] = back[stack[c]]]
        /\ back' = [back EXCEPT ![stack[c]] = "user"]
        /\ intr' = [intr EXCEPT ![c] = TRUE]
        /\ UNCHANGED <<table, context, saved, proc, stack, handler, next, ncli, intena,
                       holder, items>>
        /\ Here(c)' = back[stack[c]]
    BY DEF Iret, Thread, InHandler, Here, TypeOK, StackOf, SchedulerPcs
  <1>a. ncli[c] = 0
    BY <1>0, CountAtPlaces DEF LockOf, AcquirePcs
  <1>1. OthersKept(c)
    BY <1>0 DEF OthersKept, table, TypeOK
  <1>2. TypeOK'
    BY <1>0 DEF TypeOK, table, Pcs, OpenPcs
  <1>3. LockOf(c)' /\ PlaceOf(c)'
    BY <1>0, <1>a, CountAtPlaces, LocksAtPlaces
    DEF LockOf, PlaceOf, TypeOK, LkPcs, OpenPcs, BackOK
  <1>4. FlagOf(c)'
    BY <1>0, <1>a DEF FlagOf, TypeOK, InHandler, InsidePcs, OpenPcs
  <1>5. StackOf(c)'
    BY <1>0 DEF StackOf, table, TypeOK, SchedulerPcs, OpenPcs
  <1>6. OneStack' /\ ContextOK'
    BY <1>0, QuietTable
  <1>7. BackOK'
    <2>1. \A p \in Procs : back'[p] = "wake" => p # stack[c] /\ back[p] = "wake"
      BY <1>0 DEF TypeOK
    <2>2. \A d \in CPUs : d # c => Preempted(d)' = Preempted(d)
      BY <1>0, <1>1 DEF Preempted, OthersKept, table
    <2>. QED  BY <2>1, <2>2, <1>0 DEF BackOK
  <1>8. WakeOK'
    <2>1. NoItemsOK' /\ (Falling' => Falling)
      BY <1>0 DEF NoItemsOK, Falling, WakeOK, TypeOK, table, OpenPcs
    <2>2. AboutToWake => AboutToWake'
      <3>1. CASE back[stack[c]] = "wake"
        BY <3>1, <1>0 DEF AboutToWake, TypeOK
      <3>2. CASE back[stack[c]] # "wake"
        <4>1. {at[c], handler[c]} \cap {"made", "wake"} = {}
          BY <1>0
        <4>2. \A p \in Procs : back[p] = "wake" => back'[p] = "wake"
          BY <1>0, <3>2 DEF TypeOK
        <4>. QED  BY <4>1, <4>2, <1>1 DEF AboutToWake, OthersKept
      <3>. QED  BY <3>1, <3>2
    <2>. QED  BY <2>1, <2>2, <1>0 DEF WakeOK
  <1>. QED  BY <1>1, <1>2, <1>3, <1>4, <1>5, <1>6, <1>7, <1>8, Assemble

LEMMA RetInv ==
  ASSUME IndInv, NEW c \in CPUs, Ret(c)
  PROVE  IndInv'
  <1> USE DEF IndInv, CpuOK
  <1>0. /\ Here(c) = "ret"
        /\ intr' = [intr EXCEPT ![c] = TRUE]
        /\ UNCHANGED <<table, context, back, saved, proc, stack, next, ncli, intena, holder,
                       items>>
    BY DEF Ret
  <1>a. /\ ncli[c] = 0
        /\ \A l \in Locks : holder[l] # c
    BY <1>0, CountAtPlaces, LocksAtPlaces DEF LockOf, AcquirePcs
  <1>b. \/ /\ InHandler(c) /\ handler' = [handler EXCEPT ![c] = "none"] /\ at' = at
           /\ LocksAt(at[c]) = {} /\ Here(c)' = at[c]
        \/ /\ ~ InHandler(c) /\ at' = [at EXCEPT ![c] = "user"] /\ handler' = handler
           /\ at[c] = "ret" /\ Here(c)' = "user" /\ handler[c] = "none"
    BY <1>0 DEF Ret, Goto, InHandler, Here, FlagOf, TypeOK
  <1>1. OthersKept(c)
    BY <1>0, <1>b DEF OthersKept, table, TypeOK
  <1>2. TypeOK'
    BY <1>0, <1>b DEF TypeOK, table, Pcs, OpenPcs
  <1>3. LockOf(c)'
    <2>1. LocksAt(Here(c)') = {} /\ CountAt(Here(c)') = 0
      BY <1>b, LocksAtPlaces, CountAtPlaces DEF CountAt, OpenPcs
    <2>. QED  BY <2>1, <1>a, <1>0 DEF LockOf
  <1>4. PlaceOf(c)'
    BY <1>b DEF PlaceOf, TypeOK, LkPcs
  <1>5. FlagOf(c)'
    BY <1>0, <1>a, <1>b DEF FlagOf, TypeOK, InHandler, InsidePcs, OpenPcs, table
  <1>6. StackOf(c)'
    BY <1>0, <1>b DEF StackOf, table, TypeOK, SchedulerPcs
  <1>7. OneStack' /\ ContextOK'
    BY <1>0, QuietTable
  <1>8. BackOK'
    BY <1>0, <1>1, <1>b, QuietBack DEF Preempted, table, TypeOK
  <1>9. WakeOK'
    BY <1>0, <1>1, <1>b, QuietWake DEF table, TypeOK, Here
  <1>. QED  BY <1>1, <1>2, <1>3, <1>4, <1>5, <1>6, <1>7, <1>8, <1>9, Assemble

LEMMA SyscallInv ==
  ASSUME IndInv, NEW c \in CPUs, Syscall(c)
  PROVE  IndInv'
  <1> USE DEF IndInv, CpuOK
  <1> PICK l \in {"exit", "lock", "make", "kill"} : at' = [at EXCEPT ![c] = l]
    BY DEF Syscall, Call
  <1>0. /\ handler[c] = "none" /\ at[c] = "user" /\ Here(c) = "user" /\ Here(c)' = l
        /\ stack[c] # 0
        /\ UNCHANGED <<table, context, back, saved, proc, stack, handler, next, cpus, items>>
    BY DEF Syscall, Thread, InHandler, Here, TypeOK, StackOf, SchedulerPcs
  <1>a. ncli[c] = 0
    BY <1>0, CountAtPlaces DEF LockOf, AcquirePcs, OpenPcs
  <1>1. OthersKept(c)
    BY <1>0 DEF OthersKept, table, cpus, TypeOK
  <1>2. TypeOK'
    BY <1>0 DEF TypeOK, table, cpus, Pcs, OpenPcs
  <1>3. LockOf(c)' /\ PlaceOf(c)'
    BY <1>0, <1>a, CountAtPlaces, LocksAtPlaces
    DEF LockOf, PlaceOf, TypeOK, LkPcs, OpenPcs, cpus
  <1>4. FlagOf(c)'
    BY <1>0, <1>a DEF FlagOf, TypeOK, InHandler, InsidePcs, OpenPcs, cpus
  <1>5. StackOf(c)'
    BY <1>0 DEF StackOf, table, TypeOK, SchedulerPcs
  <1>6. OneStack' /\ ContextOK'
    BY <1>0, QuietTable
  <1>7. WakeOK'
    BY <1>0, <1>1, QuietWake DEF table, TypeOK
  <1>8. BackOK'
    BY <1>0, <1>1, QuietBack DEF Preempted, table, TypeOK
  <1>. QED  BY <1>1, <1>2, <1>3, <1>4, <1>5, <1>6, <1>7, <1>8, Assemble

LEMMA InterruptInv ==
  ASSUME IndInv, NEW c \in CPUs, Interrupt(c)
  PROVE  IndInv'
  <1> USE DEF IndInv, CpuOK
  <1>0. /\ handler[c] = "none" /\ Here(c) = at[c] /\ intr[c]
        /\ handler' = [handler EXCEPT ![c] = "make"]
        /\ intr' = [intr EXCEPT ![c] = FALSE]
        /\ UNCHANGED <<table, context, back, saved, proc, stack, at, next, ncli, intena,
                       holder, items>>
        /\ Here(c)' = "make"
    BY DEF Interrupt, InHandler, Here, TypeOK
  <1>a. ncli[c] = 0
    BY <1>0 DEF FlagOf, TypeOK
  <1>b. LocksAt(at[c]) = {}
    BY <1>0, <1>a, CountAtPlaces DEF LockOf, CountAt
  <1>1. OthersKept(c)
    BY <1>0 DEF OthersKept, table, TypeOK
  <1>2. TypeOK'
    BY <1>0 DEF TypeOK, table, MakePcs
  <1>3. LockOf(c)' /\ PlaceOf(c)'
    BY <1>0, <1>a, <1>b, CountAtPlaces, LocksAtPlaces
    DEF LockOf, PlaceOf, TypeOK, LkPcs, OpenPcs
  <1>4. FlagOf(c)'
    BY <1>0, <1>a, <1>b DEF FlagOf, TypeOK, InHandler, table
  <1>5. StackOf(c)'
    BY <1>0 DEF StackOf, table
  <1>6. OneStack' /\ ContextOK'
    BY <1>0, QuietTable
  <1>7. WakeOK'
    <2>1. at[c] \in {"made", "wake"} => at'[c] \in {"made", "wake"}
      BY <1>0
    <2>. QED  BY <2>1, <1>0, <1>1, QuietWake DEF table
  <1>8. BackOK'
    BY <1>0, <1>1, QuietBack DEF Preempted, table, TypeOK
  <1>. QED  BY <1>1, <1>2, <1>3, <1>4, <1>5, <1>6, <1>7, <1>8, Assemble

-----------------------------------------------------------------------------
(***************************************************************************)
(* sleep and its caller.                                                   *)
(***************************************************************************)
LEMMA TestInv ==
  ASSUME IndInv, NEW c \in CPUs, Test(c)
  PROVE  IndInv'
  <1> USE DEF IndInv, CpuOK
  <1> DEFINE l == IF items > 0 \/ killed[proc[c]] THEN "unlock"
                  ELSE IF SleepLock = "ptable" THEN "mark" ELSE "sleep"
  <1>0. /\ handler[c] = "none" /\ at[c] = "test" /\ Here(c) = "test" /\ Here(c)' = l
        /\ stack[c] # 0
        /\ at' = [at EXCEPT ![c] = l]
        /\ UNCHANGED <<table, context, back, saved, proc, stack, handler, next, cpus>>
    BY DEF Test, Thread, InHandler, Here, TypeOK, StackOf, SchedulerPcs
  <1>a. /\ l \in {"unlock", "mark", "sleep"}
        /\ l = "mark" => SleepLock = "ptable" /\ items = 0
        /\ l = "sleep" => SleepLock = "lk" /\ items = 0
    BY SchedAssumption DEF TypeOK
  <1>b. /\ items' \in 0..MaxItems
        /\ items = 0 => items' = 0
        /\ items' > 0 => items > 0
    BY SchedAssumption DEF Test, TypeOK
  <1> HIDE DEF l
  <1>1. OthersKept(c)
    BY <1>0 DEF OthersKept, table, cpus, TypeOK
  <1>2. TypeOK'
    BY <1>0, <1>a, <1>b DEF TypeOK, table, cpus, Pcs, MakePcs
  <1>3. LockOf(c)' /\ PlaceOf(c)'
    BY <1>0, <1>a, CountAtPlaces, LocksAtPlaces
    DEF LockOf, PlaceOf, TypeOK, LkPcs, AcquirePcs, cpus
  <1>4. FlagOf(c)'
    BY <1>0, <1>a DEF FlagOf, TypeOK, InHandler, InsidePcs, OpenPcs, cpus
  <1>5. StackOf(c)'
    BY <1>0, <1>a DEF StackOf, table, TypeOK, SchedulerPcs
  <1>6. OneStack' /\ ContextOK'
    BY <1>0, QuietTable
  <1>7. WakeOK'
    <2>1. NoItemsOK'
      BY <1>0, <1>a, <1>b DEF WakeOK, NoItemsOK, TypeOK
    <2>2. items' > 0 /\ Falling' => Falling
      BY <1>0, <1>a, <1>b DEF Falling, TypeOK, table
    <2>3. AboutToWake => AboutToWake'
      BY <1>0, <1>1 DEF AboutToWake, OthersKept
    <2>. QED  BY <2>1, <2>2, <2>3, <1>b DEF WakeOK
  <1>8. BackOK'
    BY <1>0, <1>1, QuietBack DEF Preempted, table, TypeOK
  <1>. QED  BY <1>1, <1>2, <1>3, <1>4, <1>5, <1>6, <1>7, <1>8, Assemble

LEMMA ReleaseLkInv ==
  ASSUME IndInv, NEW c \in CPUs, ReleaseLk(c)
  PROVE  IndInv'
  <1> USE DEF IndInv, CpuOK
  <1>0. /\ handler[c] = "none" /\ at[c] = "unlk" /\ Here(c) = "unlk" /\ Here(c)' = "mark"
        /\ stack[c] # 0
        /\ at' = [at EXCEPT ![c] = "mark"]
        /\ UNCHANGED <<table, context, back, saved, proc, stack, handler, next, items>>
    BY DEF ReleaseLk, Thread, InHandler, Here, TypeOK, StackOf, SchedulerPcs
  <1>a. /\ ncli[c] = 2
        /\ holder' = [holder EXCEPT !["lk"] = NoCpu] /\ holder["lk"] = c
        /\ ncli' = [ncli EXCEPT ![c] = 1]
        /\ intena' = [intena EXCEPT ![c] = intena[c]]
        /\ intr' = [intr EXCEPT ![c] = FALSE]
    <2>1. CountAt("unlk") = 2 /\ "unlk" \notin AcquirePcs
      BY CountAtPlaces DEF AcquirePcs
    <2>2. ncli[c] = 2
      BY <1>0, <2>1 DEF LockOf
    <2>3. intr' = [intr EXCEPT ![c] = FALSE]
      <3>1. (ncli[c] = 1 /\ intena[c]) = FALSE
        BY <2>2
      <3>. QED  BY <3>1 DEF ReleaseLk, Give
    <2>4. holder["lk"] = c /\ holder' = [holder EXCEPT !["lk"] = NoCpu]
      BY DEF ReleaseLk, Give
    <2>5. ncli' = [ncli EXCEPT ![c] = 1]
      BY <2>2 DEF ReleaseLk, Give
    <2>6. intena' = [intena EXCEPT ![c] = intena[c]]
      BY DEF ReleaseLk, Give
    <2>. QED  BY <2>2, <2>3, <2>4, <2>5, <2>6
  <1>1. OthersKept(c)
    BY <1>0, <1>a DEF OthersKept, table, TypeOK
  <1>2. TypeOK'
    BY <1>0, <1>a, SchedAssumption DEF TypeOK, table, Pcs, Locks
  <1>3. LockOf(c)' /\ PlaceOf(c)'
    BY <1>0, <1>a, CountAtPlaces, LocksAtPlaces, SchedAssumption
    DEF LockOf, PlaceOf, TypeOK, LkPcs, Locks
  <1>4. FlagOf(c)'
    BY <1>0, <1>a DEF FlagOf, TypeOK, InHandler, InsidePcs, OpenPcs
  <1>5. StackOf(c)'
    BY <1>0 DEF StackOf, table, TypeOK, SchedulerPcs
  <1>6. OneStack' /\ ContextOK'
    BY <1>0, QuietTable
  <1>7. WakeOK'
    BY <1>0, <1>1, QuietWake DEF table, TypeOK, WakeOK, NoItemsOK
  <1>8. BackOK'
    BY <1>0, <1>1, QuietBack DEF Preempted, table, TypeOK
  <1>. QED  BY <1>1, <1>2, <1>3, <1>4, <1>5, <1>6, <1>7, <1>8, Assemble

LEMMA MarkInv ==
  ASSUME IndInv, NEW c \in CPUs, Mark(c)
  PROVE  IndInv'
  <1> USE DEF IndInv, CpuOK
  <1>0. /\ handler[c] = "none" /\ at[c] = "mark" /\ Here(c) = "mark" /\ Here(c)' = "sched"
        /\ stack[c] \in Procs /\ stack[c] # 0 /\ proc[c] = stack[c]
        /\ chan' = [chan EXCEPT ![stack[c]] = TRUE]
        /\ state' = [state EXCEPT ![stack[c]] = "SLEEPING"]
        /\ at' = [at EXCEPT ![c] = "sched"]
        /\ UNCHANGED <<killed, context, back, saved, proc, stack, handler, next, cpus, items>>
    BY ZenonT(60) DEF Mark, Thread, InHandler, Here, TypeOK, StackOf, SchedulerPcs
  <1>1. OthersKept(c)
    BY <1>0 DEF OthersKept, cpus, TypeOK, OneStack
  <1>2. TypeOK'
    BY <1>0 DEF TypeOK, cpus, Pcs, States
  <1>3. LockOf(c)' /\ PlaceOf(c)'
    BY <1>0, CountAtPlaces, LocksAtPlaces DEF LockOf, PlaceOf, TypeOK, LkPcs, cpus, AcquirePcs, OpenPcs
  <1>4. FlagOf(c)'
    BY <1>0 DEF FlagOf, TypeOK, InHandler, InsidePcs, OpenPcs, cpus
  <1>5. StackOf(c)'
    BY <1>0 DEF StackOf, TypeOK, SchedulerPcs
  <1>6. OneStack' /\ ContextOK'
    BY <1>0, RunnerTable
  <1>7. WakeOK'
    <2>1. NoItemsOK'
      BY <1>0 DEF WakeOK, NoItemsOK, TypeOK
    <2>2. Falling
      BY <1>0 DEF Falling
    <2>3. AboutToWake => AboutToWake'
      BY <1>0, <1>1 DEF AboutToWake, OthersKept
    <2>. QED  BY <2>1, <2>2, <2>3, <1>0 DEF WakeOK
  <1>8. BackOK'
    BY <1>0, <1>1, QuietBack DEF Preempted
  <1>. QED  BY <1>1, <1>2, <1>3, <1>4, <1>5, <1>6, <1>7, <1>8, Assemble

LEMMA SleptInv ==
  ASSUME IndInv, NEW c \in CPUs, Slept(c)
  PROVE  IndInv'
  <1> USE DEF IndInv, CpuOK
  <1> DEFINE l == IF SleepLock = "ptable" THEN "test" ELSE "lock"
  <1>0. /\ handler[c] = "none" /\ at[c] = "slept" /\ Here(c) = "slept" /\ Here(c)' = l
        /\ stack[c] \in Procs /\ stack[c] # 0 /\ proc[c] = stack[c]
        /\ state[stack[c]] = "RUNNING"
        /\ chan' = [chan EXCEPT ![stack[c]] = FALSE]
        /\ at' = [at EXCEPT ![c] = l]
        /\ UNCHANGED <<state, killed, context, back, saved, proc, stack, handler, next, items>>
    <2>1. handler[c] = "none" /\ at[c] = "slept" /\ Here(c) = "slept"
      BY DEF Slept, Thread, InHandler, Here
    <2>2. stack[c] \in Procs /\ stack[c] # 0 /\ proc[c] = stack[c] /\ state[stack[c]] = "RUNNING"
      BY <2>1 DEF TypeOK, StackOf, SchedulerPcs
    <2>3. at' = [at EXCEPT ![c] = l]
      BY DEF Slept
    <2>. QED  BY <2>1, <2>2, <2>3 DEF Slept, Here, InHandler, TypeOK
  <1>a. saved[stack[c]] = TRUE
    BY <1>0 DEF StackOf, ContextOK, TypeOK
  <1>b. ncli[c] = 1
    BY <1>0, CountAtPlaces DEF LockOf, AcquirePcs, Resume, OpenPcs
  <1>c. intena' = [intena EXCEPT ![c] = TRUE]
    BY <1>a DEF Slept, Give, Restored
  <1>d. SleepLock = "ptable" => UNCHANGED <<intr, ncli, holder>>
    BY DEF Slept
  <1>e. SleepLock # "ptable" =>
          /\ holder["ptable"] = c /\ holder' = [holder EXCEPT !["ptable"] = NoCpu]
          /\ ncli' = [ncli EXCEPT ![c] = 0]
          /\ intr' = [intr EXCEPT ![c] = TRUE]
    <2> SUFFICES ASSUME SleepLock # "ptable"
                 PROVE  /\ holder["ptable"] = c /\ holder' = [holder EXCEPT !["ptable"] = NoCpu]
                        /\ ncli' = [ncli EXCEPT ![c] = 0]
                        /\ intr' = [intr EXCEPT ![c] = TRUE]
      OBVIOUS
    <2>1. holder["ptable"] = c /\ holder' = [holder EXCEPT !["ptable"] = NoCpu]
      BY DEF Slept, Give
    <2>2. ncli' = [ncli EXCEPT ![c] = 0]
      BY <1>b DEF Slept, Give
    <2>3. intr' = [intr EXCEPT ![c] = TRUE]
      BY <1>a, <1>b DEF Slept, Give, Restored
    <2>. QED  BY <2>1, <2>2, <2>3
  <1>1. OthersKept(c)
    BY <1>0, <1>c, <1>d, <1>e DEF OthersKept, TypeOK
  <1>2. TypeOK'
    <2>1. /\ holder' \in [Locks -> CPUs \cup {NoCpu}]
          /\ ncli' \in [CPUs -> 0..2] /\ intr' \in [CPUs -> BOOLEAN]
      <3>1. CASE SleepLock = "ptable"
        BY <3>1, <1>d DEF TypeOK
      <3>2. CASE SleepLock # "ptable"
        <4>1. holder' \in [Locks -> CPUs \cup {NoCpu}]
          BY <3>2, <1>e DEF TypeOK
        <4>2. ncli' = [ncli EXCEPT ![c] = 0] /\ intr' = [intr EXCEPT ![c] = TRUE]
          BY <3>2, <1>e
        <4>3. ncli' \in [CPUs -> 0..2]
          BY <4>2 DEF TypeOK
        <4>4. intr' \in [CPUs -> BOOLEAN]
          BY <4>2 DEF TypeOK
        <4>. QED  BY <4>1, <4>3, <4>4
      <3>. QED  BY <3>1, <3>2
    <2>. QED  BY <2>1, <1>0, <1>c DEF TypeOK, Pcs, OpenPcs
  <1>3. LockOf(c)' /\ PlaceOf(c)'
    <2>1. CASE SleepLock = "ptable"
      BY <2>1, <1>0, <1>b, <1>d, CountAtPlaces, LocksAtPlaces
      DEF LockOf, PlaceOf, TypeOK, LkPcs, Resume
    <2>2. CASE SleepLock # "ptable"
      BY <2>2, <1>0, <1>b, <1>e, CountAtPlaces, LocksAtPlaces, SchedAssumption
      DEF LockOf, PlaceOf, TypeOK, LkPcs, Locks, OpenPcs, Resume
    <2>. QED  BY <2>1, <2>2
  <1>4. FlagOf(c)'
    <2>1. intena'[c] = TRUE /\ handler'[c] = "none" /\ state'[stack[c]] = "RUNNING"
      BY <1>0, <1>c DEF TypeOK
    <2>2. CASE SleepLock = "ptable"
      BY <2>1, <2>2, <1>0, <1>d DEF FlagOf, TypeOK, InHandler, InsidePcs, OpenPcs
    <2>3. CASE SleepLock # "ptable"
      BY <2>1, <2>3, <1>0, <1>e DEF FlagOf, TypeOK, InHandler, InsidePcs, OpenPcs
    <2>. QED  BY <2>2, <2>3
  <1>5. StackOf(c)'
    BY <1>0 DEF StackOf, TypeOK, SchedulerPcs
  <1>6. OneStack' /\ ContextOK'
    BY <1>0 DEF OneStack, ContextOK, TypeOK
  <1>7. WakeOK'
    BY <1>0, <1>1, QuietWake DEF TypeOK
  <1>8. BackOK'
    BY <1>0, <1>1, QuietBack DEF Preempted
  <1>. QED  BY <1>1, <1>2, <1>3, <1>4, <1>5, <1>6, <1>7, <1>8, Assemble
-----------------------------------------------------------------------------
(***************************************************************************)
(* Producers, in processes and in handlers, and kill.                      *)
(***************************************************************************)
LEMMA GotoFacts ==
  ASSUME TypeOK, NEW c \in CPUs, NEW l, l # "none", Goto(c, l)
  PROVE  /\ Here(c)' = l
         /\ \A d \in CPUs \ {c} : at'[d] = at[d] /\ handler'[d] = handler[d]
         /\ InHandler(c)' <=> InHandler(c)
         /\ InHandler(c) => at' = at /\ handler[c] = Here(c) /\ handler'[c] = l
         /\ ~ InHandler(c) => handler' = handler /\ at[c] = Here(c) /\ at'[c] = l
         /\ l \in Pcs /\ (InHandler(c) => l \in MakePcs \cup {"ret"}) =>
              at' \in [CPUs -> Pcs] /\ handler' \in [CPUs -> MakePcs \cup {"ret", "none"}]
  BY DEF Goto, Here, InHandler, TypeOK

(***************************************************************************)
(* Sleepers become RUNNABLE, while no process is switching.                *)
(***************************************************************************)
Rouses ==
  /\ state' \in [Procs -> States]
  /\ \A p \in Procs :
       state'[p] = state[p] \/ (state[p] = "SLEEPING" /\ state'[p] = "RUNNABLE")

LEMMA RousedTable ==
  ASSUME IndInv, Rouses, holder["ptable"] = NoCpu, UNCHANGED <<chan, context, saved, stack>>
  PROVE  /\ OneStack' /\ ContextOK'
         /\ \A d \in CPUs : stack[d] # 0 =>
              /\ state[stack[d]] = "RUNNING" /\ state'[stack[d]] = "RUNNING"
              /\ at[d] # "sched"
  <1>1. OneStack' /\ ContextOK'
    BY DEF IndInv, OneStack, ContextOK, Rouses
  <1>2. \A d \in CPUs : stack[d] # 0 => state[stack[d]] = "RUNNING" /\ at[d] # "sched"
    BY TableFree
  <1>3. \A d \in CPUs : stack[d] # 0 => stack[d] \in Procs
    BY DEF IndInv, TypeOK
  <1>. QED  BY <1>1, <1>2, <1>3 DEF Rouses

LEMMA WokenFacts ==
  ASSUME IndInv, state' = Woken
  PROVE  Rouses /\ \A p \in Procs : state'[p] # "SLEEPING"
  BY DEF Woken, Rouses, IndInv, TypeOK, ContextOK, States

LEMMA KillInv ==
  ASSUME IndInv, NEW c \in CPUs, Kill(c)
  PROVE  IndInv'
  <1> USE DEF IndInv, CpuOK
  <1> PICK p \in Procs : /\ killed' = [killed EXCEPT ![p] = TRUE]
                         /\ state' = [state EXCEPT ![p] = KillState(p)]
    BY DEF Kill
  <1>0. /\ handler[c] = "none" /\ at[c] = "kill" /\ Here(c) = "kill" /\ Here(c)' = "ret"
        /\ stack[c] # 0
        /\ holder["ptable"] = NoCpu
        /\ at' = [at EXCEPT ![c] = "ret"]
        /\ UNCHANGED <<chan, context, back, saved, proc, stack, handler, next, items, intena,
                       holder>>
    BY DEF Kill, Thread, InTable, Goto, InHandler, Here, TypeOK, StackOf, SchedulerPcs
  <1>a. ncli[c] = 1 /\ Spinning(c)
    BY <1>0, SpinCount, CountAtPlaces DEF Kill, InTable, OpenPcs
  <1>b. ncli' = [ncli EXCEPT ![c] = 0]
    BY <1>a DEF Kill, InTable
  <1>c. intr' = [intr EXCEPT ![c] = intena[c]]
    <2>1. (ncli[c] = 1 /\ intena[c]) = intena[c]
      BY <1>a DEF TypeOK
    <2>. QED  BY <2>1 DEF Kill, InTable
  <1>d. Rouses
    BY DEF Rouses, KillState, TypeOK, States
  <1>e. /\ OneStack' /\ ContextOK'
        /\ \A d \in CPUs : stack[d] # 0 =>
              /\ state[stack[d]] = "RUNNING" /\ state'[stack[d]] = "RUNNING"
              /\ at[d] # "sched"
    BY <1>d, <1>0, RousedTable
  <1>1. OthersKept(c)
    BY <1>0, <1>b, <1>c, <1>e DEF OthersKept, TypeOK
  <1>2. TypeOK'
    BY <1>0, <1>b, <1>c, <1>d DEF TypeOK, Pcs, Rouses
  <1>3. LockOf(c)' /\ PlaceOf(c)'
    BY <1>0, <1>b, CountAtPlaces, LocksAtPlaces
    DEF LockOf, PlaceOf, TypeOK, LkPcs, OpenPcs
  <1>4. FlagOf(c)'
    BY <1>0, <1>b DEF FlagOf, TypeOK, InHandler, InsidePcs, OpenPcs
  <1>5. StackOf(c)'
    BY <1>0, <1>e DEF StackOf, TypeOK, SchedulerPcs
  <1>6. WakeOK'
    BY <1>0, <1>1, <1>d, QuietWake DEF TypeOK, Rouses
  <1>7. BackOK'
    BY <1>0, <1>1, QuietBack DEF Preempted
  <1>. QED  BY <1>1, <1>2, <1>3, <1>4, <1>5, <1>6, <1>7, <1>e, Assemble

LEMMA WakeupInv ==
  ASSUME IndInv, NEW c \in CPUs, Wakeup(c)
  PROVE  IndInv'
  <1> USE DEF IndInv, CpuOK
  <1> DEFINE l == IF Here(c) = "made" THEN "unlock" ELSE "ret"
  <1>0. /\ Here(c) \in {"made", "wake"} /\ Goto(c, l) /\ Spinning(c)
        /\ holder["ptable"] = NoCpu
        /\ state' = Woken
        /\ UNCHANGED <<chan, killed, context, back, saved, proc, stack, next, items, intena,
                       holder>>
    BY DEF Wakeup, InTable
  <1>a. /\ Here(c) = "made" => ncli[c] = 2 /\ CountAt(Here(c)) = 1
        /\ Here(c) = "wake" => ncli[c] = 1 /\ CountAt(Here(c)) = 0
        /\ ncli[c] \in {1, 2} /\ ~ intr[c]
    BY <1>0, SpinCount, CountAtPlaces DEF OpenPcs, FlagOf
  <1>b. ncli' = [ncli EXCEPT ![c] = ncli[c] - 1]
    BY DEF Wakeup, InTable
  <1>c. intr' = [intr EXCEPT ![c] = IF ncli[c] = 1 THEN intena[c] ELSE FALSE]
    <2>1. (ncli[c] = 1 /\ intena[c]) = IF ncli[c] = 1 THEN intena[c] ELSE FALSE
      BY DEF TypeOK
    <2>. QED  BY <2>1 DEF Wakeup, InTable
  <1>d. Rouses /\ \A p \in Procs : state'[p] # "SLEEPING"
    BY <1>0, WokenFacts
  <1>e. /\ OneStack' /\ ContextOK'
        /\ \A d \in CPUs : stack[d] # 0 =>
              /\ state[stack[d]] = "RUNNING" /\ state'[stack[d]] = "RUNNING"
              /\ at[d] # "sched"
    BY <1>d, <1>0, RousedTable
  <1>f. /\ Here(c)' = l
        /\ \A d \in CPUs \ {c} : at'[d] = at[d] /\ handler'[d] = handler[d]
        /\ InHandler(c)' <=> InHandler(c)
        /\ InHandler(c) => at' = at /\ handler[c] = Here(c) /\ handler'[c] = l
        /\ ~ InHandler(c) => handler' = handler /\ at[c] = Here(c) /\ at'[c] = l
        /\ at' \in [CPUs -> Pcs] /\ handler' \in [CPUs -> MakePcs \cup {"ret", "none"}]
    BY <1>0, GotoFacts DEF MakePcs, Pcs
  <1>g. SleepLock = "lk"
    BY <1>0, <1>f DEF PlaceOf, LkPcs
  <1> HIDE DEF l
  <1>h. l \in {"unlock", "ret"} /\ (l = "unlock" <=> Here(c) = "made")
    BY DEF l
  <1>1. OthersKept(c)
    BY <1>0, <1>b, <1>c, <1>e, <1>f DEF OthersKept, TypeOK
  <1>2. TypeOK'
    <2>1. ncli' \in [CPUs -> 0..2]
      BY <1>a, <1>b DEF TypeOK
    <2>2. intr' \in [CPUs -> BOOLEAN]
      BY <1>c DEF TypeOK
    <2>. QED  BY <2>1, <2>2, <1>0, <1>d, <1>f DEF TypeOK, Rouses
  <1>3. LockOf(c)'
    <2>1. LocksAt(l) = LocksAt(Here(c)) /\ CountAt(l) = ncli[c] - 1
      BY <1>0, <1>a, <1>h, LocksAtPlaces, CountAtPlaces DEF OpenPcs
    <2>. QED  BY <2>1, <1>0, <1>b, <1>f DEF LockOf, TypeOK
  <1>4. PlaceOf(c)'
    BY <1>g DEF PlaceOf
  <1>5. FlagOf(c)'
    <2>1. ncli'[c] = ncli[c] - 1 /\ intr'[c] = (IF ncli[c] = 1 THEN intena[c] ELSE FALSE)
      BY <1>b, <1>c DEF TypeOK
    <2>2. CASE InHandler(c)
      BY <2>1, <2>2, <1>0, <1>a, <1>e, <1>f DEF FlagOf, InsidePcs
    <2>3. CASE ~ InHandler(c)
      <3>1. at[c] \in {"made", "wake"} /\ stack[c] # 0
        BY <2>3, <1>0, <1>f DEF StackOf, SchedulerPcs
      <3>2. at'[c] = "unlock" => intena[c] /\ ncli[c] = 2
        BY <2>3, <1>a, <1>f, <1>h, <3>1 DEF FlagOf, InsidePcs
      <3>. QED  BY <2>1, <2>3, <3>1, <3>2, <1>0, <1>a, <1>f, <1>h DEF FlagOf, InsidePcs, OpenPcs
    <2>. QED  BY <2>2, <2>3
  <1>6. StackOf(c)'
    BY <1>0, <1>e, <1>f, <1>h DEF StackOf, SchedulerPcs
  <1>7. WakeOK'
    <2>1. NoItemsOK'
      BY <1>0, <1>f, <1>h DEF WakeOK, NoItemsOK
    <2>2. \A d \in CPUs : at'[d] # "mark"
      BY <1>0, <1>f, <1>h, TableFree
    <2>. QED  BY <2>1, <2>2, <1>d DEF WakeOK, Falling
  <1>8. BackOK'
    BY <1>0, <1>1, <1>f, <1>h, <1>e, QuietBack DEF Preempted
  <1>. QED  BY <1>1, <1>2, <1>3, <1>4, <1>5, <1>6, <1>7, <1>8, <1>e, Assemble
LEMMA MakeInv ==
  ASSUME IndInv, NEW c \in CPUs, Make(c)
  PROVE  IndInv'
  <1> USE DEF IndInv, CpuOK
  <1> DEFINE l == IF SleepLock = "ptable" THEN "unlock" ELSE "made"
  <1>0. /\ Here(c) = "make" /\ Goto(c, l) /\ Take(c, SleepLock) /\ SleepLock \in Locks
        /\ SleepLock = "ptable" => state' = Woken
        /\ SleepLock # "ptable" => state' = state
        /\ UNCHANGED <<chan, killed, context, back, saved, proc, stack, next>>
        /\ items' \in 0..MaxItems
    BY SchedAssumption DEF Make, Locks, TypeOK
  <1>a. /\ ncli[c] = 1 /\ holder[SleepLock] = NoCpu
        /\ holder' = [holder EXCEPT ![SleepLock] = c]
        /\ UNCHANGED <<intr, ncli, intena>>
    BY <1>0, TakeFacts, CountAtPlaces DEF OpenPcs
  <1>d. Rouses
    <2>1. CASE SleepLock = "ptable"
      BY <2>1, <1>0, WokenFacts
    <2>2. CASE SleepLock # "ptable"
      BY <2>2, <1>0 DEF Rouses, TypeOK
    <2>. QED  BY <2>1, <2>2
  <1>e. /\ OneStack' /\ ContextOK'
        /\ \A d \in CPUs : stack[d] # 0 => state'[stack[d]] = state[stack[d]]
    <2>1. CASE SleepLock = "ptable"
      <3>1. holder["ptable"] = NoCpu
        BY <2>1, <1>a
      <3>. QED  BY <3>1, <1>0, <1>d, RousedTable
    <2>2. CASE SleepLock # "ptable"
      BY <2>2, <1>0, QuietTable DEF table
    <2>. QED  BY <2>1, <2>2
  <1>f. /\ Here(c)' = l
        /\ \A d \in CPUs \ {c} : at'[d] = at[d] /\ handler'[d] = handler[d]
        /\ InHandler(c)' <=> InHandler(c)
        /\ InHandler(c) => at' = at /\ handler[c] = Here(c) /\ handler'[c] = l
        /\ ~ InHandler(c) => handler' = handler /\ at[c] = Here(c) /\ at'[c] = l
        /\ at' \in [CPUs -> Pcs] /\ handler' \in [CPUs -> MakePcs \cup {"ret", "none"}]
    BY <1>0, GotoFacts DEF MakePcs, Pcs
  <1>g. /\ l \in {"unlock", "made"} /\ (l = "unlock" <=> SleepLock = "ptable")
        /\ LocksAt(l) = {SleepLock} /\ CountAt(l) = 1
    BY LocksAtPlaces, CountAtPlaces
  <1> HIDE DEF l
  <1>1. OthersKept(c)
    BY <1>0, <1>a, <1>e, <1>f DEF OthersKept, TypeOK
  <1>2. TypeOK'
    BY <1>0, <1>a, <1>d, <1>f DEF TypeOK, Rouses
  <1>3. LockOf(c)' /\ PlaceOf(c)'
    <2>1. LocksAt(Here(c)) = {}
      BY <1>0, LocksAtPlaces DEF OpenPcs
    <2>2. \A m \in Locks : holder'[m] = c <=> m = SleepLock
      BY <2>1, <1>0, <1>a DEF LockOf, TypeOK
    <2>3. LockOf(c)'
      BY <2>2, <1>f, <1>g, <1>a DEF LockOf
    <2>4. PlaceOf(c)'
      BY <1>f, <1>g, SchedAssumption DEF PlaceOf, LkPcs
    <2>. QED  BY <2>3, <2>4
  <1>4. FlagOf(c)'
    <2>1. CASE InHandler(c)
      BY <2>1, <1>0, <1>a, <1>e, <1>f DEF FlagOf, InsidePcs
    <2>2. CASE ~ InHandler(c)
      <3>1. at[c] = "make" /\ at'[c] = l
        BY <2>2, <1>0, <1>f
      <3>2. stack[c] # 0 => intena[c]
        BY <2>2, <3>1, <1>a DEF FlagOf, OpenPcs
      <3>3. l \notin OpenPcs /\ l # "sched"
        BY <1>g DEF OpenPcs
      <3>. QED  BY <2>2, <3>1, <3>2, <3>3, <1>0, <1>a, <1>f DEF FlagOf
    <2>. QED  BY <2>1, <2>2
  <1>5. StackOf(c)'
    BY <1>0, <1>e, <1>f, <1>g DEF StackOf, SchedulerPcs
  <1>6. WakeOK'
    <2>1. \A d \in CPUs : at[d] \notin {"sleep", "unlk"}
      <3> SUFFICES ASSUME NEW d \in CPUs, at[d] \in {"sleep", "unlk"} PROVE FALSE
        OBVIOUS
      <3>1. "lk" \in LocksAt(at[d]) /\ SleepLock = "lk"
        BY LocksAtPlaces DEF PlaceOf, LkPcs
      <3>2. Here(d) = at[d]
        BY <3>1 DEF FlagOf, Here
      <3>. QED  BY <3>1, <3>2, <1>0, <1>a, SchedAssumption DEF LockOf
    <2>2. NoItemsOK'
      BY <2>1, <1>f, <1>g DEF NoItemsOK
    <2>3. CASE SleepLock = "ptable"
      <3>1. \A p \in Procs : state'[p] # "SLEEPING"
        BY <2>3, <1>0, WokenFacts
      <3>2. \A d \in CPUs : at'[d] # "mark"
        BY <2>3, <1>0, <1>a, <1>f, <1>g, TableFree
      <3>. QED  BY <3>1, <3>2, <2>2 DEF WakeOK, Falling
    <2>4. CASE SleepLock # "ptable"
      <3>1. at'[c] = "made" \/ handler'[c] = "made"
        BY <2>4, <1>f, <1>g
      <3>. QED  BY <3>1, <2>2 DEF WakeOK, AboutToWake
    <2>. QED  BY <2>3, <2>4
  <1>7. BackOK'
    BY <1>0, <1>1, <1>e, <1>f, QuietBack DEF Preempted
  <1>. QED  BY <1>1, <1>2, <1>3, <1>4, <1>5, <1>6, <1>7, <1>e, Assemble

LEMMA UnlockInv ==
  ASSUME IndInv, NEW c \in CPUs, Unlock(c)
  PROVE  IndInv'
  <1> USE DEF IndInv, CpuOK
  <1> DEFINE l == IF Here(c) = "made" THEN "wake" ELSE "ret"
  <1>0. /\ Here(c) \in {"made", "unlock"} /\ Goto(c, l) /\ ~ Spinning(c) /\ SleepLock \in Locks
        /\ holder[SleepLock] = c
        /\ holder' = [holder EXCEPT ![SleepLock] = NoCpu]
        /\ intena' = [intena EXCEPT ![c] = intena[c]]
        /\ UNCHANGED <<table, context, back, saved, proc, stack, next, items>>
    BY SchedAssumption DEF Unlock, Give, Locks
  <1>a. ncli[c] = 1 /\ LocksAt(Here(c)) = {SleepLock}
    BY <1>0, SpinCount, CountAtPlaces, LocksAtPlaces DEF LockOf
  <1>b. ncli' = [ncli EXCEPT ![c] = 0]
    BY <1>a DEF Unlock, Give
  <1>c. intr' = [intr EXCEPT ![c] = intena[c]]
    <2>1. (ncli[c] = 1 /\ intena[c]) = intena[c]
      BY <1>a DEF TypeOK
    <2>. QED  BY <2>1 DEF Unlock, Give
  <1>f. /\ Here(c)' = l
        /\ \A d \in CPUs \ {c} : at'[d] = at[d] /\ handler'[d] = handler[d]
        /\ InHandler(c)' <=> InHandler(c)
        /\ InHandler(c) => at' = at /\ handler[c] = Here(c) /\ handler'[c] = l
        /\ ~ InHandler(c) => handler' = handler /\ at[c] = Here(c) /\ at'[c] = l
        /\ at' \in [CPUs -> Pcs] /\ handler' \in [CPUs -> MakePcs \cup {"ret", "none"}]
    BY <1>0, GotoFacts DEF MakePcs, Pcs
  <1>g. /\ l \in {"wake", "ret"} /\ (l = "wake" <=> Here(c) = "made")
        /\ LocksAt(l) = {} /\ CountAt(l) = 0
    BY LocksAtPlaces, CountAtPlaces DEF OpenPcs
  <1> HIDE DEF l
  <1>1. OthersKept(c)
    BY <1>0, <1>b, <1>c, <1>f DEF OthersKept, TypeOK, table
  <1>2. TypeOK'
    <2>1. holder' \in [Locks -> CPUs \cup {NoCpu}]
      BY <1>0 DEF TypeOK
    <2>2. intena' \in [CPUs -> BOOLEAN] /\ intr' \in [CPUs -> BOOLEAN]
      BY <1>0, <1>c DEF TypeOK
    <2>3. ncli' \in [CPUs -> 0..2]
      BY <1>b DEF TypeOK
    <2>. QED  BY <2>1, <2>2, <2>3, <1>0, <1>f DEF TypeOK, table
  <1>3. LockOf(c)' /\ PlaceOf(c)'
    <2>1. \A m \in Locks : holder'[m] # c
      BY <1>0, <1>a, SchedAssumption DEF LockOf, TypeOK
    <2>2. LockOf(c)'
      BY <2>1, <1>f, <1>g, <1>b DEF LockOf, TypeOK
    <2>3. PlaceOf(c)'
      BY <1>0, <1>f, <1>g DEF PlaceOf, LkPcs
    <2>. QED  BY <2>2, <2>3
  <1>4. FlagOf(c)'
    <2>0. ncli'[c] = 0 /\ intr'[c] = intena[c] /\ intena'[c] = intena[c]
      BY <1>0, <1>b, <1>c DEF TypeOK
    <2>1. CASE InHandler(c)
      BY <2>0, <2>1, <1>0, <1>a, <1>f DEF FlagOf, InsidePcs, table
    <2>2. CASE ~ InHandler(c)
      <3>1. at[c] \in InsidePcs /\ at'[c] = l
        BY <2>2, <1>0, <1>f DEF InsidePcs
      <3>2. stack[c] # 0 => intena[c]
        BY <2>2, <3>1 DEF FlagOf
      <3>3. l \notin InsidePcs /\ l # "sched"
        BY <1>g DEF InsidePcs
      <3>. QED  BY <2>0, <2>2, <3>1, <3>2, <3>3, <1>0, <1>f DEF FlagOf
    <2>. QED  BY <2>1, <2>2
  <1>5. StackOf(c)'
    BY <1>0, <1>f, <1>g DEF StackOf, SchedulerPcs, table
  <1>6. OneStack' /\ ContextOK'
    BY <1>0, QuietTable
  <1>7. WakeOK'
    <2>1. /\ at'[c] \in {"sleep", "unlk", "mark"} => at'[c] = at[c]
          /\ \/ at[c] \notin {"made", "wake"} /\ handler[c] \notin {"made", "wake"}
             \/ at'[c] \in {"made", "wake"} \/ handler'[c] \in {"made", "wake"}
      <3>1. CASE InHandler(c)
        BY <3>1, <1>0, <1>f, <1>g
      <3>2. CASE ~ InHandler(c)
        BY <3>2, <1>0, <1>f, <1>g DEF InHandler
      <3>. QED  BY <3>1, <3>2
    <2>. QED  BY <2>1, <1>0, <1>1, QuietWake DEF table
  <1>8. BackOK'
    BY <1>0, <1>1, <1>f, QuietBack DEF Preempted, table
  <1>. QED  BY <1>1, <1>2, <1>3, <1>4, <1>5, <1>6, <1>7, <1>8, Assemble

-----------------------------------------------------------------------------
LEMMA InitInv == Init => IndInv
  <1> SUFFICES ASSUME Init PROVE IndInv
    OBVIOUS
  <1> USE DEF Init
  <1>1. TypeOK /\ OneStack
    BY SchedAssumption
    DEF TypeOK, OneStack, States, Resume, OpenPcs, Pcs, MakePcs, Locks, Procs
  <1>2. ASSUME NEW c \in CPUs PROVE CpuOK(c)
    <2>1. Here(c) = "sti" /\ LocksAt(at[c]) = {} /\ CountAt(at[c]) = 0
      BY LocksAtPlaces, CountAtPlaces DEF Here, InHandler
    <2>2. LockOf(c) /\ PlaceOf(c)
      BY <2>1, SchedAssumption DEF LockOf, PlaceOf, Here, InHandler, LkPcs, Locks
    <2>3. FlagOf(c) /\ StackOf(c)
      BY <2>1 DEF FlagOf, StackOf, InHandler, SchedulerPcs
    <2>. QED  BY <2>2, <2>3 DEF CpuOK
  <1>3. BackOK /\ ContextOK /\ WakeOK
    BY DEF BackOK, ContextOK, WakeOK, NoItemsOK
  <1>. QED  BY <1>1, <1>2, <1>3 DEF IndInv

LEMMA StutterInv ==
  ASSUME IndInv, UNCHANGED vars
  PROVE  IndInv'
  <1> USE DEF IndInv, vars, table, cpus
  <1>1. TypeOK' /\ OneStack' /\ ContextOK'
    BY DEF TypeOK, OneStack, ContextOK
  <1>2. \A c \in CPUs : Here(c)' = Here(c) /\ InHandler(c)' = InHandler(c)
    BY DEF Here, InHandler
  <1>3. \A c \in CPUs : CpuOK(c)'
    BY <1>2 DEF CpuOK, LockOf, PlaceOf, FlagOf, StackOf
  <1>4. BackOK'
    BY DEF BackOK, Preempted
  <1>5. WakeOK'
    BY DEF WakeOK, NoItemsOK, Falling, AboutToWake
  <1>. QED  BY <1>1, <1>3, <1>4, <1>5

LEMMA NextInv ==
  ASSUME IndInv, [Next]_vars
  PROVE  IndInv'
  <1>1. CASE UNCHANGED vars
    BY <1>1, StutterInv
  <1>2. ASSUME NEW c \in CPUs, Scheduler(c)
        PROVE  IndInv'
    BY <1>2, StiInv, LockTableInv, RunInv, SwitchedInv, EndScanInv DEF Scheduler
  <1>3. ASSUME NEW c \in CPUs, Switching(c)
        PROVE  IndInv'
    BY <1>3, ToSchedulerInv, ForkretInv, YieldInv, YieldedInv, IretInv, RetInv, ExitInv,
       KillInv, PushcliInv DEF Switching
  <1>4. ASSUME NEW c \in CPUs, Consumer(c)
        PROVE  IndInv'
    BY <1>4, LockInv, TestInv, SleepInv, ReleaseLkInv, MarkInv, SleptInv DEF Consumer
  <1>5. ASSUME NEW c \in CPUs, Producer(c)
        PROVE  IndInv'
    BY <1>5, MakeInv, WakeupInv, UnlockInv DEF Producer
  <1>6. ASSUME NEW c \in CPUs, Syscall(c) \/ Timer(c) \/ Interrupt(c)
        PROVE  IndInv'
    BY <1>6, SyscallInv, TimerInv, InterruptInv
  <1>. QED  BY <1>1, <1>2, <1>3, <1>4, <1>5, <1>6 DEF Next

(***************************************************************************)
(* The inductive invariant of the scheduler, sleep and wakeup (proc.c,      *)
(* swtch.S): what a CPU holds, how it counts, which stack it is on and what *)
(* the table says follow from the place it is at.                          *)
(***************************************************************************)
THEOREM Invariance == Spec => []IndInv
  <1>1. Init => IndInv
    BY InitInv
  <1>2. IndInv /\ [Next]_vars => IndInv'
    BY NextInv
  <1>. QED  BY <1>1, <1>2, PTL DEF Spec

(***************************************************************************)
(* For every number of CPUs and processes: a process is on one CPU at most, *)
(* and whenever ptable.lock is free the table says RUNNING of exactly the   *)
(* processes that are on one (scheduler, sched: proc.c:262-330).             *)
(***************************************************************************)
THEOREM OneCpuPerProcess == Spec => []TableAndStacks
  <1>1. IndInv => TableAndStacks
    <2> SUFFICES ASSUME IndInv PROVE TableMatchesCpus
      BY DEF IndInv, TableAndStacks
    <2> SUFFICES ASSUME holder["ptable"] = NoCpu
                 PROVE  /\ proc = stack
                        /\ \A p \in Procs : state[p] = "RUNNING" <=> \E c \in CPUs : stack[c] = p
      BY DEF TableMatchesCpus
    <2>1. \A c \in CPUs : proc[c] = stack[c]
      BY TableFree DEF IndInv, CpuOK, StackOf
    <2>2. proc = stack
      BY <2>1 DEF IndInv, TypeOK
    <2>3. \A p \in Procs : state[p] = "RUNNING" <=> \E c \in CPUs : stack[c] = p
      BY TableFree DEF IndInv, ContextOK, Procs
    <2>. QED  BY <2>2, <2>3
  <1>. QED  BY <1>1, Invariance, PTL

(***************************************************************************)
(* No wakeup is lost, for any number of consumers and producers, preempted  *)
(* and interrupted anywhere: what a process may do between the test of its   *)
(* condition and SLEEPING is covered by lk, by ptable.lock, or by both       *)
(* (sleep and wakeup: proc.c:381-428).                                       *)
(***************************************************************************)
THEOREM WakeupsKept == Spec => []NoLostWakeup
  <1>1. IndInv => NoLostWakeup
    BY DEF IndInv, WakeOK, Falling, NoLostWakeup
  <1>. QED  BY <1>1, Invariance, PTL

(***************************************************************************)
(* The interrupt flag is the thread's and not the CPU's: sched saves and    *)
(* restores intena around swtch (proc.c:312-330).                            *)
(***************************************************************************)
THEOREM FlagFollowsThread == Spec => []FlagKept
  <1>1. IndInv => FlagKept
    <2> SUFFICES ASSUME IndInv, NEW c \in CPUs, stack[c] # 0, ~ InHandler(c), at[c] \in OpenPcs
                 PROVE  IF Spinning(c) THEN intena[c] ELSE intr[c]
      BY DEF FlagKept
    <2>1. LockOf(c) /\ FlagOf(c)
      BY DEF IndInv, CpuOK
    <2>2. CountAt(Here(c)) = 0
      BY CountAtPlaces DEF Here
    <2>3. Spinning(c) <=> ncli[c] # 0
      BY <2>1, <2>2, SpinCount DEF LockOf
    <2>. QED  BY <2>1, <2>3 DEF FlagOf
  <1>. QED  BY <1>1, Invariance, PTL

(***************************************************************************)
(* None of the panics of acquire, release, sched, sleep and exit is         *)
(* reached: ptable.lock, taken by one thread and released by another, is     *)
(* always the CPU's own, alone and with interrupts off where sched looks.    *)
(***************************************************************************)
THEOREM PanicsUnreached == Spec => []NeverPanics
  <1>1. IndInv => NeverPanics
    <2> SUFFICES ASSUME IndInv, NEW c \in CPUs PROVE ~ Panics(c)
      BY DEF NeverPanics
    <2>0. CpuOK(c)
      BY DEF IndInv
    <2>1. \A l \in Locks : <<Here(c), l>> \in Acquires => holder[l] # c
      <3> SUFFICES ASSUME NEW l \in Locks, <<Here(c), l>> \in Acquires
                   PROVE  l \notin LocksAt(Here(c))
        BY <2>0 DEF CpuOK, LockOf
      <3>1. CASE Here(c) \in {"sleep", "made"}
        <4>1. l = "ptable" /\ SleepLock = "lk"
          BY <3>1, <2>0 DEF Acquires, CpuOK, PlaceOf, LkPcs, Here
        <4>. QED  BY <3>1, <4>1, LocksAtPlaces
      <3>2. CASE Here(c) \notin {"sleep", "made"}
        <4>1. Here(c) \in {"lock", "make", "yield", "slock", "wake", "kill", "exit"}
          BY <3>2 DEF Acquires
        <4>. QED  BY <4>1, LocksAtPlaces DEF OpenPcs
      <3>. QED  BY <3>1, <3>2
    <2>2. \A l \in Locks : <<Here(c), l>> \in Releases => holder[l] = c
      <3> SUFFICES ASSUME NEW l \in Locks, <<Here(c), l>> \in Releases
                   PROVE  l \in LocksAt(Here(c))
        BY <2>0 DEF CpuOK, LockOf
      <3>1. \/ Here(c) \in {"made", "unlock"} /\ l = SleepLock
            \/ Here(c) \in {"scan", "forkret", "yielded", "slept"} /\ l = "ptable"
            \/ Here(c) = "unlk" /\ l = "lk"
        BY DEF Releases
      <3>. QED  BY <3>1, LocksAtPlaces DEF Resume
    <2>3. Thread(c, "sched") => SchedOK(c)
      <3> SUFFICES ASSUME Thread(c, "sched") PROVE SchedOK(c)
        OBVIOUS
      <3>1. Here(c) = "sched" /\ at[c] = "sched" /\ "ptable" \in Locks
        BY DEF Thread, Here, Locks
      <3>2. holder["ptable"] = c /\ ncli[c] = 1
        BY <3>1, <2>0, LocksAtPlaces, CountAtPlaces DEF CpuOK, LockOf, AcquirePcs, OpenPcs
      <3>3. stack[c] # 0 /\ proc[c] = stack[c] /\ state[stack[c]] # "RUNNING"
        BY <3>1, <2>0 DEF CpuOK, StackOf, SchedulerPcs
      <3>4. ~ intr[c]
        BY <3>2, <2>0 DEF CpuOK, FlagOf
      <3>. QED  BY <3>2, <3>3, <3>4 DEF SchedOK
    <2>4. ~ (Thread(c, "mark") /\ proc[c] = 0) /\ ~ Thread(c, "zombie")
      BY <2>0 DEF CpuOK, StackOf, SchedulerPcs, Thread
    <2>. QED  BY <2>1, <2>2, <2>3, <2>4 DEF Panics
  <1>. QED  BY <1>1, Invariance, PTL
=============================================================================
