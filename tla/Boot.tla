-------------------------------- MODULE Boot --------------------------------
(***************************************************************************)
(* How the processors come up (main.c, entryother.S, mp.c, kalloc.c): the     *)
(* boot processor finds the others in a table of the firmware and starts them *)
(* one at a time, through one place in low memory where it leaves the stack   *)
(* for the next; the page allocator has no lock, and only the pages that the  *)
(* boot page table maps, until all are up.                                  *)
(*                                                                         *)
(* kalloc and kfree take two steps, from the read of the free list to the    *)
(* write of it; kvmalloc and userinit take one page for all of theirs.       *)
(***************************************************************************)
EXTENDS Integers, SequencesExt

CONSTANTS
  LowPages, HighPages,    \* free pages below and above 4 MB, sequences
  CpuIds,                 \* their APIC ids
  Tables                  \* [entries: what the firmware says, bsp: the boot processor]

NoOne  == -1
NoPage == 0

Entries   == [type : {"proc", "other", "unknown"}, id : Int]
Listed(t) == {e.id : e \in {e \in ToSet(t.entries) : e.type = "proc"}}

\* A table names the boot processor, and the low pages are more than its entries: a stack
\* each, and one for kvmalloc.
ASSUME BootAssumption ==
  /\ CpuIds \subseteq Nat
  /\ LowPages \in Seq(Nat \ {NoPage}) /\ IsInjective(LowPages)
  /\ HighPages \in Seq(Nat \ {NoPage}) /\ IsInjective(HighPages)
  /\ ToSet(LowPages) \cap ToSet(HighPages) = {}
  /\ \A t \in Tables :
       /\ t.entries \in Seq(Entries) /\ t.bsp \in CpuIds /\ Listed(t) \subseteq CpuIds
       /\ t.entries # << >> => t.bsp \in Listed(t)
       /\ Len(t.entries) < Len(LowPages)

VARIABLES
  table,    \* one of them
  mp,       \* ncpu, ismp, and the index of the loop main is in; lapic is as ismp
  kmem,     \* freelist, lock, use_lock
  code,     \* the stack at 0x7000 - 4
  live,     \* a process is RUNNABLE
  cpu       \* of each: where it is, and then; the list it has read; the page it has got or
            \* frees; that of its stack; its page directory; its timer and interrupt table

bootVars == <<table, mp, kmem, code, live, cpu>>

Machine  == Listed(table) \cup {table.bsp}       \* the processors there are
Boot1    == table.bsp

NewCpu(l) ==
  [at |-> l, seen |-> << >>, then |-> l, page |-> NoPage, stack |-> NoPage,
   pgdir |-> "entrypgdir", timer |-> FALSE, idt |-> FALSE, started |-> FALSE]

Is(c, l)   == cpu[c].at = l
Jump(c, l) == cpu' = [cpu EXCEPT ![c].at = l]

\* cpunum() of the boot processor; without a local APIC it is 0.
Self == IF mp.ismp THEN Boot1 ELSE 0

\* Where the drive's interrupts go.
IdeCpu == IF mp.ismp THEN mp.ncpu - 1 ELSE Boot1

-----------------------------------------------------------------------------
\* kalloc, kfree: the lock is taken if use_lock says so.

Alloc(c, l)   == cpu' = [cpu EXCEPT ![c].at = "kalloc", ![c].then = l]
Free(c, p, l) == cpu' = [cpu EXCEPT ![c].at = "kfree", ![c].page = p, ![c].then = l]

ReadList(c) ==
  /\ Is(c, "kalloc") \/ Is(c, "kfree")
  /\ kmem.use_lock => kmem.lock = NoOne
  /\ kmem' = IF kmem.use_lock THEN [kmem EXCEPT !.lock = c] ELSE kmem
  /\ cpu' = [cpu EXCEPT ![c].at = IF @ = "kalloc" THEN "kalloc2" ELSE "kfree2",
                        ![c].seen = kmem.freelist]
  /\ UNCHANGED <<table, mp, code, live>>

Unlocked(list) ==
  [kmem EXCEPT !.freelist = list, !.lock = IF kmem.use_lock THEN NoOne ELSE @]

\* Back to where the call was, with page p.
Back(c, p) == cpu' = [cpu EXCEPT ![c].at = cpu[c].then, ![c].seen = << >>, ![c].page = p]

WriteList(c) ==
  LET seen == cpu[c].seen
  IN  /\ \/ Is(c, "kalloc2") /\ seen # << >> /\ kmem' = Unlocked(Tail(seen)) /\ Back(c, Head(seen))
         \/ Is(c, "kalloc2") /\ seen = << >> /\ kmem' = Unlocked(kmem.freelist) /\ Back(c, NoPage)
         \/ Is(c, "kfree2") /\ kmem' = Unlocked(<<cpu[c].page>> \o seen) /\ Back(c, NoPage)
      /\ UNCHANGED <<table, mp, code, live>>

-----------------------------------------------------------------------------
\* main, on the boot processor.

\* Mutant: all memory is free before the others run.
MemoryFirst == [devices |-> "kinit2", kinit2 |-> "startothers", startothers |-> "userinit"]

After == [devices |-> "startothers", startothers |-> "kinit2", kinit2 |-> "userinit"]

\* freerange, page by page.
Freerange(l, pages, lock, next) ==
  LET b == Boot1
      i == mp.next
  IN  /\ Is(b, l)
      /\ IF i <= Len(pages)
         THEN Free(b, pages[i], l) /\ mp' = [mp EXCEPT !.next = @ + 1] /\ UNCHANGED kmem
         ELSE Jump(b, next) /\ mp' = [mp EXCEPT !.next = 1] /\ kmem' = [kmem EXCEPT !.use_lock = lock]
      /\ UNCHANGED <<table, code, live>>

Kinit1 == Freerange("kinit1", LowPages, FALSE, "kvmalloc")
Kinit2 == Freerange("kinit2", HighPages, TRUE, After.kinit2)

Switchkvm ==
  Is(Boot1, "switchkvm") /\ cpu' = [cpu EXCEPT ![Boot1].at = "mpinit", ![Boot1].pgdir = "kpgdir"]

Kvmalloc ==
  /\ (Is(Boot1, "kvmalloc") /\ Alloc(Boot1, "switchkvm")) \/ Switchkvm
  /\ UNCHANGED <<table, mp, kmem, code, live>>

\* Mutant: an entry of no interest is not passed over.
MpEntryStays(e) ==
  IF e.type = "proc" THEN [mp EXCEPT !.ismp = @ /\ e.id = mp.ncpu, !.ncpu = @ + 1, !.next = @ + 1] ELSE mp

\* mpinit: without a table ncpu stays 0; an entry of an unknown type is not passed over.
MpEntry(e) ==
  CASE e.type = "proc"    -> [mp EXCEPT !.ismp = @ /\ e.id = mp.ncpu, !.ncpu = @ + 1, !.next = @ + 1]
    [] e.type = "other"   -> [mp EXCEPT !.next = @ + 1]
    [] e.type = "unknown" -> [mp EXCEPT !.ismp = FALSE]

Mpinit ==
  /\ Is(Boot1, "mpinit")
  /\ IF mp.next <= Len(table.entries)
     THEN mp' = MpEntry(table.entries[mp.next]) /\ UNCHANGED cpu
     ELSE /\ mp' = IF mp.ismp \/ table.entries = << >> THEN mp ELSE [mp EXCEPT !.ncpu = 1]
          /\ Jump(Boot1, "devices")
  /\ UNCHANGED <<table, kmem, code, live>>

\* lapicinit, or timerinit, and what has no effect here.
InitDevices ==
  /\ Is(Boot1, "devices")
  /\ cpu' = [cpu EXCEPT ![Boot1].at = After.devices, ![Boot1].timer = TRUE]
  /\ mp' = [mp EXCEPT !.next = 1]
  /\ UNCHANGED <<table, kmem, code, live>>

\* The page is the stack.  An INIT and two STARTUPs, the second of which the processor
\* ignores.
Lapicstartap ==
  /\ Is(Boot1, "startap")
  /\ code' = cpu[Boot1].page
  /\ cpu' = [cpu EXCEPT ![Boot1].at = "wait", ![mp.next - 1].at = "entryother"]
  /\ UNCHANGED <<table, mp, kmem, live>>

\* The loop over cpus.
Startothers ==
  LET b == Boot1
      c == mp.next - 1
  IN  \/ /\ Is(b, "startothers") /\ c >= mp.ncpu
         /\ Jump(b, After.startothers) /\ mp' = [mp EXCEPT !.next = 1]
         /\ UNCHANGED <<table, kmem, code, live>>
      \/ /\ Is(b, "startothers") /\ c < mp.ncpu /\ c = Self
         /\ mp' = [mp EXCEPT !.next = @ + 1] /\ UNCHANGED <<table, kmem, code, live, cpu>>
      \/ /\ Is(b, "startothers") /\ c < mp.ncpu /\ c # Self
         /\ Alloc(b, "startap") /\ UNCHANGED <<table, mp, kmem, code, live>>
      \/ Lapicstartap
      \/ /\ Is(b, "wait") /\ cpu[c].started
         /\ Jump(b, "startothers") /\ mp' = [mp EXCEPT !.next = @ + 1]
         /\ UNCHANGED <<table, kmem, code, live>>

Userinit ==
  /\ \/ Is(Boot1, "userinit") /\ Alloc(Boot1, "runnable") /\ UNCHANGED live
     \/ Is(Boot1, "runnable") /\ Jump(Boot1, "mpmain") /\ live' = TRUE
  /\ UNCHANGED <<table, mp, kmem, code>>

-----------------------------------------------------------------------------
\* The other processors, and then all.

Entryother(c) ==
  Is(c, "entryother") /\ cpu' = [cpu EXCEPT ![c].at = "mpenter", ![c].stack = code]
Mpenter(c) ==
  Is(c, "mpenter") /\ cpu' = [cpu EXCEPT ![c].at = "lapicinit", ![c].pgdir = "kpgdir"]
Lapicinit(c) == Is(c, "lapicinit") /\ cpu' = [cpu EXCEPT ![c].at = "mpmain", ![c].timer = TRUE]

Idtinit(c)    == Is(c, "mpmain") /\ cpu' = [cpu EXCEPT ![c].at = "started", ![c].idt = TRUE]
SetStarted(c) == Is(c, "started") /\ cpu' = [cpu EXCEPT ![c].at = "scheduler", ![c].started = TRUE]
Mpmain(c)     == Idtinit(c) \/ SetStarted(c)

\* Processes allocate a page and give it back.
RunProcess(c) ==
  \/ Is(c, "scheduler") /\ live /\ Alloc(c, "user")
  \/ Is(c, "user") /\ cpu[c].page = NoPage /\ Jump(c, "scheduler")
  \/ Is(c, "user") /\ cpu[c].page # NoPage /\ Free(c, cpu[c].page, "scheduler")

CpuStep(c) ==
  \/ ReadList(c) \/ WriteList(c)
  \/ /\ Entryother(c) \/ Mpenter(c) \/ Lapicinit(c) \/ Mpmain(c) \/ RunProcess(c)
     /\ UNCHANGED <<table, mp, kmem, code, live>>

Main == Kinit1 \/ Kvmalloc \/ Mpinit \/ InitDevices \/ Startothers \/ Kinit2 \/ Userinit

BootInit ==
  /\ table \in Tables
  /\ mp = [ncpu |-> 0, ismp |-> table.entries # << >>, next |-> 1]
  /\ kmem = [freelist |-> << >>, lock |-> NoOne, use_lock |-> FALSE]
  /\ code = NoPage /\ live = FALSE
  /\ cpu = [c \in Machine |-> NewCpu(IF c = table.bsp THEN "kinit1" ELSE "off")]

BootNext == Main \/ \E c \in Machine : CpuStep(c)

\* Processors run.
BootSpec ==
  /\ BootInit /\ [][BootNext]_bootVars
  /\ WF_bootVars(Main) /\ \A c \in CpuIds : WF_bootVars(c \in Machine /\ CpuStep(c))

-----------------------------------------------------------------------------
\* kmem.freelist is changed by one processor at a time, with the lock when there is one.
ListKept ==
  /\ \A c, d \in Machine : {cpu[c].at, cpu[d].at} \subseteq {"kalloc2", "kfree2"} => c = d
  /\ \A c \in Machine : cpu[c].at \in {"kalloc2", "kfree2"} /\ kmem.use_lock => kmem.lock = c

\* A processor that has a stack has it for itself, in memory that its page table maps.
StacksRight ==
  /\ \A c, d \in Machine : cpu[c].stack = cpu[d].stack /\ cpu[c].stack # NoPage => c = d
  /\ \A c \in Machine :
       /\ cpu[c].stack \notin ToSet(kmem.freelist)
       /\ cpu[c].at \in {"mpenter"} => cpu[c].stack \in ToSet(LowPages)
       /\ \A d \in Machine : Is(d, "user") /\ cpu[d].page # NoPage => cpu[d].page # cpu[c].stack

\* Where processes run interrupts can be taken: those of a timer, and the drive's, unless
\* these go to the boot processor, which takes them when it gets to the scheduler.
InterruptsTaken ==
  \A c \in Machine :
    Is(c, "user") => cpu[c].idt /\ cpu[c].timer /\ (cpu[IdeCpu].started \/ IdeCpu = Boot1)

\* While the processors come up, and after, they do not disturb each other, although the
\* page allocator has no lock at first and one place in low memory passes the stacks (main,
\* startothers, mpmain, kinit1, kinit2).
BootApart == ListKept /\ StacksRight /\ InterruptsTaken

\* All processors come up, or without a good table the first, and run processes (main,
\* startothers, mpmain).  A table with an entry of an unknown type keeps mpinit in its loop.
BootRight ==
  (\A e \in ToSet(table.entries) : e.type # "unknown") =>
    <>(live /\ \A c \in (IF mp.ismp THEN Machine ELSE {Boot1}) : cpu[c].started)
=============================================================================
